--------------------------- MODULE WorkOrderProofs ---------------------------
(***************************************************************************)
(* Theorems about WorkOrder, for every number of complaints, orders,       *)
(* workers, rounds, runs and reviewers: its types, what exists before      *)
(* approval, the assignment book; what a COMPLETED order rests on, who     *)
(* undoes it, and that reviews are final; the promise of Resolution, which *)
(* WorkOrder keeps; and that the worker's page and the officer's cards of  *)
(* Screens, through which all of this is done, never strand the order.     *)
(***************************************************************************)
EXTENDS WorkOrderResolution, Screens, TLAPS

\* A review under way has a verdict to record itself on.
ReviewHasVerdict ==
  \A o \in Orders : confirming[o] # {} => verdict[o] # None

\* TypeOK is inductive only together with what exists before approval: the
\* review handlers dereference the order of the verdict they find.
Grounded == TypeOK /\ NoWorkBeforeApproval /\ ReviewHasVerdict

-----------------------------------------------------------------------------
(* Operators on assignment rows *)

LEMMA SupersedeRows ==
  ASSUME NEW rows \in Seq(Assignment)
  PROVE  /\ Supersede(rows) \in Seq(Assignment)
         /\ Len(Supersede(rows)) = Len(rows)
<1>1. Len(rows) \in Nat /\ DOMAIN rows = 1..Len(rows)
  OBVIOUS
<1>2. \A i \in 1..Len(rows) : rows[i] \in Assignment
  OBVIOUS
<1>3. \A i \in 1..Len(rows) :
        [rows[i] EXCEPT !.status = "UNASSIGNED"] \in Assignment
  BY <1>2 DEF Assignment, AssignmentStatus
<1>4. Supersede(rows) \in [1..Len(rows) -> Assignment]
  BY <1>1, <1>2, <1>3 DEF Supersede
<1>5. QED
  BY <1>1, <1>4

LEMMA OriginOfType ==
  ASSUME NEW row, NEW w
  PROVE  OriginOf(row, w) \in Origin
BY DEF OriginOf, Origin

\* A new row is appended behind the old ones, whose workers and origins stay.
LEMMA GiveToRows ==
  ASSUME TypeOK, NEW o \in Orders, NEW w \in Workers,
         NEW s \in AssignmentStatus, NEW g \in Origin, GiveTo(o, w, s, g)
  PROVE  assignments' \in [Orders -> Seq(Assignment)]
<1>1. assignments[o] \in Seq(Assignment)
  BY DEF TypeOK
<1>2. [worker |-> w, status |-> s, origin |-> g, accepted |-> FALSE] \in Assignment
  BY DEF Assignment
<1>3. Append(Supersede(assignments[o]),
             [worker |-> w, status |-> s, origin |-> g, accepted |-> FALSE])
        \in Seq(Assignment)
  BY <1>1, <1>2, SupersedeRows
<1>4. QED
  BY <1>3 DEF GiveTo, TypeOK

LEMMA AcceptRows ==
  ASSUME NEW rows \in Seq(Assignment)
  PROVE  /\ Accept(rows) \in Seq(Assignment)
         /\ Len(Accept(rows)) = Len(rows)
<1>1. Len(rows) \in Nat /\ DOMAIN rows = 1..Len(rows)
  OBVIOUS
<1>2. \A i \in 1..Len(rows) : rows[i] \in Assignment
  OBVIOUS
<1>3. \A i \in 1..Len(rows) :
        [rows[i] EXCEPT !.accepted = TRUE] \in Assignment
  BY <1>2 DEF Assignment
<1>4. Accept(rows) \in [1..Len(rows) -> Assignment]
  BY <1>1, <1>2, <1>3 DEF Accept
<1>5. QED
  BY <1>1, <1>4

-----------------------------------------------------------------------------
(* Type correctness *)

\* A row that exists is a row, and stays one when some columns are written.
LEMMA RowOf ==
  ASSUME TypeOK, NEW o \in Orders, Exists(o)
  PROVE  order[o] \in OrderRow
BY DEF TypeOK, Exists

\* A step of the work that writes several columns of the row keeps the row in
\* shape, with its people: finishing, submitting, taking up again.
LEMMA FinishedRow ==
  ASSUME TypeOK, NEW o \in Orders, order[o] \in OrderRow,
         order' = [order EXCEPT ![o].status = "WORK_COMPLETED", ![o].completed = TRUE]
  PROVE  /\ order'[o] # None /\ order'[o].status = "WORK_COMPLETED"
         /\ order'[o].worker = order[o].worker
         /\ order'[o].recommended = order[o].recommended
<1> DEFINE row == [order[o] EXCEPT !.status = "WORK_COMPLETED", !.completed = TRUE]
<1>1. order'[o] = row
  BY DEF TypeOK
<1>2. row \in OrderRow
  BY DEF OrderRow, OrderStatus
<1>3. row.status = "WORK_COMPLETED" /\ row.worker = order[o].worker
      /\ row.recommended = order[o].recommended
  BY DEF OrderRow
<1>4. QED
  BY <1>1, <1>2, <1>3, NoneAssumption

LEMMA SubmittedRow ==
  ASSUME TypeOK, NEW o \in Orders, order[o] \in OrderRow,
         order' = [order EXCEPT ![o].status = "EVIDENCE_SUBMITTED", ![o].submitted = TRUE]
  PROVE  /\ order'[o] # None /\ order'[o].status = "EVIDENCE_SUBMITTED"
         /\ order'[o].worker = order[o].worker
         /\ order'[o].recommended = order[o].recommended
<1> DEFINE row == [order[o] EXCEPT !.status = "EVIDENCE_SUBMITTED", !.submitted = TRUE]
<1>1. order'[o] = row
  BY DEF TypeOK
<1>2. row \in OrderRow
  BY DEF OrderRow, OrderStatus
<1>3. row.status = "EVIDENCE_SUBMITTED" /\ row.worker = order[o].worker
      /\ row.recommended = order[o].recommended
  BY DEF OrderRow
<1>4. QED
  BY <1>1, <1>2, <1>3, NoneAssumption

LEMMA ReopenedRow ==
  ASSUME TypeOK, NEW o \in Orders, order[o] \in OrderRow,
         order' = [order EXCEPT ![o].status = "IN_PROGRESS",
                                ![o].completed = FALSE, ![o].submitted = FALSE]
  PROVE  /\ order'[o] # None /\ order'[o].status = "IN_PROGRESS"
         /\ order'[o].worker = order[o].worker
         /\ order'[o].recommended = order[o].recommended
<1> DEFINE row == [order[o] EXCEPT !.status = "IN_PROGRESS", !.completed = FALSE,
                                   !.submitted = FALSE]
<1>1. order'[o] = row
  BY DEF TypeOK
<1>2. row \in OrderRow
  BY DEF OrderRow, OrderStatus
<1>3. row.status = "IN_PROGRESS" /\ row.worker = order[o].worker
      /\ row.recommended = order[o].recommended
  BY DEF OrderRow
<1>4. QED
  BY <1>1, <1>2, <1>3, NoneAssumption

LEMMA VerdictOf ==
  ASSUME TypeOK, NEW o \in Orders, verdict[o] # None
  PROVE  verdict[o] \in Verification
BY DEF TypeOK

LEMMA OfficerType ==
  ASSUME Grounded, NEW o \in Orders, OfficerStep(o)
  PROVE  TypeOK'
<1> USE DEF workVars, reviewVars, roundVars
<1>0. TypeOK
  BY DEF Grounded
<1>1. CASE Approve(o)
  <2>1. order[o] \in OrderRow
    BY <1>0, <1>1, RowOf DEF Approve, MayApprove, InStatus
  <2>2. order' \in [Orders -> OrderRow \cup {None}]
    BY <1>0, <1>1, <2>1 DEF Approve, MayApprove, TypeOK, OrderRow, OrderStatus
  <2>3. assignments' \in [Orders -> Seq(Assignment)]
    <3>1. CASE order[o].worker = None
      BY <1>0, <1>1, <3>1 DEF Approve, MayApprove, TypeOK
    <3>2. CASE order[o].worker # None
      <4>1. order[o].worker \in Workers
        BY <2>1, <3>2 DEF OrderRow
      <4>2. GiveTo(o, order[o].worker, "ASSIGNED", "AI_RECOMMENDATION")
        BY <1>1, <3>2 DEF Approve, MayApprove
      <4>3. QED
        BY <1>0, <4>1, <4>2, GiveToRows DEF AssignmentStatus, Origin
    <3>3. QED
      BY <3>1, <3>2
  <2>4. QED
    BY <1>0, <1>1, <2>2, <2>3 DEF Approve, MayApprove, TypeOK
<1>2. ASSUME NEW w \in Workers, Assign(o, w) \/ Reassign(o, w)
      PROVE  TypeOK'
  <2>1. order[o] \in OrderRow
    BY <1>0, <1>2, RowOf DEF Assign, Reassign, MayAssign, InStatus
  <2>2. order' \in [Orders -> OrderRow \cup {None}]
    <3>1. order' = [order EXCEPT ![o].worker = w, ![o].status = "ASSIGNED"]
      BY <1>2 DEF Assign, Reassign
    <3>2. QED
      BY <1>0, <2>1, <3>1 DEF TypeOK, OrderRow, OrderStatus
  <2>3. OriginOf(order[o], w) \in Origin
    BY OriginOfType
  <2>4. PICK s \in AssignmentStatus : GiveTo(o, w, s, OriginOf(order[o], w))
    BY <1>2 DEF Assign, Reassign, AssignmentStatus
  <2>5. assignments' \in [Orders -> Seq(Assignment)]
    BY <1>0, <2>3, <2>4, GiveToRows
  <2>6. QED
    BY <1>0, <1>2, <2>2, <2>5 DEF Assign, Reassign, TypeOK
<1>3. CASE Escalate(o) \/ Reject(o)
  <2>1. order[o] \in OrderRow
    BY <1>0, <1>3, RowOf DEF Escalate, Reject, InStatus
  <2>2. order' \in [Orders -> OrderRow \cup {None}]
    <3>1. CASE Escalate(o)
      BY <1>0, <3>1, <2>1 DEF Escalate, TypeOK, OrderRow, OrderStatus
    <3>2. CASE Reject(o)
      BY <1>0, <3>2, <2>1 DEF Reject, TypeOK, OrderRow, OrderStatus
    <3>3. QED
      BY <1>3, <3>1, <3>2
  <2>3. QED
    BY <1>0, <1>3, <2>2 DEF Escalate, Reject, TypeOK
<1>4. QED
  BY <1>1, <1>2, <1>3 DEF OfficerStep

LEMMA WorkerType ==
  ASSUME Grounded, NEW o \in Orders, NEW w \in Workers, WorkerStep(o, w)
  PROVE  TypeOK'
<1> USE DEF workVars, reviewVars, roundVars
<1>0. TypeOK
  BY DEF Grounded
<1>1. order[o] \in OrderRow
  BY <1>0, RowOf DEF WorkerStep, AcceptJob, MayAccept, CheckInAt, MayCheckIn,
     StartJob, MayStart, FinishJob, MayFinish, UploadPhoto, SubmitEvidence,
     MaySubmit, StartRework, MayRestart, Holds
<1>2. CASE AcceptJob(o, w)
  <2>1. order' \in [Orders -> OrderRow \cup {None}]
    BY <1>0, <1>1, <1>2 DEF AcceptJob, MayAccept, TypeOK, OrderRow
  <2>2. assignments' \in [Orders -> Seq(Assignment)]
    <3>1. assignments[o] \in Seq(Assignment)
      BY <1>0 DEF TypeOK
    <3>2. Accept(assignments[o]) \in Seq(Assignment)
      BY <3>1, AcceptRows
    <3>3. QED
      BY <1>0, <1>2, <3>2 DEF AcceptJob, MayAccept, TypeOK
  <2>3. QED
    BY <1>0, <1>2, <2>1, <2>2 DEF AcceptJob, MayAccept, TypeOK
<1>3. CASE CheckInAt(o, w)
  BY <1>0, <1>3 DEF CheckInAt, MayCheckIn, TypeOK, CheckIn
<1>4. CASE \E cat \in Category : UploadPhoto(o, w, cat)
  BY <1>0, <1>4 DEF UploadPhoto, TypeOK
<1>5. CASE StartJob(o, w) \/ FinishJob(o, w) \/ SubmitEvidence(o, w)
             \/ StartRework(o, w)
  <2>1. order' \in [Orders -> OrderRow \cup {None}]
    <3>1. CASE StartJob(o, w)
      BY <1>0, <1>1, <3>1 DEF StartJob, MayStart, TypeOK, OrderRow, OrderStatus
    <3>2. CASE FinishJob(o, w)
      BY <1>0, <1>1, <3>2 DEF FinishJob, MayFinish, TypeOK, OrderRow, OrderStatus
    <3>3. CASE SubmitEvidence(o, w)
      BY <1>0, <1>1, <3>3 DEF SubmitEvidence, MaySubmit, TypeOK, OrderRow,
         OrderStatus
    <3>4. CASE StartRework(o, w)
      BY <1>0, <1>1, <3>4 DEF StartRework, MayRestart, TypeOK, OrderRow, OrderStatus
    <3>5. QED
      BY <1>5, <3>1, <3>2, <3>3, <3>4
  <2>2. complaint' \in [Complaints -> ComplaintStatus]
    BY <1>0, <1>5 DEF StartJob, MayStart, FinishJob, MayFinish, SubmitEvidence,
       MaySubmit, StartRework, MayRestart, ComplaintInProgress, TypeOK,
       ComplaintStatus
  <2>3. QED
    BY <1>0, <1>5, <2>1, <2>2 DEF StartJob, MayStart, FinishJob, MayFinish,
       SubmitEvidence, MaySubmit, StartRework, MayRestart, TypeOK
<1>6. QED
  BY <1>2, <1>3, <1>4, <1>5 DEF WorkerStep

\* What a review step is: the reviewer and the row of a second commit are those
\* its first commit left in confirming.
LEMMA ReviewCases ==
  ASSUME TypeOK, NEW o \in Orders, ReviewStep(o)
  PROVE  \/ RunVerification(o)
         \/ \E t \in running[o] : FailRun(o, t) \/ \E v \in AiVerdicts : PersistVerdict(o, t, v)
         \/ \E u \in Officers :
              ConfirmResolution(o, u) \/ RequireFollowup(o, u) \/ RequestRework(o, u)
         \/ \E u \in Officers, t \in Nat : RecordReview(o, u, t) \/ LoseReview(o, u, t)
BY DEF ReviewStep, TypeOK

LEMMA ReviewType ==
  ASSUME Grounded, NEW o \in Orders, ReviewStep(o)
  PROVE  TypeOK'
<1> USE DEF workVars, reviewVars, roundVars
<1>0. TypeOK
  BY DEF Grounded
<1>1. verdict[o] # None => order[o] \in OrderRow /\ verdict[o] \in Verification
  BY <1>0, RowOf, VerdictOf DEF Grounded, NoWorkBeforeApproval
<1>2. CASE RunVerification(o)
  BY <1>0, <1>2 DEF RunVerification, MayVerify, TypeOK
<1>3. ASSUME NEW t \in running[o], FailRun(o, t)
      PROVE  TypeOK'
  BY <1>0, <1>3 DEF FailRun, TypeOK
<1>4. ASSUME NEW t \in running[o], NEW v \in AiVerdicts, PersistVerdict(o, t, v)
      PROVE  TypeOK'
  <2>1. t \in Nat /\ v \in Verdict
    BY <1>0, AiAssumption DEF TypeOK, Verdict
  <2>2. [ticket |-> t, status |-> v, reviewed |-> FALSE, by |-> None] \in Verification
    BY <2>1 DEF Verification
  <2>3. verdict' \in [Orders -> Verification \cup {None}]
    BY <1>0, <1>4, <2>2 DEF PersistVerdict, TypeOK
  <2>4. QED
    BY <1>0, <1>4, <2>3 DEF PersistVerdict, TypeOK
<1>5. ASSUME NEW u \in Officers, ConfirmResolution(o, u)
      PROVE  TypeOK'
  <2>1. order[o] \in OrderRow /\ verdict[o] \in Verification
    BY <1>1, <1>5 DEF ConfirmResolution, Reviewable
  <2>2. order' \in [Orders -> OrderRow \cup {None}]
    BY <1>0, <1>5, <2>1 DEF ConfirmResolution, TypeOK, OrderRow, OrderStatus
  <2>3. complaint' \in [Complaints -> ComplaintStatus]
    BY <1>0, <1>5 DEF ConfirmResolution, TypeOK, ComplaintStatus
  <2>4. verdict' \in [Orders -> Verification \cup {None}]
    BY <1>0, <1>5, <2>1 DEF ConfirmResolution, TypeOK, Verification, Verdict
  <2>5. confirming' \in [Orders -> SUBSET (Officers \X Nat)]
    BY <1>0, <1>5, <2>1 DEF ConfirmResolution, TypeOK, Verification
  <2>6. QED
    BY <1>0, <1>5, <2>2, <2>3, <2>4, <2>5 DEF ConfirmResolution, TypeOK
<1>6. ASSUME NEW u \in Officers, NEW t \in Nat, RecordReview(o, u, t) \/ LoseReview(o, u, t)
      PROVE  TypeOK'
  <2>1. verdict[o] \in Verification
    BY <1>1, <1>6 DEF Grounded, ReviewHasVerdict, RecordReview, LoseReview
  <2>2. verdict' \in [Orders -> Verification \cup {None}]
    <3>1. [verdict[o] EXCEPT !.reviewed = TRUE, !.by = u] \in Verification
      BY <2>1 DEF Verification
    <3>2. CASE RecordReview(o, u, t)
      BY <1>0, <3>1, <3>2 DEF RecordReview, TypeOK
    <3>3. CASE LoseReview(o, u, t)
      BY <1>0, <3>3 DEF LoseReview, TypeOK
    <3>4. QED
      BY <1>6, <3>2, <3>3
  <2>3. confirming' \in [Orders -> SUBSET (Officers \X Nat)]
    <3>1. confirming[o] \ {<<u, t>>} \in SUBSET (Officers \X Nat)
      BY <1>0 DEF TypeOK
    <3>2. confirming' = [confirming EXCEPT ![o] = confirming[o] \ {<<u, t>>}]
      BY <1>6 DEF RecordReview, LoseReview
    <3>3. QED
      BY <1>0, <3>1, <3>2 DEF TypeOK
  <2>4. UNCHANGED <<complaint, order, workVars, roundVars, runs, running, onDuty>>
    BY <1>6 DEF RecordReview, LoseReview
  <2>5. QED
    BY <1>0, <2>2, <2>3, <2>4 DEF TypeOK
<1>7. ASSUME NEW u \in Officers, RequireFollowup(o, u) \/ RequestRework(o, u)
      PROVE  TypeOK'
  <2>1. order[o] \in OrderRow /\ verdict[o] \in Verification
    BY <1>1, <1>7 DEF RequireFollowup, RequestRework, RejectEvidence, Reviewable
  <2>2. order' \in [Orders -> OrderRow \cup {None}]
    <3>1. CASE RequireFollowup(o, u)
      BY <1>0, <2>1, <3>1 DEF RequireFollowup, TypeOK, OrderRow, OrderStatus
    <3>2. CASE RequestRework(o, u)
      BY <1>0, <2>1, <3>2 DEF RequestRework, TypeOK, OrderRow, OrderStatus
    <3>3. QED
      BY <1>7, <3>1, <3>2
  <2>3. complaint' \in [Complaints -> ComplaintStatus]
    BY <1>0, <1>7 DEF RequireFollowup, RequestRework, RejectEvidence,
       ComplaintInProgress, TypeOK, ComplaintStatus
  <2>4. verdict' \in [Orders -> Verification \cup {None}]
    <3>1. [verdict[o] EXCEPT !.status = "NOT_RESOLVED", !.reviewed = TRUE, !.by = u]
            \in Verification
      BY <2>1 DEF Verification, Verdict
    <3>2. verdict' = [verdict EXCEPT ![o] =
            [@ EXCEPT !.status = "NOT_RESOLVED", !.reviewed = TRUE, !.by = u]]
      BY <1>7 DEF RequireFollowup, RequestRework, RejectEvidence
    <3>3. QED
      BY <1>0, <3>1, <3>2 DEF TypeOK
  <2>5. round' \in [Orders -> Nat] /\ reworkAt' \in [Orders -> Nat]
    <3>1. round[o] + 1 \in Nat
      BY <1>0 DEF TypeOK
    <3>2. round' = [round EXCEPT ![o] = round[o] + 1]
      BY <1>7 DEF RequireFollowup, RequestRework, RejectEvidence
    <3>3. reworkAt' \in {reworkAt, [reworkAt EXCEPT ![o] = round[o] + 1]}
      BY <1>7 DEF RequireFollowup, RequestRework
    <3>4. QED
      BY <1>0, <3>1, <3>2, <3>3 DEF TypeOK
  <2>6. QED
    BY <1>0, <1>7, <2>2, <2>3, <2>4, <2>5 DEF RequireFollowup, RequestRework,
       RejectEvidence, TypeOK
<1>8. QED
  BY <1>0, <1>2, <1>3, <1>4, <1>5, <1>6, <1>7, ReviewCases

LEMMA OtherType ==
  ASSUME Grounded,
         \/ \E c \in Complaints : ComplaintStep(c)
         \/ \E w \in Workers : SetOnDuty(w)
  PROVE  TypeOK'
<1> USE DEF workVars, reviewVars, roundVars
<1>0. TypeOK
  BY DEF Grounded
<1>1. ASSUME NEW c \in Complaints, NEW o \in Orders, Dispatch(o, c)
      PROVE  TypeOK'
  <2>1. PICK w \in Workers \cup {None} :
          order' = [order EXCEPT ![o] =
            [complaint |-> c, status |-> "PENDING_APPROVAL", worker |-> w,
             recommended |-> w, accepted |-> FALSE, completed |-> FALSE,
             submitted |-> FALSE]]
    BY <1>0, <1>1 DEF Dispatch, Recommendable, TypeOK
  <2>2. order' \in [Orders -> OrderRow \cup {None}]
    BY <1>0, <2>1 DEF TypeOK, OrderRow, OrderStatus
  <2>3. QED
    BY <1>0, <1>1, <2>2 DEF Dispatch, TypeOK
<1>2. ASSUME NEW c \in Complaints,
             RequestEscalation(c) \/ \E s \in Analysed : Analyse(c, s)
      PROVE  TypeOK'
  BY <1>0, <1>2, AiAssumption DEF RequestEscalation, Analyse, TypeOK,
     ComplaintStatus
<1>3. ASSUME NEW w \in Workers, SetOnDuty(w)
      PROVE  TypeOK'
  BY <1>0, <1>3 DEF SetOnDuty, TypeOK
<1>4. QED
  BY <1>1, <1>2, <1>3 DEF ComplaintStep

-----------------------------------------------------------------------------
(* Nothing happens before approval *)

\* What NoWorkBeforeApproval and ReviewHasVerdict say of one order.
Waiting(o) == ~Exists(o) \/ InStatus(o, {"PENDING_APPROVAL", "REJECTED"})

Untouched(o) ==
  assignments[o] = <<>> /\ checkIns[o] = {} /\ running[o] = {} /\ verdict[o] = None

OrderGrounded(o) ==
  /\ Waiting(o) => Untouched(o)
  /\ confirming[o] # {} => verdict[o] # None

LEMMA GroundedByOrder ==
  Grounded <=> TypeOK /\ \A o \in Orders : OrderGrounded(o)
BY DEF Grounded, NoWorkBeforeApproval, ReviewHasVerdict, OrderGrounded,
   Waiting, Untouched

\* A step about one order leaves the rows of the others alone.
Frame(o) ==
  \A p \in Orders \ {o} :
    /\ order'[p] = order[p] /\ assignments'[p] = assignments[p]
    /\ checkIns'[p] = checkIns[p] /\ running'[p] = running[p]
    /\ verdict'[p] = verdict[p] /\ confirming'[p] = confirming[p]

LEMMA FrameGrounded ==
  ASSUME NEW o \in Orders, Frame(o), OrderGrounded(o)',
         \A p \in Orders : OrderGrounded(p)
  PROVE  \A p \in Orders : OrderGrounded(p)'
BY DEF Frame, OrderGrounded, Waiting, Untouched, Exists, InStatus

LEMMA OfficerGrounded ==
  ASSUME Grounded, NEW o \in Orders, OfficerStep(o)
  PROVE  Frame(o) /\ OrderGrounded(o)'
<1> USE DEF workVars, reviewVars, roundVars
<1>0. TypeOK /\ OrderGrounded(o)
  BY GroundedByOrder
<1>1. order[o] \in OrderRow
  BY <1>0, RowOf DEF OfficerStep, Approve, MayApprove, Reject, Escalate, Assign,
     Reassign, MayAssign, InStatus
<1>2. CASE Reject(o)
  <2>1. Frame(o)
    BY <1>0, <1>2 DEF Reject, Frame, TypeOK
  <2>2. Waiting(o)
    BY <1>2 DEF Reject, Waiting, InStatus
  <2>3. QED
    BY <1>0, <1>2, <2>1, <2>2 DEF Reject, OrderGrounded, Untouched
<1>3. ASSUME \/ Approve(o) \/ Escalate(o)
             \/ \E w \in Workers : Assign(o, w) \/ Reassign(o, w)
      PROVE  Frame(o) /\ OrderGrounded(o)'
  <2>1. Frame(o)
    BY <1>0, <1>3 DEF Approve, MayApprove, Escalate, Assign, Reassign, GiveTo,
       Frame, TypeOK
  <2>2. order'[o].status \in {"ASSIGNED", "ESCALATED"} /\ order'[o] # None
    <3>1. CASE Approve(o)
      BY <1>0, <1>1, <3>1, NoneAssumption DEF Approve, MayApprove, TypeOK, OrderRow,
         OrderStatus
    <3>2. CASE Escalate(o)
      BY <1>0, <1>1, <3>2, NoneAssumption DEF Escalate, TypeOK, OrderRow, OrderStatus
    <3>3. ASSUME NEW w \in Workers, Assign(o, w) \/ Reassign(o, w)
          PROVE  order'[o].status = "ASSIGNED" /\ order'[o] # None
      <4>1. order' = [order EXCEPT ![o].worker = w, ![o].status = "ASSIGNED"]
        BY <3>3 DEF Assign, Reassign
      <4>2. QED
        BY <1>0, <1>1, <4>1, NoneAssumption DEF TypeOK, OrderRow, OrderStatus
    <3>4. QED
      BY <1>3, <3>1, <3>2, <3>3
  <2>3. UNCHANGED <<verdict, confirming>>
    BY <1>3 DEF Approve, MayApprove, Escalate, Assign, Reassign
  <2>4. QED
    BY <1>0, <2>1, <2>2, <2>3 DEF OrderGrounded, Waiting, Exists, InStatus
<1>4. QED
  BY <1>2, <1>3 DEF OfficerStep

LEMMA WorkerGrounded ==
  ASSUME Grounded, NEW o \in Orders, NEW w \in Workers, WorkerStep(o, w)
  PROVE  Frame(o) /\ OrderGrounded(o)'
<1> USE DEF workVars, reviewVars, roundVars
<1>0. TypeOK /\ OrderGrounded(o)
  BY GroundedByOrder
<1>1. order[o] \in OrderRow /\ Exists(o)
  BY <1>0, RowOf DEF WorkerStep, AcceptJob, MayAccept, CheckInAt, MayCheckIn,
     StartJob, MayStart, FinishJob, MayFinish, UploadPhoto, SubmitEvidence,
     MaySubmit, StartRework, MayRestart, Holds
<1>2. CASE \E cat \in Category : UploadPhoto(o, w, cat)
  BY <1>0, <1>2 DEF UploadPhoto, Frame, OrderGrounded, Waiting, Untouched,
     Exists, InStatus
<1>3. ASSUME ~\E cat \in Category : UploadPhoto(o, w, cat)
      PROVE  Frame(o) /\ OrderGrounded(o)'
  <2>1. Frame(o) /\ UNCHANGED <<verdict, confirming>>
    BY <1>0, <1>3 DEF WorkerStep, AcceptJob, MayAccept, CheckInAt, MayCheckIn,
       StartJob, MayStart, FinishJob, MayFinish, SubmitEvidence, MaySubmit,
       StartRework, MayRestart, Frame, TypeOK
  <2>2. ~Waiting(o)
    <3>1. StartJob(o, w) => HasCheckIn(o) \/ InStatus(o, {"IN_PROGRESS"})
      BY DEF StartJob, MayStart
    <3>2. Waiting(o) => ~HasCheckIn(o)
      BY <1>0 DEF OrderGrounded, Untouched, HasCheckIn
    <3>3. QED
      BY <1>1, <1>3, <3>1, <3>2 DEF WorkerStep, AcceptJob, MayAccept, CheckInAt,
         MayCheckIn, FinishJob, MayFinish, SubmitEvidence, MaySubmit, StartRework,
         MayRestart, Waiting, InStatus
  <2>3. ~Waiting(o)'
    <3>1. \/ UNCHANGED order
          \/ /\ order'[o] # None
             /\ order'[o].status \in {order[o].status, "IN_PROGRESS",
                  "WORK_COMPLETED", "EVIDENCE_SUBMITTED"}
      <4>1. CASE AcceptJob(o, w)
        BY <1>0, <1>1, <4>1, NoneAssumption DEF AcceptJob, MayAccept, TypeOK,
           OrderRow
      <4>2. CASE CheckInAt(o, w)
        BY <4>2 DEF CheckInAt, MayCheckIn
      <4>3. CASE StartJob(o, w)
        BY <1>0, <1>1, <4>3, NoneAssumption DEF StartJob, MayStart, TypeOK,
           OrderRow, OrderStatus
      <4>4. CASE FinishJob(o, w)
        BY <1>0, <1>1, <4>4, FinishedRow DEF FinishJob, MayFinish
      <4>5. CASE SubmitEvidence(o, w)
        BY <1>0, <1>1, <4>5, SubmittedRow DEF SubmitEvidence, MaySubmit
      <4>6. CASE StartRework(o, w)
        BY <1>0, <1>1, <4>6, ReopenedRow DEF StartRework, MayRestart
      <4>7. QED
        BY <1>3, <4>1, <4>2, <4>3, <4>4, <4>5, <4>6 DEF WorkerStep
    <3>2. QED
      BY <2>2, <3>1 DEF Waiting, Exists, InStatus
  <2>4. QED
    BY <1>0, <2>1, <2>3 DEF OrderGrounded
<1>4. QED
  BY <1>2, <1>3

LEMMA ReviewGrounded ==
  ASSUME Grounded, NEW o \in Orders, ReviewStep(o)
  PROVE  Frame(o) /\ OrderGrounded(o)'
<1> USE DEF workVars, reviewVars, roundVars
<1>0. TypeOK /\ OrderGrounded(o)
  BY GroundedByOrder
<1>1. CASE RunVerification(o)
  BY <1>0, <1>1 DEF RunVerification, MayVerify, Frame, OrderGrounded, Waiting,
     Exists, InStatus, TypeOK
<1>2. ASSUME NEW t \in running[o], FailRun(o, t)
      PROVE  Frame(o) /\ OrderGrounded(o)'
  BY <1>0, <1>2 DEF FailRun, Frame, OrderGrounded, Waiting, Untouched, Exists,
     InStatus, TypeOK
<1>3. ASSUME NEW t \in running[o], NEW v \in AiVerdicts, PersistVerdict(o, t, v)
      PROVE  Frame(o) /\ OrderGrounded(o)'
  <2>1. Frame(o)
    BY <1>0, <1>3 DEF PersistVerdict, Frame, TypeOK
  <2>2. t \in Nat /\ v \in Verdict
    BY <1>0, AiAssumption DEF TypeOK, Verdict
  <2>3. verdict'[o] # None
    <3>1. [ticket |-> t, status |-> v, reviewed |-> FALSE, by |-> None] \in Verification
      BY <2>2 DEF Verification
    <3>2. [ticket |-> t, status |-> v, reviewed |-> FALSE, by |-> None] # None
      BY <3>1, NoneAssumption
    <3>3. QED
      BY <1>0, <1>3, <3>2 DEF PersistVerdict, IsLatest, TypeOK
  <2>4. ~Waiting(o) /\ UNCHANGED order
    BY <1>0, <1>3 DEF OrderGrounded, Untouched, PersistVerdict
  <2>5. QED
    BY <2>1, <2>3, <2>4 DEF OrderGrounded, Waiting, Exists, InStatus
<1>4. ASSUME NEW u \in Officers, NEW t \in Nat, RecordReview(o, u, t) \/ LoseReview(o, u, t)
      PROVE  Frame(o) /\ OrderGrounded(o)'
  <2>1. verdict[o] \in Verification /\ ~Waiting(o)
    BY <1>0, <1>4, VerdictOf DEF RecordReview, LoseReview, OrderGrounded, Untouched
  <2>2. Frame(o) /\ UNCHANGED order
    BY <1>0, <1>4 DEF RecordReview, LoseReview, Frame, TypeOK
  <2>3. verdict'[o] # None
    <3>1. [verdict[o] EXCEPT !.reviewed = TRUE, !.by = u] \in Verification
      BY <2>1 DEF Verification
    <3>2. QED
      BY <1>0, <1>4, <2>1, <3>1, NoneAssumption DEF RecordReview, LoseReview, TypeOK
  <2>4. QED
    BY <2>1, <2>2, <2>3 DEF OrderGrounded, Waiting, Exists, InStatus
<1>5. ASSUME NEW u \in Officers,
             ConfirmResolution(o, u) \/ RequireFollowup(o, u) \/ RequestRework(o, u)
      PROVE  Frame(o) /\ OrderGrounded(o)'
  <2>1. verdict[o] \in Verification /\ ~Waiting(o)
    BY <1>0, <1>5, VerdictOf DEF OrderGrounded, Untouched, Reviewable,
       ConfirmResolution, RequireFollowup, RequestRework, RejectEvidence
  <2>2. order[o] \in OrderRow
    BY <1>0, <2>1, RowOf DEF Waiting
  <2>3. CASE ConfirmResolution(o, u)
    <3>1. Frame(o)
      BY <1>0, <2>3 DEF ConfirmResolution, Frame, TypeOK
    <3>2. [order[o] EXCEPT !.status = "COMPLETED"] \in OrderRow
      BY <2>2 DEF OrderRow, OrderStatus
    <3>3. order'[o] # None /\ order'[o].status = "COMPLETED"
      BY <1>0, <2>2, <2>3, <3>2, NoneAssumption DEF ConfirmResolution, TypeOK,
         OrderRow
    <3>4. [verdict[o] EXCEPT !.status = "VERIFIED"] \in Verification
      BY <2>1 DEF Verification, Verdict
    <3>5. verdict'[o] # None
      BY <1>0, <2>3, <3>4, NoneAssumption DEF ConfirmResolution, TypeOK
    <3>6. QED
      BY <3>1, <3>3, <3>5 DEF OrderGrounded, Waiting, Exists, InStatus
  <2>4. CASE RequireFollowup(o, u) \/ RequestRework(o, u)
    <3>1. RejectEvidence(o, u)
      BY <2>4 DEF RequireFollowup, RequestRework
    <3>2. Frame(o)
      BY <1>0, <2>4, <3>1 DEF RequireFollowup, RequestRework, RejectEvidence,
         Frame, TypeOK
    <3>3. order'[o] # None
          /\ order'[o].status \in {"IN_PROGRESS", "RETURNED_FOR_REWORK"}
      <4>1. CASE RequireFollowup(o, u)
        BY <1>0, <2>2, <4>1, ReopenedRow DEF RequireFollowup
      <4>2. CASE RequestRework(o, u)
        BY <1>0, <2>2, <4>2, NoneAssumption DEF RequestRework, TypeOK, OrderRow,
           OrderStatus
      <4>3. QED
        BY <2>4, <4>1, <4>2
    <3>4. [verdict[o] EXCEPT !.status = "NOT_RESOLVED", !.reviewed = TRUE, !.by = u]
            \in Verification
      BY <2>1 DEF Verification, Verdict
    <3>5. verdict'[o] # None
      BY <1>0, <3>1, <3>4, NoneAssumption DEF RejectEvidence, TypeOK
    <3>6. QED
      BY <3>2, <3>3, <3>5 DEF OrderGrounded, Waiting, Exists, InStatus
  <2>5. QED
    BY <1>5, <2>3, <2>4
<1>6. QED
  BY <1>0, <1>1, <1>2, <1>3, <1>4, <1>5, ReviewCases

LEMMA DispatchGrounded ==
  ASSUME Grounded, NEW o \in Orders, NEW c \in Complaints, Dispatch(o, c)
  PROVE  Frame(o) /\ OrderGrounded(o)'
<1> USE DEF workVars, reviewVars, roundVars
<1>0. TypeOK /\ OrderGrounded(o)
  BY GroundedByOrder
<1>1. Frame(o)
  BY <1>0 DEF Dispatch, Frame, TypeOK
<1>2. Untouched(o)
  BY <1>0 DEF Dispatch, OrderGrounded, Waiting
<1>3. QED
  BY <1>0, <1>1, <1>2 DEF Dispatch, OrderGrounded, Untouched

LEMMA GroundedInit == Init => Grounded
<1>1. Init => TypeOK
  BY DEF Init, TypeOK, ComplaintStatus, Category
<1>2. Init => NoWorkBeforeApproval /\ ReviewHasVerdict
  BY DEF Init, NoWorkBeforeApproval, ReviewHasVerdict
<1>3. QED
  BY <1>1, <1>2 DEF Grounded

LEMMA GroundedNext == Grounded /\ [Next]_vars => Grounded'
<1> SUFFICES ASSUME Grounded, [Next]_vars
             PROVE  Grounded'
  OBVIOUS
<1>0. \A o \in Orders : OrderGrounded(o)
  BY GroundedByOrder
<1>1. TypeOK' /\ (\A o \in Orders : OrderGrounded(o)') => Grounded'
  BY DEF Grounded, NoWorkBeforeApproval, ReviewHasVerdict, OrderGrounded,
     Waiting, Untouched
<1>2. ASSUME NEW o \in Orders, OfficerStep(o)
      PROVE  Grounded'
  BY <1>0, <1>1, <1>2, OfficerType, OfficerGrounded, FrameGrounded
<1>3. ASSUME NEW o \in Orders, ReviewStep(o)
      PROVE  Grounded'
  BY <1>0, <1>1, <1>3, ReviewType, ReviewGrounded, FrameGrounded
<1>4. ASSUME NEW o \in Orders, NEW w \in Workers, WorkerStep(o, w)
      PROVE  Grounded'
  BY <1>0, <1>1, <1>4, WorkerType, WorkerGrounded, FrameGrounded
<1>5. ASSUME NEW c \in Complaints, ComplaintStep(c)
      PROVE  Grounded'
  <2>1. TypeOK'
    BY <1>5, OtherType
  <2>2. ASSUME NEW o \in Orders, Dispatch(o, c)
        PROVE  Grounded'
    BY <1>0, <1>1, <2>1, <2>2, DispatchGrounded, FrameGrounded
  <2>3. CASE RequestEscalation(c) \/ \E s \in Analysed : Analyse(c, s)
    <3>1. UNCHANGED <<order, assignments, checkIns, running, verdict, confirming>>
      BY <2>3 DEF RequestEscalation, Analyse, workVars, reviewVars
    <3>2. QED
      BY <1>0, <1>1, <2>1, <3>1 DEF OrderGrounded, Waiting, Untouched, Exists,
         InStatus
  <2>4. QED
    BY <1>5, <2>2, <2>3 DEF ComplaintStep
<1>6. ASSUME NEW w \in Workers, SetOnDuty(w)
      PROVE  Grounded'
  <2>1. TypeOK'
    BY <1>6, OtherType
  <2>2. UNCHANGED <<order, assignments, checkIns, running, verdict, confirming>>
    BY <1>6 DEF SetOnDuty, workVars, reviewVars
  <2>3. QED
    BY <1>0, <1>1, <2>1, <2>2 DEF OrderGrounded, Waiting, Untouched, Exists,
       InStatus
<1>7. CASE UNCHANGED vars
  BY <1>7 DEF vars, Grounded, TypeOK, NoWorkBeforeApproval, ReviewHasVerdict,
     Exists, InStatus
<1>8. QED
  BY <1>2, <1>3, <1>4, <1>5, <1>6, <1>7 DEF Next

\* The inductive invariant: types, and what cannot exist before what.
THEOREM GroundedAlways == Spec => []Grounded
BY GroundedInit, GroundedNext, PTL DEF Spec

\* Every column keeps to the values its enum or nullable type allows.
THEOREM TypeCorrect == Spec => []TypeOK
<1>1. Grounded => TypeOK
  BY DEF Grounded
<1>2. QED
  BY <1>1, GroundedAlways, PTL

\* No assignment, check-in, analysis or verdict exists before the officer's
\* approval: start_job, which does not look for it, is stopped by its check-in
\* gate.
THEOREM ApprovalComesFirst == Spec => []NoWorkBeforeApproval
<1>1. Grounded => NoWorkBeforeApproval
  BY DEF Grounded
<1>2. QED
  BY <1>1, GroundedAlways, PTL

-----------------------------------------------------------------------------
(* The assignment book: the origin, the holder and the ASSIGNED row of     *)
(* every order, for any number of orders, workers and assignments.         *)

\* The statuses an order reaches by approval or assignment only.
Formal(o) == InStatus(o, OrderStatus \ {"PENDING_APPROVAL", "REJECTED", "ESCALATED"})

\* The rows of an order against the columns of its work_orders row.
RowsAgree(rows, row) ==
  /\ \A i \in 1..Len(rows) :
       /\ rows[i].origin = OriginOf(row, rows[i].worker)
       /\ rows[i].status = "ASSIGNED" => i = Len(rows)
  /\ Len(rows) > 0 => /\ rows[Len(rows)].worker = row.worker
                      /\ IsActive(rows[Len(rows)])

\* An order that was approved, or analysed, has a row for its holder: a draft
\* can be escalated with a recommended worker and no row, but nothing leads
\* from there to an analysis or a certification.
OrderBook(o) ==
  /\ RowsAgree(assignments[o], order[o])
  /\ Len(assignments[o]) > 0 => Exists(o)
  /\ Formal(o) \/ running[o] # {} \/ verdict[o] # None =>
       order[o].worker = None \/ Len(assignments[o]) > 0
  /\ InStatus(o, {"PENDING_APPROVAL"}) => order[o].worker = order[o].recommended

Book == Grounded /\ \A o \in Orders : OrderBook(o)

-----------------------------------------------------------------------------
(* The three operations on rows *)

LEMMA EmptyRows ==
  ASSUME NEW rows \in Seq(Assignment)
  PROVE  /\ Len(rows) \in Nat
         /\ rows # <<>> <=> Len(rows) > 0
OBVIOUS

LEMMA GivenRowsAgree ==
  ASSUME NEW rows \in Seq(Assignment), NEW row, NEW row2, NEW a \in Assignment,
         RowsAgree(rows, row), row2.recommended = row.recommended,
         a.origin = OriginOf(row, a.worker), a.worker = row2.worker, IsActive(a)
  PROVE  /\ RowsAgree(Append(Supersede(rows), a), row2)
         /\ Len(Append(Supersede(rows), a)) > 0
<1> DEFINE old == Supersede(rows)
           new == Append(old, a)
<1>1. old \in Seq(Assignment) /\ Len(old) = Len(rows) /\ Len(rows) \in Nat
  BY SupersedeRows
<1>2. Len(new) = Len(rows) + 1 /\ new[Len(rows) + 1] = a
      /\ \A i \in 1..Len(rows) : new[i] = old[i]
  BY <1>1
<1>3. \A x : OriginOf(row2, x) = OriginOf(row, x)
  BY DEF OriginOf
<1>4. ASSUME NEW i \in 1..Len(rows)
      PROVE  /\ old[i].origin = rows[i].origin
             /\ old[i].worker = rows[i].worker
             /\ old[i].status # "ASSIGNED"
  <2>1. rows[i] \in Assignment /\ i \in DOMAIN rows
    OBVIOUS
  <2>2. old[i] = IF rows[i].status = "ASSIGNED"
                   THEN [rows[i] EXCEPT !.status = "UNASSIGNED"] ELSE rows[i]
    BY <2>1 DEF Supersede
  <2>3. QED
    BY <2>1, <2>2 DEF Assignment
<1>5. \A i \in 1..(Len(rows) + 1) :
        /\ new[i].origin = OriginOf(row2, new[i].worker)
        /\ new[i].status = "ASSIGNED" => i = Len(rows) + 1
  BY <1>1, <1>2, <1>3, <1>4 DEF RowsAgree
<1>6. QED
  BY <1>1, <1>2, <1>5 DEF RowsAgree

LEMMA AcceptedRowsAgree ==
  ASSUME NEW rows \in Seq(Assignment), NEW row, NEW row2,
         RowsAgree(rows, row), row2.recommended = row.recommended,
         row2.worker = row.worker
  PROVE  RowsAgree(Accept(rows), row2) /\ Len(Accept(rows)) = Len(rows)
<1>1. Accept(rows) \in Seq(Assignment) /\ Len(Accept(rows)) = Len(rows)
      /\ Len(rows) \in Nat
  BY AcceptRows
<1>2. \A x : OriginOf(row2, x) = OriginOf(row, x)
  BY DEF OriginOf
<1>3. ASSUME NEW i \in 1..Len(rows)
      PROVE  /\ Accept(rows)[i].origin = rows[i].origin
             /\ Accept(rows)[i].worker = rows[i].worker
             /\ Accept(rows)[i].status = rows[i].status
  <2>1. rows[i] \in Assignment /\ i \in DOMAIN rows
    OBVIOUS
  <2>2. Accept(rows)[i] = IF rows[i].status = "ASSIGNED"
                   THEN [rows[i] EXCEPT !.accepted = TRUE] ELSE rows[i]
    BY <2>1 DEF Accept
  <2>3. QED
    BY <2>1, <2>2 DEF Assignment
<1>4. QED
  BY <1>1, <1>2, <1>3 DEF RowsAgree, IsActive

\* A step that leaves the rows, the holder and the recommendation alone keeps
\* the two agreeing, whatever it does to the status.
LEMMA SameRowsAgree ==
  ASSUME NEW rows, NEW row, NEW row2, RowsAgree(rows, row),
         row2.recommended = row.recommended, row2.worker = row.worker
  PROVE  RowsAgree(rows, row2)
BY DEF RowsAgree, OriginOf

-----------------------------------------------------------------------------
(* Every step keeps the book *)

\* Giving the order o to w for a reason that is true of its recommendation.
LEMMA GivingKeepsBook ==
  ASSUME Book, NEW o \in Orders, NEW w \in Workers, NEW s \in {"ASSIGNED", "REASSIGNED"},
         Exists(o), GiveTo(o, w, s, OriginOf(order[o], w)),
         order'[o] # None, order'[o].worker = w, order'[o].status = "ASSIGNED",
         order'[o].recommended = order[o].recommended
  PROVE  OrderBook(o)'
<1> DEFINE a == [worker |-> w, status |-> s, origin |-> OriginOf(order[o], w),
                 accepted |-> FALSE]
<1>1. TypeOK /\ OrderBook(o) /\ assignments[o] \in Seq(Assignment)
  BY DEF Book, Grounded, TypeOK
<1>2. a \in Assignment /\ IsActive(a) /\ a.origin = OriginOf(order[o], a.worker)
      /\ a.worker = w
  BY OriginOfType DEF Assignment, AssignmentStatus, IsActive
<1>3. assignments'[o] = Append(Supersede(assignments[o]), a)
  BY <1>1 DEF GiveTo, TypeOK
<1>4. RowsAgree(assignments'[o], order'[o]) /\ Len(assignments'[o]) > 0
  <2>1. RowsAgree(assignments[o], order[o])
    BY <1>1 DEF OrderBook
  <2>2. QED
    BY <1>1, <1>2, <1>3, <2>1, GivenRowsAgree
<1>5. QED
  BY <1>4 DEF OrderBook, Exists, InStatus

LEMMA OfficerBook ==
  ASSUME Book, NEW o \in Orders, OfficerStep(o)
  PROVE  OrderBook(o)'
<1> USE DEF workVars, reviewVars, roundVars
<1>0. TypeOK /\ OrderBook(o) /\ OrderGrounded(o)
  BY GroundedByOrder DEF Book, Grounded
<1>1. order[o] \in OrderRow /\ Exists(o)
  BY <1>0, RowOf DEF OfficerStep, Approve, MayApprove, Reject, Escalate, Assign,
     Reassign, MayAssign, InStatus
<1>2. CASE Approve(o)
  <2>1. Untouched(o)
    BY <1>0, <1>2 DEF OrderGrounded, Waiting, Approve, MayApprove, InStatus
  <2>2. /\ order'[o] # None /\ order'[o].status = "ASSIGNED"
        /\ order'[o].worker = order[o].worker
        /\ order'[o].recommended = order[o].recommended
    BY <1>0, <1>1, <1>2, NoneAssumption DEF Approve, MayApprove, TypeOK, OrderRow,
       OrderStatus
  <2>3. CASE order[o].worker = None
    <3>1. RowsAgree(assignments'[o], order'[o])
      BY <1>0, <1>2, <2>2, <2>3, SameRowsAgree DEF Approve, MayApprove, OrderBook
    <3>2. QED
      BY <1>0, <1>2, <2>2, <2>3, <3>1 DEF Approve, MayApprove, OrderBook, Exists,
         InStatus
  <2>4. CASE order[o].worker # None
    <3>1. order[o].worker \in Workers
      BY <1>1, <2>4 DEF OrderRow
    <3>2. OriginOf(order[o], order[o].worker) = "AI_RECOMMENDATION"
      BY <1>0, <1>2, <2>4 DEF Approve, MayApprove, OrderBook, OriginOf
    <3>3. GiveTo(o, order[o].worker, "ASSIGNED",
                 OriginOf(order[o], order[o].worker))
      BY <1>2, <2>4, <3>2 DEF Approve, MayApprove
    <3>4. QED
      BY <1>1, <2>2, <3>1, <3>3, GivingKeepsBook
  <2>5. QED
    BY <2>3, <2>4
<1>3. ASSUME NEW w \in Workers, Assign(o, w) \/ Reassign(o, w)
      PROVE  OrderBook(o)'
  <2>1. order' = [order EXCEPT ![o].worker = w, ![o].status = "ASSIGNED"]
    BY <1>3 DEF Assign, Reassign
  <2>2. /\ order'[o] # None /\ order'[o].status = "ASSIGNED"
        /\ order'[o].worker = w
        /\ order'[o].recommended = order[o].recommended
    BY <1>0, <1>1, <2>1, NoneAssumption DEF TypeOK, OrderRow, OrderStatus
  <2>3. PICK s \in {"ASSIGNED", "REASSIGNED"} :
          GiveTo(o, w, s, OriginOf(order[o], w))
    BY <1>3 DEF Assign, Reassign
  <2>4. QED
    BY <1>1, <2>2, <2>3, GivingKeepsBook
<1>4. CASE Escalate(o) \/ Reject(o)
  <2>1. /\ order'[o] # None /\ order'[o].status \in {"ESCALATED", "REJECTED"}
        /\ order'[o].worker = order[o].worker
        /\ order'[o].recommended = order[o].recommended
    <3>1. CASE Escalate(o)
      BY <1>0, <1>1, <3>1, NoneAssumption DEF Escalate, TypeOK, OrderRow, OrderStatus
    <3>2. CASE Reject(o)
      BY <1>0, <1>1, <3>2, NoneAssumption DEF Reject, TypeOK, OrderRow, OrderStatus
    <3>3. QED
      BY <1>4, <3>1, <3>2
  <2>2. UNCHANGED <<assignments, running, verdict>>
    BY <1>4 DEF Escalate, Reject
  <2>3. RowsAgree(assignments'[o], order'[o])
    BY <1>0, <2>1, <2>2, SameRowsAgree DEF OrderBook
  <2>4. QED
    BY <1>0, <2>1, <2>2, <2>3 DEF OrderBook, Formal, Exists, InStatus
<1>5. QED
  BY <1>2, <1>3, <1>4 DEF OfficerStep

LEMMA WorkerBook ==
  ASSUME Book, NEW o \in Orders, NEW w \in Workers, WorkerStep(o, w)
  PROVE  OrderBook(o)'
<1> USE DEF workVars, reviewVars, roundVars
<1>0. TypeOK /\ OrderBook(o) /\ OrderGrounded(o) /\ assignments[o] \in Seq(Assignment)
  BY GroundedByOrder DEF Book, Grounded, TypeOK
<1>1. order[o] \in OrderRow /\ Exists(o)
  BY <1>0, RowOf DEF WorkerStep, AcceptJob, MayAccept, CheckInAt, MayCheckIn,
     StartJob, MayStart, FinishJob, MayFinish, UploadPhoto, SubmitEvidence,
     MaySubmit, StartRework, MayRestart, Holds
<1>2. CASE CheckInAt(o, w) \/ \E cat \in Category : UploadPhoto(o, w, cat)
  BY <1>0, <1>2 DEF CheckInAt, MayCheckIn, UploadPhoto, OrderBook, Formal, Exists,
     InStatus
<1>3. CASE AcceptJob(o, w)
  <2>1. /\ order'[o] # None /\ order'[o].status = "ASSIGNED"
        /\ order'[o].worker = order[o].worker
        /\ order'[o].recommended = order[o].recommended
    BY <1>0, <1>1, <1>3, NoneAssumption DEF AcceptJob, MayAccept, TypeOK, OrderRow,
       InStatus
  <2>2. assignments'[o] = Accept(assignments[o])
    BY <1>0, <1>3 DEF AcceptJob, MayAccept, TypeOK
  <2>3. RowsAgree(assignments'[o], order'[o])
        /\ Len(assignments'[o]) = Len(assignments[o])
    <3>1. RowsAgree(assignments[o], order[o])
      BY <1>0 DEF OrderBook
    <3>2. QED
      BY <1>0, <2>1, <2>2, <3>1, AcceptedRowsAgree
  <2>4. Formal(o)
    BY <1>3 DEF AcceptJob, MayAccept, Formal, InStatus, OrderStatus
  <2>5. QED
    BY <1>0, <2>1, <2>3, <2>4 DEF OrderBook, Exists, InStatus
<1>4. ASSUME \/ StartJob(o, w) \/ FinishJob(o, w) \/ SubmitEvidence(o, w)
             \/ StartRework(o, w)
      PROVE  OrderBook(o)'
  <2>1. /\ order'[o] # None
        /\ order'[o].status \in {"IN_PROGRESS", "WORK_COMPLETED", "EVIDENCE_SUBMITTED"}
        /\ order'[o].worker = order[o].worker
        /\ order'[o].recommended = order[o].recommended
    <3>1. CASE StartJob(o, w)
      BY <1>0, <1>1, <3>1, NoneAssumption DEF StartJob, MayStart, TypeOK, OrderRow,
         OrderStatus
    <3>2. CASE FinishJob(o, w)
      BY <1>0, <1>1, <3>2, FinishedRow DEF FinishJob, MayFinish
    <3>3. CASE SubmitEvidence(o, w)
      BY <1>0, <1>1, <3>3, SubmittedRow DEF SubmitEvidence, MaySubmit
    <3>4. CASE StartRework(o, w)
      BY <1>0, <1>1, <3>4, ReopenedRow DEF StartRework, MayRestart
    <3>5. QED
      BY <1>4, <3>1, <3>2, <3>3, <3>4
  <2>2. Formal(o)
    <3>1. StartJob(o, w) => ~InStatus(o, {"PENDING_APPROVAL"})
      BY <1>0 DEF StartJob, MayStart, OrderGrounded, Waiting, Untouched, HasCheckIn,
         InStatus
    <3>2. QED
      BY <1>1, <1>4, <3>1 DEF StartJob, MayStart, FinishJob, MayFinish,
         SubmitEvidence, MaySubmit, StartRework, MayRestart, Formal, InStatus,
         OrderRow, OrderStatus
  <2>3. UNCHANGED <<assignments, running, verdict>>
    BY <1>4 DEF StartJob, MayStart, FinishJob, MayFinish, SubmitEvidence, MaySubmit,
       StartRework, MayRestart
  <2>4. RowsAgree(assignments'[o], order'[o])
    BY <1>0, <2>1, <2>3, SameRowsAgree DEF OrderBook
  <2>5. QED
    BY <1>0, <2>1, <2>2, <2>3, <2>4 DEF OrderBook, Exists, InStatus
<1>5. QED
  BY <1>2, <1>3, <1>4 DEF WorkerStep

LEMMA ReviewBook ==
  ASSUME Book, NEW o \in Orders, ReviewStep(o)
  PROVE  OrderBook(o)'
<1> USE DEF workVars, reviewVars, roundVars
<1>0. TypeOK /\ OrderBook(o) /\ OrderGrounded(o)
  BY GroundedByOrder DEF Book, Grounded
<1>1. CASE RunVerification(o)
  <2>1. Formal(o)
    BY <1>1 DEF RunVerification, MayVerify, Formal, InStatus, OrderStatus
  <2>2. QED
    BY <1>0, <1>1, <2>1 DEF RunVerification, MayVerify, OrderBook, Exists, InStatus
<1>2. ASSUME NEW t \in running[o],
             FailRun(o, t) \/ \E v \in AiVerdicts : PersistVerdict(o, t, v)
      PROVE  OrderBook(o)'
  <2>1. running[o] # {}
    OBVIOUS
  <2>2. UNCHANGED <<order, assignments>>
    BY <1>2 DEF FailRun, PersistVerdict
  <2>3. QED
    BY <1>0, <2>1, <2>2 DEF OrderBook, Exists, InStatus
<1>3. ASSUME NEW u \in Officers, NEW t \in Nat, RecordReview(o, u, t) \/ LoseReview(o, u, t)
      PROVE  OrderBook(o)'
  <2>1. verdict[o] # None
    BY <1>0, <1>3 DEF RecordReview, LoseReview, OrderGrounded
  <2>2. UNCHANGED <<order, assignments>>
    BY <1>3 DEF RecordReview, LoseReview
  <2>3. QED
    BY <1>0, <2>1, <2>2 DEF OrderBook, Exists, InStatus
<1>4. ASSUME NEW u \in Officers,
             ConfirmResolution(o, u) \/ RequireFollowup(o, u) \/ RequestRework(o, u)
      PROVE  OrderBook(o)'
  <2>1. verdict[o] # None
    BY <1>4 DEF ConfirmResolution, RequireFollowup, RequestRework,
       RejectEvidence, Reviewable
  <2>2. order[o] \in OrderRow
    BY <1>0, <2>1, RowOf DEF OrderGrounded, Waiting, Untouched
  <2>3. /\ order'[o] # None
        /\ order'[o].status \in {"COMPLETED", "IN_PROGRESS", "RETURNED_FOR_REWORK"}
        /\ order'[o].worker = order[o].worker
        /\ order'[o].recommended = order[o].recommended
    <3>1. CASE ConfirmResolution(o, u)
      BY <1>0, <2>2, <3>1, NoneAssumption DEF ConfirmResolution, TypeOK, OrderRow,
         OrderStatus
    <3>2. CASE RequireFollowup(o, u)
      BY <1>0, <2>2, <3>2, ReopenedRow DEF RequireFollowup
    <3>3. CASE RequestRework(o, u)
      BY <1>0, <2>2, <3>3, NoneAssumption DEF RequestRework, TypeOK, OrderRow,
         OrderStatus
    <3>4. QED
      BY <1>4, <3>1, <3>2, <3>3
  <2>4. UNCHANGED assignments
    BY <1>4 DEF ConfirmResolution, RequireFollowup, RequestRework, RejectEvidence
  <2>5. RowsAgree(assignments'[o], order'[o])
    BY <1>0, <2>3, <2>4, SameRowsAgree DEF OrderBook
  <2>6. QED
    BY <1>0, <2>1, <2>3, <2>4, <2>5 DEF OrderBook, Exists, InStatus
<1>5. QED
  BY <1>0, <1>1, <1>2, <1>3, <1>4, ReviewCases

LEMMA DispatchBook ==
  ASSUME Book, NEW o \in Orders, NEW c \in Complaints, Dispatch(o, c)
  PROVE  OrderBook(o)'
<1> USE DEF workVars, reviewVars, roundVars
<1>0. TypeOK /\ OrderGrounded(o)
  BY GroundedByOrder DEF Book, Grounded
<1>1. Untouched(o)
  BY <1>0 DEF Dispatch, OrderGrounded, Waiting
<1>2. UNCHANGED <<assignments, running, verdict>>
  BY DEF Dispatch
<1>3. PICK w \in Workers \cup {None} :
        order' = [order EXCEPT ![o] =
          [complaint |-> c, status |-> "PENDING_APPROVAL", worker |-> w,
           recommended |-> w, accepted |-> FALSE, completed |-> FALSE,
           submitted |-> FALSE]]
  BY <1>0 DEF Dispatch, Recommendable, TypeOK
<1>4. order'[o].worker = order'[o].recommended
      /\ order'[o].status = "PENDING_APPROVAL"
  BY <1>0, <1>3 DEF TypeOK
<1>5. Len(assignments'[o]) = 0
  BY <1>1, <1>2 DEF Untouched
<1>6. QED
  BY <1>1, <1>2, <1>4, <1>5 DEF OrderBook, RowsAgree, Untouched, Formal, InStatus

LEMMA FrameBook ==
  ASSUME NEW o \in Orders, Frame(o), OrderBook(o)',
         \A p \in Orders : OrderBook(p)
  PROVE  \A p \in Orders : OrderBook(p)'
BY DEF Frame, OrderBook, Formal, Exists, InStatus

LEMMA BookInit == Init => Book
<1> SUFFICES ASSUME Init, NEW o \in Orders
             PROVE  OrderBook(o)
  BY GroundedInit DEF Book
<1>1. assignments[o] = <<>> /\ order[o] = None /\ running[o] = {}
      /\ verdict[o] = None
  BY DEF Init
<1>2. QED
  BY <1>1 DEF OrderBook, RowsAgree, Formal, Exists, InStatus

LEMMA BookNext == Book /\ [Next]_vars => Book'
<1> SUFFICES ASSUME Book, [Next]_vars
             PROVE  \A o \in Orders : OrderBook(o)'
  BY GroundedNext DEF Book
<1>0. Grounded /\ \A o \in Orders : OrderBook(o)
  BY DEF Book
<1>1. ASSUME NEW o \in Orders, OfficerStep(o)
      PROVE  \A p \in Orders : OrderBook(p)'
  BY <1>0, <1>1, OfficerGrounded, OfficerBook, FrameBook
<1>2. ASSUME NEW o \in Orders, ReviewStep(o)
      PROVE  \A p \in Orders : OrderBook(p)'
  BY <1>0, <1>2, ReviewGrounded, ReviewBook, FrameBook
<1>3. ASSUME NEW o \in Orders, NEW w \in Workers, WorkerStep(o, w)
      PROVE  \A p \in Orders : OrderBook(p)'
  BY <1>0, <1>3, WorkerGrounded, WorkerBook, FrameBook
<1>4. ASSUME NEW o \in Orders, NEW c \in Complaints, Dispatch(o, c)
      PROVE  \A p \in Orders : OrderBook(p)'
  BY <1>0, <1>4, DispatchGrounded, DispatchBook, FrameBook
<1>5. ASSUME UNCHANGED <<order, assignments, running, verdict>>
      PROVE  \A p \in Orders : OrderBook(p)'
  BY <1>0, <1>5 DEF OrderBook, Formal, Exists, InStatus
<1>6. ASSUME NEW c \in Complaints,
             RequestEscalation(c) \/ \E s \in Analysed : Analyse(c, s)
      PROVE  UNCHANGED <<order, assignments, running, verdict>>
  BY <1>6 DEF RequestEscalation, Analyse, workVars, reviewVars
<1>7. ASSUME NEW w \in Workers, SetOnDuty(w)
      PROVE  UNCHANGED <<order, assignments, running, verdict>>
  BY <1>7 DEF SetOnDuty, workVars, reviewVars
<1>8. CASE UNCHANGED vars
  BY <1>5, <1>8 DEF vars
<1>9. QED
  BY <1>1, <1>2, <1>3, <1>4, <1>5, <1>6, <1>7, <1>8 DEF Next, ComplaintStep

LEMMA BookAlways == Spec => []Book
BY BookInit, BookNext, PTL DEF Spec

-----------------------------------------------------------------------------
(* What the book says *)

\* The origin recorded on every assignment, however old, says truly whether
\* the pick honoured the agent's recommendation, also where approval writes
\* AI_RECOMMENDATION without looking.
THEOREM OriginsAreHonest == Spec => []HonestOrigin
<1>1. Book => HonestOrigin
  <2> SUFFICES ASSUME Book, NEW o \in Orders, NEW i \in DOMAIN assignments[o]
               PROVE  /\ Exists(o)
                      /\ assignments[o][i].origin
                           = OriginOf(order[o], assignments[o][i].worker)
    BY DEF HonestOrigin
  <2>1. assignments[o] \in Seq(Assignment)
    BY DEF Book, Grounded, TypeOK
  <2>2. i \in 1..Len(assignments[o]) /\ Len(assignments[o]) > 0
    BY <2>1
  <2>3. QED
    BY <2>2 DEF Book, OrderBook, RowsAgree
<1>2. QED
  BY <1>1, BookAlways, PTL

\* worker_id and the assignment book agree: the newest row is active and the
\* holder's, and a job that left approval with a holder has a row.
THEOREM HoldersAreOnRecord == Spec => []HolderOnRecord
<1>1. Book => HolderOnRecord
  <2> SUFFICES ASSUME Book, NEW o \in Orders
               PROVE  /\ assignments[o] # <<>> =>
                           Holds(LastRow(o).worker, o) /\ IsActive(LastRow(o))
                      /\ Formal(o) /\ order[o].worker # None =>
                           assignments[o] # <<>>
    BY DEF HolderOnRecord, Formal
  <2>1. assignments[o] \in Seq(Assignment)
    BY DEF Book, Grounded, TypeOK
  <2>2. assignments[o] # <<>> <=> Len(assignments[o]) > 0
    BY <2>1, EmptyRows
  <2>3. QED
    BY <2>2 DEF Book, OrderBook, RowsAgree, Holds, LastRow
<1>2. QED
  BY <1>1, BookAlways, PTL

\* Only the newest row of an order can be in status ASSIGNED.
THEOREM AssignedRowIsUnique == Spec => []OneAssignedRow
<1>1. Book => OneAssignedRow
  <2> SUFFICES ASSUME Book, NEW o \in Orders, NEW i \in DOMAIN assignments[o],
                      assignments[o][i].status = "ASSIGNED"
               PROVE  i = Len(assignments[o])
    BY DEF OneAssignedRow
  <2>1. assignments[o] \in Seq(Assignment)
    BY DEF Book, Grounded, TypeOK
  <2>2. i \in 1..Len(assignments[o])
    BY <2>1
  <2>3. QED
    BY <2>2 DEF Book, OrderBook, RowsAgree
<1>2. QED
  BY <1>1, BookAlways, PTL

-----------------------------------------------------------------------------
(* Certification and reviews *)


\* An order that was submitted, analysed, certified or returned has a holder
\* and, once analysed or certified, both photos.  A confirmation between its
\* two commits is about the latest verdict or an older one, and if it is the
\* latest one and nobody reviewed it since, that verdict reads VERIFIED.
Submitted(o) ==
  \/ InStatus(o, {"EVIDENCE_SUBMITTED", "COMPLETED", "RETURNED_FOR_REWORK"})
  \/ running[o] # {} \/ verdict[o] # None

OrderReview(o) ==
  /\ Submitted(o) => order[o].worker \in Workers
  /\ running[o] # {} \/ verdict[o] # None => HasEvidence(o)
  /\ InStatus(o, {"COMPLETED"}) =>
       verdict[o] # None /\ (verdict[o].reviewed => verdict[o].status = "VERIFIED")
  /\ \A s \in confirming[o] :
       /\ verdict[o].ticket >= s[2]
       /\ verdict[o].ticket = s[2] /\ ~verdict[o].reviewed =>
            verdict[o].status = "VERIFIED"
  /\ InStatus(o, {"RETURNED_FOR_REWORK"}) => reworkAt[o] = round[o] /\ round[o] > 0

Reviews == Grounded /\ \A o \in Orders : OrderReview(o)

\* A step about one order leaves the photos and rounds of the others alone.
RoundFrame(o) ==
  \A p \in Orders \ {o} :
    photo'[p] = photo[p] /\ round'[p] = round[p] /\ reworkAt'[p] = reworkAt[p]

LEMMA FrameReviews ==
  ASSUME NEW o \in Orders, Frame(o), RoundFrame(o), OrderReview(o)',
         \A p \in Orders : OrderReview(p)
  PROVE  \A p \in Orders : OrderReview(p)'
BY DEF Frame, RoundFrame, OrderReview, Submitted, HasEvidence, Exists, InStatus

-----------------------------------------------------------------------------
(* Every step keeps the reviews *)

LEMMA OfficerReview ==
  ASSUME Reviews, NEW o \in Orders, OfficerStep(o)
  PROVE  RoundFrame(o) /\ OrderReview(o)'
<1> USE DEF workVars, reviewVars, roundVars
<1>0. TypeOK /\ OrderReview(o)
  BY DEF Reviews, Grounded
<1>1. order[o] \in OrderRow /\ ~InStatus(o, {"COMPLETED"})
  BY <1>0, RowOf DEF OfficerStep, Approve, MayApprove, Reject, Escalate, Assign,
     Reassign, MayAssign, InStatus
<1>2. UNCHANGED <<photo, round, reworkAt, running, verdict, confirming>>
  BY DEF OfficerStep, Approve, MayApprove, Reject, Escalate, Assign, Reassign
<1>3. /\ order'[o].status \in {"ASSIGNED", "ESCALATED", "REJECTED"}
      /\ order'[o].worker \in Workers \cup {order[o].worker}
  <2>1. CASE Approve(o)
    BY <1>0, <1>1, <2>1 DEF Approve, MayApprove, TypeOK, OrderRow, OrderStatus
  <2>2. CASE Escalate(o)
    BY <1>0, <1>1, <2>2 DEF Escalate, TypeOK, OrderRow, OrderStatus
  <2>3. CASE Reject(o)
    BY <1>0, <1>1, <2>3 DEF Reject, TypeOK, OrderRow, OrderStatus
  <2>4. ASSUME NEW w \in Workers, Assign(o, w) \/ Reassign(o, w)
        PROVE  order'[o].status = "ASSIGNED" /\ order'[o].worker = w
    <3>1. order' = [order EXCEPT ![o].worker = w, ![o].status = "ASSIGNED"]
      BY <2>4 DEF Assign, Reassign
    <3>2. QED
      BY <1>0, <1>1, <3>1 DEF TypeOK, OrderRow, OrderStatus
  <2>5. QED
    BY <2>1, <2>2, <2>3, <2>4 DEF OfficerStep
<1>4. QED
  BY <1>0, <1>2, <1>3 DEF OrderReview, Submitted, RoundFrame, HasEvidence, InStatus

LEMMA WorkerReview ==
  ASSUME Reviews, NEW o \in Orders, NEW w \in Workers, WorkerStep(o, w)
  PROVE  RoundFrame(o) /\ OrderReview(o)'
<1> USE DEF workVars, reviewVars, roundVars
<1>0. TypeOK /\ OrderReview(o)
  BY DEF Reviews, Grounded
<1>1. order[o] \in OrderRow /\ order[o].worker = w
  BY <1>0, RowOf DEF WorkerStep, AcceptJob, MayAccept, CheckInAt, MayCheckIn,
     StartJob, MayStart, FinishJob, MayFinish, UploadPhoto, SubmitEvidence,
     MaySubmit, StartRework, MayRestart, Holds
<1>2. UNCHANGED <<round, reworkAt, running, verdict, confirming>>
  BY DEF WorkerStep, AcceptJob, MayAccept, CheckInAt, MayCheckIn, StartJob,
     MayStart, FinishJob, MayFinish, UploadPhoto, SubmitEvidence, MaySubmit,
     StartRework, MayRestart
<1>3. RoundFrame(o) /\ (HasEvidence(o) => HasEvidence(o)')
  <2>1. CASE UNCHANGED photo
    BY <1>2, <2>1 DEF RoundFrame, HasEvidence
  <2>2. ASSUME NEW cat \in Category, UploadPhoto(o, w, cat)
        PROVE  RoundFrame(o) /\ (HasEvidence(o) => HasEvidence(o)')
    <3>1. photo' = [photo EXCEPT ![o] = [@ EXCEPT ![cat] = round[o]]]
      BY <2>2 DEF UploadPhoto
    <3>2. round[o] # None
      BY <1>0, NoneAssumption DEF TypeOK
    <3>3. QED
      BY <1>0, <1>2, <3>1, <3>2 DEF RoundFrame, HasEvidence, TypeOK
  <2>3. QED
    BY <2>1, <2>2 DEF WorkerStep, AcceptJob, MayAccept, CheckInAt, MayCheckIn,
       StartJob, MayStart, FinishJob, MayFinish, SubmitEvidence, MaySubmit,
       StartRework, MayRestart
<1>4. /\ order'[o].worker = w
      /\ \/ UNCHANGED order
         \/ order'[o].status \in {"ASSIGNED", "IN_PROGRESS", "WORK_COMPLETED",
                                  "EVIDENCE_SUBMITTED"}
  <2>1. CASE AcceptJob(o, w)
    BY <1>0, <1>1, <2>1 DEF AcceptJob, MayAccept, TypeOK, OrderRow, InStatus
  <2>2. CASE CheckInAt(o, w) \/ \E cat \in Category : UploadPhoto(o, w, cat)
    BY <1>1, <2>2 DEF CheckInAt, MayCheckIn, UploadPhoto
  <2>3. CASE StartJob(o, w)
    BY <1>0, <1>1, <2>3 DEF StartJob, MayStart, TypeOK, OrderRow, OrderStatus
  <2>4. CASE FinishJob(o, w)
    BY <1>0, <1>1, <2>4 DEF FinishJob, MayFinish, TypeOK, OrderRow, OrderStatus
  <2>5. CASE SubmitEvidence(o, w)
    BY <1>0, <1>1, <2>5 DEF SubmitEvidence, MaySubmit, TypeOK, OrderRow, OrderStatus
  <2>6. CASE StartRework(o, w)
    BY <1>0, <1>1, <2>6 DEF StartRework, MayRestart, TypeOK, OrderRow, OrderStatus
  <2>7. QED
    BY <2>1, <2>2, <2>3, <2>4, <2>5, <2>6 DEF WorkerStep
<1>5. QED
  BY <1>0, <1>2, <1>3, <1>4 DEF OrderReview, Submitted, Exists, InStatus

LEMMA ReviewReview ==
  ASSUME Reviews, NEW o \in Orders, ReviewStep(o)
  PROVE  RoundFrame(o) /\ OrderReview(o)'
<1> USE DEF workVars, reviewVars, roundVars
<1>0. TypeOK /\ OrderReview(o) /\ OrderGrounded(o)
  BY GroundedByOrder DEF Reviews, Grounded
<1>1. CASE RunVerification(o)
  BY <1>0, <1>1 DEF RunVerification, MayVerify, OrderReview, Submitted, RoundFrame,
     HasEvidence, Exists, InStatus
<1>2. ASSUME NEW t \in running[o], FailRun(o, t)
      PROVE  RoundFrame(o) /\ OrderReview(o)'
  <2>1. UNCHANGED <<order, photo, round, reworkAt, verdict, confirming>>
    BY <1>2 DEF FailRun
  <2>2. running[o] # {}
    OBVIOUS
  <2>3. QED
    BY <1>0, <2>1, <2>2 DEF OrderReview, Submitted, RoundFrame, HasEvidence, Exists, InStatus
<1>3. ASSUME NEW t \in running[o], NEW v \in AiVerdicts, PersistVerdict(o, t, v)
      PROVE  RoundFrame(o) /\ OrderReview(o)'
  <2>1. UNCHANGED <<order, photo, round, reworkAt, confirming>>
    BY <1>3 DEF PersistVerdict
  <2>2. running[o] # {} /\ t \in Nat /\ confirming[o] \subseteq Officers \X Nat
    BY <1>0 DEF TypeOK
  <2>3. CASE IsLatest(o, t)
    <3>1. verdict'[o] = [ticket |-> t, status |-> v, reviewed |-> FALSE, by |-> None]
      BY <1>0, <1>3, <2>3 DEF PersistVerdict, TypeOK
    <3>2. \A s \in confirming[o] : t > s[2]
      <4>1. verdict[o] # None => verdict[o].ticket \in Nat
        BY <1>0, VerdictOf DEF Verification
      <4>2. QED
        BY <1>0, <2>2, <2>3, <4>1 DEF IsLatest, OrderGrounded, OrderReview, Submitted
    <3>3. verdict'[o] # None
      <4>1. v \in Verdict
        BY AiAssumption DEF Verdict
      <4>2. [ticket |-> t, status |-> v, reviewed |-> FALSE, by |-> None] \in Verification
        BY <2>2, <4>1 DEF Verification
      <4>3. QED
        BY <3>1, <4>2, NoneAssumption
    <3>4. QED
      BY <1>0, <2>1, <2>2, <3>1, <3>2, <3>3 DEF OrderReview, Submitted, RoundFrame,
         HasEvidence, Exists, InStatus
  <2>4. CASE ~IsLatest(o, t)
    <3>1. UNCHANGED verdict
      BY <1>3, <2>4 DEF PersistVerdict
    <3>2. QED
      BY <1>0, <2>1, <2>2, <3>1 DEF OrderReview, Submitted, RoundFrame, HasEvidence, Exists,
         InStatus
  <2>5. QED
    BY <2>3, <2>4
<1>4. ASSUME NEW u \in Officers, NEW t \in Nat, RecordReview(o, u, t) \/ LoseReview(o, u, t)
      PROVE  RoundFrame(o) /\ OrderReview(o)'
  <2>1. verdict[o] \in Verification /\ <<u, t>> \in confirming[o]
    BY <1>0, <1>4, VerdictOf DEF RecordReview, LoseReview, OrderGrounded
  <2>2. UNCHANGED <<order, photo, round, reworkAt, running>>
    BY <1>4 DEF RecordReview, LoseReview
  <2>3. confirming'[o] = confirming[o] \ {<<u, t>>}
    BY <1>0, <1>4 DEF RecordReview, LoseReview, TypeOK
  <2>4. \/ verdict'[o] = verdict[o]
        \/ /\ verdict[o].ticket = t
           /\ verdict'[o] = [verdict[o] EXCEPT !.reviewed = TRUE, !.by = u]
    BY <1>0, <1>4 DEF RecordReview, LoseReview, TypeOK
  <2>5. CASE verdict'[o] = verdict[o]
    BY <1>0, <2>2, <2>3, <2>5 DEF OrderReview, Submitted, RoundFrame, HasEvidence, Exists,
       InStatus
  <2>6. CASE /\ verdict[o].ticket = t
             /\ verdict'[o] = [verdict[o] EXCEPT !.reviewed = TRUE, !.by = u]
    <3>1. /\ verdict'[o].ticket = t /\ verdict'[o].reviewed
          /\ verdict'[o].status = verdict[o].status
      BY <2>1, <2>6 DEF Verification
    <3>2. verdict[o] # None /\ verdict'[o] # None
      <4>1. [verdict[o] EXCEPT !.reviewed = TRUE, !.by = u] \in Verification
        BY <2>1 DEF Verification
      <4>2. QED
        BY <2>1, <2>6, <4>1, NoneAssumption
    <3>3. InStatus(o, {"COMPLETED"}) => verdict[o].status = "VERIFIED"
      <4>1. ~verdict[o].reviewed => verdict[o].status = "VERIFIED"
        <5>1. <<u, t>>[2] = t
          OBVIOUS
        <5>2. QED
          BY <1>0, <2>1, <2>6, <5>1 DEF OrderReview
      <4>2. verdict[o].reviewed \in BOOLEAN
        BY <2>1 DEF Verification
      <4>3. QED
        BY <1>0, <4>1, <4>2 DEF OrderReview
    <3>4. QED
      BY <1>0, <2>1, <2>2, <2>3, <2>6, <3>1, <3>2, <3>3 DEF OrderReview, Submitted, RoundFrame,
         HasEvidence, Exists, InStatus
  <2>7. QED
    BY <2>4, <2>5, <2>6
<1>5. ASSUME NEW u \in Officers, ConfirmResolution(o, u)
      PROVE  RoundFrame(o) /\ OrderReview(o)'
  <2>1. verdict[o] \in Verification /\ ~verdict[o].reviewed
    BY <1>0, <1>5, VerdictOf DEF ConfirmResolution, Reviewable
  <2>2. order[o] \in OrderRow
    BY <1>0, <1>5, RowOf DEF ConfirmResolution, Reviewable, OrderGrounded,
       Waiting, Untouched
  <2>3. order'[o].status = "COMPLETED" /\ order'[o].worker = order[o].worker
    BY <1>0, <1>5, <2>2 DEF ConfirmResolution, TypeOK, OrderRow
  <2>4. verdict'[o] = [verdict[o] EXCEPT !.status = "VERIFIED"]
    BY <1>0, <1>5 DEF ConfirmResolution, TypeOK
  <2>5. /\ verdict'[o].status = "VERIFIED"
        /\ verdict'[o].ticket = verdict[o].ticket /\ verdict[o].ticket \in Nat
        /\ verdict'[o] \in Verification
    BY <2>1, <2>4 DEF Verification, Verdict
  <2>6. confirming'[o] = confirming[o] \cup {<<u, verdict[o].ticket>>}
        /\ confirming[o] \subseteq Officers \X Nat
    BY <1>0, <1>5 DEF ConfirmResolution, TypeOK
  <2>7. verdict[o] # None /\ verdict'[o] # None
    BY <2>1, <2>5, NoneAssumption
  <2>8. UNCHANGED <<photo, round, reworkAt, running>>
    BY <1>5 DEF ConfirmResolution
  <2>9. QED
    BY <1>0, <2>3, <2>5, <2>6, <2>7, <2>8 DEF OrderReview, Submitted, RoundFrame,
       HasEvidence, Exists, InStatus
<1>6. ASSUME NEW u \in Officers, RequireFollowup(o, u) \/ RequestRework(o, u)
      PROVE  RoundFrame(o) /\ OrderReview(o)'
  <2>1. RejectEvidence(o, u) /\ verdict[o] \in Verification
    BY <1>0, <1>6, VerdictOf DEF RequireFollowup, RequestRework, RejectEvidence,
       Reviewable
  <2>2. order[o] \in OrderRow /\ verdict[o] # None
    BY <1>0, <2>1, RowOf DEF RejectEvidence, Reviewable, InStatus
  <2>3. verdict'[o] = [verdict[o] EXCEPT !.status = "NOT_RESOLVED",
                                         !.reviewed = TRUE, !.by = u]
    BY <1>0, <2>1 DEF RejectEvidence, TypeOK
  <2>4. /\ verdict'[o].reviewed /\ verdict'[o].ticket = verdict[o].ticket
        /\ verdict'[o] # None
    <3>1. verdict'[o] \in Verification
      BY <2>1, <2>3 DEF Verification, Verdict
    <3>2. verdict'[o].reviewed /\ verdict'[o].ticket = verdict[o].ticket
      BY <2>1, <2>3 DEF Verification
    <3>3. QED
      BY <3>1, <3>2, NoneAssumption
  <2>5. round'[o] = round[o] + 1 /\ round[o] \in Nat
        /\ \A p \in Orders \ {o} : round'[p] = round[p]
    BY <1>0, <2>1 DEF RejectEvidence, TypeOK
  <2>6. /\ order'[o].worker = order[o].worker
        /\ \/ order'[o].status = "IN_PROGRESS" /\ UNCHANGED reworkAt
           \/ /\ order'[o].status = "RETURNED_FOR_REWORK"
              /\ reworkAt'[o] = round[o] + 1
              /\ \A p \in Orders \ {o} : reworkAt'[p] = reworkAt[p]
    <3>1. CASE RequireFollowup(o, u)
      BY <1>0, <2>2, <3>1 DEF RequireFollowup, TypeOK, OrderRow, OrderStatus
    <3>2. CASE RequestRework(o, u)
      BY <1>0, <2>2, <3>2 DEF RequestRework, TypeOK, OrderRow, OrderStatus
    <3>3. QED
      BY <1>6, <3>1, <3>2
  <2>7. UNCHANGED <<photo, running, confirming>>
    BY <2>1 DEF RejectEvidence
  <2>8. QED
    BY <1>0, <2>2, <2>4, <2>5, <2>6, <2>7 DEF OrderReview, Submitted, RoundFrame,
       HasEvidence, Exists, InStatus
<1>7. QED
  BY <1>0, <1>1, <1>2, <1>3, <1>4, <1>5, <1>6, ReviewCases

LEMMA DispatchReview ==
  ASSUME Reviews, NEW o \in Orders, NEW c \in Complaints, Dispatch(o, c)
  PROVE  RoundFrame(o) /\ OrderReview(o)'
<1> USE DEF workVars, reviewVars, roundVars
<1>0. TypeOK /\ OrderGrounded(o)
  BY GroundedByOrder DEF Reviews, Grounded
<1>1. Untouched(o) /\ confirming[o] = {}
  BY <1>0 DEF Dispatch, OrderGrounded, Waiting, Untouched
<1>2. UNCHANGED <<photo, round, reworkAt, running, verdict, confirming>>
  BY DEF Dispatch
<1>3. order'[o].status = "PENDING_APPROVAL"
  BY <1>0 DEF Dispatch, TypeOK
<1>4. QED
  BY <1>1, <1>2, <1>3 DEF OrderReview, Submitted, RoundFrame, Untouched, InStatus

-----------------------------------------------------------------------------
(* Reviews is an invariant *)

LEMMA ReviewsInit == Init => Reviews
<1> SUFFICES ASSUME Init, NEW o \in Orders
             PROVE  OrderReview(o)
  BY GroundedInit DEF Reviews
<1>1. order[o] = None /\ running[o] = {} /\ verdict[o] = None
      /\ confirming[o] = {}
  BY DEF Init
<1>2. QED
  BY <1>1 DEF OrderReview, Submitted, Exists, InStatus

LEMMA ReviewsNext == Reviews /\ [Next]_vars => Reviews'
<1> SUFFICES ASSUME Reviews, [Next]_vars
             PROVE  \A o \in Orders : OrderReview(o)'
  BY GroundedNext DEF Reviews
<1>0. Grounded /\ \A o \in Orders : OrderReview(o)
  BY DEF Reviews
<1>1. ASSUME NEW o \in Orders, OfficerStep(o)
      PROVE  \A p \in Orders : OrderReview(p)'
  BY <1>0, <1>1, OfficerGrounded, OfficerReview, FrameReviews
<1>2. ASSUME NEW o \in Orders, ReviewStep(o)
      PROVE  \A p \in Orders : OrderReview(p)'
  BY <1>0, <1>2, ReviewGrounded, ReviewReview, FrameReviews
<1>3. ASSUME NEW o \in Orders, NEW w \in Workers, WorkerStep(o, w)
      PROVE  \A p \in Orders : OrderReview(p)'
  BY <1>0, <1>3, WorkerGrounded, WorkerReview, FrameReviews
<1>4. ASSUME NEW o \in Orders, NEW c \in Complaints, Dispatch(o, c)
      PROVE  \A p \in Orders : OrderReview(p)'
  BY <1>0, <1>4, DispatchGrounded, DispatchReview, FrameReviews
<1>5. ASSUME UNCHANGED <<order, photo, roundVars, reviewVars>>
      PROVE  \A p \in Orders : OrderReview(p)'
  BY <1>0, <1>5 DEF OrderReview, Submitted, HasEvidence, Exists, InStatus,
     roundVars, reviewVars
<1>6. ASSUME NEW c \in Complaints,
             RequestEscalation(c) \/ \E s \in Analysed : Analyse(c, s)
      PROVE  UNCHANGED <<order, photo, roundVars, reviewVars>>
  BY <1>6 DEF RequestEscalation, Analyse, workVars
<1>7. ASSUME NEW w \in Workers, SetOnDuty(w)
      PROVE  UNCHANGED <<order, photo, roundVars, reviewVars>>
  BY <1>7 DEF SetOnDuty, workVars
<1>8. CASE UNCHANGED vars
  BY <1>5, <1>8 DEF vars, workVars, roundVars, reviewVars
<1>9. QED
  BY <1>1, <1>2, <1>3, <1>4, <1>5, <1>6, <1>7, <1>8 DEF Next, ComplaintStep

LEMMA ReviewsAlways == Spec => []Reviews
BY ReviewsInit, ReviewsNext, PTL DEF Spec

-----------------------------------------------------------------------------
(* What the reviews guarantee *)

\* A certified order rests on both photos and on a verdict the reviewers did
\* not turn down, also while the two commits of a confirmation interleave
\* with another officer's review or with a late analysis.
THEOREM CertificationsStand == Spec => []CertifiedStands
<1>1. Reviews => CertifiedStands
  BY DEF Reviews, OrderReview, CertifiedStands
<1>2. QED
  BY <1>1, ReviewsAlways, PTL

\* A job sent back for rework has a holder, and the history entry that
\* start_rework looks up is the one of the round just opened.
THEOREM ReworkIsNeverStuck == Spec => []ReturnedIsOnRecord
<1>1. Reviews => ReturnedIsOnRecord
  BY NoneAssumption DEF Reviews, OrderReview, Submitted, ReturnedIsOnRecord,
     InStatus
<1>2. QED
  BY <1>1, ReviewsAlways, PTL

-----------------------------------------------------------------------------
(* What no step does *)

\* The verdict of an order changes only in a step of its review.
LEMMA VerdictWriters ==
  ASSUME Grounded, [Next]_vars, NEW o \in Orders, verdict'[o] # verdict[o]
  PROVE  ReviewStep(o)
<1> USE DEF workVars, reviewVars, roundVars
<1>1. ASSUME NEW p \in Orders, OfficerStep(p)
      PROVE  FALSE
  BY <1>1 DEF OfficerStep, Approve, MayApprove, Reject, Escalate, Assign, Reassign
<1>2. ASSUME NEW p \in Orders, ReviewStep(p)
      PROVE  ReviewStep(o)
  BY <1>2, ReviewGrounded DEF Frame
<1>3. ASSUME NEW p \in Orders, NEW w \in Workers, WorkerStep(p, w)
      PROVE  FALSE
  BY <1>3 DEF WorkerStep, AcceptJob, MayAccept, CheckInAt, MayCheckIn, StartJob,
     MayStart, FinishJob, MayFinish, UploadPhoto, SubmitEvidence, MaySubmit,
     StartRework, MayRestart
<1>4. ASSUME NEW c \in Complaints, ComplaintStep(c)
      PROVE  FALSE
  BY <1>4 DEF ComplaintStep, Dispatch, Analyse, RequestEscalation
<1>5. ASSUME NEW w \in Workers, SetOnDuty(w)
      PROVE  FALSE
  BY <1>5 DEF SetOnDuty
<1>6. CASE UNCHANGED vars
  BY <1>6 DEF vars
<1>7. QED
  BY <1>1, <1>2, <1>3, <1>4, <1>5, <1>6 DEF Next

\* What a step may make of a reviewed verdict.
Kept(o) ==
  LET before == verdict[o]
      after == verdict'[o] IN
  \/ after.ticket > before.ticket
  \/ /\ after = [before EXCEPT !.by = after.by]
     /\ after.by # before.by => <<after.by, before.ticket>> \in confirming[o]

LEMMA ReviewedStays ==
  ASSUME Grounded, NEW o \in Orders, ReviewStep(o),
         verdict[o] # None, verdict[o].reviewed
  PROVE  Kept(o)
<1> USE DEF workVars, reviewVars, roundVars
<1>1. TypeOK /\ verdict[o] \in Verification
  BY VerdictOf DEF Grounded
<1>2. ASSUME verdict'[o] = verdict[o]
      PROVE  Kept(o)
  BY <1>1, <1>2 DEF Kept, Verification
<1>3. ASSUME NEW t \in running[o], NEW v \in AiVerdicts, PersistVerdict(o, t, v)
      PROVE  Kept(o)
  <2>1. CASE IsLatest(o, t)
    <3>1. verdict'[o] = [ticket |-> t, status |-> v, reviewed |-> FALSE, by |-> None]
      BY <1>1, <1>3, <2>1 DEF PersistVerdict, TypeOK
    <3>2. QED
      BY <2>1, <3>1 DEF IsLatest, Kept
  <2>2. QED
    BY <1>2, <1>3, <2>1 DEF PersistVerdict
<1>4. ASSUME NEW u \in Officers, NEW t \in Nat, RecordReview(o, u, t)
      PROVE  Kept(o)
  <2>1. CASE verdict[o].ticket = t
    <3>1. <<u, verdict[o].ticket>> \in confirming[o]
      BY <1>4, <2>1 DEF RecordReview
    <3>2. verdict'[o] = [verdict[o] EXCEPT !.reviewed = TRUE, !.by = u]
      BY <1>1, <1>4, <2>1 DEF RecordReview, TypeOK
    <3>3. verdict'[o].by = u /\ verdict'[o] = [verdict[o] EXCEPT !.by = u]
      BY <1>1, <3>2 DEF Verification
    <3>4. QED
      BY <3>1, <3>3 DEF Kept
  <2>2. QED
    BY <1>2, <1>4, <2>1 DEF RecordReview
<1>5. ASSUME \/ RunVerification(o)
             \/ \E t \in running[o] : FailRun(o, t)
             \/ \E u \in Officers, t \in Nat : LoseReview(o, u, t)
      PROVE  verdict'[o] = verdict[o]
  BY <1>5 DEF RunVerification, MayVerify, FailRun, LoseReview
<1>6. ~\E u \in Officers :
        ConfirmResolution(o, u) \/ RequireFollowup(o, u) \/ RequestRework(o, u)
  BY DEF ConfirmResolution, RequireFollowup, RequestRework, RejectEvidence,
     Reviewable
<1>7. QED
  BY <1>1, <1>2, <1>3, <1>4, <1>5, <1>6, ReviewCases

\* What a review decided is final: neither a second review, the late commit of
\* a confirmation nor an analysis that answers late changes its outcome.  The
\* signature under it may change, and only to that of an officer whose own
\* confirmation of the verdict was between its two commits.
THEOREM ReviewsAreFinal == Spec => ReviewIsFinal
<1>1. ASSUME Grounded, [Next]_vars
      PROVE  [\A o \in Orders : verdict[o] # None /\ verdict[o].reviewed =>
                Kept(o)]_vars
  <2>1. ASSUME NEW o \in Orders, verdict[o] # None, verdict[o].reviewed
        PROVE  Kept(o)
    <3>1. CASE verdict'[o] = verdict[o]
      <4>1. verdict[o] \in Verification
        BY <1>1, <2>1, VerdictOf DEF Grounded
      <4>2. QED
        BY <3>1, <4>1 DEF Kept, Verification
    <3>2. CASE verdict'[o] # verdict[o]
      BY <1>1, <2>1, <3>2, VerdictWriters, ReviewedStays
    <3>3. QED
      BY <3>1, <3>2
  <2>2. QED
    BY <2>1
<1>2. QED
  BY <1>1, GroundedAlways, PTL DEF Spec, ReviewIsFinal, Kept

\* Only an officer's, a worker's or a reviewer's step on the order moves its
\* row, and the first two refuse a COMPLETED one.
LEMMA CompletedMovers ==
  ASSUME Grounded, [Next]_vars, NEW o \in Orders, InStatus(o, {"COMPLETED"}),
         order'[o].status # "COMPLETED"
  PROVE  \E u \in Officers : RequireFollowup(o, u) \/ RequestRework(o, u)
<1> USE DEF workVars, reviewVars, roundVars
<1>0. TypeOK /\ order[o].status = "COMPLETED" /\ order[o] # None
  BY DEF Grounded, InStatus, Exists
<1>1. ASSUME NEW p \in Orders, OfficerStep(p)
      PROVE  FALSE
  <2>1. p = o
    BY <1>0, <1>1, OfficerGrounded DEF Frame
  <2>2. QED
    BY <1>0, <1>1, <2>1 DEF OfficerStep, Approve, MayApprove, Reject, Escalate,
       Assign, Reassign, MayAssign, InStatus
<1>2. ASSUME NEW p \in Orders, NEW w \in Workers, WorkerStep(p, w)
      PROVE  FALSE
  <2>1. p = o
    BY <1>0, <1>2, WorkerGrounded DEF Frame
  <2>2. QED
    BY <1>0, <1>2, <2>1 DEF WorkerStep, AcceptJob, MayAccept, CheckInAt, MayCheckIn,
       StartJob, MayStart, FinishJob, MayFinish, UploadPhoto, SubmitEvidence,
       MaySubmit, StartRework, MayRestart, InStatus
<1>3. ASSUME NEW p \in Orders, ReviewStep(p)
      PROVE  \E u \in Officers : RequireFollowup(o, u) \/ RequestRework(o, u)
  <2>1. p = o
    BY <1>0, <1>3, ReviewGrounded DEF Frame
  <2>2. order' # order
    BY <1>0
  <2>3. ASSUME NEW u \in Officers, ConfirmResolution(o, u)
        PROVE  FALSE
    <3>1. order[o] \in OrderRow
      BY <1>0, RowOf DEF Exists
    <3>2. order'[o].status = "COMPLETED"
      BY <1>0, <2>3, <3>1 DEF ConfirmResolution, TypeOK, OrderRow
    <3>3. QED
      BY <3>2
  <2>4. QED
    BY <1>0, <1>3, <2>1, <2>2, <2>3, ReviewCases DEF RunVerification, MayVerify, FailRun,
       PersistVerdict, RecordReview, LoseReview
<1>4. ASSUME NEW c \in Complaints, ComplaintStep(c)
      PROVE  FALSE
  <2>1. ASSUME NEW p \in Orders, Dispatch(p, c)
        PROVE  FALSE
    <3>1. p = o
      BY <1>0, <2>1, DispatchGrounded DEF Frame
    <3>2. QED
      BY <1>0, <2>1, <3>1 DEF Dispatch, Exists
  <2>2. QED
    BY <1>0, <1>4, <2>1 DEF ComplaintStep, Analyse, RequestEscalation
<1>5. ASSUME NEW w \in Workers, SetOnDuty(w)
      PROVE  FALSE
  BY <1>0, <1>5 DEF SetOnDuty
<1>6. CASE UNCHANGED vars
  BY <1>0, <1>6 DEF vars
<1>7. QED
  BY <1>1, <1>2, <1>3, <1>4, <1>5, <1>6 DEF Next

LEMMA TurnedDown ==
  ASSUME Grounded, NEW o \in Orders, NEW u \in Officers,
         RequireFollowup(o, u) \/ RequestRework(o, u)
  PROVE  /\ round'[o] = round[o] + 1
         /\ verdict'[o].status = "NOT_RESOLVED" /\ verdict'[o].reviewed
         /\ complaint'[order[o].complaint] = "IN_PROGRESS"
<1>1. TypeOK /\ RejectEvidence(o, u)
  BY DEF Grounded, RequireFollowup, RequestRework
<1>2. verdict[o] \in Verification /\ order[o] \in OrderRow
  BY <1>1, VerdictOf, RowOf DEF RejectEvidence, Reviewable, InStatus
<1>3. verdict'[o] = [verdict[o] EXCEPT !.status = "NOT_RESOLVED",
                                       !.reviewed = TRUE, !.by = u]
  BY <1>1 DEF RejectEvidence, TypeOK
<1>4. verdict'[o].status = "NOT_RESOLVED" /\ verdict'[o].reviewed
  BY <1>2, <1>3 DEF Verification
<1>5. order[o].complaint \in Complaints
  BY <1>2 DEF OrderRow
<1>6. complaint'[order[o].complaint] = "IN_PROGRESS"
  BY <1>1, <1>5 DEF RejectEvidence, ComplaintInProgress, TypeOK
<1>7. round'[o] = round[o] + 1
  BY <1>1 DEF RejectEvidence, TypeOK
<1>8. QED
  BY <1>4, <1>6, <1>7

\* A certification is undone only by a reviewer who turns down the latest
\* verdict, and the citizen's complaint is reopened with it.
THEOREM CertificationsAreUndoneByReview == Spec => CertificationUndoneByReview
<1>1. ASSUME Grounded, [Next]_vars
      PROVE  [\A o \in Orders :
                InStatus(o, {"COMPLETED"}) /\ order'[o].status # "COMPLETED" =>
                  /\ round'[o] = round[o] + 1
                  /\ verdict'[o].status = "NOT_RESOLVED" /\ verdict'[o].reviewed
                  /\ complaint'[order[o].complaint] = "IN_PROGRESS"]_vars
  BY <1>1, CompletedMovers, TurnedDown
<1>2. QED
  BY <1>1, GroundedAlways, PTL DEF Spec, CertificationUndoneByReview

-----------------------------------------------------------------------------
(* WorkOrder implements Resolution for every value of the constants, and   *)
(* with it a resolved complaint always has a certified order of its own.   *)

-----------------------------------------------------------------------------
(* The mapped state *)

LEMMA StageOf ==
  ASSUME NEW o \in Orders
  PROVE  stageBar[o] = Stage(o) /\ DOMAIN stageBar = Orders
BY DEF stageBar

LEMMA StageFrame ==
  ASSUME NEW o \in Orders, Frame(o)
  PROVE  stageBar' = [stageBar EXCEPT ![o] = Stage(o)']
BY DEF Frame, stageBar, Stage, Exists, InStatus

LEMMA StageKept ==
  ASSUME NEW o \in Orders, Frame(o), Stage(o)' = Stage(o)
  PROVE  UNCHANGED stageBar
<1>1. ASSUME NEW p \in Orders \ {o}
      PROVE  Stage(p)' = Stage(p)
  BY <1>1 DEF Frame, Stage, Exists, InStatus
<1>2. QED
  BY <1>1 DEF stageBar

\* A row keeps its complaint once it exists.
LEMMA SameOf ==
  ASSUME NEW o \in Orders, Frame(o), Exists(o), Exists(o)',
         order'[o].complaint = order[o].complaint
  PROVE  UNCHANGED ofBar
BY DEF Frame, ofBar, Exists

LEMMA SameAssessed ==
  ASSUME NEW o \in Orders, Frame(o), verdict[o] # None <=> verdict'[o] # None
  PROVE  UNCHANGED assessedBar
BY DEF Frame, assessedBar

LEMMA TakenUp ==
  ASSUME TypeOK, NEW c \in Complaints, NEW s \in ComplaintStatus \ {"RESOLVED"},
         complaint' = [complaint EXCEPT ![c] = s]
  PROVE  resolvedBar' = resolvedBar \ {c}
BY DEF TypeOK, resolvedBar

\* A step that keeps every stage may take the complaint up, or do nothing.
LEMMA KeptStages ==
  ASSUME UNCHANGED <<stageBar, ofBar, assessedBar>>,
         \/ UNCHANGED resolvedBar
         \/ \E c \in Complaints : resolvedBar' = resolvedBar \ {c}
  PROVE  [Promise!Next]_(Promise!vars)
BY DEF Promise!Next, Promise!vars, Promise!TakeUp

-----------------------------------------------------------------------------
(* Every step is a step of the promise, or a stutter *)

\* A step that leads an order that is a draft or open to an open one.
LEMMA Commissioned ==
  ASSUME NEW o \in Orders, Frame(o), Stage(o) \in {"draft", "open"},
         Stage(o)' = "open", UNCHANGED <<ofBar, assessedBar, resolvedBar>>
  PROVE  [Promise!Next]_(Promise!vars)
<1>1. stageBar' = [stageBar EXCEPT ![o] = "open"] /\ stageBar[o] = Stage(o)
  BY StageFrame, StageOf
<1>2. CASE Stage(o) = "draft"
  BY <1>1, <1>2 DEF Promise!Next, Promise!Commission, Promise!Move
<1>3. CASE Stage(o) = "open"
  <2>1. UNCHANGED stageBar
    BY <1>3, StageKept
  <2>2. QED
    BY <2>1, KeptStages
<1>4. QED
  BY <1>2, <1>3

LEMMA OfficerPromise ==
  ASSUME Grounded, NEW o \in Orders, OfficerStep(o)
  PROVE  [Promise!Next]_(Promise!vars)
<1> USE DEF workVars, reviewVars, roundVars
<1>0. TypeOK /\ Frame(o)
  BY OfficerGrounded DEF Grounded
<1>1. order[o] \in OrderRow /\ Exists(o)
  BY <1>0, RowOf DEF OfficerStep, Approve, MayApprove, Reject, Escalate, Assign,
     Reassign, MayAssign, InStatus
<1>2. order'[o] \in OrderRow /\ order'[o].complaint = order[o].complaint
  <2>1. CASE Approve(o)
    BY <1>0, <1>1, <2>1 DEF Approve, MayApprove, TypeOK, OrderRow, OrderStatus
  <2>2. CASE Escalate(o)
    BY <1>0, <1>1, <2>2 DEF Escalate, TypeOK, OrderRow, OrderStatus
  <2>3. CASE Reject(o)
    BY <1>0, <1>1, <2>3 DEF Reject, TypeOK, OrderRow, OrderStatus
  <2>4. ASSUME NEW w \in Workers, Assign(o, w) \/ Reassign(o, w)
        PROVE  order'[o] \in OrderRow /\ order'[o].complaint = order[o].complaint
    <3>1. order' = [order EXCEPT ![o].worker = w, ![o].status = "ASSIGNED"]
      BY <2>4 DEF Assign, Reassign
    <3>2. QED
      BY <1>0, <1>1, <3>1 DEF TypeOK, OrderRow, OrderStatus
  <2>5. QED
    BY <2>1, <2>2, <2>3, <2>4 DEF OfficerStep
<1>3. Exists(o)'
  BY <1>2, NoneAssumption DEF Exists
<1>4. UNCHANGED <<complaint, verdict>>
  BY DEF OfficerStep, Approve, MayApprove, Reject, Escalate, Assign, Reassign
<1>5. UNCHANGED <<ofBar, assessedBar, resolvedBar>>
  BY <1>0, <1>1, <1>2, <1>3, <1>4, SameOf, SameAssessed DEF resolvedBar
<1>6. CASE Reject(o)
  <2>1. Stage(o) = "draft" /\ Stage(o)' = "refused"
    BY <1>0, <1>1, <1>3, <1>6 DEF Reject, Stage, InStatus, TypeOK, OrderRow
  <2>2. QED
    BY <1>0, <1>5, <2>1, StageFrame, StageOf DEF Promise!Next, Promise!Refuse,
       Promise!Move
<1>7. ASSUME \/ Approve(o) \/ Escalate(o)
             \/ \E w \in Workers : Assign(o, w) \/ Reassign(o, w)
      PROVE  [Promise!Next]_(Promise!vars)
  <2>1. Stage(o) \in {"draft", "open"}
    BY <1>1, <1>7 DEF Approve, MayApprove, Escalate, Assign, Reassign, MayAssign,
       Stage, InStatus
  <2>2. order'[o].status \in {"ASSIGNED", "ESCALATED"}
    <3>1. CASE Approve(o)
      BY <1>0, <1>1, <3>1 DEF Approve, MayApprove, TypeOK, OrderRow
    <3>2. CASE Escalate(o)
      BY <1>0, <1>1, <3>2 DEF Escalate, TypeOK, OrderRow
    <3>3. ASSUME NEW w \in Workers, Assign(o, w) \/ Reassign(o, w)
          PROVE  order'[o].status = "ASSIGNED"
      <4>1. order' = [order EXCEPT ![o].worker = w, ![o].status = "ASSIGNED"]
        BY <3>3 DEF Assign, Reassign
      <4>2. QED
        BY <1>0, <1>1, <4>1 DEF TypeOK, OrderRow
    <3>4. QED
      BY <1>7, <3>1, <3>2, <3>3
  <2>3. Stage(o)' = "open"
    BY <1>3, <2>2 DEF Stage, InStatus
  <2>4. QED
    BY <1>0, <1>5, <2>1, <2>3, Commissioned
<1>8. QED
  BY <1>6, <1>7 DEF OfficerStep

LEMMA WorkerPromise ==
  ASSUME Grounded, NEW o \in Orders, NEW w \in Workers, WorkerStep(o, w)
  PROVE  [Promise!Next]_(Promise!vars)
<1> USE DEF workVars, reviewVars, roundVars
<1>0. TypeOK /\ Frame(o) /\ OrderGrounded(o)
  BY GroundedByOrder, WorkerGrounded DEF Grounded
<1>1. order[o] \in OrderRow /\ Exists(o)
  BY <1>0, RowOf DEF WorkerStep, AcceptJob, MayAccept, CheckInAt, MayCheckIn,
     StartJob, MayStart, FinishJob, MayFinish, UploadPhoto, SubmitEvidence,
     MaySubmit, StartRework, MayRestart, Holds
<1>2. UNCHANGED verdict
  BY DEF WorkerStep, AcceptJob, MayAccept, CheckInAt, MayCheckIn, StartJob,
     MayStart, FinishJob, MayFinish, UploadPhoto, SubmitEvidence, MaySubmit,
     StartRework, MayRestart
<1>3. UNCHANGED assessedBar
  BY <1>2 DEF assessedBar
<1>4. \/ UNCHANGED resolvedBar
      \/ \E c \in Complaints : resolvedBar' = resolvedBar \ {c}
  <2>1. CASE UNCHANGED complaint
    BY <2>1 DEF resolvedBar
  <2>2. CASE ComplaintInProgress(o)
    <3>1. order[o].complaint \in Complaints
      BY <1>1 DEF OrderRow
    <3>2. resolvedBar' = resolvedBar \ {order[o].complaint}
      BY <1>0, <2>2, <3>1, TakenUp DEF ComplaintInProgress, ComplaintStatus
    <3>3. QED
      BY <3>1, <3>2
  <2>3. QED
    BY <2>1, <2>2 DEF WorkerStep, AcceptJob, MayAccept, CheckInAt, MayCheckIn,
       StartJob, MayStart, FinishJob, MayFinish, UploadPhoto, SubmitEvidence,
       MaySubmit, StartRework, MayRestart
<1>5. CASE UNCHANGED order
  <2>1. UNCHANGED <<stageBar, ofBar>>
    BY <1>5 DEF stageBar, Stage, Exists, InStatus, ofBar
  <2>2. QED
    BY <1>3, <1>4, <2>1, KeptStages
<1>6. ASSUME \/ AcceptJob(o, w) \/ StartJob(o, w) \/ FinishJob(o, w)
             \/ SubmitEvidence(o, w) \/ StartRework(o, w)
      PROVE  [Promise!Next]_(Promise!vars)
  <2>1. order[o].status \in {"ASSIGNED", "IN_PROGRESS", "WORK_COMPLETED",
                             "EVIDENCE_SUBMITTED", "RETURNED_FOR_REWORK"}
    <3>1. StartJob(o, w) => order[o].status \in {"ASSIGNED", "IN_PROGRESS"}
      <4>1. StartJob(o, w) => ~Waiting(o)
        BY <1>0 DEF StartJob, MayStart, OrderGrounded, Untouched, HasCheckIn,
           Waiting, InStatus
      <4>2. QED
        BY <1>1, <4>1 DEF StartJob, MayStart, Waiting, InStatus, OrderRow,
           OrderStatus
    <3>2. QED
      BY <1>6, <3>1 DEF AcceptJob, MayAccept, FinishJob, MayFinish, SubmitEvidence,
         MaySubmit, StartRework, MayRestart, InStatus
  <2>2. /\ order'[o] \in OrderRow
        /\ order'[o].complaint = order[o].complaint
        /\ order'[o].status \in {"ASSIGNED", "IN_PROGRESS", "WORK_COMPLETED",
                                 "EVIDENCE_SUBMITTED"}
    <3>1. CASE AcceptJob(o, w)
      BY <1>0, <1>1, <3>1 DEF AcceptJob, MayAccept, TypeOK, OrderRow, InStatus
    <3>2. CASE StartJob(o, w)
      BY <1>0, <1>1, <3>2 DEF StartJob, MayStart, TypeOK, OrderRow, OrderStatus
    <3>3. CASE FinishJob(o, w)
      BY <1>0, <1>1, <3>3 DEF FinishJob, MayFinish, TypeOK, OrderRow, OrderStatus
    <3>4. CASE SubmitEvidence(o, w)
      BY <1>0, <1>1, <3>4 DEF SubmitEvidence, MaySubmit, TypeOK, OrderRow,
         OrderStatus
    <3>5. CASE StartRework(o, w)
      BY <1>0, <1>1, <3>5 DEF StartRework, MayRestart, TypeOK, OrderRow, OrderStatus
    <3>6. QED
      BY <1>6, <3>1, <3>2, <3>3, <3>4, <3>5
  <2>3. Exists(o)'
    BY <2>2, NoneAssumption DEF Exists
  <2>4. Stage(o) = "open" /\ Stage(o)' = "open"
    BY <1>1, <2>1, <2>2, <2>3 DEF Stage, InStatus
  <2>5. UNCHANGED <<stageBar, ofBar>>
    BY <1>0, <1>1, <2>2, <2>3, <2>4, StageKept, SameOf
  <2>6. QED
    BY <1>3, <1>4, <2>5, KeptStages
<1>7. QED
  BY <1>5, <1>6 DEF WorkerStep, CheckInAt, MayCheckIn, UploadPhoto

LEMMA ReviewPromise ==
  ASSUME Grounded, NEW o \in Orders, ReviewStep(o)
  PROVE  [Promise!Next]_(Promise!vars)
<1> USE DEF workVars, reviewVars, roundVars
<1>0. TypeOK /\ Frame(o) /\ OrderGrounded(o) /\ OrderGrounded(o)'
  BY GroundedByOrder, ReviewGrounded DEF Grounded
<1>1. CASE UNCHANGED <<order, complaint>> /\ UNCHANGED assessedBar
  <2>1. UNCHANGED <<stageBar, ofBar, resolvedBar>>
    BY <1>1 DEF stageBar, Stage, Exists, InStatus, ofBar, resolvedBar
  <2>2. QED
    BY <1>1, <2>1, KeptStages
<1>2. ASSUME \/ RunVerification(o)
             \/ \E t \in running[o] : FailRun(o, t)
             \/ \E u \in Officers, t \in Nat : LoseReview(o, u, t)
      PROVE  [Promise!Next]_(Promise!vars)
  <2>1. UNCHANGED <<order, complaint, verdict>>
    BY <1>2 DEF RunVerification, MayVerify, FailRun, LoseReview
  <2>2. QED
    BY <1>1, <2>1 DEF assessedBar
<1>3. ASSUME NEW u \in Officers, NEW t \in Nat, RecordReview(o, u, t)
      PROVE  [Promise!Next]_(Promise!vars)
  <2>1. verdict[o] \in Verification /\ verdict[o] # None
    BY <1>0, <1>3, VerdictOf DEF RecordReview, OrderGrounded
  <2>2. [verdict[o] EXCEPT !.reviewed = TRUE, !.by = u] # None
    <3>1. [verdict[o] EXCEPT !.reviewed = TRUE, !.by = u] \in Verification
      BY <2>1 DEF Verification
    <3>2. QED
      BY <3>1, NoneAssumption
  <2>3. verdict'[o] # None
    BY <1>0, <1>3, <2>1, <2>2 DEF RecordReview, TypeOK
  <2>4. QED
    BY <1>0, <1>1, <1>3, <2>1, <2>3, SameAssessed DEF RecordReview
<1>4. ASSUME NEW t \in running[o], NEW v \in AiVerdicts, PersistVerdict(o, t, v)
      PROVE  [Promise!Next]_(Promise!vars)
  <2>1. UNCHANGED <<order, complaint>>
    BY <1>4 DEF PersistVerdict
  <2>2. ~Waiting(o)
    BY <1>0 DEF OrderGrounded, Untouched
  <2>3. Stage(o) \in {"open", "done"}
    BY <2>2 DEF Waiting, Stage, InStatus
  <2>4. verdict'[o] # None
    <3>1. t \in Nat /\ v \in Verdict
      BY <1>0, AiAssumption DEF TypeOK, Verdict
    <3>2. [ticket |-> t, status |-> v, reviewed |-> FALSE, by |-> None] \in Verification
      BY <3>1 DEF Verification
    <3>3. [ticket |-> t, status |-> v, reviewed |-> FALSE, by |-> None] # None
      BY <3>2, NoneAssumption
    <3>4. QED
      BY <1>0, <1>4, <3>3 DEF PersistVerdict, IsLatest, TypeOK
  <2>5. assessedBar' = assessedBar \cup {o}
    BY <1>0, <2>4 DEF assessedBar, Frame
  <2>6. UNCHANGED <<stageBar, ofBar, resolvedBar>>
    BY <2>1 DEF stageBar, Stage, Exists, InStatus, ofBar, resolvedBar
  <2>7. QED
    BY <2>3, <2>5, <2>6, StageOf DEF Promise!Next, Promise!Assess
<1>5. ASSUME NEW u \in Officers,
             ConfirmResolution(o, u) \/ RequireFollowup(o, u) \/ RequestRework(o, u)
      PROVE  [Promise!Next]_(Promise!vars)
  <2>1. verdict[o] \in Verification /\ ~Waiting(o) /\ verdict[o] # None
    BY <1>0, <1>5, VerdictOf DEF OrderGrounded, Untouched, Reviewable,
       ConfirmResolution, RequireFollowup, RequestRework, RejectEvidence
  <2>2. order[o] \in OrderRow /\ Exists(o) /\ order[o].complaint \in Complaints
    BY <1>0, <2>1, RowOf DEF Waiting, OrderRow
  <2>3. o \in assessedBar /\ stageBar[o] \in {"open", "done"}
        /\ ofBar[o] = order[o].complaint
    BY <2>1, <2>2, StageOf DEF assessedBar, Waiting, Stage, InStatus, ofBar
  <2>4. CASE ConfirmResolution(o, u)
    <3>1. /\ order'[o] \in OrderRow /\ order'[o].status = "COMPLETED"
          /\ order'[o].complaint = order[o].complaint
      BY <1>0, <2>2, <2>4 DEF ConfirmResolution, TypeOK, OrderRow, OrderStatus
    <3>2. Exists(o)' /\ Stage(o)' = "done"
      BY <3>1, NoneAssumption DEF Exists, Stage, InStatus
    <3>3. [verdict[o] EXCEPT !.status = "VERIFIED"] \in Verification
      BY <2>1 DEF Verification, Verdict
    <3>4. verdict'[o] # None
      BY <1>0, <2>4, <3>3, NoneAssumption DEF ConfirmResolution, TypeOK
    <3>5. UNCHANGED <<ofBar, assessedBar>>
      BY <1>0, <2>1, <2>2, <3>1, <3>2, <3>4, SameOf, SameAssessed
    <3>6. resolvedBar' = resolvedBar \cup {ofBar[o]}
      BY <1>0, <2>2, <2>3, <2>4 DEF ConfirmResolution, TypeOK, resolvedBar
    <3>7. QED
      BY <1>0, <2>3, <3>2, <3>5, <3>6, StageFrame DEF Promise!Next,
         Promise!Certify, Promise!Move
  <2>5. CASE RequireFollowup(o, u) \/ RequestRework(o, u)
    <3>0. RejectEvidence(o, u)
      BY <2>5 DEF RequireFollowup, RequestRework
    <3>1. /\ order'[o] \in OrderRow
          /\ order'[o].status \in {"IN_PROGRESS", "RETURNED_FOR_REWORK"}
          /\ order'[o].complaint = order[o].complaint
      <4>1. CASE RequireFollowup(o, u)
        BY <1>0, <2>2, <4>1 DEF RequireFollowup, TypeOK, OrderRow, OrderStatus
      <4>2. CASE RequestRework(o, u)
        BY <1>0, <2>2, <4>2 DEF RequestRework, TypeOK, OrderRow, OrderStatus
      <4>3. QED
        BY <2>5, <4>1, <4>2
    <3>2. Exists(o)' /\ Stage(o)' = "open"
      BY <3>1, NoneAssumption DEF Exists, Stage, InStatus
    <3>3. [verdict[o] EXCEPT !.status = "NOT_RESOLVED", !.reviewed = TRUE, !.by = u]
            \in Verification
      BY <2>1 DEF Verification, Verdict
    <3>4. verdict'[o] # None
      BY <1>0, <3>0, <3>3, NoneAssumption DEF RejectEvidence, TypeOK
    <3>5. UNCHANGED <<ofBar, assessedBar>>
      BY <1>0, <2>1, <2>2, <3>1, <3>2, <3>4, SameOf, SameAssessed
    <3>6. resolvedBar' = resolvedBar \ {ofBar[o]}
      BY <1>0, <2>2, <2>3, <3>0, TakenUp DEF RejectEvidence,
         ComplaintInProgress, ComplaintStatus
    <3>7. QED
      BY <1>0, <2>3, <3>2, <3>5, <3>6, StageFrame DEF Promise!Next,
         Promise!Reopen, Promise!Move
  <2>6. QED
    BY <1>5, <2>4, <2>5
<1>6. QED
  BY <1>0, <1>2, <1>3, <1>4, <1>5, ReviewCases

LEMMA ComplaintPromise ==
  ASSUME Grounded, NEW c \in Complaints, ComplaintStep(c)
  PROVE  [Promise!Next]_(Promise!vars)
<1> USE DEF workVars, reviewVars, roundVars
<1>0. TypeOK
  BY DEF Grounded
<1>1. ASSUME NEW o \in Orders, Dispatch(o, c)
      PROVE  [Promise!Next]_(Promise!vars)
  <2>1. Frame(o) /\ ~Exists(o) /\ UNCHANGED <<verdict, complaint>>
    BY <1>1, DispatchGrounded DEF Dispatch
  <2>2. PICK w \in Workers \cup {None} :
          order' = [order EXCEPT ![o] =
            [complaint |-> c, status |-> "PENDING_APPROVAL", worker |-> w,
             recommended |-> w, accepted |-> FALSE, completed |-> FALSE,
             submitted |-> FALSE]]
    BY <1>0, <1>1 DEF Dispatch, Recommendable, TypeOK
  <2>3. /\ order'[o].status = "PENDING_APPROVAL" /\ order'[o].complaint = c
        /\ order'[o] \in OrderRow
    BY <1>0, <2>2 DEF TypeOK, OrderRow, OrderStatus
  <2>4. Exists(o)' /\ Stage(o) = "none" /\ Stage(o)' = "draft"
    BY <2>1, <2>3, NoneAssumption DEF Exists, Stage, InStatus
  <2>5. ofBar' = [ofBar EXCEPT ![o] = c]
    BY <2>1, <2>3, <2>4 DEF ofBar, Exists, Frame
  <2>6. UNCHANGED <<assessedBar, resolvedBar>>
    BY <2>1 DEF assessedBar, resolvedBar
  <2>7. QED
    BY <2>1, <2>4, <2>5, <2>6, StageFrame, StageOf DEF Promise!Next,
       Promise!Draft, Promise!Move
<1>2. CASE RequestEscalation(c) \/ \E s \in Analysed : Analyse(c, s)
  <2>1. UNCHANGED <<order, verdict>>
    BY <1>2 DEF RequestEscalation, Analyse
  <2>2. UNCHANGED <<stageBar, ofBar, assessedBar>>
    BY <2>1 DEF stageBar, Stage, Exists, InStatus, ofBar, assessedBar
  <2>3. PICK s \in {"ESCALATED", "PRIORITIZED", "EVIDENCE_VERIFIED"} :
          complaint' = [complaint EXCEPT ![c] = s]
    BY <1>2, AiAssumption DEF RequestEscalation, Analyse
  <2>4. resolvedBar' = resolvedBar \ {c}
    BY <1>0, <2>3, TakenUp DEF ComplaintStatus
  <2>5. QED
    BY <2>2, <2>4, KeptStages
<1>3. QED
  BY <1>1, <1>2 DEF ComplaintStep

LEMMA PromiseInit == Init => Promise!Init
<1> SUFFICES ASSUME Init
             PROVE  Promise!Init
  OBVIOUS
<1>1. stageBar = [o \in Orders |-> "none"]
  <2>1. ASSUME NEW o \in Orders
        PROVE  Stage(o) = "none"
    <3>1. ~Exists(o)
      BY DEF Init, Exists
    <3>2. QED
      BY <3>1 DEF Stage, InStatus
  <2>2. QED
    BY <2>1 DEF stageBar
<1>2. ofBar = [o \in Orders |-> None] /\ assessedBar = {} /\ resolvedBar = {}
  BY DEF Init, ofBar, Exists, assessedBar, resolvedBar
<1>3. QED
  BY <1>1, <1>2 DEF Promise!Init

LEMMA PromiseNext == Grounded /\ [Next]_vars => [Promise!Next]_(Promise!vars)
<1> SUFFICES ASSUME Grounded, [Next]_vars
             PROVE  [Promise!Next]_(Promise!vars)
  OBVIOUS
<1>1. ASSUME UNCHANGED <<order, complaint, verdict>>
      PROVE  [Promise!Next]_(Promise!vars)
  <2>1. UNCHANGED <<stageBar, ofBar, assessedBar, resolvedBar>>
    BY <1>1 DEF stageBar, Stage, Exists, InStatus, ofBar, assessedBar,
       resolvedBar
  <2>2. QED
    BY <2>1, KeptStages
<1>2. ASSUME NEW w \in Workers, SetOnDuty(w)
      PROVE  [Promise!Next]_(Promise!vars)
  BY <1>1, <1>2 DEF SetOnDuty, reviewVars
<1>3. CASE UNCHANGED vars
  BY <1>1, <1>3 DEF vars
<1>4. ASSUME NEW o \in Orders, OfficerStep(o) \/ ReviewStep(o)
      PROVE  [Promise!Next]_(Promise!vars)
  BY <1>4, OfficerPromise, ReviewPromise
<1>5. ASSUME NEW o \in Orders, NEW w \in Workers, WorkerStep(o, w)
      PROVE  [Promise!Next]_(Promise!vars)
  BY <1>5, WorkerPromise
<1>6. ASSUME NEW c \in Complaints, ComplaintStep(c)
      PROVE  [Promise!Next]_(Promise!vars)
  BY <1>6, ComplaintPromise
<1>7. QED
  BY <1>2, <1>3, <1>4, <1>5, <1>6 DEF Next

\* Whatever officers, workers, agents and citizens do, they do what Resolution
\* promises: a complaint is resolved by certifying a commissioned and assessed
\* order of its own, and reopening the order reopens the complaint.
THEOREM HandlersKeepThePromise == Spec => ImplementsResolution
BY PromiseInit, PromiseNext, GroundedAlways, PTL
   DEF Spec, ImplementsResolution, Promise!Spec

-----------------------------------------------------------------------------
(* Resolved complaints are backed *)

LEMMA BackedNext ==
  Promise!Backed /\ [Promise!Next]_(Promise!vars) => Promise!Backed'
<1> SUFFICES ASSUME Promise!Backed, [Promise!Next]_(Promise!vars),
                    NEW c \in resolvedBar'
             PROVE  \E o \in Orders :
                      ofBar'[o] = c /\ stageBar'[o] = "done" /\ o \in assessedBar'
  BY DEF Promise!Backed
<1>0. DOMAIN stageBar = Orders /\ DOMAIN ofBar = Orders
  BY DEF stageBar, ofBar
<1>1. ASSUME UNCHANGED <<stageBar, ofBar>>, assessedBar \subseteq assessedBar',
             resolvedBar' \subseteq resolvedBar
      PROVE  \E o \in Orders :
               ofBar'[o] = c /\ stageBar'[o] = "done" /\ o \in assessedBar'
  BY <1>1 DEF Promise!Backed
<1>2. ASSUME NEW o \in Orders, NEW d \in Complaints, Promise!Draft(o, d)
      PROVE  \E p \in Orders :
               ofBar'[p] = c /\ stageBar'[p] = "done" /\ p \in assessedBar'
  BY <1>0, <1>2 DEF Promise!Draft, Promise!Move, Promise!Backed
<1>3. ASSUME NEW o \in Orders, Promise!Refuse(o) \/ Promise!Commission(o)
      PROVE  \E p \in Orders :
               ofBar'[p] = c /\ stageBar'[p] = "done" /\ p \in assessedBar'
  BY <1>0, <1>3 DEF Promise!Refuse, Promise!Commission, Promise!Move,
     Promise!Backed
<1>4. ASSUME NEW o \in Orders, Promise!Certify(o)
      PROVE  \E p \in Orders :
               ofBar'[p] = c /\ stageBar'[p] = "done" /\ p \in assessedBar'
  BY <1>0, <1>4 DEF Promise!Certify, Promise!Move, Promise!Backed
<1>5. ASSUME NEW o \in Orders, Promise!Reopen(o)
      PROVE  \E p \in Orders :
               ofBar'[p] = c /\ stageBar'[p] = "done" /\ p \in assessedBar'
  BY <1>0, <1>5 DEF Promise!Reopen, Promise!Move, Promise!Backed
<1>6. ASSUME NEW o \in Orders, Promise!Assess(o)
      PROVE  \E p \in Orders :
               ofBar'[p] = c /\ stageBar'[p] = "done" /\ p \in assessedBar'
  BY <1>1, <1>6 DEF Promise!Assess
<1>7. ASSUME NEW d \in Complaints, Promise!TakeUp(d)
      PROVE  \E p \in Orders :
               ofBar'[p] = c /\ stageBar'[p] = "done" /\ p \in assessedBar'
  BY <1>1, <1>7 DEF Promise!TakeUp
<1>8. CASE UNCHANGED Promise!vars
  BY <1>1, <1>8 DEF Promise!vars
<1>9. QED
  BY <1>2, <1>3, <1>4, <1>5, <1>6, <1>7, <1>8 DEF Promise!Next

LEMMA BackedInit == Promise!Init => Promise!Backed
BY DEF Promise!Init, Promise!Backed

\* A citizen who reads RESOLVED can be shown a certified order of the
\* complaint, however many orders serve it.
THEOREM ResolvedComplaintsAreBacked == Spec => []ResolvedIsBacked
<1>1. Promise!Backed => ResolvedIsBacked
  <2> SUFFICES ASSUME Promise!Backed, NEW c \in Complaints,
                      complaint[c] = "RESOLVED"
               PROVE  \E o \in Orders :
                        InStatus(o, {"COMPLETED"}) /\ order[o].complaint = c
    BY DEF ResolvedIsBacked
  <2>1. PICK o \in Orders : ofBar[o] = c /\ stageBar[o] = "done"
    BY DEF Promise!Backed, resolvedBar
  <2>2. InStatus(o, {"COMPLETED"})
    BY <2>1, StageOf DEF Stage
  <2>3. QED
    BY <2>1, <2>2 DEF ofBar, InStatus
<1>2. QED
  BY <1>1, BackedInit, BackedNext, HandlersKeepThePromise, PTL
     DEF ImplementsResolution, Promise!Spec

-----------------------------------------------------------------------------
(* The screens.  People act through them, and what they act on is the work *)
(* order: every theorem above holds of ScreenSpec.                         *)

\* Nobody has started on the order, and nothing came of it.
Pristine(o) ==
  /\ stamp[o] = [started |-> None, completed |-> None, submitted |-> None]
  /\ reviewedAt[o] = None /\ reworkAt[o] = 0
  /\ verdict[o] = None /\ running[o] = {} /\ confirming[o] = {}
  /\ ~InStatus(o, {"IN_PROGRESS", "WORK_COMPLETED", "EVIDENCE_SUBMITTED", "COMPLETED",
                   "RETURNED_FOR_REWORK"})

\* What the page makes of the records of an order under work is what its status says.
Worked(o) ==
  /\ InStatus(o, {"IN_PROGRESS", "WORK_COMPLETED", "EVIDENCE_SUBMITTED", "COMPLETED",
                  "RETURNED_FOR_REWORK", "ESCALATED"})
  /\ order[o].accepted
  /\ InStatus(o, {"IN_PROGRESS", "WORK_COMPLETED"}) =>
       CheckedIn(o) /\ Started(o) /\ ~Within(o, stamp[o].submitted)
  /\ InStatus(o, {"IN_PROGRESS", "RETURNED_FOR_REWORK"}) => ~Finished(o)
  /\ InStatus(o, {"WORK_COMPLETED"}) => Finished(o)
  /\ InStatus(o, {"RETURNED_FOR_REWORK"}) => Reworking(o) /\ ~Started(o)

\* Records are of rounds there have been.
Rounds(o) == 0..round[o] \cup {None}
RecordsFit(o) ==
  /\ round[o] \in 0..MaxRounds /\ reworkAt[o] \in 0..round[o]
  /\ did[o] \subseteq [kind : {"START_WORK", "START_REWORK", "FINISH_WORK"}, round : 0..round[o]]
  /\ stamp[o] \in [started : Rounds(o), completed : Rounds(o), submitted : Rounds(o)]
  /\ reviewedAt[o] \in Rounds(o)

OrderShown(o) ==
  /\ RecordsFit(o)
  /\ InStatus(o, {"EVIDENCE_SUBMITTED"}) => HasEvidence(o)
  /\ o \notin disturbed => IF did[o] = {} THEN Pristine(o) ELSE Worked(o)

\* A review a page may know of: never one of the round that is being worked in.
Fits(o, r) ==
  /\ r \in Rounds(o)
  /\ o \notin disturbed /\ (InWorkersHands(o) \/ did[o] = {}) => ~Within(o, r)

PageSound(p) ==
  /\ p \in Page /\ Exists(p.order) /\ Fits(p.order, p.review)
  /\ p.order \notin disturbed /\ p.step \notin {None, "accept", "check-in"} => order[p.order].accepted

ScreenInv ==
  /\ ScreensTypeOK
  /\ \A o \in Orders : OrderShown(o)
  /\ \A w \in Workers : page[w] # None => PageSound(page[w])

-----------------------------------------------------------------------------
(* Nobody acts but through a handler *)

LEMMA WorkerScreenSteps ==
  ASSUME NEW o \in Orders, NEW w \in Workers
  PROVE  /\ Open(o, w) \/ Refresh(o, w) => UNCHANGED <<vars, recordVars>>
         /\ Tap(o, w) => WorkerStep(o, w)
         /\ \A cat \in Category : AttachPhoto(o, w, cat) => WorkerStep(o, w)
<1>1. Open(o, w) \/ Refresh(o, w) => UNCHANGED <<vars, recordVars>>
  BY DEF Open, Refresh
<1>2. Tap(o, w) => WorkerStep(o, w)
  BY DEF Tap, Handler, WorkerStep
<1>3. \A cat \in Category : AttachPhoto(o, w, cat) => WorkerStep(o, w)
  BY DEF AttachPhoto, WorkerStep
<1>4. QED
  BY <1>1, <1>2, <1>3

LEMMA OfficerScreenSteps ==
  ASSUME NEW o \in Orders
  PROVE  /\ Reload(o) => UNCHANGED <<vars, recordVars>>
         /\ Analyses(o) \/ EndReview(o) => ReviewStep(o)
         /\ \A b \in Button : Press(o, b) => OfficerStep(o) \/ ReviewStep(o)
<1>1. Reload(o) => UNCHANGED <<vars, recordVars>>
  BY DEF Reload
<1>2. Analyses(o) \/ EndReview(o) => ReviewStep(o)
  BY DEF Analyses, EndReview, ReviewStep
<1>3. \A b \in Button : Press(o, b) => OfficerStep(o) \/ ReviewStep(o)
  BY DEF Press, Decision, OfficerStep, ReviewStep
<1>4. QED
  BY <1>1, <1>2, <1>3

\* Whatever the pages and cards offer or show, what happens to the work orders is
\* what their handlers do: all that is proved of WorkOrder holds of the screens.
THEOREM ScreensAreWorkOrders == ScreenSpec => Spec
<1>1. ScreenInit => Init
  BY DEF ScreenInit
<1>2. [ScreenNext]_screenVars => [Next]_vars
  <2> SUFFICES ASSUME [ScreenNext]_screenVars PROVE [Next]_vars
    OBVIOUS
  <2>1. CASE UNCHANGED screenVars
    BY <2>1 DEF screenVars
  <2>2. ASSUME NEW o \in Orders, NEW w \in Workers,
               Open(o, w) \/ Refresh(o, w) \/ Tap(o, w) \/ \E cat \in Category : AttachPhoto(o, w, cat)
        PROVE  [Next]_vars
    BY <2>2, WorkerScreenSteps DEF Next
  <2>3. ASSUME NEW o \in Orders,
               Reload(o) \/ Analyses(o) \/ EndReview(o) \/ \E b \in Button : Press(o, b)
        PROVE  [Next]_vars
    BY <2>3, OfficerScreenSteps DEF Next
  <2>4. ASSUME NEW o \in Orders, NEW c \in Complaints, Draft(o, c)
        PROVE  [Next]_vars
    BY <2>4 DEF Draft, Next, ComplaintStep
  <2>5. QED
    BY <2>1, <2>2, <2>3, <2>4 DEF ScreenNext
<1>3. QED
  BY <1>1, <1>2, PTL DEF ScreenSpec, Spec

-----------------------------------------------------------------------------
(* What a step about one order keeps *)

ScreenFrame(o) ==
  \A p \in Orders \ {o} :
    /\ did'[p] = did[p] /\ stamp'[p] = stamp[p] /\ reviewedAt'[p] = reviewedAt[p]
    /\ p \in disturbed' <=> p \in disturbed

Keeps(o) ==
  /\ OrderShown(o)'
  /\ Frame(o) /\ RoundFrame(o) /\ ScreenFrame(o)
  /\ disturbed \subseteq disturbed' /\ round'[o] >= round[o]
  /\ Exists(o) => Exists(o)' /\ (order[o].accepted => order'[o].accepted)
  /\ o \notin disturbed' /\ (InWorkersHands(o)' \/ did'[o] = {}) =>
       \/ reworkAt'[o] > round[o]
       \/ reworkAt'[o] = reworkAt[o] /\ (InWorkersHands(o) \/ did[o] = {})

\* The other orders are as they were.
LEMMA KeepsOthers ==
  ASSUME NEW o \in Orders, Keeps(o), NEW p \in Orders, p # o
  PROVE  /\ OrderShown(p) => OrderShown(p)'
         /\ \A r : Fits(p, r) => Fits(p, r)'
         /\ order'[p] = order[p]
<1>1. /\ order'[p] = order[p] /\ checkIns'[p] = checkIns[p] /\ running'[p] = running[p]
      /\ verdict'[p] = verdict[p] /\ confirming'[p] = confirming[p]
      /\ photo'[p] = photo[p] /\ round'[p] = round[p] /\ reworkAt'[p] = reworkAt[p]
      /\ did'[p] = did[p] /\ stamp'[p] = stamp[p] /\ reviewedAt'[p] = reviewedAt[p]
      /\ p \in disturbed' <=> p \in disturbed
  BY DEF Keeps, Frame, RoundFrame, ScreenFrame
<1>2. Rounds(p)' = Rounds(p) /\ \A S : InStatus(p, S)' <=> InStatus(p, S)
  BY <1>1 DEF Rounds, InStatus, Exists
<1>3. RecordsFit(p) => RecordsFit(p)'
  BY <1>1 DEF RecordsFit, Rounds
<1>4. \A r : Within(p, r)' <=> Within(p, r)
  BY <1>1 DEF Within
<1>5. Started(p)' <=> Started(p)
  BY <1>1 DEF Started, Within, HasDone, Reworking
<1>6. Finished(p)' <=> Finished(p)
  BY <1>1 DEF Finished, Within, HasDone
<1>7. (CheckedIn(p)' <=> CheckedIn(p)) /\ (Reworking(p)' <=> Reworking(p)) /\ (HasEvidence(p)' <=> HasEvidence(p))
  BY <1>1 DEF CheckedIn, Reworking, HasEvidence
<1>8. Pristine(p)' <=> Pristine(p)
  BY <1>1 DEF Pristine, InStatus, Exists
<1>9. Worked(p)' <=> Worked(p)
  <2>1. Within(p, stamp[p].submitted)' <=> Within(p, stamp[p].submitted)
    BY <1>1 DEF Within
  <2>2. order'[p].accepted = order[p].accepted
    BY <1>1
  <2>3. QED
    BY <1>2, <1>5, <1>6, <1>7, <2>1, <2>2 DEF Worked
<1>10. OrderShown(p) => OrderShown(p)'
  BY <1>1, <1>2, <1>3, <1>7, <1>8, <1>9 DEF OrderShown
<1>11. \A r : Fits(p, r) => Fits(p, r)'
  BY <1>1, <1>2, <1>4 DEF Fits, InWorkersHands
<1>12. QED
  BY <1>1, <1>10, <1>11

\* The records of an order that stays as it is, but for its photos.
LEMMA SameRecords ==
  ASSUME NEW o \in Orders, OrderShown(o), HasEvidence(o) => HasEvidence(o)',
         UNCHANGED <<order, checkIns, round, reworkAt, running, verdict, confirming>>,
         UNCHANGED recordVars
  PROVE  OrderShown(o)'
<1> USE DEF recordVars
<1>1. \A S : InStatus(o, S)' <=> InStatus(o, S)
  BY DEF InStatus, Exists
<1>2. RecordsFit(o)' <=> RecordsFit(o)
  BY DEF RecordsFit, Rounds
<1>3. (Started(o)' <=> Started(o)) /\ (Finished(o)' <=> Finished(o))
      /\ (CheckedIn(o)' <=> CheckedIn(o)) /\ (Reworking(o)' <=> Reworking(o))
      /\ (Within(o, stamp[o].submitted)' <=> Within(o, stamp[o].submitted))
  BY DEF Started, Finished, CheckedIn, Reworking, Within, HasDone
<1>4. (Pristine(o)' <=> Pristine(o)) /\ (Worked(o)' <=> Worked(o))
  BY <1>1, <1>3 DEF Pristine, Worked
<1>5. QED
  BY <1>1, <1>2, <1>4 DEF OrderShown

\* A page that stays as it is.
LEMMA KeptPage ==
  ASSUME TypeOK, TypeOK', ScreenInv, NEW o \in Orders, Keeps(o), NEW p, PageSound(p)
  PROVE  PageSound(p)'
<1>1. p \in Page /\ p.order \in Orders /\ Exists(p.order) /\ Fits(p.order, p.review)
  BY DEF PageSound, Page
<1>2. CASE p.order # o
  <2>1. order'[p.order] = order[p.order] /\ Fits(p.order, p.review)'
    BY <1>1, <1>2, KeepsOthers
  <2>2. p.order \notin disturbed' => p.order \notin disturbed
    BY <1>1, <1>2 DEF Keeps, ScreenFrame
  <2>3. QED
    BY <1>1, <2>1, <2>2 DEF PageSound, Page, Exists
<1>3. CASE p.order = o
  <2>1. /\ round[o] \in Nat /\ round'[o] \in Nat /\ round'[o] >= round[o]
        /\ reworkAt[o] \in Nat /\ reworkAt'[o] \in Nat
    BY DEF TypeOK, Keeps
  <2>2. p.review \in Rounds(o)'
    BY <1>1, <1>3, <2>1 DEF Fits, Rounds
  <2>3. o \notin disturbed' /\ (InWorkersHands(o)' \/ did'[o] = {}) => ~Within(o, p.review)'
    <3>1. CASE reworkAt'[o] > round[o]
      BY <1>1, <1>3, <2>1, <3>1, NoneAssumption DEF Fits, Rounds, Within
    <3>2. CASE reworkAt'[o] = reworkAt[o] /\ (InWorkersHands(o) \/ did[o] = {}) /\ o \notin disturbed
      BY <1>1, <1>3, <3>2 DEF Fits, Within
    <3>3. QED
      BY <3>1, <3>2 DEF Keeps
  <2>4. Fits(o, p.review)'
    BY <2>2, <2>3 DEF Fits
  <2>5. Exists(o)' /\ (o \notin disturbed' => o \notin disturbed) /\ (order[o].accepted => order'[o].accepted)
    BY <1>1, <1>3 DEF Keeps
  <2>6. QED
    BY <1>1, <1>3, <2>4, <2>5 DEF PageSound, Page
<1>4. QED
  BY <1>2, <1>3

\* A page made from what the server holds now.
ShowsSound ==
  TypeOK => \A o \in Orders, r \in Round :
    OrderShown(o) /\ Exists(o) /\ Fits(o, r) => PageSound(Showing(o, r))
ReviewFits ==
  TypeOK => \A o \in Orders : OrderShown(o) /\ AskedFor(o) => Fits(o, reviewedAt[o])

LEMMA ShownPage == ShowsSound
<1> SUFFICES ASSUME TypeOK, NEW o \in Orders, NEW r \in Round,
                    OrderShown(o), Exists(o), Fits(o, r)
             PROVE  PageSound(Showing(o, r))
  BY DEF ShowsSound
<1>1. PICK p : p = Showing(o, r)
  OBVIOUS
<1>2. order[o].status \in OrderStatus
  BY RowOf DEF OrderRow
<1>3. PendingStep(o, r) \in Step \cup {None} /\ TakesPhotos(o) \in BOOLEAN
  BY DEF PendingStep, FirstUndone, Step, TakesPhotos, EvidenceSubmitted, Started, Within, HasDone, InStatus
<1>4. p \in Page /\ p.order = o /\ p.review = r /\ p.step = PendingStep(o, r)
  BY <1>1, <1>2, <1>3 DEF Page, Showing, Round
<1>5. o \notin disturbed /\ PendingStep(o, r) \notin {None, "accept", "check-in"} => order[o].accepted
  <2> SUFFICES ASSUME o \notin disturbed, ~order[o].accepted
               PROVE  PendingStep(o, r) \in {None, "accept", "check-in"}
    OBVIOUS
  <2>1. Pristine(o)
    BY DEF OrderShown, Worked
  <2>2. ~Reworking(o)
    BY <2>1 DEF Pristine, Reworking
  <2>3. QED
    BY <2>2 DEF PendingStep, FirstUndone
<1>6. QED
  BY <1>1, <1>4, <1>5 DEF PageSound

LEMMA KnownReviewFits == ReviewFits
<1> SUFFICES ASSUME TypeOK, NEW o \in Orders, OrderShown(o), AskedFor(o)
             PROVE  Fits(o, reviewedAt[o])
  BY DEF ReviewFits
<1>1. reviewedAt[o] \in Rounds(o)
  BY DEF OrderShown, RecordsFit
<1>2. ~InWorkersHands(o)
  BY DEF AskedFor, InWorkersHands, InStatus
<1>3. o \notin disturbed => did[o] # {}
  BY DEF OrderShown, Pristine, AskedFor, InStatus
<1>4. QED
  BY <1>1, <1>2, <1>3 DEF Fits

-----------------------------------------------------------------------------
(* What the worker's steps keep *)

LEMMA WorkerRow ==
  ASSUME TypeOK, NEW o \in Orders, NEW w \in Workers, NEW step, Handler(o, w, step)
  PROVE  /\ step \in Step /\ Exists(o) /\ Exists(o)' /\ order[o] \in OrderRow
         /\ order[o].accepted => order'[o].accepted
         /\ step \in {"accept", "check-in"} => order'[o].status = order[o].status
         /\ step \in {"start", "rework"} => order'[o].status = "IN_PROGRESS"
         /\ step = "finish" => order'[o].status = "WORK_COMPLETED"
         /\ step = "evidence" => order'[o].status = "EVIDENCE_SUBMITTED"
         /\ checkIns[o] \subseteq checkIns'[o]
         /\ UNCHANGED <<photo, round, reworkAt, running, verdict, confirming>>
<1> USE DEF workVars, reviewVars, roundVars
<1>1. order[o] \in OrderRow /\ Exists(o)
  BY RowOf DEF Handler, AcceptJob, MayAccept, CheckInAt, MayCheckIn, StartJob, MayStart,
     FinishJob, MayFinish, SubmitEvidence, MaySubmit, StartRework, MayRestart, Holds
<1>2. CASE step = "accept" /\ AcceptJob(o, w)
  BY <1>1, <1>2, NoneAssumption DEF AcceptJob, MayAccept, TypeOK, OrderRow, Exists, Step
<1>3. CASE step = "check-in" /\ CheckInAt(o, w)
  BY <1>1, <1>3, NoneAssumption DEF CheckInAt, MayCheckIn, TypeOK, OrderRow, Exists, Step
<1>4. CASE step = "start" /\ StartJob(o, w)
  BY <1>1, <1>4, NoneAssumption DEF StartJob, MayStart, TypeOK, OrderRow, OrderStatus, Exists, Step
<1>5. CASE step = "rework" /\ StartRework(o, w)
  <2>1. order'[o] # None /\ order'[o].status = "IN_PROGRESS"
    BY <1>1, <1>5, ReopenedRow DEF StartRework
  <2>2. order'[o].accepted = order[o].accepted
    BY <1>1, <1>5 DEF StartRework, TypeOK, OrderRow
  <2>3. UNCHANGED <<checkIns, photo, round, reworkAt, running, verdict, confirming>>
    BY <1>5 DEF StartRework
  <2>4. QED
    BY <1>1, <1>5, <2>1, <2>2, <2>3 DEF Exists, Step
<1>6. CASE step = "finish" /\ FinishJob(o, w)
  <2>1. order'[o] # None /\ order'[o].status = "WORK_COMPLETED"
    BY <1>1, <1>6, FinishedRow DEF FinishJob
  <2>2. order'[o].accepted = order[o].accepted
    BY <1>1, <1>6 DEF FinishJob, TypeOK, OrderRow
  <2>3. UNCHANGED <<checkIns, photo, round, reworkAt, running, verdict, confirming>>
    BY <1>6 DEF FinishJob
  <2>4. QED
    BY <1>1, <1>6, <2>1, <2>2, <2>3 DEF Exists, Step
<1>7. CASE step = "evidence" /\ SubmitEvidence(o, w)
  <2>1. order'[o] # None /\ order'[o].status = "EVIDENCE_SUBMITTED"
    BY <1>1, <1>7, SubmittedRow DEF SubmitEvidence
  <2>2. order'[o].accepted = order[o].accepted
    BY <1>1, <1>7 DEF SubmitEvidence, TypeOK, OrderRow
  <2>3. UNCHANGED <<checkIns, photo, round, reworkAt, running, verdict, confirming>>
    BY <1>7 DEF SubmitEvidence
  <2>4. QED
    BY <1>1, <1>7, <2>1, <2>2, <2>3 DEF Exists, Step
<1>8. QED
  BY <1>2, <1>3, <1>4, <1>5, <1>6, <1>7 DEF Handler

\* The deed and the time stamps of a step are of the round it is taken in.
Noted(o, step) ==
  /\ did'[o] = IF step \in DOMAIN DeedOf
       THEN did[o] \cup {[kind |-> DeedOf[step], round |-> round[o]]} ELSE did[o]
  /\ stamp'[o].started = IF step \in {"start", "rework"} THEN round[o] ELSE stamp[o].started
  /\ stamp'[o].completed = IF step = "rework" THEN None
       ELSE IF step = "finish" THEN round[o] ELSE stamp[o].completed
  /\ stamp'[o].submitted = IF step = "rework" THEN None
       ELSE IF step = "evidence" THEN round[o] ELSE stamp[o].submitted
  /\ step \notin {"start", "rework", "finish", "evidence"} => stamp'[o] = stamp[o]

LEMMA RecordedNotes ==
  ASSUME ScreensTypeOK, NEW o \in Orders, RecordsFit(o), NEW step \in Step, Recorded(o, step),
         round'[o] = round[o], reworkAt'[o] = reworkAt[o]
  PROVE  ScreenFrame(o) /\ Noted(o, step) /\ RecordsFit(o)'
<1>1. /\ did \in [Orders -> SUBSET Deed] /\ stamp \in [Orders -> Stamps]
      /\ round[o] \in 0..MaxRounds /\ round[o] \in Rounds(o)
      /\ stamp[o] \in [started : Rounds(o), completed : Rounds(o), submitted : Rounds(o)]
  BY BoundsAssumption DEF ScreensTypeOK, RecordsFit, Rounds
<1>2. ScreenFrame(o)
  BY <1>1 DEF Recorded, ScreenFrame
<1>3. DOMAIN DeedOf = {"start", "rework", "finish"}
      /\ \A s \in DOMAIN DeedOf : DeedOf[s] \in {"START_WORK", "START_REWORK", "FINISH_WORK"}
  BY DEF DeedOf
<1>4. did'[o] = IF step \in DOMAIN DeedOf
        THEN did[o] \cup {[kind |-> DeedOf[step], round |-> round[o]]} ELSE did[o]
  BY <1>1 DEF Recorded
<1>5. /\ step = "start" => stamp'[o] = [started |-> round[o], completed |-> stamp[o].completed,
                                        submitted |-> stamp[o].submitted]
      /\ step = "rework" => stamp'[o] = [started |-> round[o], completed |-> None, submitted |-> None]
      /\ step = "finish" => stamp'[o] = [started |-> stamp[o].started, completed |-> round[o],
                                         submitted |-> stamp[o].submitted]
      /\ step = "evidence" => stamp'[o] = [started |-> stamp[o].started,
                                           completed |-> stamp[o].completed, submitted |-> round[o]]
      /\ step \in {"accept", "check-in"} => stamp'[o] = stamp[o]
  <2>1. CASE step = "start"
    BY <1>1, <2>1 DEF Recorded
  <2>2. CASE step = "rework"
    BY <1>1, <2>2 DEF Recorded
  <2>3. CASE step = "finish"
    BY <1>1, <2>3 DEF Recorded
  <2>4. CASE step = "evidence"
    BY <1>1, <2>4 DEF Recorded
  <2>5. CASE step \in {"accept", "check-in"}
    BY <1>1, <2>5 DEF Recorded
  <2>6. QED
    BY <2>1, <2>2, <2>3, <2>4, <2>5 DEF Step
<1>6. Noted(o, step)
  BY <1>3, <1>4, <1>5 DEF Noted, Step
<1>7. stamp'[o] \in [started : Rounds(o), completed : Rounds(o), submitted : Rounds(o)]
  <2>1. None \in Rounds(o)
    BY DEF Rounds
  <2>2. QED
    BY <1>1, <1>5, <2>1 DEF Step
<1>8. did'[o] \subseteq [kind : {"START_WORK", "START_REWORK", "FINISH_WORK"}, round : 0..round[o]]
  BY <1>1, <1>3, <1>4 DEF RecordsFit
<1>9. QED
  BY <1>2, <1>6, <1>7, <1>8 DEF RecordsFit, Rounds, Recorded

LEMMA WorkerKeeps ==
  ASSUME Reviews, ScreenInv, NEW o \in Orders, NEW w \in Workers, NEW step,
         Handler(o, w, step), Recorded(o, step),
         o \notin disturbed /\ step \notin {"accept", "check-in"} => order[o].accepted
  PROVE  Keeps(o)
<1>0. /\ TypeOK /\ ScreensTypeOK /\ OrderShown(o) /\ RecordsFit(o)
      /\ round[o] \in Nat /\ reworkAt[o] \in Nat /\ round[o] >= reworkAt[o]
  BY DEF Reviews, Grounded, ScreenInv, OrderShown, RecordsFit, TypeOK
<1>1. Frame(o) /\ RoundFrame(o)
  <2>1. WorkerStep(o, w)
    BY DEF Handler, WorkerStep
  <2>2. QED
    BY <2>1, WorkerGrounded, WorkerReview DEF Reviews
<1>2. /\ step \in Step /\ Exists(o) /\ Exists(o)' /\ order[o] \in OrderRow
      /\ order[o].accepted => order'[o].accepted
      /\ step \in {"accept", "check-in"} => order'[o].status = order[o].status
      /\ step \in {"start", "rework"} => order'[o].status = "IN_PROGRESS"
      /\ step = "finish" => order'[o].status = "WORK_COMPLETED"
      /\ step = "evidence" => order'[o].status = "EVIDENCE_SUBMITTED"
      /\ checkIns[o] \subseteq checkIns'[o]
      /\ UNCHANGED <<photo, round, reworkAt, running, verdict, confirming>>
  BY <1>0, WorkerRow
<1>3. ScreenFrame(o) /\ Noted(o, step) /\ RecordsFit(o)'
  BY <1>0, <1>2, RecordedNotes
<1>4. disturbed' = disturbed /\ reviewedAt' = reviewedAt
  BY DEF Recorded
<1>5. InStatus(o, {"EVIDENCE_SUBMITTED"})' => HasEvidence(o)'
  BY <1>0, <1>2 DEF Handler, SubmitEvidence, MaySubmit, HasEvidence, InStatus, OrderShown, AcceptJob,
     MayAccept, CheckInAt, MayCheckIn, Step
<1>6. o \notin disturbed /\ did[o] = {} => step \in {"accept", "check-in", "start"}
  BY <1>0 DEF OrderShown, Pristine, Handler, StartRework, MayRestart, FinishJob, MayFinish,
     SubmitEvidence, MaySubmit, InStatus
<1>7. ASSUME o \notin disturbed, did[o] = {}, step \in {"accept", "check-in"}
      PROVE  did'[o] = {} /\ Pristine(o)'
  BY <1>0, <1>2, <1>3, <1>4, <1>7 DEF OrderShown, Pristine, Noted, InStatus, DeedOf
<1>8. ASSUME o \notin disturbed, did[o] = {}, step = "start"
      PROVE  did'[o] # {} /\ Worked(o)'
  <2>1. Pristine(o) /\ reworkAt[o] = 0 /\ stamp[o].completed = None /\ stamp[o].submitted = None
    BY <1>0, <1>8 DEF OrderShown, Pristine
  <2>2. did'[o] = {[kind |-> "START_WORK", round |-> round[o]]}
    BY <1>3, <1>8 DEF Noted, DeedOf
  <2>3. CheckedIn(o)'
    <3>1. PICK a \in checkIns[o] : TRUE
      BY <1>8, <2>1 DEF Handler, StartJob, MayStart, HasCheckIn, Pristine, InStatus
    <3>2. a \in checkIns'[o] /\ a.round \in Nat
      BY <1>0, <1>2 DEF TypeOK, CheckIn
    <3>3. QED
      BY <1>2, <2>1, <3>2 DEF CheckedIn
  <2>4. Started(o)'
    BY <1>0, <1>2, <1>3, <1>8, NoneAssumption DEF Started, Within, Noted
  <2>5. ~Within(o, stamp[o].submitted)' /\ ~Finished(o)'
    BY <1>3, <1>8, <2>1, <2>2 DEF Finished, Within, HasDone, Noted
  <2>6. order'[o].accepted
    BY <1>2, <1>8
  <2>7. QED
    BY <1>2, <1>8, <2>2, <2>3, <2>4, <2>5, <2>6 DEF Worked, InStatus
<1>9. ASSUME o \notin disturbed, did[o] # {}
      PROVE  did'[o] # {} /\ Worked(o)'
  <2>1. Worked(o) /\ order'[o].accepted
    BY <1>0, <1>2, <1>9 DEF OrderShown, Worked
  <2>2. did[o] \subseteq did'[o]
    BY <1>3 DEF Noted
  <2>3. CheckedIn(o) => CheckedIn(o)'
    BY <1>2 DEF CheckedIn
  <2>4. CASE step \in {"accept", "check-in"}
    <3>1. did'[o] = did[o] /\ stamp'[o] = stamp[o]
      BY <1>3, <2>4 DEF Noted, DeedOf
    <3>2. (Started(o)' <=> Started(o)) /\ (Finished(o)' <=> Finished(o)) /\ (Reworking(o)' <=> Reworking(o))
          /\ (Within(o, stamp[o].submitted)' <=> Within(o, stamp[o].submitted))
      BY <1>2, <3>1 DEF Started, Finished, Reworking, Within, HasDone
    <3>3. QED
      BY <1>2, <1>9, <2>1, <2>2, <2>3, <2>4, <3>2 DEF Worked, InStatus
  <2>5. CASE step \in {"start", "rework"}
    <3>1. Started(o)'
      BY <1>0, <1>2, <1>3, <2>5, NoneAssumption DEF Started, Within, Noted
    <3>2. CheckedIn(o)'
      <4>1. CASE step = "start"
        BY <1>2, <2>1, <2>3, <4>1 DEF Handler, StartJob, MayStart, Worked, InStatus
      <4>2. CASE step = "rework"
        BY <2>3, <4>2 DEF Handler, StartRework, MayRestart, HasFreshCheckIn, CheckedIn
      <4>3. QED
        BY <2>5, <4>1, <4>2
    <3>3. InStatus(o, {"IN_PROGRESS", "RETURNED_FOR_REWORK"}) /\ ~Finished(o)
      BY <1>2, <2>1, <2>5 DEF Handler, StartJob, MayStart, StartRework, MayRestart, Worked, InStatus
    <3>4. ~Finished(o)'
      <4>1. ~HasDone(o, "FINISH_WORK")'
        BY <1>2, <1>3, <2>5, <3>3 DEF HasDone, Finished, Noted, DeedOf
      <4>2. ~Within(o, stamp[o].completed)'
        BY <1>2, <1>3, <2>5, <3>3 DEF Within, Finished, Noted
      <4>3. QED
        BY <4>1, <4>2 DEF Finished
    <3>5. ~Within(o, stamp[o].submitted)'
      <4>1. CASE step = "start"
        <5>1. InStatus(o, {"IN_PROGRESS"})
          BY <2>1, <4>1 DEF Handler, StartJob, MayStart, Worked, InStatus
        <5>2. QED
          BY <1>2, <1>3, <2>1, <4>1, <5>1 DEF Worked, Within, Noted, InStatus
      <4>2. CASE step = "rework"
        BY <1>3, <4>2 DEF Within, Noted
      <4>3. QED
        BY <2>5, <4>1, <4>2
    <3>6. QED
      BY <1>2, <1>9, <2>1, <2>2, <2>5, <3>1, <3>2, <3>4, <3>5 DEF Worked, InStatus
  <2>6. CASE step = "finish"
    <3>1. InStatus(o, {"IN_PROGRESS"}) /\ CheckedIn(o) /\ Started(o) /\ ~Within(o, stamp[o].submitted)
      BY <2>1, <2>6 DEF Handler, FinishJob, MayFinish, Worked, InStatus
    <3>2. Finished(o)'
      BY <1>0, <1>2, <1>3, <2>6, NoneAssumption DEF Finished, Within, Noted
    <3>3. Started(o)' /\ ~Within(o, stamp[o].submitted)'
      <4>1. HasDone(o, "START_WORK") => HasDone(o, "START_WORK")'
        BY <1>2, <2>2 DEF HasDone
      <4>2. HasDone(o, "START_REWORK") => HasDone(o, "START_REWORK")'
        BY <1>2, <2>2 DEF HasDone
      <4>3. stamp'[o].started = stamp[o].started /\ stamp'[o].submitted = stamp[o].submitted
        BY <1>3, <2>6 DEF Noted
      <4>4. QED
        BY <1>2, <3>1, <4>1, <4>2, <4>3 DEF Started, Within, Reworking
    <3>4. QED
      BY <1>2, <1>9, <2>1, <2>2, <2>3, <2>6, <3>1, <3>2, <3>3 DEF Worked, InStatus
  <2>7. CASE step = "evidence"
    BY <1>2, <1>9, <2>1, <2>2, <2>7 DEF Worked, InStatus
  <2>8. QED
    BY <1>2, <2>4, <2>5, <2>6, <2>7 DEF Step
<1>10. OrderShown(o)'
  BY <1>3, <1>4, <1>5, <1>6, <1>7, <1>8, <1>9 DEF OrderShown
<1>11. o \notin disturbed /\ (InWorkersHands(o)' \/ did'[o] = {}) => InWorkersHands(o) \/ did[o] = {}
  <2>1. did'[o] = {} => did[o] = {}
    BY <1>3 DEF Noted
  <2>2. o \notin disturbed /\ did[o] # {} /\ step # "evidence" => InWorkersHands(o)
    BY <1>0, <1>2 DEF OrderShown, Worked, Handler, AcceptJob, MayAccept, CheckInAt, MayCheckIn,
       StartJob, MayStart, StartRework, MayRestart, FinishJob, MayFinish, InWorkersHands, InStatus, Step
  <2>3. step = "evidence" => ~InWorkersHands(o)'
    BY <1>2 DEF InWorkersHands, InStatus
  <2>4. QED
    BY <2>1, <2>2, <2>3
<1>12. QED
  BY <1>0, <1>1, <1>2, <1>3, <1>4, <1>10, <1>11 DEF Keeps

LEMMA PhotoKeeps ==
  ASSUME Reviews, ScreenInv, NEW o \in Orders, NEW w \in Workers, NEW cat \in Category,
         UploadPhoto(o, w, cat), UNCHANGED recordVars
  PROVE  Keeps(o)
<1> USE DEF workVars, reviewVars, roundVars, recordVars
<1>0. TypeOK /\ OrderShown(o) /\ round[o] \in Nat /\ round[o] # None
  BY NoneAssumption DEF Reviews, Grounded, ScreenInv, TypeOK
<1>1. Frame(o) /\ RoundFrame(o)
  <2>1. WorkerStep(o, w)
    BY DEF WorkerStep
  <2>2. QED
    BY <2>1, WorkerGrounded, WorkerReview DEF Reviews
<1>2. ScreenFrame(o) /\ UNCHANGED <<order, checkIns, round, reworkAt, running, verdict, confirming>>
  BY DEF ScreenFrame, UploadPhoto
<1>3. HasEvidence(o) => HasEvidence(o)'
  <2>1. photo' = [photo EXCEPT ![o] = [@ EXCEPT ![cat] = round[o]]]
    BY DEF UploadPhoto
  <2>2. QED
    BY <1>0, <2>1 DEF HasEvidence, TypeOK
<1>4. OrderShown(o)'
  BY <1>0, <1>2, <1>3, SameRecords
<1>5. Exists(o)
  BY DEF UploadPhoto, Holds
<1>6. QED
  BY <1>0, <1>1, <1>2, <1>4, <1>5 DEF Keeps, Exists, InWorkersHands, InStatus

-----------------------------------------------------------------------------
(* What the officer's decisions keep *)

\* Every decision leaves alone what the worker did.
LEMMA Unpressed ==
  ASSUME ScreensTypeOK, NEW o \in Orders, NEW b \in Button, Press(o, b)
  PROVE  /\ ScreenFrame(o) /\ did' = did /\ disturbed \subseteq disturbed'
         /\ b \notin {"rework", "followup"} => reviewedAt' = reviewedAt
         /\ b # "followup" => stamp' = stamp
         /\ b \in {"rework", "followup"} => reviewedAt'[o] = round'[o]
         /\ b = "followup" => o \in disturbed' /\ stamp'[o] \in
              [started : {stamp[o].started}, completed : {None}, submitted : {None}]
         /\ o \notin disturbed' =>
              o \notin disturbed /\ (b \in {"assign", "reassign"} => did[o] = {})
<1>1. /\ did \in [Orders -> SUBSET Deed] /\ stamp \in [Orders -> Stamps]
      /\ reviewedAt \in [Orders -> Round]
  BY DEF ScreensTypeOK
<1>2. did' = did /\ disturbed \subseteq disturbed'
      /\ \A p \in Orders \ {o} : p \in disturbed' <=> p \in disturbed
  BY DEF Press
<1>3. reviewedAt' = IF b \in {"rework", "followup"}
        THEN [reviewedAt EXCEPT ![o] = round'[o]] ELSE reviewedAt
  BY DEF Press
<1>4. b # "followup" => stamp' = stamp
  BY DEF Press
<1>5. b = "followup" => o \in disturbed' /\ stamp' = [stamp EXCEPT ![o] =
        [[stamp[o] EXCEPT !.completed = None] EXCEPT !.submitted = None]]
  BY DEF Press
<1>6. b = "followup" => stamp'[o] \in
        [started : {stamp[o].started}, completed : {None}, submitted : {None}]
  <2>1. stamp[o] \in Stamps
    BY <1>1
  <2>2. [[stamp[o] EXCEPT !.completed = None] EXCEPT !.submitted = None] \in
          [started : {stamp[o].started}, completed : {None}, submitted : {None}]
    BY <2>1 DEF Stamps
  <2>3. QED
    BY <1>1, <1>5, <2>2
<1>7. ScreenFrame(o)
  BY <1>1, <1>2, <1>3, <1>4, <1>5 DEF ScreenFrame
<1>8. o \notin disturbed' => o \notin disturbed /\ (b \in {"assign", "reassign"} => did[o] = {})
  BY DEF Press
<1>9. QED
  BY <1>1, <1>2, <1>3, <1>4, <1>5, <1>6, <1>7, <1>8

LEMMA DecisionRow ==
  ASSUME Grounded, NEW o \in Orders, NEW b \in Button, Decision(o, b)
  PROVE  /\ Exists(o) /\ Exists(o)' /\ order'[o].accepted = order[o].accepted
         /\ b \in {"approve", "assign", "reassign"} => order'[o].status = "ASSIGNED"
         /\ b = "escalate" => order'[o].status = "ESCALATED"
         /\ b = "reject" => order'[o].status = "REJECTED"
         /\ b = "run" => order' = order
         /\ b = "confirm" => order'[o].status = "COMPLETED"
         /\ b = "rework" => order'[o].status = "RETURNED_FOR_REWORK"
         /\ b = "followup" => order'[o].status = "IN_PROGRESS"
         /\ b \in {"approve", "reject"} => InStatus(o, {"PENDING_APPROVAL"})
         /\ b = "run" => InStatus(o, {"EVIDENCE_SUBMITTED", "COMPLETED"})
         /\ b \in {"confirm", "rework", "followup"} => verdict[o] # None
         /\ b \in {"rework", "followup"} => round[o] < MaxRounds /\ round'[o] = round[o] + 1
         /\ b \notin {"rework", "followup"} => round' = round
         /\ b = "rework" => reworkAt'[o] = round[o] + 1
         /\ b # "rework" => reworkAt' = reworkAt
         /\ b \notin {"run", "confirm", "rework", "followup"} =>
              UNCHANGED <<running, verdict, confirming>>
         /\ UNCHANGED <<checkIns, photo>>
<1> USE DEF workVars, reviewVars, roundVars
<1>0. TypeOK /\ OrderGrounded(o)
  BY GroundedByOrder
<1>1. order[o] \in OrderRow /\ Exists(o)
  <2>1. Reviewable(o) => Exists(o)
    BY <1>0 DEF Reviewable, OrderGrounded, Waiting, Untouched
  <2>2. Exists(o)
    BY <2>1 DEF Decision, Approve, MayApprove, Reject, Escalate, Assign, Reassign, MayAssign,
       RunVerification, MayVerify, ConfirmResolution, RequestRework, RequireFollowup, RejectEvidence, InStatus
  <2>3. QED
    BY <1>0, <2>2, RowOf
<1>2. CASE b = "approve" /\ Approve(o)
  BY <1>0, <1>1, <1>2, NoneAssumption DEF Approve, MayApprove, TypeOK, OrderRow, OrderStatus, Exists
<1>3. CASE b = "reject" /\ Reject(o)
  BY <1>0, <1>1, <1>3, NoneAssumption DEF Reject, TypeOK, OrderRow, OrderStatus, Exists
<1>4. ASSUME NEW w \in Workers, (b = "assign" /\ Assign(o, w)) \/ (b = "reassign" /\ Reassign(o, w))
      PROVE  /\ order'[o].status = "ASSIGNED" /\ order'[o].accepted = order[o].accepted /\ Exists(o)'
             /\ UNCHANGED <<checkIns, photo, round, reworkAt, running, verdict, confirming>>
             /\ b \in {"assign", "reassign"}
  <2>1. order' = [order EXCEPT ![o].worker = w, ![o].status = "ASSIGNED"]
    BY <1>4 DEF Assign, Reassign
  <2>2. order'[o].status = "ASSIGNED" /\ order'[o].accepted = order[o].accepted /\ Exists(o)'
    BY <1>0, <1>1, <2>1, NoneAssumption DEF TypeOK, OrderRow, OrderStatus, Exists
  <2>3. QED
    BY <1>4, <2>2 DEF Assign, Reassign
<1>5. CASE b = "escalate" /\ Escalate(o)
  BY <1>0, <1>1, <1>5, NoneAssumption DEF Escalate, TypeOK, OrderRow, OrderStatus, Exists
<1>6. CASE b = "run" /\ RunVerification(o)
  BY <1>0, <1>1, <1>6 DEF RunVerification, MayVerify, Exists
<1>7. CASE b = "confirm" /\ \E u \in Officers : ConfirmResolution(o, u)
  <2>1. PICK u \in Officers : ConfirmResolution(o, u)
    BY <1>7
  <2>2. order' = [order EXCEPT ![o].status = "COMPLETED"] /\ verdict[o] # None
        /\ UNCHANGED <<checkIns, photo, round, reworkAt>>
    BY <2>1 DEF ConfirmResolution, Reviewable
  <2>3. order'[o].status = "COMPLETED" /\ order'[o].accepted = order[o].accepted /\ Exists(o)'
    BY <1>0, <1>1, <2>2, NoneAssumption DEF TypeOK, OrderRow, OrderStatus, Exists
  <2>4. QED
    BY <1>1, <1>7, <2>2, <2>3
<1>8. ASSUME NEW u \in Officers, RejectEvidence(o, u)
      PROVE  /\ verdict[o] # None /\ round[o] < MaxRounds /\ round'[o] = round[o] + 1
             /\ UNCHANGED <<checkIns, photo>>
  BY <1>0, <1>8 DEF RejectEvidence, Reviewable, TypeOK
<1>9. ASSUME NEW u \in Officers, b = "rework", RequestRework(o, u)
      PROVE  /\ order'[o].status = "RETURNED_FOR_REWORK" /\ order'[o].accepted = order[o].accepted
             /\ Exists(o)' /\ reworkAt'[o] = round[o] + 1 /\ verdict[o] # None
             /\ round[o] < MaxRounds /\ round'[o] = round[o] + 1 /\ UNCHANGED <<checkIns, photo>>
  <2>1. /\ order'[o].status = "RETURNED_FOR_REWORK" /\ order'[o].accepted = order[o].accepted
        /\ Exists(o)' /\ reworkAt'[o] = round[o] + 1
    BY <1>0, <1>1, <1>9, NoneAssumption DEF RequestRework, TypeOK, OrderRow, OrderStatus, Exists
  <2>2. QED
    BY <1>1, <1>8, <1>9, <2>1 DEF RequestRework
<1>10. ASSUME NEW u \in Officers, b = "followup", RequireFollowup(o, u)
      PROVE  /\ order'[o].status = "IN_PROGRESS" /\ order'[o].accepted = order[o].accepted
             /\ Exists(o)' /\ reworkAt' = reworkAt /\ verdict[o] # None
             /\ round[o] < MaxRounds /\ round'[o] = round[o] + 1 /\ UNCHANGED <<checkIns, photo>>
  <2>1. order'[o] # None /\ order'[o].status = "IN_PROGRESS" /\ reworkAt' = reworkAt
    BY <1>0, <1>1, <1>10, ReopenedRow DEF RequireFollowup
  <2>2. order'[o].accepted = order[o].accepted
    BY <1>0, <1>1, <1>10 DEF RequireFollowup, TypeOK, OrderRow
  <2>3. QED
    BY <1>1, <1>8, <1>10, <2>1, <2>2 DEF RequireFollowup, Exists
<1>11. QED
  BY <1>1, <1>2, <1>3, <1>4, <1>5, <1>6, <1>7, <1>9, <1>10 DEF Decision

LEMMA PressKeeps ==
  ASSUME Reviews, ScreenInv, NEW o \in Orders, NEW b \in Button, Press(o, b)
  PROVE  Keeps(o)
<1>0. /\ TypeOK /\ Grounded /\ ScreensTypeOK /\ OrderShown(o) /\ RecordsFit(o) /\ Decision(o, b)
      /\ round[o] \in Nat /\ reworkAt[o] \in Nat /\ round[o] >= reworkAt[o]
      /\ OrderGrounded(o)
  <2>1. Grounded /\ TypeOK /\ OrderGrounded(o)
    BY GroundedByOrder DEF Reviews
  <2>2. ScreensTypeOK /\ OrderShown(o) /\ RecordsFit(o) /\ Decision(o, b)
    BY DEF ScreenInv, OrderShown, Press
  <2>3. QED
    BY <2>1, <2>2 DEF RecordsFit, TypeOK
<1>1. Frame(o) /\ RoundFrame(o)
  <2>1. OfficerStep(o) \/ ReviewStep(o)
    BY <1>0 DEF Decision, OfficerStep, ReviewStep
  <2>2. QED
    BY <1>0, <2>1, OfficerGrounded, OfficerReview, ReviewGrounded, ReviewReview
<1>2. /\ ScreenFrame(o) /\ did' = did /\ disturbed \subseteq disturbed'
      /\ b \notin {"rework", "followup"} => reviewedAt' = reviewedAt
      /\ b # "followup" => stamp' = stamp
      /\ b \in {"rework", "followup"} => reviewedAt'[o] = round'[o]
      /\ b = "followup" => o \in disturbed' /\ stamp'[o] \in
           [started : {stamp[o].started}, completed : {None}, submitted : {None}]
      /\ o \notin disturbed' =>
           o \notin disturbed /\ (b \in {"assign", "reassign"} => did[o] = {})
  BY <1>0, Unpressed
<1>3. /\ Exists(o) /\ Exists(o)' /\ order'[o].accepted = order[o].accepted
      /\ b \in {"approve", "assign", "reassign"} => order'[o].status = "ASSIGNED"
      /\ b = "escalate" => order'[o].status = "ESCALATED"
      /\ b = "reject" => order'[o].status = "REJECTED"
      /\ b = "run" => order' = order
      /\ b = "confirm" => order'[o].status = "COMPLETED"
      /\ b = "rework" => order'[o].status = "RETURNED_FOR_REWORK"
      /\ b = "followup" => order'[o].status = "IN_PROGRESS"
      /\ b \in {"approve", "reject"} => InStatus(o, {"PENDING_APPROVAL"})
      /\ b = "run" => InStatus(o, {"EVIDENCE_SUBMITTED", "COMPLETED"})
      /\ b \in {"confirm", "rework", "followup"} => verdict[o] # None
      /\ b \in {"rework", "followup"} => round[o] < MaxRounds /\ round'[o] = round[o] + 1
      /\ b \notin {"rework", "followup"} => round' = round
      /\ b = "rework" => reworkAt'[o] = round[o] + 1
      /\ b # "rework" => reworkAt' = reworkAt
      /\ b \notin {"run", "confirm", "rework", "followup"} => UNCHANGED <<running, verdict, confirming>>
      /\ UNCHANGED <<checkIns, photo>>
  BY <1>0, DecisionRow
<1>4. RecordsFit(o)'
  <2>1. round'[o] \in 0..MaxRounds /\ round'[o] >= round[o] /\ reworkAt'[o] \in 0..round'[o]
    BY <1>0, <1>3, BoundsAssumption DEF RecordsFit
  <2>2. Rounds(o) \subseteq Rounds(o)' /\ None \in Rounds(o)' /\ round'[o] \in Rounds(o)'
    BY <1>0, <2>1 DEF Rounds, RecordsFit
  <2>3. stamp'[o] \in [started : Rounds(o), completed : Rounds(o), submitted : Rounds(o)]'
    <3>1. CASE b # "followup"
      BY <1>0, <1>2, <2>2, <3>1 DEF RecordsFit
    <3>2. CASE b = "followup"
      BY <1>0, <1>2, <2>2, <3>2 DEF RecordsFit
    <3>3. QED
      BY <3>1, <3>2
  <2>4. reviewedAt'[o] \in Rounds(o)'
    BY <1>0, <1>2, <2>2 DEF RecordsFit
  <2>5. did'[o] \subseteq [kind : {"START_WORK", "START_REWORK", "FINISH_WORK"}, round : 0..round'[o]]
    BY <1>0, <1>2, <2>1 DEF RecordsFit
  <2>6. QED
    BY <2>1, <2>3, <2>4, <2>5 DEF RecordsFit
<1>5. InStatus(o, {"EVIDENCE_SUBMITTED"})' => HasEvidence(o)'
  BY <1>0, <1>3 DEF OrderShown, HasEvidence, InStatus, Exists, Button
<1>6. ASSUME o \notin disturbed', did[o] = {}
      PROVE  Pristine(o)'
  <2>1. Pristine(o) /\ b \in {"approve", "reject", "assign", "reassign", "escalate"}
    BY <1>0, <1>2, <1>3, <1>6 DEF OrderShown, Pristine, InStatus, Button
  <2>2. QED
    BY <1>2, <1>3, <2>1 DEF Pristine, InStatus
<1>7. ASSUME o \notin disturbed', did[o] # {}
      PROVE  Worked(o)' /\ b \in {"escalate", "run", "confirm", "rework"}
  <2>1. Worked(o) /\ b \in {"escalate", "run", "confirm", "rework"}
    BY <1>0, <1>2, <1>3, <1>7 DEF OrderShown, Worked, InStatus, Button
  <2>2. CASE b \in {"escalate", "run", "confirm"}
    BY <1>3, <2>1, <2>2 DEF Worked, InStatus, Exists
  <2>3. CASE b = "rework"
    <3>1. ~Started(o)' /\ ~Finished(o)'
      <4>1. \A d \in did[o] : d.round <= round[o] /\ d.round \in Nat
        BY <1>0 DEF RecordsFit
      <4>2. \A kind : ~HasDone(o, kind)'
        BY <1>0, <1>2, <1>3, <2>3, <4>1 DEF HasDone
      <4>3. /\ stamp[o].started # None => stamp[o].started \in Nat /\ stamp[o].started <= round[o]
            /\ stamp[o].completed # None => stamp[o].completed \in Nat /\ stamp[o].completed <= round[o]
        BY <1>0 DEF RecordsFit, Rounds
      <4>4. ~Within(o, stamp[o].started)' /\ ~Within(o, stamp[o].completed)'
        BY <1>0, <1>2, <1>3, <2>3, <4>3 DEF Within
      <4>5. QED
        BY <4>2, <4>4 DEF Started, Finished
    <3>2. Reworking(o)'
      BY <1>0, <1>3, <2>3 DEF Reworking
    <3>3. QED
      BY <1>3, <2>1, <2>3, <3>1, <3>2 DEF Worked, InStatus
  <2>4. QED
    BY <2>1, <2>2, <2>3
<1>8. OrderShown(o)'
  BY <1>2, <1>4, <1>5, <1>6, <1>7 DEF OrderShown
<1>9. o \notin disturbed' /\ (InWorkersHands(o)' \/ did'[o] = {}) =>
        \/ reworkAt'[o] > round[o]
        \/ reworkAt'[o] = reworkAt[o] /\ (InWorkersHands(o) \/ did[o] = {})
  <2>1. CASE did[o] = {} /\ o \notin disturbed'
    <3>1. b # "rework"
      BY <1>0, <1>2, <1>3, <2>1 DEF OrderShown, Pristine
    <3>2. QED
      BY <1>3, <2>1, <3>1
  <2>2. CASE did[o] # {} /\ o \notin disturbed'
    <3>1. CASE b = "rework"
      BY <1>0, <1>3, <3>1
    <3>2. CASE b = "run"
      BY <1>2, <1>3, <2>2, <3>2 DEF InWorkersHands, InStatus
    <3>3. CASE b \in {"escalate", "confirm"}
      BY <1>2, <1>3, <2>2, <3>3 DEF InWorkersHands, InStatus
    <3>4. QED
      BY <1>7, <2>2, <3>1, <3>2, <3>3
  <2>3. QED
    BY <2>1, <2>2
<1>10. round'[o] >= round[o]
  BY <1>0, <1>3
<1>11. QED
  BY <1>1, <1>2, <1>3, <1>8, <1>9, <1>10 DEF Keeps

\* What analyses and reviews write: nothing an order under work is judged by.
LEMMA VerdictKeeps ==
  ASSUME Reviews, ScreenInv, NEW o \in Orders, Analyses(o) \/ EndReview(o)
  PROVE  Keeps(o)
<1> USE DEF workVars, reviewVars, roundVars
<1>0. /\ TypeOK /\ Grounded /\ ScreensTypeOK /\ OrderShown(o) /\ OrderGrounded(o)
      /\ round[o] \in Nat /\ reworkAt[o] \in Nat
  BY GroundedByOrder DEF Reviews, Grounded, ScreenInv, TypeOK
<1>1. Frame(o) /\ RoundFrame(o)
  <2>1. ReviewStep(o)
    BY OfficerScreenSteps
  <2>2. QED
    BY <1>0, <2>1, ReviewGrounded, ReviewReview
<1>2. /\ UNCHANGED <<order, checkIns, photo, round, reworkAt, did, stamp, disturbed>>
      /\ reviewedAt' = reviewedAt \/ \E r \in {None, round[o]} : reviewedAt' = [reviewedAt EXCEPT ![o] = r]
      /\ running[o] # {} \/ confirming[o] # {}
  <2>1. CASE Analyses(o)
    BY <2>1 DEF Analyses, FailRun, PersistVerdict
  <2>2. CASE EndReview(o)
    BY <2>2 DEF EndReview, RecordReview, LoseReview
  <2>3. QED
    BY <2>1, <2>2
<1>3. ScreenFrame(o)
  BY <1>0, <1>2 DEF ScreenFrame, ScreensTypeOK
<1>4. RecordsFit(o)'
  <2>1. reviewedAt'[o] \in Rounds(o)
    BY <1>0, <1>2 DEF OrderShown, RecordsFit, Rounds, ScreensTypeOK
  <2>2. QED
    BY <1>0, <1>2, <2>1 DEF OrderShown, RecordsFit, Rounds
<1>5. o \notin disturbed => did[o] # {} /\ Worked(o)
  BY <1>0, <1>2 DEF OrderShown, Pristine
<1>6. \A S : InStatus(o, S)' <=> InStatus(o, S)
  BY <1>2 DEF InStatus, Exists
<1>7. Worked(o) => Worked(o)'
  <2>1. (Started(o)' <=> Started(o)) /\ (Finished(o)' <=> Finished(o))
        /\ (CheckedIn(o)' <=> CheckedIn(o)) /\ (Reworking(o)' <=> Reworking(o))
        /\ (Within(o, stamp[o].submitted)' <=> Within(o, stamp[o].submitted))
    BY <1>2 DEF Started, Finished, CheckedIn, Reworking, Within, HasDone
  <2>2. QED
    BY <1>2, <1>6, <2>1 DEF Worked
<1>8. OrderShown(o)'
  BY <1>0, <1>2, <1>4, <1>5, <1>6, <1>7 DEF OrderShown, HasEvidence
<1>9. Exists(o)
  BY <1>0, <1>2 DEF OrderGrounded, Waiting, Untouched
<1>10. QED
  BY <1>0, <1>1, <1>2, <1>3, <1>6, <1>8, <1>9 DEF Keeps, InWorkersHands, Exists

LEMMA DraftKeeps ==
  ASSUME Reviews, ScreenInv, NEW o \in Orders, NEW c \in Complaints, Draft(o, c)
  PROVE  Keeps(o)
<1> USE DEF workVars, reviewVars, roundVars, recordVars
<1>0. /\ TypeOK /\ OrderShown(o) /\ round[o] \in Nat /\ Dispatch(o, c) /\ ~Exists(o)
  BY DEF Reviews, Grounded, ScreenInv, TypeOK, Draft, Dispatch
<1>1. Frame(o) /\ RoundFrame(o)
  BY <1>0, DispatchGrounded, DispatchReview DEF Reviews
<1>2. ScreenFrame(o) /\ UNCHANGED recordVars
      /\ UNCHANGED <<checkIns, photo, round, reworkAt, running, verdict, confirming>>
  BY <1>0 DEF ScreenFrame, Draft, Dispatch
<1>3. order'[o].status = "PENDING_APPROVAL"
  BY <1>0 DEF Dispatch, TypeOK
<1>4. RecordsFit(o)'
  BY <1>0, <1>2 DEF OrderShown, RecordsFit, Rounds
<1>5. o \notin disturbed => did[o] = {} /\ Pristine(o)
  BY <1>0 DEF OrderShown, Worked, InStatus
<1>6. Pristine(o) => Pristine(o)'
  BY <1>2, <1>3 DEF Pristine, InStatus
<1>7. OrderShown(o)'
  BY <1>2, <1>3, <1>4, <1>5, <1>6 DEF OrderShown, InStatus
<1>8. QED
  BY <1>0, <1>1, <1>2, <1>5, <1>7 DEF Keeps

-----------------------------------------------------------------------------
(* Every step keeps the screens sound *)

\* Nothing happened to the orders: every page is as sound as it was.
LEMMA Quiet ==
  ASSUME ScreenInv, UNCHANGED <<vars, recordVars>>
  PROVE  /\ \A o \in Orders : OrderShown(o)'
         /\ \A p : PageSound(p) => PageSound(p)'
<1> USE DEF vars, recordVars
<1>1. \A o \in Orders : OrderShown(o)'
  <2> TAKE o \in Orders
  <2>1. OrderShown(o) /\ (HasEvidence(o) => HasEvidence(o)')
    BY DEF ScreenInv, HasEvidence
  <2>2. QED
    BY <2>1, SameRecords
<1>2. \A p : PageSound(p) => PageSound(p)'
  BY DEF PageSound, Fits, Rounds, Within, InWorkersHands, InStatus, Exists
<1>3. QED
  BY <1>1, <1>2

\* The page of w after o was loaded again.
LEMMA UpdatedSound ==
  ASSUME TypeOK, NEW o \in Orders, OrderShown(o), NEW p, PageSound(p), p.order = o
  PROVE  PageSound(Updated(o, p))
<1>1. KnownReview(o, p) \in Round /\ Fits(o, KnownReview(o, p))
  <2>1. p.review \in Round /\ Fits(o, p.review) /\ reviewedAt[o] \in Rounds(o)
    BY DEF PageSound, Page, OrderShown, RecordsFit
  <2>2. reviewedAt[o] \in Round
    BY <2>1, BoundsAssumption DEF Rounds, Round, OrderShown, RecordsFit
  <2>3. AskedFor(o) => Fits(o, reviewedAt[o])
    BY KnownReviewFits DEF ReviewFits
  <2>4. QED
    BY <2>1, <2>2, <2>3 DEF KnownReview
<1>2. Exists(o)
  BY DEF PageSound
<1>3. QED
  BY <1>1, <1>2, ShownPage DEF ShowsSound, Updated

LEMMA MountedSound ==
  ASSUME TypeOK, NEW o \in Orders, OrderShown(o), Exists(o)
  PROVE  PageSound(Mounted(o))
<1> DEFINE r == IF AskedFor(o) THEN reviewedAt[o] ELSE None
<1>1. r \in Round /\ Fits(o, r)
  <2>1. reviewedAt[o] \in Round /\ None \in Round
    BY BoundsAssumption DEF OrderShown, RecordsFit, Rounds, Round
  <2>2. AskedFor(o) => Fits(o, reviewedAt[o])
    BY KnownReviewFits DEF ReviewFits
  <2>3. Fits(o, None)
    BY DEF Fits, Rounds, Within
  <2>4. QED
    BY <2>1, <2>2, <2>3
<1>2. QED
  BY <1>1, ShownPage DEF ShowsSound, Mounted

\* What a page shows anew is sound.
PagesRenewed ==
  TypeOK => \A o \in Orders : OrderShown(o) =>
    /\ Exists(o) => PageSound(Mounted(o))
    /\ \A p : PageSound(p) /\ p.order = o => PageSound(Updated(o, p))

LEMMA PagesAreRenewed == PagesRenewed
BY MountedSound, UpdatedSound DEF PagesRenewed

\* The records are tables, whatever is in them.
Tables ==
  /\ did = [o \in Orders |-> did[o]] /\ stamp = [o \in Orders |-> stamp[o]]
  /\ reviewedAt = [o \in Orders |-> reviewedAt[o]] /\ page = [w \in Workers |-> page[w]]
  /\ card \in [Orders -> SUBSET Button] /\ disturbed \subseteq Orders

\* ... and what is in them fits.
Filled ==
  /\ \A o \in Orders : RecordsFit(o)
  /\ \A w \in Workers : page[w] # None => PageSound(page[w])

LEMMA TablesTyped == Tables /\ Filled => ScreensTypeOK
<1> SUFFICES ASSUME Tables, Filled
             PROVE  ScreensTypeOK
  OBVIOUS
<1>1. ASSUME NEW o \in Orders
      PROVE  did[o] \in SUBSET Deed /\ stamp[o] \in Stamps /\ reviewedAt[o] \in Round
  <2>1. 0..round[o] \subseteq 0..MaxRounds /\ Rounds(o) \subseteq Round
    BY BoundsAssumption DEF Filled, RecordsFit, Rounds, Round
  <2>2. did[o] \in SUBSET Deed
    BY <2>1 DEF Filled, RecordsFit, Deed
  <2>3. stamp[o] \in Stamps /\ reviewedAt[o] \in Round
    BY <2>1 DEF Filled, RecordsFit, Stamps
  <2>4. QED
    BY <2>2, <2>3
<1>2. \A w \in Workers : page[w] \in Page \cup {None}
  BY DEF Filled, PageSound
<1>3. QED
  BY <1>1, <1>2 DEF Tables, ScreensTypeOK

LEMMA ButtonsAreButtons ==
  ASSUME NEW o \in Orders
  PROVE  Buttons(o) \in SUBSET Button
BY DEF Buttons, DispatchButtons, ReviewButtons, Button

\* A step about o, after which a worker looks at what they held open or at o anew.
LEMMA StepKeeps ==
  ASSUME TypeOK, TypeOK', ScreenInv, NEW o \in Orders, Keeps(o), Tables',
         \A w \in Workers : \/ page'[w] \in {page[w], None}
                           \/ \E p : PageSound(p) /\ p.order = o /\ page'[w] = Updated(o, p)'
  PROVE  ScreenInv'
<1>1. \A q \in Orders : OrderShown(q)'
  <2> TAKE q \in Orders
  <2>1. CASE q = o
    BY <2>1 DEF Keeps
  <2>2. CASE q # o
    BY <2>2, KeepsOthers DEF ScreenInv
  <2>3. QED
    BY <2>1, <2>2
<1>2. \A p : PageSound(p) => PageSound(p)'
  BY KeptPage
<1>3. PagesRenewed'
  BY PagesAreRenewed, PTL
<1>4. ASSUME NEW w \in Workers, page'[w] # None
      PROVE  PageSound(page[w])'
  <2>1. CASE page'[w] = page[w]
    <3>1. PageSound(page[w]) /\ page[w] # None
      BY <1>4, <2>1 DEF ScreenInv
    <3>2. PICK p : p = page[w]
      OBVIOUS
    <3>3. PageSound(p)'
      BY <1>2, <3>1, <3>2
    <3>4. QED
      BY <2>1, <3>2, <3>3 DEF PageSound
  <2>2. ASSUME NEW p, PageSound(p), p.order = o, page'[w] = Updated(o, p)'
        PROVE  PageSound(page[w])'
    <3>1. PageSound(Updated(o, p))'
      BY <1>1, <1>2, <1>3, <2>2 DEF PagesRenewed
    <3>2. QED
      BY <2>2, <3>1 DEF PageSound
  <2>3. QED
    BY <1>4, <2>1, <2>2
<1>5. Filled'
  BY <1>1, <1>4 DEF OrderShown, Filled
<1>6. ScreensTypeOK'
  BY <1>5, TablesTyped, PTL
<1>7. QED
  BY <1>1, <1>5, <1>6 DEF ScreenInv, Filled

\* What the page shown to one worker is made of.
LEMMA PageShown ==
  ASSUME ScreensTypeOK, NEW w \in Workers, NEW v, page' = [page EXCEPT ![w] = v]
  PROVE  /\ page' = [u \in Workers |-> page'[u]]
         /\ page'[w] = v /\ \A u \in Workers \ {w} : page'[u] = page[u]
BY DEF ScreensTypeOK

LEMMA PageOfWorker ==
  ASSUME ScreenInv, NEW o, NEW w \in Workers, NEW p \in PageOf(o, w)
  PROVE  p.order = o /\ PageSound(p)
BY DEF PageOf, ScreenInv

LEMMA QuietKeeps ==
  ASSUME TypeOK, ScreenInv, UNCHANGED <<vars, recordVars>>, Tables',
         \A w \in Workers : page'[w] = page[w] \/ PageSound(page'[w])
  PROVE  ScreenInv'
<1>1. (\A o \in Orders : OrderShown(o)') /\ \A p : PageSound(p) => PageSound(p)'
  BY Quiet
<1>2. ASSUME NEW w \in Workers, page'[w] # None
      PROVE  PageSound(page[w])'
  <2>1. PageSound(page'[w])
    BY <1>2 DEF ScreenInv
  <2>2. PICK p : p = page'[w]
    OBVIOUS
  <2>3. PageSound(p)'
    BY <1>1, <2>1, <2>2
  <2>4. QED
    BY <2>2, <2>3 DEF PageSound
<1>3. Filled'
  BY <1>1, <1>2 DEF OrderShown, Filled
<1>4. ScreensTypeOK'
  BY <1>3, TablesTyped, PTL
<1>5. QED
  BY <1>1, <1>2, <1>4 DEF ScreenInv

LEMMA ScreenNextKeeps == Reviews /\ Reviews' /\ ScreenInv /\ [ScreenNext]_screenVars => ScreenInv'
<1> SUFFICES ASSUME Reviews, Reviews', ScreenInv, [ScreenNext]_screenVars
             PROVE  ScreenInv'
  OBVIOUS
<1> USE DEF recordVars, shownVars
<1>0. TypeOK /\ TypeOK' /\ ScreensTypeOK /\ \A q \in Orders : OrderShown(q)
  BY DEF Reviews, Grounded, ScreenInv
<1>1. Tables
  BY <1>0 DEF ScreensTypeOK, Tables
<1>2. CASE UNCHANGED screenVars
  <2>1. Tables'
    BY <1>1, <1>2 DEF Tables, screenVars
  <2>2. QED
    BY <1>0, <1>2, <2>1, QuietKeeps DEF screenVars
<1>3. ASSUME NEW o \in Orders, NEW w \in Workers, Open(o, w)
      PROVE  ScreenInv'
  <2>1. PageSound(Mounted(o))
    BY <1>0, <1>3, MountedSound DEF Open, Holds
  <2>2. /\ page' = [u \in Workers |-> page'[u]]
        /\ page'[w] = Mounted(o) /\ \A u \in Workers \ {w} : page'[u] = page[u]
    BY <1>0, <1>3, PageShown DEF Open
  <2>3. Tables'
    BY <1>1, <1>3, <2>2 DEF Tables, Open
  <2>4. QED
    BY <1>0, <1>3, <2>1, <2>2, <2>3, QuietKeeps DEF Open
<1>4. ASSUME NEW o \in Orders, NEW w \in Workers, Refresh(o, w)
      PROVE  ScreenInv'
  <2>1. PICK p \in PageOf(o, w) : page' = [page EXCEPT ![w] = Updated(o, p)]
    BY <1>4 DEF Refresh
  <2>2. PageSound(Updated(o, p))
    BY <1>0, <2>1, PageOfWorker, UpdatedSound
  <2>3. /\ page' = [u \in Workers |-> page'[u]]
        /\ page'[w] = Updated(o, p) /\ \A u \in Workers \ {w} : page'[u] = page[u]
    BY <1>0, <2>1, PageShown
  <2>4. Tables'
    BY <1>1, <1>4, <2>3 DEF Tables, Refresh
  <2>5. QED
    BY <1>0, <1>4, <2>2, <2>3, <2>4, QuietKeeps DEF Refresh
<1>5. ASSUME NEW o \in Orders, NEW w \in Workers, Tap(o, w)
      PROVE  ScreenInv'
  <2>1. PICK p \in PageOf(o, w) :
          /\ p.step # None /\ Handler(o, w, p.step) /\ Recorded(o, p.step)
          /\ page' = [page EXCEPT ![w] = Updated(o, p)']
    BY <1>5 DEF Tap
  <2>2. PageSound(p) /\ p.order = o
    BY <2>1, PageOfWorker
  <2>3. Keeps(o)
    BY <2>1, <2>2, WorkerKeeps DEF PageSound
  <2>4. /\ page' = [u \in Workers |-> page'[u]]
        /\ page'[w] = Updated(o, p)' /\ \A u \in Workers \ {w} : page'[u] = page[u]
    BY <1>0, <2>1, PageShown
  <2>5. Tables'
    BY <1>0, <1>1, <1>5, <2>1, <2>4 DEF Tables, Tap, Recorded
  <2>6. QED
    BY <1>0, <2>2, <2>3, <2>4, <2>5, StepKeeps
<1>6. ASSUME NEW o \in Orders, NEW w \in Workers, NEW cat \in Category, AttachPhoto(o, w, cat)
      PROVE  ScreenInv'
  <2>1. PICK p \in PageOf(o, w) :
          UploadPhoto(o, w, cat) /\ page' = [page EXCEPT ![w] = Updated(o, p)']
    BY <1>6 DEF AttachPhoto
  <2>2. PageSound(p) /\ p.order = o
    BY <2>1, PageOfWorker
  <2>3. Keeps(o)
    BY <1>6, <2>1, PhotoKeeps DEF AttachPhoto
  <2>4. /\ page' = [u \in Workers |-> page'[u]]
        /\ page'[w] = Updated(o, p)' /\ \A u \in Workers \ {w} : page'[u] = page[u]
    BY <1>0, <2>1, PageShown
  <2>5. Tables'
    BY <1>1, <1>6, <2>4 DEF Tables, AttachPhoto
  <2>6. QED
    BY <1>0, <2>2, <2>3, <2>4, <2>5, StepKeeps
<1>7. ASSUME NEW o \in Orders, Reload(o)
      PROVE  ScreenInv'
  <2>1. card' \in [Orders -> SUBSET Button]
    BY <1>1, <1>7, ButtonsAreButtons DEF Reload, Tables
  <2>2. Tables'
    BY <1>1, <1>7, <2>1 DEF Tables, Reload
  <2>3. QED
    BY <1>0, <1>7, <2>2, QuietKeeps DEF Reload
<1>8. ASSUME NEW o \in Orders, Analyses(o) \/ EndReview(o)
      PROVE  ScreenInv'
  <2>1. Keeps(o)
    BY <1>8, VerdictKeeps
  <2>2. Tables' /\ page' = page
    BY <1>0, <1>1, <1>8 DEF Tables, Analyses, EndReview
  <2>3. QED
    BY <1>0, <2>1, <2>2, StepKeeps
<1>9. ASSUME NEW o \in Orders, NEW b \in Button, Press(o, b)
      PROVE  ScreenInv'
  <2>1. Keeps(o) /\ page' = page
    BY <1>9, PressKeeps DEF Press
  <2>2. Buttons(o)' \in SUBSET Button
    BY DEF Buttons, DispatchButtons, ReviewButtons, Button
  <2>3. card' \in [Orders -> SUBSET Button]
    BY <1>1, <1>9, <2>2 DEF Press, Tables
  <2>4. disturbed' \subseteq Orders /\ did' = did
    BY <1>1, <1>9 DEF Press, Tables
  <2>5. stamp' = [q \in Orders |-> stamp'[q]] /\ reviewedAt' = [q \in Orders |-> reviewedAt'[q]]
    BY <1>1, <1>9 DEF Press, Tables
  <2>6. Tables'
    BY <1>1, <2>1, <2>3, <2>4, <2>5 DEF Tables
  <2>7. QED
    BY <1>0, <2>1, <2>6, StepKeeps
<1>10. ASSUME NEW o \in Orders, NEW c \in Complaints, Draft(o, c)
       PROVE  ScreenInv'
  <2>1. Keeps(o)
    BY <1>10, DraftKeeps
  <2>2. Tables' /\ page' = page
    BY <1>1, <1>10 DEF Tables, Draft
  <2>3. QED
    BY <1>0, <2>1, <2>2, StepKeeps
<1>11. QED
  BY <1>2, <1>3, <1>4, <1>5, <1>6, <1>7, <1>8, <1>9, <1>10 DEF ScreenNext

LEMMA ScreenInitSound == ScreenInit => ScreenInv
<1> SUFFICES ASSUME ScreenInit
             PROVE  ScreenInv
  OBVIOUS
<1>1. /\ order = [o \in Orders |-> None] /\ round = [o \in Orders |-> 0]
      /\ reworkAt = [o \in Orders |-> 0] /\ running = [o \in Orders |-> {}]
      /\ verdict = [o \in Orders |-> None] /\ confirming = [o \in Orders |-> {}]
  BY DEF ScreenInit, Init
<1>2. ScreensTypeOK
  BY BoundsAssumption DEF ScreenInit, ScreensTypeOK, Stamps, Round
<1>3. ASSUME NEW o \in Orders
      PROVE  OrderShown(o)
  <2>1. RecordsFit(o)
    BY <1>1, BoundsAssumption DEF ScreenInit, RecordsFit, Rounds
  <2>2. Pristine(o) /\ did[o] = {} /\ ~InStatus(o, {"EVIDENCE_SUBMITTED"})
    BY <1>1 DEF ScreenInit, Pristine, InStatus, Exists
  <2>3. QED
    BY <2>1, <2>2 DEF OrderShown
<1>4. QED
  BY <1>2, <1>3 DEF ScreenInv, ScreenInit

LEMMA ScreensReviewed == ScreenSpec => []Reviews
BY ScreensAreWorkOrders, ReviewsAlways, PTL

\* The records behind the screens always say of an order what its status says,
\* and no page knows of a review of the round that is being worked in.
THEOREM ScreensAreSound == ScreenSpec => []ScreenInv
BY ScreenInitSound, ScreenNextKeeps, ScreensReviewed, PTL DEF ScreenSpec

-----------------------------------------------------------------------------
(* What the screens promise *)

\* The step a page works out, knowing of no review of this round, is taken.
LEMMA PendingIsAccepted ==
  ASSUME TypeOK, NEW o \in Orders, NEW w \in Workers, Holds(w, o), InWorkersHands(o),
         o \notin disturbed, OrderShown(o), NEW r, ~Within(o, r)
  PROVE  Accepted(o, w, PendingStep(o, r))
<1>1. ~InStatus(o, {"COMPLETED"}) /\ Exists(o)
  BY DEF InWorkersHands, InStatus
<1>2. CASE did[o] = {}
  <2>1. Pristine(o) /\ InStatus(o, {"ASSIGNED"})
    BY <1>2 DEF OrderShown, Pristine, InWorkersHands, InStatus
  <2>2. ~Reworking(o) /\ ~Started(o)
    BY <1>2, <2>1 DEF Pristine, Reworking, Started, Within, HasDone
  <2>3. PendingStep(o, r) = IF ~order[o].accepted THEN "accept"
                            ELSE IF ~CheckedIn(o) THEN "check-in" ELSE "start"
    BY <1>1, <2>2 DEF PendingStep, FirstUndone
  <2>4. MayAccept(o, w) /\ MayCheckIn(o, w)
    BY <2>1 DEF MayAccept, MayCheckIn, InStatus
  <2>5. CheckedIn(o) => MayStart(o, w)
    BY <2>1 DEF CheckedIn, MayStart, HasCheckIn, InStatus, OrderStatus
  <2>6. QED
    BY <2>3, <2>4, <2>5 DEF Accepted, Takes
<1>3. CASE did[o] # {}
  <2>0. Worked(o) /\ order[o].accepted
    BY <1>3 DEF OrderShown, Worked
  <2>1. CASE InStatus(o, {"IN_PROGRESS"})
    <3>1. CheckedIn(o) /\ Started(o) /\ ~Finished(o)
      BY <2>0, <2>1 DEF Worked, InStatus
    <3>2. PendingStep(o, r) = "finish"
      BY <1>1, <2>0, <3>1 DEF PendingStep, FirstUndone
    <3>3. QED
      BY <2>1, <3>2 DEF Accepted, Takes, MayFinish
  <2>2. CASE InStatus(o, {"WORK_COMPLETED"})
    <3>1. CheckedIn(o) /\ Started(o) /\ Finished(o) /\ ~EvidenceSubmitted(o)
      BY <2>0, <2>2 DEF Worked, EvidenceSubmitted, InStatus
    <3>2. PendingStep(o, r) = "evidence"
      BY <1>1, <2>0, <3>1 DEF PendingStep, FirstUndone
    <3>3. QED
      BY <1>1, <2>2, <3>1, <3>2 DEF Accepted, Takes, MaySubmit, TakesPhotos
  <2>3. CASE InStatus(o, {"RETURNED_FOR_REWORK"})
    <3>1. Reworking(o) /\ ~Started(o) /\ ~Finished(o)
      BY <2>0, <2>3 DEF Worked, InStatus
    <3>2. PendingStep(o, r) = IF ~CheckedIn(o) THEN "check-in" ELSE "rework"
      BY <1>1, <3>1 DEF PendingStep
    <3>3. MayCheckIn(o, w) /\ (CheckedIn(o) => MayRestart(o, w))
      BY <2>3, <3>1 DEF MayCheckIn, MayRestart, CheckedIn, HasFreshCheckIn, Reworking, InStatus
    <3>4. QED
      BY <3>2, <3>3 DEF Accepted, Takes
  <2>4. QED
    BY <2>0, <2>1, <2>2, <2>3 DEF Worked, InWorkersHands, InStatus
<1>4. QED
  BY <1>2, <1>3

\* Whoever holds an order that was not reopened for a follow-up nor handed on in
\* mid-work is offered a step the server takes, on a page loaded now and on one
\* kept open, in every round of rework.
THEOREM StepsAreAccepted == ScreenSpec => []StepIsAccepted
<1>1. Reviews /\ ScreenInv => StepIsAccepted
  <2> SUFFICES ASSUME Reviews, ScreenInv, NEW o \in Orders, NEW w \in Workers,
                      Holds(w, o), InWorkersHands(o), o \notin disturbed
               PROVE  /\ Accepted(o, w, Mounted(o).step)
                      /\ \A p \in PageOf(o, w) : Accepted(o, w, Updated(o, p).step)
    BY DEF StepIsAccepted
  <2>1. TypeOK /\ OrderShown(o) /\ ~AskedFor(o)
    BY DEF Reviews, Grounded, ScreenInv, AskedFor, InWorkersHands, InStatus
  <2>2. Accepted(o, w, Mounted(o).step)
    <3>1. Mounted(o).step = PendingStep(o, None) /\ ~Within(o, None)
      BY <2>1 DEF Mounted, Showing, Within
    <3>2. QED
      BY <2>1, <3>1, PendingIsAccepted
  <2>3. ASSUME NEW p \in PageOf(o, w)
        PROVE  Accepted(o, w, Updated(o, p).step)
    <3>1. Updated(o, p).step = PendingStep(o, p.review)
      BY <2>1 DEF Updated, KnownReview, Showing
    <3>2. ~Within(o, p.review)
      BY <2>3, PageOfWorker DEF PageSound, Fits
    <3>3. QED
      BY <2>1, <3>1, <3>2, PendingIsAccepted
  <2>4. QED
    BY <2>2, <2>3
<1>2. QED
  BY <1>1, ScreensAreSound, ScreensReviewed, PTL

\* A draft with a worker can be approved, and submitted evidence analysed, from
\* the officer's cards, in every round.
THEOREM DecisionsAreOffered == ScreenSpec => []DecisionIsOffered
<1>1. Reviews /\ ScreenInv => DecisionIsOffered
  <2> SUFFICES ASSUME Reviews, ScreenInv, NEW o \in Orders
               PROVE  /\ InStatus(o, {"PENDING_APPROVAL"}) =>
                           "approve" \in Buttons(o) /\ Grants(o, "approve")
                      /\ InStatus(o, {"EVIDENCE_SUBMITTED"}) =>
                           "run" \in Buttons(o) /\ Grants(o, "run")
    BY DEF DecisionIsOffered
  <2>1. InStatus(o, {"PENDING_APPROVAL"}) => assignments[o] = <<>>
    BY DEF Reviews, Grounded, NoWorkBeforeApproval, InStatus
  <2>2. InStatus(o, {"EVIDENCE_SUBMITTED"}) => HasEvidence(o) /\ AskedFor(o)
    BY DEF ScreenInv, OrderShown, AskedFor, InStatus
  <2>3. QED
    BY <2>1, <2>2 DEF Buttons, DispatchButtons, ReviewButtons, Grants, MayApprove, MayVerify,
       AskedFor, InStatus
<1>2. QED
  BY <1>1, ScreensAreSound, ScreensReviewed, PTL
=============================================================================
