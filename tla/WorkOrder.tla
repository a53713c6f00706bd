------------------------------ MODULE WorkOrder ------------------------------
(***************************************************************************)
(* The life of a work order, from the dispatch agent's draft to the        *)
(* officer's certification, together with the complaint it serves.         *)
(*                                                                         *)
(* Each action is one request handler (or one transaction of a handler     *)
(* that commits more than once) of dispatch_agent, work_order_service,     *)
(* field_worker_service and verify_repair_service.  A handler's early      *)
(* returns and raised errors change nothing and are stuttering steps, and  *)
(* so is the replay of a client_ref that was already recorded.             *)
(*                                                                         *)
(* Time is counted in evidence rounds: round[o] is the number of times an  *)
(* officer has rejected the evidence of o.  A check-in or a photo carries  *)
(* the round it was recorded in, and reworkAt[o] is the round opened by    *)
(* the latest REWORK_REQUESTED history entry (0: there is none).           *)
(***************************************************************************)
EXTENDS Naturals, Sequences, FiniteSets

CONSTANTS
  Complaints,     \* complaints a citizen has submitted
  Orders,         \* rows the dispatch agent may create
  Workers,        \* field workers
  Officers,       \* staff who review verdicts
  None,           \* SQL NULL
  Capacity,       \* DISPATCH_MAX_ACTIVE_ORDERS
  AiVerdicts,     \* verdicts the verification agent may return
  Analysed,       \* statuses a triage or vision run moves a complaint to
  MaxAssignments, \* bound: assignment rows of one order
  MaxRounds,      \* bound: evidence rejections of one order
  MaxRuns         \* bound: verification runs of one order

ASSUME CapacityAssumption == Capacity \in Nat
ASSUME AiAssumption ==
  /\ AiVerdicts \subseteq {"VERIFIED", "PARTIALLY_RESOLVED", "NOT_RESOLVED",
                          "NEEDS_HUMAN_REVIEW"}
  /\ Analysed \subseteq {"PRIORITIZED", "EVIDENCE_VERIFIED"}
ASSUME BoundsAssumption ==
  MaxAssignments \in Nat /\ MaxRounds \in Nat /\ MaxRuns \in Nat


VARIABLES
  complaint,   \* status column of each complaint
  order,       \* the work_orders row
  assignments, \* worker_assignments rows of an order, by assigned_at
  checkIns,    \* EN_ROUTE / ARRIVED activities of an order
  photo,       \* newest allowed photo per category: its round, or None
  round,
  reworkAt,
  runs,        \* verification runs started on an order (created_at ticket)
  running,     \* tickets of the runs whose analysis is under way
  verdict,     \* the latest work_order_verifications row
  confirming,  \* CONFIRM reviews between their two commits: the officer and the
               \* ticket of the row; an officer's two of one row count as one
  onDuty       \* workers whose profile is ACTIVE

workVars == <<assignments, checkIns, photo>>
reviewVars == <<runs, running, verdict, confirming>>
roundVars == <<round, reworkAt>>
vars == <<complaint, order, assignments, checkIns, photo, round, reworkAt,
          runs, running, verdict, confirming, onDuty>>

-----------------------------------------------------------------------------
OrderStatus ==
  {"PENDING_APPROVAL", "ASSIGNED", "IN_PROGRESS", "WORK_COMPLETED",
   "EVIDENCE_SUBMITTED", "COMPLETED", "RETURNED_FOR_REWORK", "ESCALATED",
   "REJECTED", "CLOSED"}
ComplaintStatus ==
  {"SUBMITTED", "EVIDENCE_VERIFIED", "PRIORITIZED", "IN_PROGRESS",
   "ESCALATED", "RESOLVED", "CITIZEN_VERIFIED", "CLOSED"}
AssignmentStatus == {"ASSIGNED", "REASSIGNED", "UNASSIGNED"}
Origin == {"AI_RECOMMENDATION", "OFFICER_OVERRIDE", "MANUAL"}
Category == {"BEFORE", "AFTER"}
Verdict ==
  {"VERIFIED", "PARTIALLY_RESOLVED", "NOT_RESOLVED", "NEEDS_HUMAN_REVIEW"}

OrderRow ==
  [complaint : Complaints, status : OrderStatus, worker : Workers \cup {None},
   recommended : Workers \cup {None}, accepted : BOOLEAN,
   completed : BOOLEAN, submitted : BOOLEAN]
Assignment ==
  [worker : Workers, status : AssignmentStatus, origin : Origin,
   accepted : BOOLEAN]
CheckIn == [worker : Workers, round : Nat]
\* reviewed: reviewed_at is set; by: reviewed_by, which review_note goes with.
Verification ==
  [ticket : Nat, status : Verdict, reviewed : BOOLEAN, by : Officers \cup {None}]

\* NULL is a value of no other kind.
ASSUME NoneAssumption ==
  /\ None \notin Workers /\ None \notin Nat /\ None \notin Officers
  /\ None \notin OrderRow /\ None \notin Verification

\* A row the dispatch agent has not inserted yet is None.
Exists(o) == order[o] # None
Holds(w, o) == Exists(o) /\ order[o].worker = w
InStatus(o, S) == Exists(o) /\ order[o].status \in S

-----------------------------------------------------------------------------
(* Assignment rows *)

IsActive(a) == a.status \in {"ASSIGNED", "REASSIGNED"}

\* active_orders: every row of the worker that is not UNASSIGNED.
Load(w) ==
  Cardinality({p \in Orders \X (1..MaxAssignments) :
     /\ p[2] \in DOMAIN assignments[p[1]]
     /\ assignments[p[1]][p[2]].worker = w
     /\ IsActive(assignments[p[1]][p[2]])})

\* Only rows in status ASSIGNED are superseded, never REASSIGNED ones.
Supersede(rows) ==
  [i \in DOMAIN rows |->
     IF rows[i].status = "ASSIGNED"
       THEN [rows[i] EXCEPT !.status = "UNASSIGNED"] ELSE rows[i]]

OriginOf(row, w) ==
  IF row.recommended = None THEN "MANUAL"
  ELSE IF row.recommended = w THEN "AI_RECOMMENDATION"
  ELSE "OFFICER_OVERRIDE"

\* Mutant: the new row is added before the ASSIGNED rows are superseded.
GiveThenSupersede(o, w, status, origin) ==
  /\ Len(assignments[o]) < MaxAssignments
  /\ assignments' = [assignments EXCEPT ![o] =
       Supersede(Append(@, [worker |-> w, status |-> status,
                            origin |-> origin, accepted |-> FALSE]))]

GiveTo(o, w, status, origin) ==
  /\ Len(assignments[o]) < MaxAssignments
  /\ assignments' = [assignments EXCEPT ![o] =
       Append(Supersede(@), [worker |-> w, status |-> status,
                             origin |-> origin, accepted |-> FALSE])]

-----------------------------------------------------------------------------
(* Dispatch agent *)

\* The top-ranked ACTIVE worker is recommended if it is below its ceiling.
\* The draft has no worker when the top-ranked one is at its ceiling (even if
\* a lower one is free) and when no ACTIVE worker belongs to a department.
Recommendable == {None} \cup {w \in onDuty : Load(w) < Capacity}

Dispatch(o, c) ==
  /\ ~Exists(o)
  /\ \E w \in Recommendable :
       order' = [order EXCEPT ![o] =
         [complaint |-> c, status |-> "PENDING_APPROVAL", worker |-> w,
          recommended |-> w, accepted |-> FALSE, completed |-> FALSE,
          submitted |-> FALSE]]
  /\ UNCHANGED <<complaint, workVars, roundVars, reviewVars, onDuty>>

-----------------------------------------------------------------------------
(* Officer: work_order_service *)

MayApprove(o) == InStatus(o, {"PENDING_APPROVAL"})

Approve(o) ==
  /\ MayApprove(o)
  /\ order' = [order EXCEPT ![o].status = "ASSIGNED"]
  /\ IF order[o].worker = None THEN UNCHANGED assignments
     ELSE GiveTo(o, order[o].worker, "ASSIGNED", "AI_RECOMMENDATION")
  /\ UNCHANGED <<complaint, checkIns, photo, roundVars, reviewVars, onDuty>>

MayAssignRejected(o, w) ==
  /\ InStatus(o, OrderStatus \ {"COMPLETED", "CLOSED"})
  /\ w \in onDuty

\* The guard assign_work_order and reassign_work_order share.
MayAssign(o, w) ==
  /\ InStatus(o, OrderStatus \ {"COMPLETED", "CLOSED", "REJECTED"})
  /\ w \in onDuty

Assign(o, w) ==
  /\ MayAssign(o, w)
  /\ GiveTo(o, w, "ASSIGNED", OriginOf(order[o], w))
  /\ order' = [order EXCEPT ![o].worker = w, ![o].status = "ASSIGNED"]
  /\ UNCHANGED <<complaint, checkIns, photo, roundVars, reviewVars, onDuty>>

Reassign(o, w) ==
  /\ MayAssign(o, w)
  /\ order[o].worker # w
  /\ GiveTo(o, w, "REASSIGNED", OriginOf(order[o], w))
  /\ order' = [order EXCEPT ![o].worker = w, ![o].status = "ASSIGNED"]
  /\ UNCHANGED <<complaint, checkIns, photo, roundVars, reviewVars, onDuty>>

Escalate(o) ==
  /\ InStatus(o, OrderStatus \ {"COMPLETED", "CLOSED", "REJECTED", "ESCALATED"})
  /\ order' = [order EXCEPT ![o].status = "ESCALATED"]
  /\ UNCHANGED <<complaint, workVars, roundVars, reviewVars, onDuty>>

Reject(o) ==
  /\ InStatus(o, {"PENDING_APPROVAL"})
  /\ order' = [order EXCEPT ![o].status = "REJECTED"]
  /\ UNCHANGED <<complaint, workVars, roundVars, reviewVars, onDuty>>

-----------------------------------------------------------------------------
(* Field worker: field_worker_service.  w is the worker's own profile. *)

Accept(rows) ==
  [i \in DOMAIN rows |->
     IF rows[i].status = "ASSIGNED"
       THEN [rows[i] EXCEPT !.accepted = TRUE] ELSE rows[i]]

MayAccept(o, w) == Holds(w, o) /\ InStatus(o, {"ASSIGNED"})

AcceptJob(o, w) ==
  /\ MayAccept(o, w)
  /\ order' = [order EXCEPT ![o].accepted = TRUE]
  /\ assignments' = [assignments EXCEPT ![o] = Accept(@)]
  /\ UNCHANGED <<complaint, checkIns, photo, roundVars, reviewVars, onDuty>>

\* Mutant: no gate on the status, as for photos.
CheckInAnywhere(o, w) ==
  /\ Holds(w, o)
  /\ checkIns' = [checkIns EXCEPT ![o] = @ \cup {[worker |-> w, round |-> round[o]]}]
  /\ UNCHANGED <<complaint, order, assignments, photo, roundVars, reviewVars,
                 onDuty>>

MayCheckIn(o, w) ==
  Holds(w, o) /\ InStatus(o, {"ASSIGNED", "IN_PROGRESS", "RETURNED_FOR_REWORK"})

CheckInAt(o, w) ==
  /\ MayCheckIn(o, w)
  /\ checkIns' = [checkIns EXCEPT ![o] = @ \cup {[worker |-> w, round |-> round[o]]}]
  /\ UNCHANGED <<complaint, order, assignments, photo, roundVars, reviewVars,
                 onDuty>>

\* Any EN_ROUTE / ARRIVED activity of the order counts, whoever recorded it.
HasCheckIn(o) == checkIns[o] # {}
HasFreshCheckIn(o) == \E a \in checkIns[o] : a.round >= reworkAt[o]

\* Mutant: a resolved complaint is left alone.
UnresolvedInProgress(o) ==
  complaint' = [complaint EXCEPT ![order[o].complaint] =
                  IF @ = "RESOLVED" THEN @ ELSE "IN_PROGRESS"]

\* The complaint follows the field work.
ComplaintInProgress(o) ==
  complaint' = [complaint EXCEPT ![order[o].complaint] = "IN_PROGRESS"]

MayStart(o, w) ==
  /\ Holds(w, o)
  /\ InStatus(o, OrderStatus \ {"COMPLETED", "CLOSED", "REJECTED", "ESCALATED",
       "WORK_COMPLETED", "EVIDENCE_SUBMITTED", "RETURNED_FOR_REWORK"})
  /\ HasCheckIn(o) \/ InStatus(o, {"IN_PROGRESS"})

StartJob(o, w) ==
  /\ MayStart(o, w)
  /\ order' = [order EXCEPT ![o].status = "IN_PROGRESS"]
  /\ IF InStatus(o, {"IN_PROGRESS"}) THEN UNCHANGED complaint
     ELSE ComplaintInProgress(o)
  /\ UNCHANGED <<workVars, roundVars, reviewVars, onDuty>>

MayFinish(o, w) == Holds(w, o) /\ InStatus(o, {"IN_PROGRESS"})

FinishJob(o, w) ==
  /\ MayFinish(o, w)
  /\ order' = [order EXCEPT ![o].status = "WORK_COMPLETED",
                            ![o].completed = TRUE]
  /\ UNCHANGED <<complaint, workVars, roundVars, reviewVars, onDuty>>

\* upload_photo has no gate on the status of the order.
UploadPhoto(o, w, cat) ==
  /\ Holds(w, o)
  /\ photo' = [photo EXCEPT ![o][cat] = round[o]]
  /\ UNCHANGED <<complaint, order, assignments, checkIns, roundVars,
                 reviewVars, onDuty>>

HasEvidence(o) == \A cat \in Category : photo[o][cat] # None

MaySubmit(o, w) == Holds(w, o) /\ InStatus(o, {"WORK_COMPLETED"}) /\ HasEvidence(o)

SubmitEvidence(o, w) ==
  /\ MaySubmit(o, w)
  /\ order' = [order EXCEPT ![o].status = "EVIDENCE_SUBMITTED",
                            ![o].submitted = TRUE]
  /\ UNCHANGED <<complaint, workVars, roundVars, reviewVars, onDuty>>

MayRestart(o, w) ==
  /\ Holds(w, o) /\ InStatus(o, {"RETURNED_FOR_REWORK"})
  /\ reworkAt[o] # 0 /\ HasFreshCheckIn(o)

StartRework(o, w) ==
  /\ MayRestart(o, w)
  /\ order' = [order EXCEPT ![o].status = "IN_PROGRESS",
                            ![o].completed = FALSE, ![o].submitted = FALSE]
  /\ ComplaintInProgress(o)
  /\ UNCHANGED <<workVars, roundVars, reviewVars, onDuty>>

-----------------------------------------------------------------------------
(* Resolution verification: verify_repair_service, verify_repair_agent *)

MayVerify(o) == InStatus(o, {"EVIDENCE_SUBMITTED", "COMPLETED"}) /\ HasEvidence(o)

\* A verdict's created_at is the start of the analysis transaction, so its
\* ticket is taken here and not when the verdict is written.
RunVerification(o) ==
  /\ MayVerify(o)
  /\ runs[o] < MaxRuns
  /\ runs' = [runs EXCEPT ![o] = @ + 1]
  /\ running' = [running EXCEPT ![o] = @ \cup {runs[o] + 1}]
  /\ UNCHANGED <<complaint, order, workVars, roundVars, verdict, confirming,
                 onDuty>>

\* _latest_verification reads the row with the greatest created_at.
IsLatest(o, t) == verdict[o] = None \/ t > verdict[o].ticket

PersistVerdict(o, t, v) ==
  /\ t \in running[o]
  /\ running' = [running EXCEPT ![o] = @ \ {t}]
  /\ verdict' = IF IsLatest(o, t)
       THEN [verdict EXCEPT ![o] =
              [ticket |-> t, status |-> v, reviewed |-> FALSE, by |-> None]]
       ELSE verdict
  /\ UNCHANGED <<complaint, order, workVars, roundVars, runs, confirming,
                 onDuty>>

\* A provider or evidence failure (or a crash) leaves no verdict row.
FailRun(o, t) ==
  /\ t \in running[o]
  /\ running' = [running EXCEPT ![o] = @ \ {t}]
  /\ UNCHANGED <<complaint, order, workVars, roundVars, runs, verdict,
                 confirming, onDuty>>

Reviewable(o) == verdict[o] # None /\ ~verdict[o].reviewed

\* CONFIRM_VERIFIED, first commit (_confirm_resolution): whatever the status
\* of the order, and before reviewed_at is written.
ConfirmResolution(o, u) ==
  /\ Reviewable(o)
  /\ order' = [order EXCEPT ![o].status = "COMPLETED"]
  /\ complaint' = [complaint EXCEPT ![order[o].complaint] = "RESOLVED"]
  /\ verdict' = [verdict EXCEPT ![o].status = "VERIFIED"]
  /\ confirming' = [confirming EXCEPT ![o] = @ \cup {<<u, verdict[o].ticket>>}]
  /\ UNCHANGED <<workVars, roundVars, runs, running, onDuty>>

\* Mutant: the second commit writes the verdict again.
RecordWholeReview(o, u, t) ==
  /\ <<u, t>> \in confirming[o]
  /\ confirming' = [confirming EXCEPT ![o] = @ \ {<<u, t>>}]
  /\ verdict' = IF verdict[o].ticket = t
       THEN [verdict EXCEPT ![o] = [@ EXCEPT !.status = "VERIFIED", !.reviewed = TRUE, !.by = u]]
       ELSE verdict
  /\ UNCHANGED <<complaint, order, workVars, roundVars, runs, running, onDuty>>

\* CONFIRM_VERIFIED, second commit: the reviewer signs the row he confirmed,
\* whatever another officer has made of it since.  The verdict was flushed by
\* the first commit and is not written again.
RecordReview(o, u, t) ==
  /\ <<u, t>> \in confirming[o]
  /\ confirming' = [confirming EXCEPT ![o] = @ \ {<<u, t>>}]
  /\ verdict' = IF verdict[o].ticket = t
       THEN [verdict EXCEPT ![o] = [@ EXCEPT !.reviewed = TRUE, !.by = u]] ELSE verdict
  /\ UNCHANGED <<complaint, order, workVars, roundVars, runs, running, onDuty>>

\* The request dies between the two commits.
LoseReview(o, u, t) ==
  /\ <<u, t>> \in confirming[o]
  /\ confirming' = [confirming EXCEPT ![o] = @ \ {<<u, t>>}]
  /\ UNCHANGED <<complaint, order, workVars, roundVars, runs, running,
                 verdict, onDuty>>

\* What REQUIRES_FOLLOWUP and REQUEST_REWORK share.
RejectEvidence(o, u) ==
  /\ Reviewable(o)
  /\ InStatus(o, {"COMPLETED", "EVIDENCE_SUBMITTED"})
  /\ round[o] < MaxRounds
  /\ round' = [round EXCEPT ![o] = @ + 1]
  /\ verdict' = [verdict EXCEPT ![o] =
       [@ EXCEPT !.status = "NOT_RESOLVED", !.reviewed = TRUE, !.by = u]]
  /\ ComplaintInProgress(o)
  /\ UNCHANGED <<workVars, runs, running, confirming, onDuty>>

\* Mutant: a COMPLETED order is not reopened.
FollowupOfSubmitted(o, u) ==
  /\ RejectEvidence(o, u)
  /\ order' = IF InStatus(o, {"EVIDENCE_SUBMITTED"})
       THEN [order EXCEPT ![o].status = "IN_PROGRESS",
                          ![o].completed = FALSE, ![o].submitted = FALSE]
       ELSE order
  /\ UNCHANGED reworkAt

RequireFollowup(o, u) ==
  /\ RejectEvidence(o, u)
  /\ order' = [order EXCEPT ![o].status = "IN_PROGRESS",
                            ![o].completed = FALSE, ![o].submitted = FALSE]
  /\ UNCHANGED reworkAt

\* Mutant: the history entry only stands for the first rework request.
RequestReworkOnce(o, u) ==
  /\ RejectEvidence(o, u)
  /\ order' = [order EXCEPT ![o].status = "RETURNED_FOR_REWORK"]
  /\ reworkAt' = [reworkAt EXCEPT ![o] = IF @ = 0 THEN round[o] + 1 ELSE @]

RequestRework(o, u) ==
  /\ RejectEvidence(o, u)
  /\ order' = [order EXCEPT ![o].status = "RETURNED_FOR_REWORK"]
  /\ reworkAt' = [reworkAt EXCEPT ![o] = round[o] + 1]

-----------------------------------------------------------------------------
(* Other writers of the complaint's status, and the worker's profile *)

\* A successful triage or vision run moves the complaint whatever its status.
Analyse(c, s) ==
  /\ complaint' = [complaint EXCEPT ![c] = s]
  /\ UNCHANGED <<order, workVars, roundVars, reviewVars, onDuty>>

RequestEscalation(c) ==
  /\ complaint[c] \notin {"ESCALATED", "RESOLVED", "CLOSED", "CITIZEN_VERIFIED"}
  /\ complaint' = [complaint EXCEPT ![c] = "ESCALATED"]
  /\ UNCHANGED <<order, workVars, roundVars, reviewVars, onDuty>>

SetOnDuty(w) ==
  /\ onDuty' = IF w \in onDuty THEN onDuty \ {w} ELSE onDuty \cup {w}
  /\ UNCHANGED <<complaint, order, workVars, roundVars, reviewVars>>

-----------------------------------------------------------------------------
Init ==
  /\ complaint = [c \in Complaints |-> "SUBMITTED"]
  /\ order = [o \in Orders |-> None]
  /\ assignments = [o \in Orders |-> <<>>]
  /\ checkIns = [o \in Orders |-> {}]
  /\ photo = [o \in Orders |-> [cat \in Category |-> None]]
  /\ round = [o \in Orders |-> 0]
  /\ reworkAt = [o \in Orders |-> 0]
  /\ runs = [o \in Orders |-> 0]
  /\ running = [o \in Orders |-> {}]
  /\ verdict = [o \in Orders |-> None]
  /\ confirming = [o \in Orders |-> {}]
  /\ onDuty = Workers

OfficerStep(o) ==
  \/ Approve(o) \/ Reject(o) \/ Escalate(o)
  \/ \E w \in Workers : Assign(o, w) \/ Reassign(o, w)

WorkerStep(o, w) ==
  \/ AcceptJob(o, w) \/ CheckInAt(o, w) \/ StartJob(o, w) \/ FinishJob(o, w)
  \/ SubmitEvidence(o, w) \/ StartRework(o, w)
  \/ \E cat \in Category : UploadPhoto(o, w, cat)

ReviewStep(o) ==
  \/ RunVerification(o)
  \/ \E t \in running[o] :
       FailRun(o, t) \/ \E v \in AiVerdicts : PersistVerdict(o, t, v)
  \/ \E u \in Officers :
       ConfirmResolution(o, u) \/ RequireFollowup(o, u) \/ RequestRework(o, u)
  \/ \E s \in confirming[o] : RecordReview(o, s[1], s[2]) \/ LoseReview(o, s[1], s[2])

ComplaintStep(c) ==
  \/ \E o \in Orders : Dispatch(o, c)
  \/ \E s \in Analysed : Analyse(c, s)
  \/ RequestEscalation(c)

Next ==
  \/ \E o \in Orders : OfficerStep(o) \/ ReviewStep(o)
  \/ \E o \in Orders, w \in Workers : WorkerStep(o, w)
  \/ \E c \in Complaints : ComplaintStep(c)
  \/ \E w \in Workers : SetOnDuty(w)

Spec == Init /\ [][Next]_vars

-----------------------------------------------------------------------------
(* Invariants *)

\* Every column keeps to the values its enum or nullable type allows.
TypeOK ==
  /\ complaint \in [Complaints -> ComplaintStatus]
  /\ order \in [Orders -> OrderRow \cup {None}]
  /\ assignments \in [Orders -> Seq(Assignment)]
  /\ checkIns \in [Orders -> SUBSET CheckIn]
  /\ photo \in [Orders -> [Category -> Nat \cup {None}]]
  /\ round \in [Orders -> Nat]
  /\ reworkAt \in [Orders -> Nat]
  /\ runs \in [Orders -> Nat]
  /\ running \in [Orders -> SUBSET Nat]
  /\ verdict \in [Orders -> Verification \cup {None}]
  /\ confirming \in [Orders -> SUBSET (Officers \X Nat)]
  /\ onDuty \subseteq Workers

\* Nothing is done on a draft the officer has not approved, or has rejected:
\* although a recommended worker already holds the draft (worker_id) and
\* start_job lists the statuses it refuses instead of those it allows, no
\* assignment, check-in, analysis or verdict exists before the approval.
NoWorkBeforeApproval ==
  \A o \in Orders :
    ~Exists(o) \/ InStatus(o, {"PENDING_APPROVAL", "REJECTED"}) =>
      /\ assignments[o] = <<>> /\ checkIns[o] = {}
      /\ running[o] = {} /\ verdict[o] = None

\* The origin recorded on every assignment, however old, still says truly
\* whether that pick honoured the agent's recommendation: the recommendation
\* is frozen at dispatch, and approval, which writes AI_RECOMMENDATION without
\* looking, only ever confirms the recommended worker.
HonestOrigin ==
  \A o \in Orders : \A i \in DOMAIN assignments[o] :
    /\ Exists(o)
    /\ assignments[o][i].origin = OriginOf(order[o], assignments[o][i].worker)

LastRow(o) == assignments[o][Len(assignments[o])]

\* The order's worker_id and its assignment book agree: the newest row is
\* active and belongs to the holder, and a job that left approval with a
\* holder has a row to show for it.
HolderOnRecord ==
  \A o \in Orders :
    /\ assignments[o] # <<>> =>
         Holds(LastRow(o).worker, o) /\ IsActive(LastRow(o))
    /\ InStatus(o, OrderStatus \ {"PENDING_APPROVAL", "REJECTED", "ESCALATED"})
         /\ order[o].worker # None => assignments[o] # <<>>

\* Whatever the sequence of approve, assign and reassign, only the newest row
\* of an order can be in status ASSIGNED (accept_job stamps every such row).
OneAssignedRow ==
  \A o \in Orders : \A i \in DOMAIN assignments[o] :
    assignments[o][i].status = "ASSIGNED" => i = Len(assignments[o])

\* A citizen who reads RESOLVED can be shown a certified order: no follow-up,
\* rework or sibling order of the complaint leaves it RESOLVED on its own.
ResolvedIsBacked ==
  \A c \in Complaints : complaint[c] = "RESOLVED" =>
    \E o \in Orders : InStatus(o, {"COMPLETED"}) /\ order[o].complaint = c

\* A certified order rests on both photos and on a verdict the reviewers did
\* not turn down, also while the two commits of a confirmation interleave
\* with another officer's review or with a late analysis.
CertifiedStands ==
  \A o \in Orders : InStatus(o, {"COMPLETED"}) =>
    /\ HasEvidence(o)
    /\ verdict[o] # None
    /\ verdict[o].reviewed => verdict[o].status = "VERIFIED"

\* A job sent back for rework is never stuck: it has a holder, and the round
\* that start_rework's gate looks up in the history (the latest
\* REWORK_REQUESTED entry) is the one just opened, although follow-ups open
\* rounds without such an entry.
ReturnedIsOnRecord ==
  \A o \in Orders : InStatus(o, {"RETURNED_FOR_REWORK"}) =>
    /\ order[o].worker # None
    /\ reworkAt[o] = round[o] /\ round[o] > 0

-----------------------------------------------------------------------------
(* What no step may do *)

\* A certification is undone only by a reviewer who turns down the latest
\* verdict, and then the citizen's complaint is reopened with it: no officer
\* or worker handler moves a COMPLETED order.
CertificationUndoneByReview ==
  [][\A o \in Orders :
       InStatus(o, {"COMPLETED"}) /\ order'[o].status # "COMPLETED" =>
         /\ round'[o] = round[o] + 1
         /\ verdict'[o].status = "NOT_RESOLVED" /\ verdict'[o].reviewed
         /\ complaint'[order[o].complaint] = "IN_PROGRESS"]_vars

\* What a review decided is final: neither a second review, the late commit of a
\* confirmation nor an analysis that answers late changes it, and only a run
\* requested after it can take its place as the latest.  Who signed it is not: the
\* second commit of a confirmation that was under way when the verdict was turned
\* down, or confirmed by somebody else, puts its officer's name there.
ReviewIsFinal ==
  [][\A o \in Orders : verdict[o] # None /\ verdict[o].reviewed =>
       LET before == verdict[o]
           after == verdict'[o] IN
       \/ after.ticket > before.ticket
       \/ /\ after = [before EXCEPT !.by = after.by]
          /\ after.by # before.by => <<after.by, before.ticket>> \in confirming[o]]_vars
=============================================================================
