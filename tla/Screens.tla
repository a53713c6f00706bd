------------------------------ MODULE Screens ------------------------------
(***************************************************************************)
(* What the worker's order page and the officer's two cards offer, and the *)
(* work orders people who act through them get.                            *)
(*                                                                         *)
(* The page works out the next step by itself: lib/worker-workflow.ts      *)
(* reads the activities, the time stamps and the history of the order and  *)
(* not the guards of the server.  A screen shows what it last loaded, so a *)
(* tap may come long after the order has moved on; the server's handlers,  *)
(* those of WorkOrder, then decide.  A refused tap is a Refresh.           *)
(*                                                                         *)
(* A time stamp is the round it was taken in, and a review is of the round *)
(* it opens.                                                               *)
(***************************************************************************)
EXTENDS WorkOrder

VARIABLES
  did,        \* START_WORK, START_REWORK and FINISH_WORK activities
  stamp,      \* started_at, completed_at, evidence_submitted_at
  reviewedAt, \* reviewed_at of the latest verification
  page,       \* the order page each worker has open, or None
  card,       \* the buttons the officer's cards last showed for an order
  disturbed   \* history: orders taken from a worker, or reopened, in mid-work

shownVars == <<page, card>>
recordVars == <<did, stamp, reviewedAt, disturbed>>
screenVars == <<vars, recordVars, shownVars>>

Deed == [kind : {"START_WORK", "START_REWORK", "FINISH_WORK"}, round : 0..MaxRounds]
Round == 0..MaxRounds \cup {None}
Stamps == [started : Round, completed : Round, submitted : Round]
Step == {"accept", "check-in", "start", "rework", "finish", "evidence"}
Page == [order : Orders, status : OrderStatus, review : Round,
         step : Step \cup {None}, photos : BOOLEAN]

-----------------------------------------------------------------------------
(* lib/worker-workflow.ts *)

Reworking(o) == reworkAt[o] # 0
\* withinReworkWindow; outside a rework every stamp counts.
Within(o, r) == r # None /\ r >= reworkAt[o]
HasDone(o, kind) == \E d \in did[o] : d.kind = kind /\ d.round >= reworkAt[o]

CheckedIn(o) == \E a \in checkIns[o] : a.round >= reworkAt[o]

\* Mutant: what was started before the rework counts as well.
StartedOnce(o) == stamp[o].started # None

Started(o) ==
  Within(o, stamp[o].started) \/ HasDone(o, IF Reworking(o) THEN "START_REWORK" ELSE "START_WORK")
Finished(o) == Within(o, stamp[o].completed) \/ HasDone(o, "FINISH_WORK")
EvidenceSubmitted(o) ==
  InStatus(o, {"EVIDENCE_SUBMITTED", "COMPLETED"}) \/ Within(o, stamp[o].submitted)

\* The first of the six steps that is not done, once the rework has begun.
FirstUndone(o) ==
  IF ~order[o].accepted THEN "accept"
  ELSE IF ~CheckedIn(o) THEN "check-in"
  ELSE IF ~Started(o) THEN "start"
  ELSE IF ~Finished(o) THEN "finish"
  ELSE IF ~EvidenceSubmitted(o) THEN "evidence"
  ELSE None

\* pendingStepKey, for a page that knows of a review of round r.
PendingStep(o, r) ==
  IF InStatus(o, {"COMPLETED"}) \/ (Within(o, r) /\ Finished(o)) THEN None
  ELSE IF Reworking(o) /\ ~CheckedIn(o) THEN "check-in"
  ELSE IF Reworking(o) /\ ~Started(o) THEN "rework"
  ELSE IF Within(o, r) THEN None
  ELSE FirstUndone(o)

\* The upload slots: while working, and between finishing and submitting.
TakesPhotos(o) ==
  /\ ~InStatus(o, {"COMPLETED"})
  /\ IF Finished(o) THEN ~EvidenceSubmitted(o) ELSE Started(o)

-----------------------------------------------------------------------------
(* The worker's page *)

\* The verification is fetched only at these statuses.
AskedFor(o) == InStatus(o, {"EVIDENCE_SUBMITTED", "COMPLETED"})

\* ... and only when the status the page p shows has changed; what was fetched
\* before stays.
KnownReview(o, p) == IF AskedFor(o) /\ p.status # order[o].status THEN reviewedAt[o] ELSE p.review

Showing(o, r) ==
  [order |-> o, status |-> order[o].status, review |-> r,
   step |-> PendingStep(o, r), photos |-> TakesPhotos(o)]
\* Mounted, or loaded anew: nothing is known of a review yet.
Mounted(o) == Showing(o, IF AskedFor(o) THEN reviewedAt[o] ELSE None)
\* The page p after the order was fetched again.
Updated(o, p) == Showing(o, KnownReview(o, p))

\* The pages of w that show o: one or none.
PageOf(o, w) == {p \in {page[w]} : p # None /\ p.order = o}

\* The server shows an order to its holder only.
Open(o, w) ==
  /\ Holds(w, o)
  /\ page' = [page EXCEPT ![w] = Mounted(o)]
  /\ UNCHANGED <<vars, recordVars, card>>

\* After a tap the server refused, and whenever the browser comes online.
Refresh(o, w) ==
  /\ Holds(w, o)
  /\ \E p \in PageOf(o, w) : page' = [page EXCEPT ![w] = Updated(o, p)]
  /\ UNCHANGED <<vars, recordVars, card>>

\* handleAccept, submitCheckIn, handleStart, handleStartRework, handleFinish
\* and handleSubmitEvidence: the request each step of the page sends.
Handler(o, w, step) ==
  \/ step = "accept" /\ AcceptJob(o, w)
  \/ step = "check-in" /\ CheckInAt(o, w)
  \/ step = "start" /\ StartJob(o, w)
  \/ step = "rework" /\ StartRework(o, w)
  \/ step = "finish" /\ FinishJob(o, w)
  \/ step = "evidence" /\ SubmitEvidence(o, w)

DeedOf == [start |-> "START_WORK", rework |-> "START_REWORK", finish |-> "FINISH_WORK"]

\* The activity and the time stamps the handler of a step writes.
Recorded(o, step) ==
  /\ did' = IF step \in DOMAIN DeedOf
       THEN [did EXCEPT ![o] = @ \cup {[kind |-> DeedOf[step], round |-> round[o]]}] ELSE did
  /\ stamp' = [stamp EXCEPT ![o] =
       IF step = "start" THEN [@ EXCEPT !.started = round[o]]
       ELSE IF step = "rework" THEN [started |-> round[o], completed |-> None, submitted |-> None]
       ELSE IF step = "finish" THEN [@ EXCEPT !.completed = round[o]]
       ELSE IF step = "evidence" THEN [@ EXCEPT !.submitted = round[o]]
       ELSE @]
  /\ UNCHANGED <<reviewedAt, disturbed>>

\* runAction: queue the action, send it, load the order again.
Tap(o, w) ==
  /\ \E p \in PageOf(o, w) :
       /\ p.step # None
       /\ Handler(o, w, p.step)
       /\ Recorded(o, p.step)
       /\ page' = [page EXCEPT ![w] = Updated(o, p)']
  /\ UNCHANGED card

AttachPhoto(o, w, cat) ==
  /\ UNCHANGED <<recordVars, card>>
  /\ \E p \in PageOf(o, w) :
       /\ p.photos
       /\ UploadPhoto(o, w, cat)
       /\ page' = [page EXCEPT ![w] = Updated(o, p)']

-----------------------------------------------------------------------------
(* The officer's cards: work-order-card and repair-verification-card *)

Button == {"approve", "reject", "assign", "reassign", "escalate", "run",
           "confirm", "rework", "followup"}

\* Mutant: no "Re-run" below a verdict.
ReviewButtonsOnce(o) ==
  (IF AskedFor(o) /\ verdict[o] = None /\ HasEvidence(o) THEN {"run"} ELSE {})
  \cup (IF Reviewable(o) THEN {"confirm", "rework", "followup"} ELSE {})

DispatchButtons(o) ==
  (IF InStatus(o, {"PENDING_APPROVAL"}) /\ assignments[o] = <<>>
     THEN {"approve", "assign"} ELSE {})
  \cup (IF InStatus(o, {"PENDING_APPROVAL", "ASSIGNED", "IN_PROGRESS"})
     THEN {"reject", "escalate"} ELSE {})
  \cup (IF InStatus(o, {"ASSIGNED"}) THEN {"reassign"} ELSE {})
ReviewButtons(o) ==
  (IF AskedFor(o) /\ (verdict[o] # None \/ HasEvidence(o)) THEN {"run"} ELSE {})
  \cup (IF Reviewable(o) THEN {"confirm", "rework", "followup"} ELSE {})
Buttons(o) == DispatchButtons(o) \cup ReviewButtons(o)

Reload(o) ==
  /\ Exists(o) /\ card' = [card EXCEPT ![o] = Buttons(o)]
  /\ UNCHANGED <<vars, recordVars, page>>

\* submitAction, runNow and confirmNow: the request each button sends.
Decision(o, b) ==
  \/ b = "approve" /\ Approve(o)
  \/ b = "reject" /\ Reject(o)
  \/ b = "assign" /\ \E w \in Workers : Assign(o, w)
  \/ b = "reassign" /\ \E w \in Workers : Reassign(o, w)
  \/ b = "escalate" /\ Escalate(o)
  \/ b = "run" /\ RunVerification(o)
  \/ \E u \in Officers : \/ b = "confirm" /\ ConfirmResolution(o, u)
                         \/ b = "rework" /\ RequestRework(o, u)
                         \/ b = "followup" /\ RequireFollowup(o, u)

Press(o, b) ==
  /\ b \in card[o]
  /\ Decision(o, b)
  /\ reviewedAt' = IF b \in {"rework", "followup"}
       THEN [reviewedAt EXCEPT ![o] = round'[o]] ELSE reviewedAt
  /\ stamp' = IF b = "followup"
       THEN [stamp EXCEPT ![o] = [@ EXCEPT !.completed = None, !.submitted = None]] ELSE stamp
  /\ disturbed' = IF b = "followup" \/ (b \in {"assign", "reassign"} /\ did[o] # {})
       THEN disturbed \cup {o} ELSE disturbed
  /\ card' = [card EXCEPT ![o] = Buttons(o)']
  /\ UNCHANGED <<did, page>>

\* A run's row is the latest and nobody has reviewed it; a confirmation puts
\* the reviewer on the row it confirmed.
Analyses(o) ==
  /\ \E t \in running[o] : FailRun(o, t) \/ \E v \in AiVerdicts : PersistVerdict(o, t, v)
  /\ reviewedAt' = IF verdict' = verdict THEN reviewedAt ELSE [reviewedAt EXCEPT ![o] = None]
  /\ UNCHANGED <<did, stamp, disturbed, shownVars>>

EndReview(o) ==
  /\ \E s \in confirming[o] :
       \/ /\ RecordReview(o, s[1], s[2])
          /\ reviewedAt' = IF verdict[o].ticket = s[2]
               THEN [reviewedAt EXCEPT ![o] = round[o]] ELSE reviewedAt
       \/ LoseReview(o, s[1], s[2]) /\ UNCHANGED reviewedAt
  /\ UNCHANGED <<did, stamp, disturbed, shownVars>>

Draft(o, c) == Dispatch(o, c) /\ UNCHANGED <<recordVars, shownVars>>

-----------------------------------------------------------------------------
ScreenInit ==
  /\ Init
  /\ did = [o \in Orders |-> {}]
  /\ stamp = [o \in Orders |-> [started |-> None, completed |-> None, submitted |-> None]]
  /\ reviewedAt = [o \in Orders |-> None]
  /\ page = [w \in Workers |-> None]
  /\ card = [o \in Orders |-> {}]
  /\ disturbed = {}

ScreenNext ==
  \/ \E o \in Orders, w \in Workers :
       \/ Open(o, w) \/ Refresh(o, w) \/ Tap(o, w)
       \/ \E cat \in Category : AttachPhoto(o, w, cat)
  \/ \E o \in Orders :
       Reload(o) \/ Analyses(o) \/ EndReview(o) \/ \E b \in Button : Press(o, b)
  \/ \E o \in Orders, c \in Complaints : Draft(o, c)

ScreenSpec == ScreenInit /\ [][ScreenNext]_screenVars

-----------------------------------------------------------------------------
ScreensTypeOK ==
  /\ did \in [Orders -> SUBSET Deed] /\ stamp \in [Orders -> Stamps]
  /\ reviewedAt \in [Orders -> Round] /\ page \in [Workers -> Page \cup {None}]
  /\ card \in [Orders -> SUBSET Button] /\ disturbed \subseteq Orders

InWorkersHands(o) ==
  InStatus(o, {"ASSIGNED", "IN_PROGRESS", "WORK_COMPLETED", "RETURNED_FOR_REWORK"})

\* The guards of the handlers a step and a decision are sent to.
Takes(o, w, step) ==
  \/ step = "accept" /\ MayAccept(o, w)
  \/ step = "check-in" /\ MayCheckIn(o, w)
  \/ step = "start" /\ MayStart(o, w)
  \/ step = "rework" /\ MayRestart(o, w)
  \/ step = "finish" /\ MayFinish(o, w)
  \/ step = "evidence" /\ MaySubmit(o, w)
Grants(o, b) ==
  \/ b = "approve" /\ MayApprove(o)
  \/ b = "run" /\ MayVerify(o)
  \/ b = "confirm" /\ Reviewable(o)

\* The server would take the step; a submission may wait for its photos, as
\* long as the page has room for them.
Accepted(o, w, step) ==
  \/ Takes(o, w, step)
  \/ step = "evidence" /\ ~HasEvidence(o) /\ TakesPhotos(o) /\ InStatus(o, {"WORK_COMPLETED"})

\* The page's own reading of the order never strands the worker: as long as
\* nobody reopened the order for a follow-up or gave it to somebody else in
\* mid-work, whoever holds it is offered a step, and one the server takes,
\* both on a page loaded now and on one kept open, with what it once fetched
\* of a review, since before the evidence was turned down.
StepIsAccepted ==
  \A o \in Orders, w \in Workers :
    Holds(w, o) /\ InWorkersHands(o) /\ o \notin disturbed =>
      /\ Accepted(o, w, Mounted(o).step)
      /\ \A p \in PageOf(o, w) : Accepted(o, w, Updated(o, p).step)

\* Nor do the officer's cards: a draft can be approved, and submitted evidence
\* can be analysed and then decided upon, in every round, also when the latest
\* verdict is the one that turned the round before down.
DecisionIsOffered ==
  \A o \in Orders :
    /\ InStatus(o, {"PENDING_APPROVAL"}) /\ order[o].worker # None =>
         "approve" \in Buttons(o) /\ Grants(o, "approve")
    /\ InStatus(o, {"EVIDENCE_SUBMITTED"}) =>
         \E b \in Buttons(o) \cap {"run", "confirm"} : Grants(o, b)
=============================================================================
