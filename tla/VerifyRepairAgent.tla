-------------------------- MODULE VerifyRepairAgent --------------------------
(***************************************************************************)
(* The verification agent: run_verification, the graph                     *)
(* Verify -> Validate -> Persist with its retries and gates, the provider  *)
(* call under it, and the sweep of stale runs.  WorkOrder sees a run only  *)
(* from outside: requested, and answered with a verdict or not at all.     *)
(* Here are the runs of one order, and how each comes by its answer.       *)
(*                                                                         *)
(* Runs are numbered by the start of their analysis transaction, which is  *)
(* the created_at of the row they may insert.  Confidence is a level in    *)
(* 0..Top, since the gates only compare it with two thresholds.            *)
(***************************************************************************)
EXTENDS Naturals

CONSTANTS
  None,        \* no output, no row
  Top,         \* confidence 1.0
  Low,         \* VERIFICATION_LOW_CONFIDENCE
  Floor,       \* VERIFICATION_VERIFIED_MIN_CONFIDENCE
  Answers,     \* outputs the model may give
  MaxRetries,  \* max_validation_retries: attempts at a well-formed output
  MaxTries,    \* GROQ_MAX_RETRIES: repeated requests within one attempt
  MaxRuns      \* bound: runs requested for the order

Status == {"VERIFIED", "PARTIALLY_RESOLVED", "NOT_RESOLVED", "NEEDS_HUMAN_REVIEW"}
Output == [status : Status, confidence : 0..Top, review : BOOLEAN]
Source == {"groq", "pixel-diff"}
Verdict == [output : Output, source : Source]

ASSUME LevelsAssumption ==
  /\ Top \in Nat /\ Low \in 0..Top /\ Floor \in 0..Top
  /\ Answers \subseteq Output
ASSUME BudgetAssumption == MaxRetries \in Nat /\ MaxTries \in Nat /\ MaxRuns \in Nat
ASSUME NoneAssumption == None \notin Output /\ None \notin Verdict

Runs == 1..MaxRuns

VARIABLES
  node,      \* where each run is in the handler and its graph
  state,     \* the VerifyState of the run
  answer,    \* history: the last well-formed output of the model
  row,       \* status of the agent_runs row
  verdict,   \* the work_order_verifications row of the run
  shown,     \* the run whose row run_verification reads back
  alerted,   \* runs whose verdict staff were told to review
  reaping    \* rows a sweep has selected and not yet written

vars == <<node, state, answer, row, verdict, shown, alerted, reaping>>
rowVars == <<answer, row, verdict, shown, alerted, reaping>>

\* Nodes a run passes through; "gone" is a run whose process died or whose
\* handler raised, and which nobody will continue.
Live == {"verify", "call", "validate", "persist", "respond", "alert"}
Node == Live \cup {"none", "done", "gone"}
\* FAILED with the sweep's error message is kept apart as REAPED.
RowStatus == {"NONE", "RUNNING", "SUCCEEDED", "FAILED", "REAPED"}

\* An attempt always takes place, even with no retries configured.
Attempts == IF MaxRetries = 0 THEN 1 ELSE MaxRetries
State ==
  [attempt : 0..Attempts, tries : 0..MaxTries, output : Output \cup {None},
   failure : {"no", "parse", "fatal"}, source : Source, critical : BOOLEAN,
   unchanged : BOOLEAN]

\* unchanged: the two photos are byte- or pixel-identical.
Fresh(critical, unchanged) ==
  [attempt |-> 0, tries |-> 0, output |-> None, failure |-> "no",
   source |-> "groq", critical |-> critical, unchanged |-> unchanged]

UnchangedOutput == [status |-> "NOT_RESOLVED", confidence |-> Top, review |-> TRUE]
Fallback == [status |-> "NEEDS_HUMAN_REVIEW", confidence |-> 0, review |-> TRUE]

Init ==
  /\ node = [r \in Runs |-> "none"]
  /\ state = [r \in Runs |-> Fresh(FALSE, FALSE)]
  /\ answer = [r \in Runs |-> None]
  /\ row = [r \in Runs |-> "NONE"]
  /\ verdict = [r \in Runs |-> None]
  /\ shown = [r \in Runs |-> r]
  /\ alerted = {}
  /\ reaping = {}

Goto(r, n) == node' = [node EXCEPT ![r] = n]

-----------------------------------------------------------------------------
(* run and the Verify node *)

\* The handler commits the RUNNING row and enters the graph.
Start(r, critical, unchanged) ==
  /\ node[r] = "none"
  /\ r > 1 => node[r - 1] # "none"
  /\ Goto(r, "verify")
  /\ state' = [state EXCEPT ![r] = Fresh(critical, unchanged)]
  /\ row' = [row EXCEPT ![r] = "RUNNING"]
  /\ UNCHANGED <<answer, verdict, shown, alerted, reaping>>

\* What the node returns, on every path: one more attempt.
Returned(s, failure, output, source) ==
  [s EXCEPT !.attempt = @ + 1, !.failure = failure, !.output = output,
            !.source = source]
Return(r, failure, output, source) ==
  /\ Goto(r, "validate")
  /\ state' = [state EXCEPT ![r] = Returned(state[r], failure, output, source)]

\* Pre-flight, a photo that is missing or cannot be read, or (in "call") a
\* provider error that is not transient.
Fatal(r) ==
  /\ node[r] \in {"verify", "call"}
  /\ Return(r, "fatal", None, state[r].source)
  /\ UNCHANGED rowVars

\* Identical photos never reach the model.
Unchanged(r) ==
  /\ node[r] = "verify" /\ state[r].unchanged
  /\ Return(r, "no", UnchangedOutput, "pixel-diff")
  /\ UNCHANGED rowVars

Ask(r) ==
  /\ node[r] = "verify" /\ ~state[r].unchanged
  /\ Goto(r, "call")
  /\ state' = [state EXCEPT ![r].tries = 0]
  /\ UNCHANGED rowVars

\* A rate limit, a timeout or a lost connection: asked again while the
\* provider's retries last, fatal after that.
Transient(r) ==
  /\ node[r] = "call"
  /\ IF state[r].tries < MaxTries
       THEN state' = [state EXCEPT ![r].tries = @ + 1] /\ UNCHANGED node
       ELSE Return(r, "fatal", None, state[r].source)
  /\ UNCHANGED rowVars

\* Not JSON, not the schema, or rejected as json_validate_failed.
Garble(r) ==
  /\ node[r] = "call"
  /\ Return(r, "parse", None, state[r].source)
  /\ UNCHANGED rowVars

Answer(r, out) ==
  /\ node[r] = "call"
  /\ Return(r, "no", out, state[r].source)
  /\ answer' = [answer EXCEPT ![r] = out]
  /\ UNCHANGED <<row, verdict, shown, alerted, reaping>>

-----------------------------------------------------------------------------
(* The Validate node *)

\* Mutant: no floor for VERIFIED.
StatusWithoutFloor(out, source) ==
  IF source = "pixel-diff" THEN "NOT_RESOLVED"
  ELSE IF out.confidence < Low THEN "NEEDS_HUMAN_REVIEW" ELSE out.status

EnforcedStatus(out, source) ==
  IF source = "pixel-diff" THEN "NOT_RESOLVED"
  ELSE IF \/ out.confidence < Low
          \/ out.status = "VERIFIED" /\ out.confidence < Floor
    THEN "NEEDS_HUMAN_REVIEW"
  ELSE out.status

\* Every status but VERIFIED needs a human; so does every critical order.
Enforced(out, source, critical) ==
  [status |-> EnforcedStatus(out, source), confidence |-> out.confidence,
   review |-> out.review \/ critical \/ EnforcedStatus(out, source) # "VERIFIED"]

Fail(r) ==
  /\ node[r] = "validate" /\ state[r].failure = "fatal"
  /\ Goto(r, "persist")
  /\ UNCHANGED <<state, rowVars>>

\* Mutant: garbled outputs are retried without counting.
RetryForEver(r) ==
  /\ node[r] = "validate" /\ state[r].failure = "parse"
  /\ Goto(r, "verify")
  /\ state' = [state EXCEPT ![r].attempt = 0]
  /\ UNCHANGED rowVars

Retry(r) ==
  /\ node[r] = "validate" /\ state[r].failure = "parse"
  /\ state[r].attempt < MaxRetries
  /\ Goto(r, "verify")
  /\ UNCHANGED <<state, rowVars>>

FallBack(r) ==
  /\ node[r] = "validate" /\ state[r].failure = "parse"
  /\ state[r].attempt >= MaxRetries
  /\ Goto(r, "persist")
  /\ state' = [state EXCEPT ![r].output = Fallback]
  /\ UNCHANGED rowVars

Enforce(r) ==
  /\ node[r] = "validate" /\ state[r].failure = "no"
  /\ Goto(r, "persist")
  /\ state' = [state EXCEPT ![r].output =
                 Enforced(@, state[r].source, state[r].critical)]
  /\ UNCHANGED rowVars

-----------------------------------------------------------------------------
(* The Persist node and what run_verification does after it *)

RowOf(r) == [output |-> state[r].output, source |-> state[r].source]

\* Mutant: what the last attempt left in the state is stored, failed or not.
PersistAlways(r) ==
  /\ node[r] = "persist"
  /\ verdict' = [verdict EXCEPT ![r] =
       [output |-> Fallback, source |-> state[r].source]]
  /\ row' = [row EXCEPT ![r] =
               IF state[r].failure = "fatal" THEN "FAILED" ELSE "SUCCEEDED"]
  /\ Goto(r, "respond")
  /\ UNCHANGED <<state, answer, shown, alerted, reaping>>

\* One commit for the verdict and the run.  The session still holds the run
\* as RUNNING, so what a sweep wrote meanwhile is overwritten.
Persist(r) ==
  /\ node[r] = "persist"
  /\ IF state[r].failure = "fatal"
       THEN /\ row' = [row EXCEPT ![r] = "FAILED"]
            /\ Goto(r, "done")
            /\ UNCHANGED verdict
       ELSE /\ row' = [row EXCEPT ![r] = "SUCCEEDED"]
            /\ verdict' = [verdict EXCEPT ![r] = RowOf(r)]
            /\ Goto(r, "respond")
  /\ UNCHANGED <<state, answer, shown, alerted, reaping>>

IsLatest(l) ==
  /\ verdict[l] # None
  /\ \A r \in Runs : verdict[r] # None => r <= l

\* Mutant: the rows are read in ascending order.
RespondWithOldest(r) ==
  /\ node[r] = "respond"
  /\ \E l \in Runs :
       /\ verdict[l] # None
       /\ \A other \in Runs : verdict[other] # None => l <= other
       /\ shown' = [shown EXCEPT ![r] = l]
  /\ Goto(r, "alert")
  /\ UNCHANGED <<state, answer, row, verdict, alerted, reaping>>

\* _latest_verification, which may be another run's row; the worker is told.
Respond(r) ==
  /\ node[r] = "respond"
  /\ \E l \in Runs : IsLatest(l) /\ shown' = [shown EXCEPT ![r] = l]
  /\ Goto(r, "alert")
  /\ UNCHANGED <<state, answer, row, verdict, alerted, reaping>>

\* Staff are told of the row read a commit earlier.
Alert(r) ==
  /\ node[r] = "alert"
  /\ alerted' = IF verdict[shown[r]].output.review
                  THEN alerted \cup {shown[r]} ELSE alerted
  /\ Goto(r, "done")
  /\ UNCHANGED <<state, answer, row, verdict, shown, reaping>>

-----------------------------------------------------------------------------
(* What goes wrong from outside *)

\* The handler raises or is cancelled; its row stays as it is.
Drop(r) ==
  /\ node[r] \in Live
  /\ Goto(r, "gone")
  /\ UNCHANGED <<state, rowVars>>

\* The process dies with every handler in it.
Crash ==
  /\ \E r \in Runs : node[r] \in Live
  /\ node' = [r \in Runs |-> IF node[r] \in Live THEN "gone" ELSE node[r]]
  /\ reaping' = {}
  /\ UNCHANGED <<state, answer, row, verdict, shown, alerted>>

\* The sweep selects RUNNING rows that are five minutes old.  The provider's
\* own retries can keep a living run that long.
ReapRead(r) ==
  /\ r \notin reaping /\ row[r] = "RUNNING"
  /\ reaping' = reaping \cup {r}
  /\ UNCHANGED <<node, state, answer, row, verdict, shown, alerted>>

ReapWrite ==
  /\ reaping # {}
  /\ row' = [r \in Runs |-> IF r \in reaping THEN "REAPED" ELSE row[r]]
  /\ reaping' = {}
  /\ UNCHANGED <<node, state, answer, verdict, shown, alerted>>

-----------------------------------------------------------------------------
Step(r) ==
  \/ Fatal(r) \/ Unchanged(r) \/ Ask(r) \/ Transient(r) \/ Garble(r)
  \/ \E out \in Answers : Answer(r, out)
  \/ Fail(r) \/ Retry(r) \/ FallBack(r) \/ Enforce(r)
  \/ Persist(r) \/ Respond(r) \/ Alert(r)

Next ==
  \/ \E r \in Runs :
       \/ \E critical, unchanged \in BOOLEAN : Start(r, critical, unchanged)
       \/ Step(r) \/ Drop(r) \/ ReapRead(r)
  \/ Crash \/ ReapWrite

\* Every wait of a run is bounded: the client has a timeout, the retries a
\* count.  Nothing obliges anybody to request a run or to sweep.
Spec == Init /\ [][Next]_vars /\ \A r \in Runs : WF_vars(Step(r))

-----------------------------------------------------------------------------
(* Properties *)

\* Types, and the budget: no more attempts than configured.
TypeOK ==
  /\ node \in [Runs -> Node]
  /\ state \in [Runs -> State]
  /\ answer \in [Runs -> Output \cup {None}]
  /\ row \in [Runs -> RowStatus]
  /\ verdict \in [Runs -> Verdict \cup {None}]
  /\ shown \in [Runs -> Runs]
  /\ alerted \subseteq Runs
  /\ reaping \subseteq Runs

\* A verdict other than "ask a human" is the model's own, given with the
\* confidence the settings demand: a retry, a fallback or a failed call never
\* turns into one (the comments at the two thresholds in config.py).
Earned(v, r) ==
  LET decided == v.output.status # "NEEDS_HUMAN_REVIEW"
  IN  v.source = "groq" /\ decided =>
        /\ answer[r] # None
        /\ v.output.status = answer[r].status
        /\ answer[r].confidence >= Low
        /\ v.output.status = "VERIFIED" => answer[r].confidence >= Floor
VerdictIsEarned == \A r \in Runs : verdict[r] # None => Earned(verdict[r], r)

\* A verdict passes without human review only if it says VERIFIED, the order
\* is not critical and the model did not ask for a review.
Reviewed(v, r) ==
  ~v.output.review =>
    /\ v.output.status = "VERIFIED" /\ ~state[r].critical
    /\ answer[r] # None /\ ~answer[r].review
DoubtIsReviewed == \A r \in Runs : verdict[r] # None => Reviewed(verdict[r], r)

\* Identical photos: the model is never asked, and if the run has a verdict
\* it is NOT_RESOLVED, by the pixel guard.
UnchangedIsNotResolved ==
  \A r \in Runs : state[r].unchanged =>
    /\ answer[r] = None
    /\ verdict[r] # None =>
         verdict[r].source = "pixel-diff" /\ verdict[r].output.status = "NOT_RESOLVED"

\* The run's row and its verdict agree, over crashes and sweeps that race the
\* run: SUCCEEDED has a verdict, FAILED and RUNNING have none.  A swept run may
\* have one, when it was alive after all.
OutcomeIsHonest ==
  \A r \in Runs :
    /\ row[r] = "SUCCEEDED" => verdict[r] # None
    /\ row[r] \in {"NONE", "RUNNING", "FAILED"} => verdict[r] = None

\* When the runs are over and none was lost, the verdict that everybody reads
\* has been announced for review if it needs one, although each run announces
\* whatever row was the latest when it looked.
DoubtIsAnnounced ==
  (\A r \in Runs : node[r] \in {"none", "done"}) =>
    \A l \in Runs : IsLatest(l) /\ verdict[l].output.review => l \in alerted

\* A requested run comes to an end unless it is lost: garbled outputs and
\* transient failures do not keep it going for ever.
RunsEnd == \A r \in Runs : node[r] \in Live ~> node[r] \in {"done", "gone"}
=============================================================================
