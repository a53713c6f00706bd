----------------------- MODULE VerifyRepairAgentProofs -----------------------
(***************************************************************************)
(* What the verification agent stores and says, for any answers of the     *)
(* model, any thresholds, budgets and number of runs.                      *)
(***************************************************************************)
EXTENDS VerifyRepairAgent, TLAPS

\* Neither a verdict nor an output on its way to one may break the gates.
Sound(v, r) ==
  /\ Earned(v, r) /\ Reviewed(v, r)
  /\ state[r].unchanged => v.source = "pixel-diff" /\ v.output.status = "NOT_RESOLVED"

\* Where a run is in the graph says what its state holds.
Graph(r) ==
  /\ node[r] \in {"verify", "call"} =>
       state[r].source = "groq" /\ state[r].attempt < Attempts
  /\ node[r] = "call" => ~state[r].unchanged
  /\ state[r].unchanged => answer[r] = None
  /\ node[r] = "none" => answer[r] = None
  /\ node[r] = "validate" /\ state[r].failure = "no" =>
       \/ /\ state[r].source = "pixel-diff" /\ state[r].unchanged
          /\ state[r].output = UnchangedOutput
       \/ /\ state[r].source = "groq" /\ ~state[r].unchanged
          /\ answer[r] # None /\ state[r].output = answer[r]
  /\ node[r] = "validate" /\ state[r].failure = "parse" =>
       state[r].source = "groq" /\ ~state[r].unchanged
  /\ node[r] = "persist" /\ state[r].failure # "fatal" =>
       state[r].output # None /\ Sound(RowOf(r), r)
  /\ verdict[r] # None => Sound(verdict[r], r)

\* The agent_runs row, the verdict and the node agree.
Rows(r) ==
  /\ row[r] = "NONE" <=> node[r] = "none"
  /\ r \in reaping => node[r] # "none"
  /\ verdict[r] # None => node[r] \in {"respond", "alert", "done", "gone"}
  /\ verdict[r] # None => row[r] \in {"SUCCEEDED", "REAPED"}
  /\ row[r] = "SUCCEEDED" => verdict[r] # None

\* What a run still owes the staff.
Told(r) ==
  /\ node[r] = "respond" => verdict[r] # None
  /\ node[r] = "alert" =>
       verdict[r] # None /\ verdict[shown[r]] # None /\ r <= shown[r]
  /\ node[r] = "done" /\ verdict[r] # None /\ verdict[r].output.review
       /\ r \notin alerted => \E s \in Runs : r < s /\ verdict[s] # None

IInv == TypeOK /\ \A r \in Runs : Graph(r) /\ Rows(r) /\ Told(r)

-----------------------------------------------------------------------------
\* An output leaves the gates sound, wherever it came from.
LEMMA GatesAreSound ==
  ASSUME TypeOK, NEW r \in Runs, Graph(r), node[r] = "validate",
         state[r].failure = "no"
  PROVE  LET out == Enforced(state[r].output, state[r].source, state[r].critical)
         IN  out \in Output /\ Sound([output |-> out, source |-> state[r].source], r)
<1> DEFINE out == Enforced(state[r].output, state[r].source, state[r].critical)
<1>1. state[r] \in State /\ answer[r] \in Output \cup {None}
  BY DEF TypeOK
<1>2. state[r].output \in Output
  <2>1. UnchangedOutput \in Output
    BY LevelsAssumption DEF UnchangedOutput, Output, Status
  <2> QED BY <1>1, <2>1 DEF Graph
<1>3. out \in Output
  BY <1>1, <1>2 DEF Enforced, EnforcedStatus, Output, Status, State
<1>4. CASE state[r].source = "pixel-diff"
  BY <1>1, <1>2, <1>3, <1>4, LevelsAssumption
     DEF Graph, Sound, Earned, Reviewed, Enforced, EnforcedStatus,
         UnchangedOutput, Output, Status, State
<1>5. CASE state[r].source = "groq"
  <2> DEFINE v == [output |-> out, source |-> state[r].source]
  <2>1. ~state[r].unchanged /\ answer[r] # None /\ state[r].output = answer[r]
    BY <1>5 DEF Graph
  <2>2. /\ answer[r].confidence \in Nat /\ answer[r].review \in BOOLEAN
        /\ Low \in Nat /\ Floor \in Nat /\ state[r].critical \in BOOLEAN
    BY <1>1, <1>2, <2>1, LevelsAssumption DEF Output, State
  <2>3. v.output.status = EnforcedStatus(answer[r], "groq")
    BY <1>5, <2>1 DEF Enforced
  <2>4. v.output.review = (\/ answer[r].review \/ state[r].critical
                           \/ EnforcedStatus(answer[r], "groq") # "VERIFIED")
    BY <1>5, <2>1 DEF Enforced
  <2>5. Earned(v, r)
    BY <2>1, <2>2, <2>3 DEF Earned, EnforcedStatus
  <2>6. Reviewed(v, r)
    BY <2>1, <2>2, <2>3, <2>4 DEF Reviewed
  <2> QED BY <1>3, <2>1, <2>5, <2>6 DEF Sound
<1> QED BY <1>1, <1>3, <1>4, <1>5 DEF State, Source

LEMMA FallbackIsSound ==
  ASSUME TypeOK, NEW r \in Runs, Graph(r), node[r] = "validate",
         state[r].failure = "parse"
  PROVE  /\ Fallback \in Output
         /\ Sound([output |-> Fallback, source |-> state[r].source], r)
<1>1. Fallback \in Output
  BY LevelsAssumption DEF Fallback, Output, Status
<1> QED BY <1>1 DEF Graph, Sound, Earned, Reviewed, Fallback

LEMMA Initially == Init => IInv
<1> SUFFICES ASSUME Init PROVE IInv
  OBVIOUS
<1>1. TypeOK
  BY BudgetAssumption, LevelsAssumption
     DEF Init, TypeOK, State, Fresh, Node, Live, RowStatus, Source, Attempts
<1>2. ASSUME NEW r \in Runs PROVE Graph(r) /\ Rows(r) /\ Told(r)
  BY DEF Init, Graph, Rows, Told, Fresh
<1> QED BY <1>1, <1>2 DEF IInv

-----------------------------------------------------------------------------
Local(r) == Graph(r) /\ Rows(r) /\ Told(r)

\* A step that leaves a run alone keeps what is known of it: verdicts and
\* announcements only ever come to be.
LEMMA OthersKeep ==
  ASSUME IInv, NEW s \in Runs,
         node'[s] = node[s], state'[s] = state[s], answer'[s] = answer[s],
         row'[s] = row[s], verdict'[s] = verdict[s], shown'[s] = shown[s],
         s \in reaping' => s \in reaping,
         alerted \subseteq alerted',
         \A t \in Runs : verdict[t] # None => verdict'[t] # None
  PROVE  Local(s)'
<1>1. Local(s) /\ shown[s] \in Runs
  BY DEF IInv, Local, TypeOK
<1>2. Graph(s)'
  BY <1>1 DEF Local, Graph, Sound, Earned, Reviewed, RowOf
<1>3. Rows(s)'
  BY <1>1 DEF Local, Rows
<1>4. Told(s)'
  BY <1>1 DEF Local, Told
<1> QED BY <1>2, <1>3, <1>4 DEF Local

\* The same for a step of r that stores and announces nothing.
LEMMA AloneKeep ==
  ASSUME IInv, NEW r \in Runs, TypeOK', Local(r)',
         \A s \in Runs \ {r} : /\ node'[s] = node[s] /\ state'[s] = state[s]
                             /\ answer'[s] = answer[s] /\ row'[s] = row[s]
                             /\ verdict'[s] = verdict[s] /\ shown'[s] = shown[s],
         \A s \in Runs \ {r} : s \in reaping' => s \in reaping,
         alerted \subseteq alerted',
         \A t \in Runs : verdict[t] # None => verdict'[t] # None
  PROVE  IInv'
<1>1. ASSUME NEW s \in Runs PROVE Local(s)'
  <2>1. CASE s = r
    BY <2>1
  <2>2. CASE s # r
    BY <2>2, OthersKeep
  <2> QED BY <2>1, <2>2
<1> QED BY <1>1 DEF IInv, Local

LEMMA StartKeeps ==
  ASSUME IInv, NEW r \in Runs, NEW critical \in BOOLEAN, NEW unchanged \in BOOLEAN,
         Start(r, critical, unchanged)
  PROVE  IInv'
<1>1. TypeOK /\ Local(r)
  BY DEF IInv, Local
<1>2. Fresh(critical, unchanged) \in State /\ 0 < Attempts
  BY BudgetAssumption DEF Fresh, State, Source, Attempts
<1>3. TypeOK'
  BY <1>1, <1>2 DEF TypeOK, Start, Goto, Node, Live, RowStatus
<1>4. Graph(r)'
  BY <1>1, <1>2 DEF TypeOK, Start, Goto, Local, Graph, Rows, Fresh
<1>5. Rows(r)' /\ Told(r)'
  BY <1>1 DEF TypeOK, Start, Goto, Local, Rows, Told
<1>6. Local(r)'
  BY <1>4, <1>5 DEF Local
<1> QED BY <1>3, <1>6, AloneKeep DEF Start, Goto, TypeOK, IInv

\* Every way out of the Verify node.
LEMMA ReturnKeeps ==
  ASSUME IInv, NEW r \in Runs, node[r] \in {"verify", "call"},
         NEW failure \in {"no", "parse", "fatal"},
         NEW output \in Output \cup {None}, NEW source \in Source,
         Return(r, failure, output, source), answer'[r] \in Output \cup {None},
         \A s \in Runs \ {r} : answer'[s] = answer[s],
         answer' \in [Runs -> Output \cup {None}],
         state[r].unchanged => answer'[r] = None,
         failure = "parse" => source = "groq" /\ ~state[r].unchanged,
         failure = "no" =>
           \/ source = "pixel-diff" /\ state[r].unchanged /\ output = UnchangedOutput
           \/ /\ source = "groq" /\ ~state[r].unchanged
              /\ answer'[r] # None /\ output = answer'[r],
         UNCHANGED <<row, verdict, shown, alerted, reaping>>
  PROVE  IInv'
<1>1. TypeOK /\ Local(r)
  BY DEF IInv, Local
<1> DEFINE new == Returned(state[r], failure, output, source)
<1>2. new \in State
  <2>1. state[r] \in State /\ state[r].attempt < Attempts
    BY <1>1 DEF TypeOK, Local, Graph
  <2>2. state[r].attempt + 1 \in 0..Attempts
    BY <2>1, BudgetAssumption DEF State, Attempts
  <2> QED BY <2>1, <2>2 DEF State, Returned
<1>3. state' = [state EXCEPT ![r] = new]
  BY DEF Return
<1>4. TypeOK'
  <2>1. state' \in [Runs -> State]
    BY <1>1, <1>2, <1>3 DEF TypeOK
  <2>2. node' \in [Runs -> Node]
    BY <1>1 DEF TypeOK, Return, Goto, Node, Live
  <2> QED BY <1>1, <2>1, <2>2 DEF TypeOK
<1>5. state'[r] = new /\ node'[r] = "validate"
  BY <1>1, <1>3 DEF TypeOK, Return, Goto
<1>6. /\ new.failure = failure /\ new.output = output /\ new.source = source
      /\ new.unchanged = state[r].unchanged
  BY <1>1 DEF TypeOK, State, Returned
<1>7. verdict[r] = None
  BY <1>1 DEF Local, Rows
<1>8. Graph(r)'
  BY <1>5, <1>6, <1>7 DEF Graph
<1>9. Rows(r)' /\ Told(r)'
  BY <1>1, <1>5, <1>7 DEF Local, Rows, Told
<1>10. Local(r)'
  BY <1>8, <1>9 DEF Local
<1> QED BY <1>1, <1>3, <1>4, <1>10, AloneKeep DEF TypeOK, Return, Goto

LEMMA VerifyKeeps ==
  ASSUME IInv, NEW r \in Runs,
         \/ Fatal(r) \/ Unchanged(r) \/ Garble(r)
         \/ \E out \in Answers : Answer(r, out)
  PROVE  IInv'
<1>1. TypeOK /\ Local(r) /\ state[r] \in State
  BY DEF IInv, Local, TypeOK
<1>2. state[r].source \in Source /\ UnchangedOutput \in Output
  BY <1>1, LevelsAssumption DEF State, UnchangedOutput, Output, Status
<1>3. CASE Fatal(r)
  BY <1>1, <1>2, <1>3, ReturnKeeps DEF Fatal, rowVars, TypeOK, Local, Graph
<1>4. CASE Unchanged(r)
  BY <1>1, <1>2, <1>4, ReturnKeeps
     DEF Unchanged, rowVars, TypeOK, Local, Graph, Source
<1>5. CASE Garble(r)
  BY <1>1, <1>2, <1>5, ReturnKeeps DEF Garble, rowVars, TypeOK, Local, Graph
<1>6. ASSUME NEW out \in Answers, Answer(r, out) PROVE IInv'
  <2>1. out \in Output /\ out # None
    BY LevelsAssumption, NoneAssumption
  <2>2. /\ answer' \in [Runs -> Output \cup {None}] /\ answer'[r] = out
        /\ \A s \in Runs \ {r} : answer'[s] = answer[s]
    BY <1>1, <1>6, <2>1 DEF Answer, TypeOK
  <2>3. state[r].source = "groq" /\ ~state[r].unchanged
    BY <1>1, <1>6 DEF Answer, Local, Graph
  <2> QED BY <1>1, <1>2, <1>6, <2>1, <2>2, <2>3, ReturnKeeps DEF Answer
<1> QED BY <1>3, <1>4, <1>5, <1>6

LEMMA AskKeeps ==
  ASSUME IInv, NEW r \in Runs, Ask(r)
  PROVE  IInv'
<1>1. TypeOK /\ Local(r) /\ state[r] \in State
  BY DEF IInv, Local, TypeOK
<1> DEFINE new == [state[r] EXCEPT !.tries = 0]
<1>2. new \in State
  BY <1>1, BudgetAssumption DEF State
<1>3. state' = [state EXCEPT ![r] = new]
  BY DEF Ask
<1>4. TypeOK'
  BY <1>1, <1>2, <1>3 DEF TypeOK, Ask, Goto, Node, Live, rowVars
<1>5. Local(r)'
  BY <1>1, <1>3 DEF TypeOK, Ask, Goto, rowVars, Local, Graph, Rows, Told, State,
                    Sound, Earned, Reviewed
<1> QED BY <1>1, <1>3, <1>4, <1>5, AloneKeep DEF TypeOK, Ask, Goto, rowVars

LEMMA TransientKeeps ==
  ASSUME IInv, NEW r \in Runs, Transient(r)
  PROVE  IInv'
<1>1. TypeOK /\ Local(r) /\ state[r] \in State
  BY DEF IInv, Local, TypeOK
<1>2. CASE ~(state[r].tries < MaxTries)
  <2>1. Return(r, "fatal", None, state[r].source)
    BY <1>2 DEF Transient
  <2> QED BY <1>1, <2>1, ReturnKeeps
          DEF Transient, rowVars, TypeOK, Local, Graph, State
<1>3. CASE state[r].tries < MaxTries
  <2> DEFINE new == [state[r] EXCEPT !.tries = @ + 1]
  <2>1. new \in State
    BY <1>1, <1>3, BudgetAssumption DEF State
  <2>2. state' = [state EXCEPT ![r] = new] /\ UNCHANGED node
    BY <1>3 DEF Transient
  <2>3. TypeOK'
    BY <1>1, <2>1, <2>2 DEF TypeOK, Transient, rowVars
  <2>4. /\ new.source = state[r].source /\ new.attempt = state[r].attempt
        /\ new.unchanged = state[r].unchanged
    BY <1>1 DEF State
  <2>5. Local(r)'
    BY <1>1, <2>2, <2>4 DEF TypeOK, Transient, rowVars, Local, Graph, Rows, Told
  <2> QED BY <1>1, <2>2, <2>3, <2>5, AloneKeep DEF TypeOK, Transient, rowVars
<1> QED BY <1>2, <1>3

LEMMA ValidateKeeps ==
  ASSUME IInv, NEW r \in Runs, Fail(r) \/ Retry(r) \/ FallBack(r) \/ Enforce(r)
  PROVE  IInv'
<1>1. TypeOK /\ Local(r) /\ state[r] \in State /\ node[r] = "validate"
  BY DEF IInv, Local, TypeOK, Fail, Retry, FallBack, Enforce
<1>2. verdict[r] = None
  BY <1>1 DEF Local, Rows
<1>3. CASE Fail(r)
  <2>1. TypeOK'
    BY <1>1, <1>3 DEF TypeOK, Fail, Goto, Node, Live, rowVars
  <2>2. Local(r)'
    BY <1>1, <1>2, <1>3 DEF TypeOK, Fail, Goto, rowVars, Local, Graph, Rows, Told
  <2> QED BY <1>3, <2>1, <2>2, AloneKeep DEF Fail, Goto, rowVars, TypeOK, IInv
<1>4. CASE Retry(r)
  <2>1. TypeOK'
    BY <1>1, <1>4 DEF TypeOK, Retry, Goto, Node, Live, rowVars
  <2>2. state[r].attempt < Attempts
    BY <1>1, <1>4, BudgetAssumption DEF Retry, Attempts, State
  <2>3. Local(r)'
    BY <1>1, <1>2, <1>4, <2>2
       DEF TypeOK, Retry, Goto, rowVars, Local, Graph, Rows, Told
  <2> QED BY <1>4, <2>1, <2>3, AloneKeep DEF Retry, Goto, rowVars, TypeOK, IInv
<1>5. ASSUME NEW out \in Output,
             state' = [state EXCEPT ![r].output = out],
             Sound([output |-> out, source |-> state[r].source], r),
             Goto(r, "persist"), UNCHANGED rowVars
      PROVE  IInv'
  <2> DEFINE new == [state[r] EXCEPT !.output = out]
  <2>1. new \in State /\ state' = [state EXCEPT ![r] = new]
    BY <1>1, <1>5 DEF State
  <2>2. TypeOK'
    BY <1>1, <1>5, <2>1 DEF TypeOK, Goto, Node, Live, rowVars
  <2>3. /\ state'[r].source = state[r].source /\ state'[r].output = out
        /\ state'[r].unchanged = state[r].unchanged
        /\ state'[r].critical = state[r].critical
    BY <1>1, <2>1 DEF TypeOK, State
  <2>4. node'[r] = "persist" /\ UNCHANGED <<answer, row, verdict, alerted, reaping>>
    BY <1>1, <1>5 DEF TypeOK, Goto, rowVars
  <2>5. RowOf(r)' = [output |-> out, source |-> state[r].source]
    BY <2>3 DEF RowOf
  <2>6. Sound(RowOf(r), r)'
    BY <1>5, <2>3, <2>4, <2>5 DEF Sound, Earned, Reviewed
  <2>7. state'[r].output # None
    BY <2>3, NoneAssumption
  <2>8. Graph(r)'
    BY <1>1, <1>2, <2>3, <2>4, <2>6, <2>7 DEF Local, Graph
  <2>9. Rows(r)' /\ Told(r)'
    BY <1>1, <1>2, <2>4 DEF Local, Rows, Told
  <2> QED BY <1>5, <2>1, <2>2, <2>8, <2>9, AloneKeep
          DEF Goto, rowVars, TypeOK, IInv, Local
<1>6. CASE FallBack(r)
  BY <1>1, <1>5, <1>6, FallbackIsSound DEF FallBack, Local
<1>7. CASE Enforce(r)
  <2> DEFINE out == Enforced(state[r].output, state[r].source, state[r].critical)
  <2>1. out \in Output /\ Sound([output |-> out, source |-> state[r].source], r)
    BY <1>1, <1>7, GatesAreSound DEF Enforce, Local
  <2>2. state' = [state EXCEPT ![r].output = out]
    BY <1>7 DEF Enforce
  <2> HIDE DEF out
  <2> QED BY <1>5, <1>7, <2>1, <2>2 DEF Enforce
<1> QED BY <1>3, <1>4, <1>6, <1>7

LEMMA PersistKeeps ==
  ASSUME IInv, NEW r \in Runs, Persist(r)
  PROVE  IInv'
<1>1. TypeOK /\ Local(r) /\ state[r] \in State /\ node[r] = "persist"
  BY DEF IInv, Local, TypeOK, Persist
<1>2. verdict[r] = None /\ row[r] # "NONE"
  BY <1>1 DEF Local, Rows
<1>3. CASE state[r].failure = "fatal"
  <2>1. TypeOK'
    BY <1>1, <1>3 DEF TypeOK, Persist, Goto, Node, Live, RowStatus
  <2>2. Local(r)'
    BY <1>1, <1>2, <1>3 DEF TypeOK, Persist, Goto, Local, Graph, Rows, Told
  <2> QED BY <1>3, <2>1, <2>2, AloneKeep DEF Persist, Goto, TypeOK, IInv
<1>4. CASE state[r].failure # "fatal"
  <2> DEFINE new == RowOf(r)
  <2>1. state[r].output \in Output /\ Sound(new, r)
    BY <1>1, <1>4 DEF Local, Graph, State
  <2>2. new \in Verdict
    BY <1>1, <2>1 DEF RowOf, Verdict, State
  <2> HIDE DEF new
  <2>3. verdict' = [verdict EXCEPT ![r] = new] /\ new # None
    BY <1>4, <2>2, NoneAssumption DEF Persist, new
  <2>4. /\ row' = [row EXCEPT ![r] = "SUCCEEDED"] /\ Goto(r, "respond")
        /\ UNCHANGED <<state, answer, shown, alerted, reaping>>
    BY <1>4 DEF Persist
  <2>5. TypeOK'
    BY <1>1, <2>2, <2>3, <2>4 DEF TypeOK, Goto, Node, Live, RowStatus
  <2>6. verdict'[r] = new /\ row'[r] = "SUCCEEDED" /\ node'[r] = "respond"
    BY <1>1, <2>3, <2>4 DEF TypeOK, Goto
  <2>7. Sound(verdict[r], r)'
    BY <2>1, <2>4, <2>6 DEF Sound, Earned, Reviewed
  <2>8. Graph(r)'
    BY <1>1, <2>4, <2>6, <2>7 DEF Local, Graph
  <2>9. Rows(r)' /\ Told(r)'
    BY <1>1, <2>3, <2>4, <2>6 DEF Local, Rows, Told
  <2> QED BY <1>1, <2>3, <2>4, <2>5, <2>8, <2>9, AloneKeep DEF Goto, TypeOK, Local
<1> QED BY <1>3, <1>4

LEMMA RespondKeeps ==
  ASSUME IInv, NEW r \in Runs, Respond(r)
  PROVE  IInv'
<1>1. TypeOK /\ Local(r) /\ node[r] = "respond" /\ verdict[r] # None
  BY DEF IInv, Local, TypeOK, Respond, Told
<1>2. PICK l \in Runs : IsLatest(l) /\ shown' = [shown EXCEPT ![r] = l]
  BY DEF Respond
<1>3. TypeOK'
  BY <1>1, <1>2 DEF TypeOK, Respond, Goto, Node, Live
<1>4. shown'[r] = l /\ verdict[l] # None /\ r <= l
  BY <1>1, <1>2 DEF TypeOK, IsLatest
<1>5. Graph(r)' /\ Rows(r)'
  BY <1>1 DEF TypeOK, Respond, Goto, Local, Graph, Rows, Sound, Earned, Reviewed
<1>6. Told(r)'
  BY <1>1, <1>4 DEF TypeOK, Respond, Goto, Told
<1>7. Local(r)'
  BY <1>5, <1>6 DEF Local
<1> QED BY <1>1, <1>2, <1>3, <1>7, AloneKeep DEF Respond, Goto, TypeOK

LEMMA AlertKeeps ==
  ASSUME IInv, NEW r \in Runs, Alert(r)
  PROVE  IInv'
<1>1. TypeOK /\ Local(r) /\ node[r] = "alert" /\ shown[r] \in Runs
  BY DEF IInv, Local, TypeOK, Alert
<1>2. verdict[r] # None /\ verdict[shown[r]] # None /\ r <= shown[r]
  BY <1>1 DEF Local, Told
<1>3. TypeOK' /\ alerted \subseteq alerted'
  BY <1>1 DEF TypeOK, Alert, Goto, Node, Live
<1>4. Graph(r)' /\ Rows(r)'
  BY <1>1 DEF TypeOK, Alert, Goto, Local, Graph, Rows, Sound, Earned, Reviewed
<1>5. Told(r)'
  <2>1. CASE shown[r] = r
    BY <1>1, <2>1 DEF TypeOK, Alert, Goto, Told
  <2>2. CASE shown[r] # r
    <3>1. r < shown[r]
      BY <1>1, <1>2, <2>2 DEF Runs
    <3> QED BY <1>1, <1>2, <3>1 DEF TypeOK, Alert, Goto, Told
  <2> QED BY <2>1, <2>2
<1>6. Local(r)'
  BY <1>4, <1>5 DEF Local
<1> QED BY <1>3, <1>6, AloneKeep DEF Alert, Goto, TypeOK, IInv

\* A run that is lost owes nothing, and its row and verdict stand as they are.
LEMMA LossKeeps ==
  ASSUME IInv, Crash \/ \E r \in Runs : Drop(r)
  PROVE  IInv'
<1>1. TypeOK
  BY DEF IInv
<1>2. TypeOK'
  <2>1. CASE Crash
    <3>1. \A r \in Runs : node'[r] \in Node
      BY <1>1, <2>1 DEF TypeOK, Crash, Node
    <3>2. node' \in [Runs -> Node] /\ reaping' \subseteq Runs
      BY <2>1, <3>1 DEF Crash
    <3> QED BY <1>1, <2>1, <3>2 DEF TypeOK, Crash
  <2>2. ASSUME NEW r \in Runs, Drop(r) PROVE TypeOK'
    BY <1>1, <2>2 DEF TypeOK, Drop, Goto, Node, rowVars
  <2> QED BY <2>1, <2>2
<1>3. ASSUME NEW s \in Runs PROVE Local(s)'
  <2>1. /\ UNCHANGED <<state, answer, row, verdict, shown, alerted>>
        /\ reaping' \subseteq reaping
        /\ \/ node'[s] = node[s]
           \/ node[s] \in Live /\ node'[s] = "gone"
    BY <1>1 DEF TypeOK, Crash, Drop, Goto, rowVars
  <2>2. CASE node'[s] = node[s]
    BY <2>1, <2>2, OthersKeep
  <2>3. CASE node[s] \in Live /\ node'[s] = "gone"
    <3>1. Local(s)
      BY DEF IInv, Local
    <3>2. Graph(s)'
      BY <2>1, <2>3, <3>1 DEF Local, Graph, Sound, Earned, Reviewed
    <3>3. Rows(s)' /\ Told(s)'
      BY <2>1, <2>3, <3>1 DEF Local, Rows, Told, Live
    <3> QED BY <3>2, <3>3 DEF Local
  <2> QED BY <2>1, <2>2, <2>3
<1> QED BY <1>2, <1>3 DEF IInv, Local

LEMMA ReapKeeps ==
  ASSUME IInv, ReapWrite \/ \E r \in Runs : ReapRead(r)
  PROVE  IInv'
<1>1. TypeOK
  BY DEF IInv
<1>2. TypeOK'
  <2>1. CASE ReapWrite
    BY <1>1, <2>1 DEF TypeOK, ReapWrite, RowStatus
  <2>2. ASSUME NEW r \in Runs, ReapRead(r) PROVE TypeOK'
    BY <1>1, <2>2 DEF TypeOK, ReapRead
  <2> QED BY <2>1, <2>2
<1>3. ASSUME NEW s \in Runs PROVE Local(s)'
  <2>1. Local(s)
    BY DEF IInv, Local
  <2>2. UNCHANGED <<node, state, answer, verdict, shown, alerted>>
    BY DEF ReapWrite, ReapRead
  <2>3. Graph(s)' /\ Told(s)'
    BY <2>1, <2>2 DEF Local, Graph, Told, Sound, Earned, Reviewed, RowOf
  <2>4. /\ row'[s] = row[s] \/ (s \in reaping /\ row'[s] = "REAPED")
        /\ s \in reaping' => s \in reaping \/ row[s] = "RUNNING"
    BY <1>1 DEF TypeOK, ReapWrite, ReapRead
  <2>5. Rows(s)'
    BY <2>1, <2>2, <2>4 DEF Local, Rows
  <2> QED BY <2>3, <2>5 DEF Local
<1> QED BY <1>2, <1>3 DEF IInv, Local

LEMMA NextKeeps == IInv /\ [Next]_vars => IInv'
<1> SUFFICES ASSUME IInv, [Next]_vars PROVE IInv'
  OBVIOUS
<1>1. CASE UNCHANGED vars
  BY <1>1 DEF vars, IInv, TypeOK, Graph, Rows, Told, Sound, Earned, Reviewed,
              RowOf
<1>2. ASSUME NEW r \in Runs, Step(r) PROVE IInv'
  BY <1>2, VerifyKeeps, AskKeeps, TransientKeeps, ValidateKeeps, PersistKeeps,
     RespondKeeps, AlertKeeps DEF Step
<1> QED BY <1>1, <1>2, StartKeeps, LossKeeps, ReapKeeps DEF Next

-----------------------------------------------------------------------------
\* The invariant holds in every behaviour, with or without fairness.
LEMMA Invariance == Spec => []IInv
BY Initially, NextKeeps, PTL DEF Spec

\* Types hold and no run makes more attempts than configured.
THEOREM TypesHold == Spec => []TypeOK
<1>1. IInv => TypeOK
  BY DEF IInv
<1> QED BY <1>1, Invariance, PTL

\* No verdict is stored that the model did not give with enough confidence.
THEOREM VerdictsAreEarned == Spec => []VerdictIsEarned
<1>1. IInv => VerdictIsEarned
  BY DEF IInv, Graph, Sound, VerdictIsEarned
<1> QED BY <1>1, Invariance, PTL

\* Nothing but a confident VERIFIED of an order that is not critical passes
\* without a human.
THEOREM DoubtsAreReviewed == Spec => []DoubtIsReviewed
<1>1. IInv => DoubtIsReviewed
  BY DEF IInv, Graph, Sound, DoubtIsReviewed
<1> QED BY <1>1, Invariance, PTL

\* Identical photos are never sent and never pass.
THEOREM UnchangedNeverPasses == Spec => []UnchangedIsNotResolved
<1>1. IInv => UnchangedIsNotResolved
  BY DEF IInv, Graph, Sound, UnchangedIsNotResolved
<1> QED BY <1>1, Invariance, PTL

\* The agent_runs row tells whether there is a verdict, whatever crashed or
\* was swept meanwhile.
THEOREM OutcomesAreHonest == Spec => []OutcomeIsHonest
<1>1. IInv => OutcomeIsHonest
  BY DEF IInv, Rows, OutcomeIsHonest
<1> QED BY <1>1, Invariance, PTL

\* Runs that overlap and announce each other's rows still leave the latest
\* verdict announced.
THEOREM DoubtsAreAnnounced == Spec => []DoubtIsAnnounced
<1>1. ASSUME IInv PROVE DoubtIsAnnounced
  <2> SUFFICES ASSUME \A r \in Runs : node[r] \in {"none", "done"},
                      NEW l \in Runs, IsLatest(l), verdict[l].output.review,
                      l \notin alerted
               PROVE  FALSE
    BY DEF DoubtIsAnnounced
  <2>1. Rows(l) /\ Told(l) /\ verdict[l] # None
    BY <1>1 DEF IInv, IsLatest
  <2>2. node[l] = "done"
    BY <2>1 DEF Rows
  <2>3. PICK s \in Runs : l < s /\ verdict[s] # None
    BY <2>1, <2>2 DEF Told
  <2>4. s <= l
    BY <2>3 DEF IsLatest
  <2> QED BY <2>3, <2>4 DEF Runs
<1> QED BY <1>1, Invariance, PTL
=============================================================================
