---------------------------- MODULE Intelligence ----------------------------
(***************************************************************************)
(* The agents that work on one complaint: triage and vision, which callers *)
(* start by hand, and context enrichment and priority scoring, which the   *)
(* officer's detail view starts by itself when they are missing or stale   *)
(* (ensure_intelligence_pipeline).  Every agent writes a RUNNING row,      *)
(* commits, works, writes its outcome and commits; triage and vision then  *)
(* write the complaint in a later commit.  Sweeps of stale rows, process   *)
(* crashes and other requests fall between those commits.                  *)
(*                                                                         *)
(* A row's started_at is the start of the transaction that inserted it,    *)
(* its ended_at the moment its outcome was written.  Starts are compared   *)
(* with starts and ends with ends only, so each has a counter of its own.  *)
(***************************************************************************)
EXTENDS Naturals, Sequences, FiniteSets

CONSTANTS
  None,        \* no severity
  Severities,  \* ComplaintPriority values
  Default,     \* the severity a complaint is created with
  Requests,    \* bound: the requests followed, 1..n, in the order they begin
  Kinds,       \* what each request may be
  Late,        \* bound: requests that begin when no other is under way
  MaxRuns,     \* bound: rows in agent_runs
  MaxFaults    \* bound: exceptions and crashes

Agent == {"triage", "vision", "context", "priority"}
Kind == Agent \cup {"view"}

ASSUME SeverityAssumption == Default \in Severities /\ None \notin Severities
ASSUME RequestsAssumption ==
  /\ Requests \subseteq Nat \ {0}
  /\ Kinds \in [Requests -> SUBSET Kind] /\ Late \subseteq Requests
  /\ MaxRuns \in Nat /\ MaxFaults \in Nat

VARIABLES
  complaint,  \* priority (its severity) and status
  runs,       \* agent_runs, in the order they were inserted
  history,    \* complaint_priority_history: the run of each entry
  req,        \* the requests
  sweeping,   \* rows a poll's sweep has selected and not yet written
  begun,      \* transactions begun that a row may carry as its started_at
  ended,      \* outcomes written
  cutoff,     \* rows started before it are older than stale_seconds
  faults,
  settled     \* history: nothing ran since a view last found or made all fresh

vars == <<complaint, runs, history, req, sweeping, begun, ended, cutoff, faults, settled>>
faultVars == <<cutoff, faults>>

Status == {"SUBMITTED", "EVIDENCE_VERIFIED", "PRIORITIZED"}
Complaint == [severity : Severities, status : Status]
\* mixed is history: another triage was under way at some time between the
\* moment the row's request loaded the complaint and the end of the row.
Row == [agent : Agent, status : {"RUNNING", "SUCCEEDED", "FAILED"}, started : Nat,
        ended : Nat, result : BOOLEAN, severity : Severities \cup {None}, mixed : BOOLEAN]
Pc == {"none", "reap", "context", "priority", "create", "compute", "persist", "apply", "end", "gone"}
\* at is the start of the open transaction, 0 when none is open; alone and
\* mixed are history: no other request, or no triage, overlapped this one.
Request == [kind : Kind, pc : Pc, agent : Agent, at : Nat, loaded : Complaint,
            run : Nat, answer : Severities \cup {None}, ok : BOOLEAN,
            stale : SUBSET Nat, alone : BOOLEAN, mixed : BOOLEAN]

Idle ==
  [kind |-> "view", pc |-> "none", agent |-> "context", at |-> 0,
   loaded |-> [severity |-> Default, status |-> "SUBMITTED"], run |-> 0,
   answer |-> None, ok |-> FALSE, stale |-> {}, alone |-> FALSE, mixed |-> FALSE]

Init ==
  /\ complaint = [severity |-> Default, status |-> "SUBMITTED"]
  /\ runs = <<>>
  /\ history = <<>>
  /\ req = [r \in Requests |-> Idle]
  /\ sweeping = {}
  /\ begun = 0
  /\ ended = 0
  /\ cutoff = 0
  /\ faults = 0
  /\ settled = FALSE

Live == {r \in Requests : req[r].pc \notin {"none", "gone"}}
Working(r) == req[r].pc \in {"create", "compute", "persist", "apply"}

\* get_latest_run_for_agent.  No two rows of an agent start at one tick.
IsLatest(i, agent) ==
  /\ i \in DOMAIN runs /\ runs[i].agent = agent
  /\ \A j \in DOMAIN runs : runs[j].agent = agent => runs[j].started <= runs[i].started
LatestIs(agent, status) == \E i \in DOMAIN runs : IsLatest(i, agent) /\ runs[i].status = status
NoRun(agent) == \A i \in DOMAIN runs : runs[i].agent # agent

\* Opens the request's transaction if none is open.
Opened(q) == IF q.at = 0 THEN [q EXCEPT !.at = begun + 1] ELSE q
Open(r) == begun' = IF req[r].at = 0 THEN begun + 1 ELSE begun

\* Rows that will be inserted by requests that already passed their check.
Pending == {r \in Requests : req[r].pc = "create"}
HasRoom == Len(runs) + Cardinality(Pending) < MaxRuns

-----------------------------------------------------------------------------
(* Sweeps: reap_stale_runs.  A poll of a result sweeps the rows of its     *)
(* agent, a view those of every agent.                                     *)

\* Mutant: a view sweeps only the agents it runs.
StalePipeline(agents) ==
  {i \in DOMAIN runs : /\ runs[i].status = "RUNNING" /\ runs[i].started < cutoff
                       /\ runs[i].agent \in {"context", "priority"}}
Stale(agents) ==
  {i \in DOMAIN runs : runs[i].status = "RUNNING" /\ runs[i].started < cutoff /\ runs[i].agent \in agents}

Reaped(row, now) == [row EXCEPT !.status = "FAILED", !.ended = now]
Reap(rows) == runs' = [i \in DOMAIN runs |-> IF i \in rows THEN Reaped(runs[i], ended + 1) ELSE runs[i]]

\* get_context_result, get_priority_result, or a view beyond Requests.
SweepRead(agents) ==
  /\ sweeping = {}
  /\ Stale(agents) # {}
  /\ sweeping' = Stale(agents)
  /\ req' = [r \in Requests |-> [req[r] EXCEPT !.alone = FALSE]]
  /\ UNCHANGED <<complaint, runs, history, begun, ended, faultVars, settled>>

SweepWrite ==
  /\ sweeping # {}
  /\ Reap(sweeping)
  /\ sweeping' = {}
  /\ ended' = ended + 1
  /\ UNCHANGED <<complaint, history, req, begun, faultVars, settled>>

Alive(i) == \E r \in Live : req[r].pc \in {"compute", "persist"} /\ req[r].run = i

\* stale_seconds pass for row i and those started before it.  A run that is
\* still at work by then is counted as a fault.
Age(i) ==
  /\ i \in DOMAIN runs /\ runs[i].status = "RUNNING" /\ runs[i].started >= cutoff
  /\ Alive(i) => faults < MaxFaults
  /\ faults' = IF Alive(i) THEN faults + 1 ELSE faults
  /\ cutoff' = runs[i].started + 1
  /\ UNCHANGED <<complaint, runs, history, req, sweeping, begun, ended, settled>>

-----------------------------------------------------------------------------
(* Requests begin.  A view builds the detail from the complaint it loads,  *)
(* then sweeps; an agent request goes straight to its run.                 *)

\* History is kept of the overlaps that matter: a triage with a score or a triage.
Scored(kind) == kind \in {"view", "priority", "triage"}
Overlapped(q, kind) == [q EXCEPT !.alone = FALSE, !.mixed = @ \/ (kind = "triage" /\ Scored(q.kind))]

\* _assert_can_view or get_complaint_detail loads the complaint.
Loaded(r, kind) ==
  [Idle EXCEPT !.kind = kind, !.at = begun + 1, !.loaded = complaint,
               !.agent = IF kind = "view" THEN "context" ELSE kind,
               !.pc = IF kind # "view" THEN "create"
                      ELSE IF Stale(Agent) = {} THEN "context" ELSE "reap",
               !.stale = IF kind = "view" THEN Stale(Agent) ELSE {},
               !.alone = kind = "view" /\ Live = {} /\ sweeping = {},
               !.mixed = Scored(kind) /\ \E q \in Live : req[q].kind = "triage"]

Begin(r, kind) ==
  /\ req[r].pc = "none" /\ kind \in Kinds[r]
  /\ \A q \in Requests : q < r => req[q].pc # "none"
  /\ r \in Late => Live = {}
  /\ kind # "view" => HasRoom
  /\ req' = [q \in Requests |-> IF q = r THEN Loaded(r, kind)
                                ELSE IF q \in Live THEN Overlapped(req[q], kind) ELSE req[q]]
  /\ begun' = begun + 1
  /\ settled' = (settled /\ kind = "view")
  /\ UNCHANGED <<complaint, runs, history, sweeping, ended, faultVars>>

Goto(r, q, pc) == req' = [req EXCEPT ![r] = [q EXCEPT !.pc = pc]]
Gone == [Idle EXCEPT !.pc = "gone"]
Leave(r) == req' = [req EXCEPT ![r] = Gone]

-----------------------------------------------------------------------------
(* ensure_intelligence_pipeline. *)

ReapWrite(r) ==
  /\ req[r].pc = "reap"
  /\ Reap(req[r].stale)
  /\ ended' = ended + 1
  /\ Goto(r, [req[r] EXCEPT !.at = 0, !.stale = {}], "context")
  /\ UNCHANGED <<complaint, history, sweeping, begun, faultVars, settled>>

ContextMissing == NoRun("context") \/ LatestIs("context", "FAILED")

\* Context is run when it never ran or its last run failed.
LookContext(r) ==
  /\ req[r].pc = "context"
  /\ ContextMissing => HasRoom
  /\ Open(r)
  /\ Goto(r, [Opened(req[r]) EXCEPT !.agent = IF ContextMissing THEN "context" ELSE "priority"],
          IF ContextMissing THEN "create" ELSE "priority")
  /\ UNCHANGED <<complaint, runs, history, sweeping, ended, faultVars, settled>>

\* Mutant: only the situation, not the content, makes a score outdated.
OutdatedByContext(score) ==
  /\ runs[score].ended # 0
  /\ \E i \in DOMAIN runs :
       IsLatest(i, "context") /\ runs[i].status = "SUCCEEDED" /\ runs[i].ended > runs[score].ended
\* Mutant: a run that failed counts as a newer signal.
OutdatedByAnyEnd(score) ==
  \E up \in {"triage", "context"} : \E i \in DOMAIN runs : IsLatest(i, up) /\ runs[i].ended > runs[score].ended

\* A latest triage or context that succeeded after the latest score ended.
Upstream == {"triage", "context"}
Outdated(score) ==
  /\ runs[score].ended # 0
  /\ \E up \in Upstream : \E i \in DOMAIN runs :
       IsLatest(i, up) /\ runs[i].status = "SUCCEEDED" /\ runs[i].ended > runs[score].ended
PriorityStale ==
  \/ NoRun("priority") \/ LatestIs("priority", "FAILED")
  \/ \E i \in DOMAIN runs : IsLatest(i, "priority") /\ Outdated(i)

Ended(r) == [req[r] EXCEPT !.at = 0]
\* History: what a view that met nobody leaves behind is settled.
Settled(r) ==
  \/ settled
  \/ /\ req[r].alone
     /\ LatestIs("context", "SUCCEEDED") /\ LatestIs("priority", "SUCCEEDED")

Score(r) ==
  /\ req[r].pc = "priority" /\ PriorityStale /\ HasRoom
  /\ Open(r)
  /\ Goto(r, [Opened(req[r]) EXCEPT !.agent = "priority"], "create")
  /\ UNCHANGED <<complaint, runs, history, sweeping, ended, faultVars, settled>>

\* The score is fresh, or still being computed.
Skip(r) ==
  /\ req[r].pc = "priority" /\ ~PriorityStale
  /\ Goto(r, Ended(r), "end")
  /\ UNCHANGED <<complaint, runs, history, sweeping, begun, ended, faultVars, settled>>

\* The view answers.
Finish(r) ==
  /\ req[r].pc = "end"
  /\ Leave(r)
  /\ settled' = Settled(r)
  /\ UNCHANGED <<complaint, runs, history, sweeping, begun, ended, faultVars>>

-----------------------------------------------------------------------------
(* The run of an agent. *)

NewRow(q) ==
  [agent |-> q.agent, status |-> "RUNNING", started |-> q.at, ended |-> 0,
   result |-> FALSE, severity |-> None, mixed |-> FALSE]

\* create_run, and the commit that follows it in every agent.
Create(r) ==
  /\ req[r].pc = "create"
  /\ runs' = Append(runs, NewRow(req[r]))
  /\ Goto(r, [req[r] EXCEPT !.at = 0, !.run = Len(runs) + 1], "compute")
  /\ UNCHANGED <<complaint, history, sweeping, begun, ended, faultVars, settled>>

\* The graph up to its persist node: an outcome, and a severity where it has one.
Compute(r, answer, ok) ==
  /\ req[r].pc = "compute"
  /\ Goto(r, [req[r] EXCEPT !.answer = answer, !.ok = ok], "persist")
  /\ UNCHANGED <<complaint, runs, history, sweeping, begun, ended, faultVars, settled>>

\* Mutant: the complaint is written before the run is.
TriageEagerly(r, severity) ==
  /\ req[r].agent = "triage" /\ req[r].pc = "compute"
  /\ complaint' = IF severity = None THEN complaint ELSE [severity |-> severity, status |-> "PRIORITIZED"]
  /\ Goto(r, [req[r] EXCEPT !.answer = severity, !.ok = severity # None], "persist")
  /\ UNCHANGED <<runs, history, sweeping, begun, ended, faultVars, settled>>
\* A severity from the model, or the fallback when no answer could be parsed;
\* no severity when the provider failed.
Triage(r, severity) == req[r].agent = "triage" /\ Compute(r, severity, severity # None)
Vision(r, ok) == req[r].agent = "vision" /\ Compute(r, None, ok)
\* External lookups degrade to "not available"; enrichment itself succeeds.
Enrich(r) == req[r].agent = "context" /\ Compute(r, None, TRUE)

\* The copy of the complaint the session answers with: the one the request
\* holds on to, unless nothing but the session knew it and it was collected.
Copies(r) == IF req[r].kind = "priority" THEN {req[r].loaded, complaint} ELSE {req[r].loaded}

\* PriorityDataService.collect scores the severity of that copy, or fails.
Collect(r, copy, ok) ==
  /\ req[r].agent = "priority" /\ copy \in Copies(r)
  /\ Compute(r, IF ok THEN copy.severity ELSE None, ok)

Finalized(row, q, now) ==
  [row EXCEPT !.status = IF q.ok THEN "SUCCEEDED" ELSE "FAILED", !.ended = now,
              !.result = q.ok, !.severity = q.answer, !.mixed = q.mixed /\ q.agent # "context"]

\* What the request does after finalize_run committed.
After(q) ==
  IF q.ok /\ q.agent \in {"triage", "vision"} THEN "apply"
  ELSE IF q.kind # "view" THEN "gone"
  ELSE IF q.agent = "context" THEN "priority" ELSE "end"

\* The persist node: a score and its history entry in one commit; over
\* whatever a sweep wrote meanwhile.
Persist(r) ==
  /\ req[r].pc = "persist"
  /\ runs' = [runs EXCEPT ![req[r].run] = Finalized(runs[req[r].run], req[r], ended + 1)]
  /\ history' = IF req[r].agent = "priority" /\ req[r].ok THEN Append(history, req[r].run) ELSE history
  /\ ended' = ended + 1
  /\ IF After(req[r]) = "gone" THEN Leave(r) ELSE Goto(r, Ended(r), After(req[r]))
  /\ UNCHANGED <<complaint, sweeping, begun, faultVars, settled>>

\* _transition_complaint, committed with the duration.  Only columns that
\* differ from the loaded copy are written.
Written(loaded, severity, status) ==
  [severity |-> IF severity = loaded.severity THEN complaint.severity ELSE severity,
   status |-> IF status = loaded.status THEN complaint.status ELSE status]

Apply(r) ==
  /\ req[r].pc = "apply"
  /\ complaint' = IF req[r].agent = "triage"
       THEN Written(req[r].loaded, req[r].answer, "PRIORITIZED")
       ELSE Written(req[r].loaded, req[r].loaded.severity, "EVIDENCE_VERIFIED")
  /\ Leave(r)
  /\ UNCHANGED <<runs, history, sweeping, begun, ended, faultVars, settled>>

-----------------------------------------------------------------------------
(* Faults. *)

\* An exception leaves the row RUNNING.  A view survives one in its context
\* stage and goes on to the score; every other request ends.
Raise(r) ==
  /\ faults < MaxFaults /\ r \in Live
  /\ faults' = faults + 1
  /\ IF req[r].kind = "view" /\ req[r].agent = "context" /\ Working(r)
       THEN Goto(r, req[r], "priority") ELSE Leave(r)
  /\ UNCHANGED <<complaint, runs, history, sweeping, begun, ended, cutoff, settled>>

\* The process dies, and every request in it.
Crash ==
  /\ faults < MaxFaults /\ Live # {}
  /\ faults' = faults + 1
  /\ req' = [r \in Requests |-> IF r \in Live THEN Gone ELSE req[r]]
  /\ sweeping' = {}
  /\ UNCHANGED <<complaint, runs, history, begun, ended, cutoff, settled>>

-----------------------------------------------------------------------------
Work(r) ==
  \/ Create(r)
  \/ \E severity \in Severities \cup {None} : Triage(r, severity)
  \/ \E ok \in BOOLEAN : Vision(r, ok)
  \/ Enrich(r)
  \/ \E copy \in Copies(r), ok \in BOOLEAN : Collect(r, copy, ok)
  \/ Persist(r)
  \/ Apply(r)
View(r) == ReapWrite(r) \/ LookContext(r) \/ Score(r) \/ Skip(r) \/ Finish(r)

Next ==
  \/ \E r \in Requests : (\E kind \in Kind : Begin(r, kind)) \/ Work(r) \/ View(r) \/ Raise(r)
  \/ \E agents \in {Agent, {"context"}, {"priority"}} : SweepRead(agents)
  \/ SweepWrite
  \/ \E i \in 1..MaxRuns : Age(i)
  \/ Crash

\* Officers come back to the complaint, and time passes.
Spec ==
  /\ Init /\ [][Next]_vars
  /\ WF_vars(SweepRead(Agent)) 
  /\ WF_vars(SweepWrite)
  /\ WF_vars(\E i \in 1..MaxRuns : Age(i))
  /\ WF_vars(\E r \in Requests : Work(r) \/ View(r))

-----------------------------------------------------------------------------
(* Properties. *)

\* Types, and the bounds on rows, entries and faults.
TypeOK ==
  /\ complaint \in Complaint
  /\ runs \in Seq(Row) /\ Len(runs) <= MaxRuns
  /\ history \in Seq(Nat)
  /\ req \in [Requests -> Request]
  /\ \A r \in Requests : req[r].run \in 0..Len(runs) /\ req[r].stale \subseteq 1..Len(runs)
  /\ sweeping \subseteq 1..Len(runs)
  /\ begun \in Nat /\ ended \in Nat /\ cutoff \in Nat /\ faults \in 0..MaxFaults
  /\ settled \in BOOLEAN

\* "a SUCCEEDED run is never replaced by a plain re-view": once a view that met
\* nobody has answered, further views start nothing until an agent is asked for.
SettledStays ==
  settled => \A r \in Requests : req[r].kind = "view" => ~Working(r)

\* "the priority score always reflects the newest validated upstream signal":
\* when nothing is to be done, the latest score was computed from the severity
\* the complaint has, unless a triage was under way during the scoring or the
\* latest triage did not succeed.
ScoreReflectsSeverity ==
  \A i \in DOMAIN runs :
    /\ settled /\ IsLatest(i, "priority") /\ ~runs[i].mixed
    /\ NoRun("triage") \/ LatestIs("triage", "SUCCEEDED")
    => runs[i].severity = complaint.severity

\* The complaint's severity and status are earned: nothing but a stored result
\* of the agent that says so moves them, even when requests die half-way.
StatusIsEarned ==
  /\ complaint.severity = Default \/ \E i \in DOMAIN runs : runs[i].agent = "triage" /\ runs[i].severity = complaint.severity
  /\ complaint.status = "PRIORITIZED" => \E i \in DOMAIN runs : runs[i].agent = "triage" /\ runs[i].result
  /\ complaint.status = "EVIDENCE_VERIFIED" => \E i \in DOMAIN runs : runs[i].agent = "vision" /\ runs[i].result

\* No row reports an eternal in-progress state: whatever died, the sweeps of
\* later visits leave nothing RUNNING.
RunsEnd == []<>(\A i \in DOMAIN runs : runs[i].status # "RUNNING")
=============================================================================
