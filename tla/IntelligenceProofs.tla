---------------------------- MODULE IntelligenceProofs ----------------------------
(***************************************************************************)
(* For any severities, any number of requests, rows and faults.            *)
(*                                                                         *)
(* Earned.  A row is finalised by the one request that created it, so what *)
(* a row says of the complaint is never unsaid, and a request that is to   *)
(* write the complaint has such a row.                                     *)
(*                                                                         *)
(* Settled.  A view that met nobody was the last to open a transaction:    *)
(* the score it leaves is the latest and ended after everything upstream.  *)
(* After that no row that succeeded is in the hands of a sweep.            *)
(*                                                                         *)
(* Severity.  A score that met no triage has the severity the complaint    *)
(* had at its end.  What changed it since is a triage that began later, so *)
(* from that one on every triage that ended, ended after the score.        *)
(***************************************************************************)
EXTENDS Intelligence, TLAPS

Rows == DOMAIN runs

\* The shapes of everything but the rows a request refers to.
Shapes ==
  /\ complaint \in Complaint
  /\ runs \in Seq(Row) /\ history \in Seq(Nat)
  /\ req \in [Requests -> Request]
  /\ sweeping \subseteq Rows
  /\ begun \in Nat /\ ended \in Nat /\ cutoff \in Nat /\ faults \in Nat
  /\ settled \in BOOLEAN

\* No two transactions start at one tick, and no two outcomes were written at one.
Ticks ==
  /\ \A i \in Rows : /\ runs[i].started \in 1..begun /\ runs[i].ended \in 0..ended
                     /\ runs[i].status # "RUNNING" => runs[i].ended # 0
  /\ \A i, j \in Rows : runs[i].started = runs[j].started => i = j
  /\ \A r \in Requests : req[r].at \in 0..begun /\ \A i \in Rows : runs[i].started # req[r].at
  /\ \A r, q \in Requests : req[r].at = req[q].at /\ r # q => req[r].at = 0

\* What the place of a request says of it.
Place(q) ==
  /\ q.agent \in IF q.kind = "view" THEN {"context", "priority"} ELSE {q.kind}
  /\ q.pc \in {"reap", "context", "priority", "end"} => q.kind = "view"
  /\ q.pc \in {"none", "gone"} => q.at = 0 /\ ~q.alone
  /\ q.pc = "create" => q.at # 0
  /\ q.run \in 0..Len(runs) /\ q.stale \subseteq Rows
  /\ q.pc \in {"compute", "persist"} =>
       /\ q.run \in Rows /\ runs[q.run].agent = q.agent
       /\ ~runs[q.run].result /\ runs[q.run].severity = None
  /\ q.pc = "persist" /\ q.agent = "triage" => q.ok = (q.answer # None)
  /\ q.pc = "apply" =>
       /\ q.agent \in {"triage", "vision"} /\ q.run \in Rows /\ runs[q.run].agent = q.agent /\ runs[q.run].result
       /\ q.agent = "triage" => q.answer \in Severities /\ runs[q.run].severity = q.answer

Places == \A r \in Requests : Place(req[r])

Owners ==
  \A r, q \in Requests :
    req[r].pc \in {"compute", "persist"} /\ req[q].pc \in {"compute", "persist"} /\ req[r].run = req[q].run => r = q

\* A request that met nobody is the only one, and opened the last transaction.
Alone ==
  \A r \in Requests : req[r].alone =>
    /\ req[r].kind = "view" /\ sweeping = {} /\ \A q \in Live : q = r
    /\ req[r].at \in {0, begun}
    /\ req[r].pc \in {"compute", "persist"} => runs[req[r].run].started = begun
    /\ req[r].pc = "end" /\ LatestIs("priority", "SUCCEEDED") => ~PriorityStale

\* Nothing is to be done, and nobody is about to undo it.
Rest ==
  settled =>
    /\ LatestIs("context", "SUCCEEDED") /\ LatestIs("priority", "SUCCEEDED") /\ ~PriorityStale
    /\ \A r \in Live : req[r].pc \in {"reap", "context", "priority", "end"}
    /\ \A i \in sweeping \cup UNION {req[r].stale : r \in Live} : runs[i].status # "SUCCEEDED"

IsLive(q) == q.pc \notin {"none", "gone"}
Scorer(q) == IsLive(q) /\ q.kind \in {"view", "priority"}
Triaging(q) == IsLive(q) /\ q.kind = "triage"
\* A score that met no triage.
Pure(row) == row.agent = "priority" /\ row.status = "SUCCEEDED" /\ ~row.mixed
\* Every triage that started at this tick or later ends after this moment.
NewerFrom(now, tick) ==
  \A k \in Rows : runs[k].agent = "triage" /\ runs[k].started >= tick => runs[k].ended = 0 \/ runs[k].ended > now
Tick(q) == IF q.pc = "create" THEN q.at ELSE runs[q.run].started

\* Who scores beside a triage knows it.
Witnessed == \A r, t \in Requests : Scorer(req[r]) /\ Triaging(req[t]) => req[r].mixed
\* Who scores and has met no triage has the severity there is.
UpToDate(q) ==
  Scorer(q) /\ ~q.mixed =>
    /\ q.loaded.severity = complaint.severity
    /\ q.pc = "persist" /\ q.agent = "priority" /\ q.ok => q.answer = complaint.severity
Later == \A t \in Requests, i \in Rows : Triaging(req[t]) /\ Pure(runs[i]) => NewerFrom(runs[i].ended, Tick(req[t]))
Reflected ==
  \A i \in Rows : Pure(runs[i]) =>
    \/ runs[i].severity = complaint.severity
    \/ \E j \in Rows : runs[j].agent = "triage" /\ NewerFrom(runs[i].ended, runs[j].started)

Met == Witnessed /\ (\A r \in Requests : UpToDate(req[r])) /\ Later /\ Reflected

PipelineInv == Shapes /\ Ticks /\ Places /\ Owners /\ StatusIsEarned /\ Alone /\ Rest /\ Met

-----------------------------------------------------------------------------
(* Rows.                                                                   *)

LEMMA RowsAre ==
  ASSUME Shapes
  PROVE  /\ Rows = 1..Len(runs) /\ Len(runs) \in Nat
         /\ \A i \in Rows : runs[i] \in Row
BY DEF Shapes, Rows

\* There is at most one latest row of an agent.
LEMMA LatestIsOne ==
  ASSUME Shapes, Ticks, NEW agent, NEW i, NEW j, IsLatest(i, agent), IsLatest(j, agent)
  PROVE  i = j
<1>1. i \in Rows /\ j \in Rows /\ runs[i].started \in Nat /\ runs[j].started \in Nat
  BY RowsAre DEF IsLatest, Rows, Row
<1>2. runs[i].started <= runs[j].started /\ runs[j].started <= runs[i].started
  BY <1>1 DEF IsLatest
<1>3. runs[i].started = runs[j].started
  BY <1>1, <1>2
<1>4. QED
  BY <1>1, <1>3 DEF Ticks

LEMMA PlaceStays ==
  ASSUME NEW q, Place(q), Rows \subseteq Rows', Len(runs) \in Nat, Len(runs)' \in Nat, Len(runs) <= Len(runs)',
         q.run \in Rows /\ q.pc \in {"compute", "persist", "apply"} =>
           /\ runs'[q.run].agent = runs[q.run].agent /\ runs'[q.run].result = runs[q.run].result
           /\ runs'[q.run].severity = runs[q.run].severity
  PROVE  Place(q)'
BY DEF Place

LEMMA IdleIsRequest == Idle \in Request /\ Gone \in Request /\ Place(Idle) /\ Place(Gone)
<1>1. [severity |-> Default, status |-> "SUBMITTED"] \in Complaint
  BY SeverityAssumption DEF Complaint, Status
<1>2. Idle \in Request
  BY <1>1 DEF Idle, Request, Kind, Pc, Agent
<1>3. Gone \in Request
  BY <1>1 DEF Gone, Idle, Request, Kind, Pc, Agent
<1>4. 0 \in 0..Len(runs)
  OBVIOUS
<1>5. QED
  BY <1>2, <1>3 DEF Place, Idle, Gone

LEMMA PipelineStart == Init => PipelineInv
<1> SUFFICES ASSUME Init PROVE PipelineInv
  OBVIOUS
<1>1. Rows = {} /\ Len(runs) = 0
  BY DEF Init, Rows
<1>2. \A r \in Requests : req[r] = Idle
  BY DEF Init
<1>3. Shapes
  <2>1. complaint \in Complaint
    BY SeverityAssumption DEF Init, Complaint, Status
  <2>2. req \in [Requests -> Request]
    BY IdleIsRequest DEF Init
  <2>3. runs \in Seq(Row) /\ history \in Seq(Nat)
    BY DEF Init
  <2>4. QED
    BY <2>1, <2>2, <2>3 DEF Init, Shapes
<1>4. Ticks /\ Owners
  BY <1>1, <1>2 DEF Ticks, Owners, Idle, Init
<1>5. Places
  BY <1>2, IdleIsRequest DEF Places
<1>6. StatusIsEarned
  BY DEF Init, StatusIsEarned
<1>7. Alone /\ Rest
  BY <1>2 DEF Alone, Rest, Idle, Init
<1>8. Met
  BY <1>1, <1>2 DEF Met, Witnessed, UpToDate, Later, Reflected, Scorer, Triaging, IsLive, Idle
<1>9. QED
  BY <1>3, <1>4, <1>5, <1>6, <1>7, <1>8 DEF PipelineInv

-----------------------------------------------------------------------------
(* Steps that leave the rows and the complaint alone.                      *)

\* What such a step may make of a request that was under way.
Goes(q, n) ==
  /\ n.pc = "none" => q.pc = "none"
  /\ IsLive(n) =>
       /\ IsLive(q) /\ n.kind = q.kind /\ n.loaded = q.loaded /\ n.mixed = q.mixed
       /\ n.alone => q.alone
       /\ n.stale \subseteq q.stale
       /\ n.kind = "triage" => Tick(n) = Tick(q)
  /\ n.pc \in {"compute", "persist"} => q.pc \in {"compute", "persist"} /\ n.run = q.run
  /\ settled /\ IsLive(n) => n.pc \in {"reap", "context", "priority", "end"}

\* What it leaves of the invariant, settled aside.
Going(f) ==
  /\ f \in [Requests -> Request] /\ req' = f
  /\ \A p \in Requests :
       /\ Place(f[p]) /\ Goes(req[p], f[p]) /\ UpToDate(f[p])
       /\ f[p].at \in 0..begun' /\ \A i \in Rows : runs[i].started # f[p].at
       /\ f[p].alone =>
            /\ sweeping' = {} /\ f[p].at \in {0, begun'}
            /\ f[p].pc \in {"compute", "persist"} => begun' = begun
            /\ f[p].pc = "end" /\ LatestIs("priority", "SUCCEEDED") => ~PriorityStale
  /\ \A p, q \in Requests : f[p].at = f[q].at /\ p # q => f[p].at = 0

LEMMA SameRows ==
  ASSUME UNCHANGED runs
  PROVE  /\ Rows' = Rows /\ PriorityStale' = PriorityStale
         /\ \A agent, status : LatestIs(agent, status)' = LatestIs(agent, status)
BY DEF Rows, PriorityStale, LatestIs, IsLatest, NoRun, Outdated

LEMMA QuietStep ==
  ASSUME PipelineInv, UNCHANGED <<complaint, runs, history, ended>>,
         begun' \in Nat, begun' >= begun, cutoff' \in Nat, faults' \in Nat,
         sweeping' \subseteq Rows, settled' \in BOOLEAN, NEW f, Going(f)
  PROVE  /\ Shapes' /\ Ticks' /\ Places' /\ Owners' /\ StatusIsEarned' /\ Alone' /\ Met'
         /\ settled' = settled /\ (settled => \A i \in sweeping' : runs[i].status # "SUCCEEDED") => Rest'
<1>1. Rows' = Rows
  BY SameRows
<1>2. Shapes'
  BY <1>1 DEF PipelineInv, Shapes, Going
<1>3. Ticks'
  BY <1>1 DEF PipelineInv, Ticks, Shapes, Going
<1>4. Places'
  BY <1>1 DEF Going, Places, Place
<1>5. Owners'
  BY DEF PipelineInv, Owners, Going, Goes
<1>6. StatusIsEarned'
  BY <1>1 DEF PipelineInv, StatusIsEarned
<1>7. Live' \subseteq Live
  BY DEF Live, Going, Goes, IsLive
<1>8. Alone'
  <2> SUFFICES ASSUME NEW p \in Requests, req'[p].alone
               PROVE  /\ req'[p].kind = "view" /\ sweeping' = {} /\ \A q \in Live' : q = p
                      /\ req'[p].at \in {0, begun'}
                      /\ req'[p].pc \in {"compute", "persist"} => runs'[req'[p].run].started = begun'
                      /\ req'[p].pc = "end" /\ LatestIs("priority", "SUCCEEDED")' => ~PriorityStale'
    BY DEF Alone
  <2>1. IsLive(f[p]) /\ Goes(req[p], f[p])
    BY DEF Going, Place, IsLive
  <2>2. req[p].alone /\ f[p].kind = req[p].kind
    BY <2>1 DEF Going, Goes
  <2>3. req[p].kind = "view" /\ \A q \in Live : q = p
    BY <2>2 DEF PipelineInv, Alone
  <2>4. req'[p].kind = "view" /\ \A q \in Live' : q = p
    BY <1>7, <2>2, <2>3 DEF Going
  <2>5. sweeping' = {} /\ req'[p].at \in {0, begun'}
    BY DEF Going
  <2>6. req'[p].pc \in {"compute", "persist"} => runs'[req'[p].run].started = begun'
    BY <2>1, <2>2 DEF PipelineInv, Alone, Going, Goes
  <2>7. req'[p].pc = "end" /\ LatestIs("priority", "SUCCEEDED")' => ~PriorityStale'
    BY SameRows DEF Going
  <2>8. QED
    BY <2>4, <2>5, <2>6, <2>7
<1>9. Met'
  <2>1. Witnessed'
    BY DEF PipelineInv, Met, Witnessed, Going, Goes, Scorer, Triaging, IsLive
  <2>2. \A r \in Requests : UpToDate(req[r])'
    BY DEF Going, UpToDate, Scorer, IsLive
  <2>3. Later'
    <3> SUFFICES ASSUME NEW t \in Requests, NEW i \in Rows, IsLive(f[t]), f[t].kind = "triage", Pure(runs[i])
                 PROVE  NewerFrom(runs[i].ended, Tick(f[t]))
      BY <1>1 DEF Later, Triaging, IsLive, Going, Pure, NewerFrom, Tick
    <3>1. Triaging(req[t]) /\ Tick(f[t]) = Tick(req[t])
      BY DEF Going, Goes, Triaging
    <3>2. QED
      BY <3>1 DEF PipelineInv, Met, Later
  <2>4. Reflected'
    BY <1>1 DEF PipelineInv, Met, Reflected, Pure, NewerFrom
  <2>5. QED
    BY <2>1, <2>2, <2>3, <2>4 DEF Met
<1>10. ASSUME settled' = settled, settled => \A i \in sweeping' : runs[i].status # "SUCCEEDED" PROVE Rest'
  <2> SUFFICES ASSUME settled
               PROVE  /\ LatestIs("context", "SUCCEEDED")' /\ LatestIs("priority", "SUCCEEDED")' /\ ~PriorityStale'
                      /\ \A r \in Live' : req'[r].pc \in {"reap", "context", "priority", "end"}
                      /\ \A i \in sweeping' \cup UNION {req'[r].stale : r \in Live'} : runs'[i].status # "SUCCEEDED"
    BY <1>10 DEF Rest
  <2>1. LatestIs("context", "SUCCEEDED")' /\ LatestIs("priority", "SUCCEEDED")' /\ ~PriorityStale'
    BY SameRows DEF PipelineInv, Rest
  <2>2. \A r \in Live' : req'[r].pc \in {"reap", "context", "priority", "end"}
    BY DEF Live, Going, Goes, IsLive
  <2>3. \A r \in Live' : r \in Live /\ req'[r].stale \subseteq req[r].stale
    BY <1>7 DEF Live, Going, Goes, IsLive
  <2>4. \A i \in UNION {req'[r].stale : r \in Live'} : runs'[i].status # "SUCCEEDED"
    BY <2>3 DEF PipelineInv, Rest
  <2>5. QED
    BY <1>10, <2>1, <2>2, <2>4
<1>11. QED
  BY <1>2, <1>3, <1>4, <1>5, <1>6, <1>8, <1>9, <1>10

\* A request that is left as it is, or thrown out.
LEMMA StaysOrGoes ==
  ASSUME PipelineInv, NEW p \in Requests, begun' \in Nat, begun' >= begun,
         NEW n \in {req[p], Gone}, IsLive(req[p]) \/ n = req[p]
  PROVE  /\ Place(n) /\ Goes(req[p], n) /\ UpToDate(n) /\ n \in Request
         /\ n.at \in 0..begun' /\ \A i \in Rows : runs[i].started # n.at
         /\ n.at \in {0, req[p].at}
<1>1. CASE n = req[p]
  <2>1. settled /\ IsLive(n) => n.pc \in {"reap", "context", "priority", "end"}
    BY <1>1 DEF PipelineInv, Rest, Live, IsLive
  <2>2. Goes(req[p], n)
    BY <1>1, <2>1 DEF Goes
  <2>3. n \in Request /\ Place(n) /\ UpToDate(n)
    BY <1>1 DEF PipelineInv, Shapes, Places, Met
  <2>4. n.at \in 0..begun' /\ (\A i \in Rows : runs[i].started # n.at)
    BY <1>1 DEF PipelineInv, Shapes, Ticks
  <2>5. QED
    BY <1>1, <2>2, <2>3, <2>4
<1>2. CASE n = Gone
  <2>1. n.pc = "gone" /\ n.at = 0
    BY <1>2 DEF Gone, Idle
  <2>2. \A i \in Rows : runs[i].started # 0
    BY RowsAre DEF PipelineInv, Shapes, Ticks
  <2>3. QED
    BY <1>2, <2>1, <2>2, IdleIsRequest DEF Goes, UpToDate, Scorer, IsLive
<1>3. QED
  BY <1>1, <1>2

\* One request goes on.
LEMMA OneGoes ==
  ASSUME PipelineInv, UNCHANGED <<complaint, runs, history, ended, sweeping, settled>>,
         cutoff' \in Nat, faults' \in Nat,
         NEW r \in Requests, NEW n \in Request, req' = [req EXCEPT ![r] = n],
         IsLive(req[r]), Place(n), Goes(req[r], n), UpToDate(n),
         \/ n.at \in {0, req[r].at} /\ begun' = begun
         \/ n.at = begun + 1 /\ begun' = begun + 1 /\ n.pc \notin {"compute", "persist"},
         n.alone /\ n.pc = "end" /\ LatestIs("priority", "SUCCEEDED") => ~PriorityStale
  PROVE  PipelineInv'
<1> DEFINE f == [req EXCEPT ![r] = n]
<1>1. f \in [Requests -> Request] /\ \A p \in Requests : f[p] = IF p = r THEN n ELSE req[p]
  BY DEF PipelineInv, Shapes
<1> HIDE DEF f
<1>2. begun \in Nat /\ begun' \in Nat /\ begun' >= begun
  BY DEF PipelineInv, Shapes
<1>3. ASSUME NEW p \in Requests, p # r
      PROVE  /\ Place(f[p]) /\ Goes(req[p], f[p]) /\ UpToDate(f[p])
             /\ f[p].at \in 0..begun' /\ \A i \in Rows : runs[i].started # f[p].at
             /\ ~f[p].alone /\ f[p].at # begun + 1
  <2>1. f[p] = req[p]
    BY <1>1, <1>3
  <2>2. /\ Place(f[p]) /\ Goes(req[p], f[p]) /\ UpToDate(f[p])
        /\ f[p].at \in 0..begun' /\ \A i \in Rows : runs[i].started # f[p].at
    BY <1>2, <2>1, StaysOrGoes
  <2>3. ~f[p].alone
    BY <1>3, <2>1 DEF PipelineInv, Alone, Live, IsLive
  <2>4. f[p].at \in 0..begun
    BY <2>1 DEF PipelineInv, Ticks
  <2>5. QED
    BY <1>2, <2>2, <2>3, <2>4
<1>4. n.at \in 0..begun' /\ \A i \in Rows : runs[i].started # n.at
  <2>1. \A i \in Rows : runs[i].started \in 1..begun /\ runs[i].started # req[r].at
    BY DEF PipelineInv, Ticks
  <2>2. req[r].at \in 0..begun
    BY DEF PipelineInv, Ticks
  <2>3. QED
    BY <1>2, <2>1, <2>2
<1>5. n.alone => /\ sweeping' = {} /\ n.at \in {0, begun'}
                 /\ n.pc \in {"compute", "persist"} => begun' = begun
  <2> SUFFICES ASSUME n.alone PROVE sweeping' = {} /\ n.at \in {0, begun'} /\ (n.pc \in {"compute", "persist"} => begun' = begun)
    OBVIOUS
  <2>1. req[r].alone
    BY DEF Goes, Place, IsLive
  <2>2. sweeping = {} /\ req[r].at \in {0, begun}
    BY <2>1 DEF PipelineInv, Alone
  <2>3. QED
    BY <2>2
<1>6. ASSUME NEW p \in Requests, NEW q \in Requests, f[p].at = f[q].at, p # q PROVE f[p].at = 0
  <2>1. req[p].at = req[q].at => req[p].at = 0
    BY <1>6 DEF PipelineInv, Ticks
  <2>2. CASE p # r /\ q # r
    BY <1>1, <1>6, <2>1, <2>2
  <2>3. CASE p = r
    BY <1>1, <1>3, <1>6, <2>1, <2>3
  <2>4. CASE q = r
    BY <1>1, <1>3, <1>6, <2>1, <2>4
  <2>5. QED
    BY <2>2, <2>3, <2>4
<1>7. Going(f)
  BY <1>1, <1>3, <1>4, <1>5, <1>6 DEF Going, f
<1>8. sweeping' \subseteq Rows /\ settled' \in BOOLEAN /\ (settled => \A i \in sweeping' : runs[i].status # "SUCCEEDED")
  BY DEF PipelineInv, Shapes, Rest
<1>9. QED
  BY <1>2, <1>7, <1>8, QuietStep DEF PipelineInv

\* A live request and its record.
LEMMA RequestAt ==
  ASSUME PipelineInv, NEW r \in Requests
  PROVE  /\ req[r] \in Request /\ Place(req[r]) /\ UpToDate(req[r])
         /\ begun \in Nat /\ cutoff \in Nat /\ faults \in Nat /\ ended \in Nat
BY DEF PipelineInv, Shapes, Places, Met

LEMMA LookStep ==
  ASSUME PipelineInv, NEW r \in Requests, LookContext(r)
  PROVE  PipelineInv'
<1>1. PICK q : q = req[r]
  OBVIOUS
<1>2. /\ q \in Request /\ Place(q) /\ UpToDate(q) /\ q.pc = "context" /\ q.kind = "view" /\ IsLive(q)
      /\ begun \in Nat /\ cutoff \in Nat /\ faults \in Nat
  BY <1>1, RequestAt DEF LookContext, Place, IsLive
<1>3. PICK at : at = IF q.at = 0 THEN begun + 1 ELSE q.at
  OBVIOUS
<1>4. at \in Nat /\ at # 0 /\ begun' = (IF q.at = 0 THEN begun + 1 ELSE begun)
  BY <1>1, <1>2, <1>3 DEF LookContext, Open, Request
<1>5. Opened(q) = [q EXCEPT !.at = at]
  BY <1>2, <1>3 DEF Opened, Request
<1>6. PICK n : n = [q EXCEPT !.at = at, !.agent = IF ContextMissing THEN "context" ELSE "priority",
                             !.pc = IF ContextMissing THEN "create" ELSE "priority"]
  OBVIOUS
<1>7. req' = [req EXCEPT ![r] = n]
  BY <1>1, <1>2, <1>5, <1>6 DEF LookContext, Goto, Request
<1>8. /\ n \in Request /\ n.kind = "view" /\ n.loaded = q.loaded /\ n.mixed = q.mixed /\ n.alone = q.alone
      /\ n.stale = q.stale /\ n.run = q.run /\ n.at = at /\ n.agent \in {"context", "priority"}
      /\ n.pc = IF ContextMissing THEN "create" ELSE "priority"
  BY <1>2, <1>4, <1>6 DEF Request, Agent, Pc
<1>9. Place(n) /\ UpToDate(n)
  BY <1>2, <1>4, <1>8 DEF Place, UpToDate, Scorer, IsLive
<1>10. settled => ~ContextMissing
  <2> SUFFICES ASSUME settled, ContextMissing PROVE FALSE
    OBVIOUS
  <2>1. PICK i : IsLatest(i, "context") /\ runs[i].status = "SUCCEEDED"
    BY DEF PipelineInv, Rest, LatestIs
  <2>2. PICK j : IsLatest(j, "context") /\ runs[j].status = "FAILED"
    BY <2>1 DEF ContextMissing, NoRun, LatestIs, IsLatest
  <2>3. i = j
    BY <2>1, <2>2, LatestIsOne DEF PipelineInv
  <2>4. QED
    BY <2>1, <2>2, <2>3
<1>11. Goes(q, n)
  BY <1>2, <1>8, <1>10 DEF Goes, IsLive
<1>12. QED
  BY <1>1, <1>2, <1>3, <1>4, <1>7, <1>8, <1>9, <1>11, OneGoes DEF LookContext, faultVars

LEMMA ScoreStep ==
  ASSUME PipelineInv, NEW r \in Requests, Score(r)
  PROVE  PipelineInv'
<1>1. PICK q : q = req[r]
  OBVIOUS
<1>2. /\ q \in Request /\ Place(q) /\ UpToDate(q) /\ q.pc = "priority" /\ q.kind = "view" /\ IsLive(q)
      /\ begun \in Nat /\ cutoff \in Nat /\ faults \in Nat
  BY <1>1, RequestAt DEF Score, Place, IsLive
<1>3. PICK at : at = IF q.at = 0 THEN begun + 1 ELSE q.at
  OBVIOUS
<1>4. at \in Nat /\ at # 0 /\ begun' = (IF q.at = 0 THEN begun + 1 ELSE begun)
  BY <1>1, <1>2, <1>3 DEF Score, Open, Request
<1>5. Opened(q) = [q EXCEPT !.at = at]
  BY <1>2, <1>3 DEF Opened, Request
<1>6. PICK n : n = [q EXCEPT !.at = at, !.agent = "priority", !.pc = "create"]
  OBVIOUS
<1>7. req' = [req EXCEPT ![r] = n]
  BY <1>1, <1>2, <1>5, <1>6 DEF Score, Goto, Request
<1>8. /\ n \in Request /\ n.kind = "view" /\ n.loaded = q.loaded /\ n.mixed = q.mixed /\ n.alone = q.alone
      /\ n.stale = q.stale /\ n.run = q.run /\ n.at = at /\ n.agent = "priority" /\ n.pc = "create"
  BY <1>2, <1>4, <1>6 DEF Request, Agent, Pc
<1>9. Place(n) /\ UpToDate(n)
  BY <1>2, <1>4, <1>8 DEF Place, UpToDate, Scorer, IsLive
<1>10. ~settled
  BY DEF PipelineInv, Rest, Score
<1>11. Goes(q, n)
  BY <1>2, <1>8, <1>10 DEF Goes, IsLive
<1>12. QED
  BY <1>1, <1>2, <1>3, <1>4, <1>7, <1>8, <1>9, <1>11, OneGoes DEF Score, faultVars

LEMMA SkipStep ==
  ASSUME PipelineInv, NEW r \in Requests, Skip(r)
  PROVE  PipelineInv'
<1>1. PICK q : q = req[r]
  OBVIOUS
<1>2. /\ q \in Request /\ Place(q) /\ UpToDate(q) /\ q.pc = "priority" /\ q.kind = "view" /\ IsLive(q)
      /\ begun \in Nat /\ cutoff \in Nat /\ faults \in Nat
  BY <1>1, RequestAt DEF Skip, Place, IsLive
<1>3. PICK n : n = [q EXCEPT !.at = 0, !.pc = "end"]
  OBVIOUS
<1>4. req' = [req EXCEPT ![r] = n]
  BY <1>1, <1>2, <1>3 DEF Skip, Goto, Ended, Request
<1>5. /\ n \in Request /\ n.kind = "view" /\ n.loaded = q.loaded /\ n.mixed = q.mixed /\ n.alone = q.alone
      /\ n.stale = q.stale /\ n.run = q.run /\ n.at = 0 /\ n.agent = q.agent /\ n.pc = "end"
  BY <1>2, <1>3 DEF Request, Pc
<1>6. Place(n) /\ UpToDate(n) /\ Goes(q, n)
  BY <1>2, <1>5 DEF Place, UpToDate, Goes, Scorer, IsLive
<1>7. QED
  BY <1>1, <1>2, <1>4, <1>5, <1>6, OneGoes DEF Skip, faultVars

LEMMA ComputeStep ==
  ASSUME PipelineInv, NEW r \in Requests,
         \/ \E severity \in Severities \cup {None} : Triage(r, severity)
         \/ \E ok \in BOOLEAN : Vision(r, ok)
         \/ Enrich(r)
         \/ \E copy \in Copies(r), ok \in BOOLEAN : Collect(r, copy, ok)
  PROVE  PipelineInv'
<1>1. PICK q : q = req[r]
  OBVIOUS
<1>2. /\ q \in Request /\ Place(q) /\ UpToDate(q) /\ complaint \in Complaint
      /\ begun \in Nat /\ cutoff \in Nat /\ faults \in Nat
  BY <1>1, RequestAt DEF PipelineInv, Shapes
<1>3. PICK answer \in Severities \cup {None}, ok \in BOOLEAN :
        /\ Compute(r, answer, ok)
        /\ q.agent = "triage" => ok = (answer # None)
        /\ q.agent = "priority" /\ ok => answer = q.loaded.severity \/ answer = complaint.severity
  <2>1. ASSUME NEW severity \in Severities \cup {None}, Triage(r, severity)
        PROVE  \E ok \in BOOLEAN : Compute(r, severity, ok) /\ ok = (severity # None) /\ q.agent = "triage"
    BY <1>1, <2>1 DEF Triage
  <2>2. ASSUME NEW ok \in BOOLEAN, Vision(r, ok) PROVE Compute(r, None, ok) /\ q.agent = "vision"
    BY <1>1, <2>2 DEF Vision
  <2>3. ASSUME Enrich(r) PROVE Compute(r, None, TRUE) /\ q.agent = "context"
    BY <1>1, <2>3 DEF Enrich
  <2>4. ASSUME NEW copy \in Copies(r), NEW ok \in BOOLEAN, Collect(r, copy, ok)
        PROVE  \E answer \in Severities \cup {None} :
                 /\ Compute(r, answer, ok) /\ q.agent = "priority"
                 /\ ok => answer = q.loaded.severity \/ answer = complaint.severity
    <3>1. copy \in {q.loaded, complaint} /\ copy \in Complaint
      BY <1>1, <1>2, <2>4 DEF Copies, Request
    <3>2. copy.severity \in Severities
      BY <3>1 DEF Complaint
    <3>3. Compute(r, IF ok THEN copy.severity ELSE None, ok) /\ q.agent = "priority"
      BY <1>1, <2>4 DEF Collect
    <3>4. QED
      BY <3>1, <3>2, <3>3
  <2>5. QED
    BY <2>1, <2>2, <2>3, <2>4
<1>4. q.pc = "compute" /\ IsLive(q)
  BY <1>1, <1>3 DEF Compute, IsLive
<1>5. PICK n : n = [q EXCEPT !.answer = answer, !.ok = ok, !.pc = "persist"]
  OBVIOUS
<1>6. req' = [req EXCEPT ![r] = n]
  BY <1>1, <1>2, <1>3, <1>5 DEF Compute, Goto, Request
<1>7. /\ n \in Request /\ n.kind = q.kind /\ n.loaded = q.loaded /\ n.mixed = q.mixed /\ n.alone = q.alone
      /\ n.stale = q.stale /\ n.run = q.run /\ n.at = q.at /\ n.agent = q.agent /\ n.pc = "persist"
      /\ n.answer = answer /\ n.ok = ok
  BY <1>2, <1>5 DEF Request, Pc
<1>8. Place(n)
  BY <1>2, <1>3, <1>4, <1>7 DEF Place
<1>9. UpToDate(n)
  BY <1>2, <1>3, <1>4, <1>7 DEF UpToDate, Scorer, IsLive
<1>10. ~settled
  BY <1>1, <1>4 DEF PipelineInv, Rest, Live, IsLive
<1>11. Goes(q, n)
  BY <1>4, <1>7, <1>10 DEF Goes, IsLive, Tick
<1>12. QED
  BY <1>1, <1>2, <1>3, <1>4, <1>6, <1>7, <1>8, <1>9, <1>11, OneGoes DEF Compute, faultVars

LEMMA RaiseStep ==
  ASSUME PipelineInv, NEW r \in Requests, Raise(r)
  PROVE  PipelineInv'
<1>1. PICK q : q = req[r]
  OBVIOUS
<1>2. /\ q \in Request /\ Place(q) /\ UpToDate(q) /\ IsLive(q)
      /\ begun \in Nat /\ cutoff \in Nat /\ faults \in Nat
  BY <1>1, RequestAt DEF Raise, Live, IsLive
<1>0. /\ UNCHANGED <<complaint, runs, history, ended, sweeping, settled>> /\ begun' = begun
      /\ cutoff' \in Nat /\ faults' \in Nat /\ begun' \in Nat /\ begun' >= begun
  BY <1>2 DEF Raise
<1>3. CASE q.kind = "view" /\ q.agent = "context" /\ Working(r)
  <2>1. PICK n : n = [q EXCEPT !.pc = "priority"]
    OBVIOUS
  <2>2. req' = [req EXCEPT ![r] = n]
    BY <1>1, <1>3, <2>1 DEF Raise, Goto
  <2>3. /\ n \in Request /\ n.kind = "view" /\ n.loaded = q.loaded /\ n.mixed = q.mixed /\ n.alone = q.alone
        /\ n.stale = q.stale /\ n.run = q.run /\ n.at = q.at /\ n.agent = "context" /\ n.pc = "priority"
    BY <1>2, <1>3, <2>1 DEF Request, Pc
  <2>4. Place(n) /\ UpToDate(n) /\ Goes(q, n)
    BY <1>2, <1>3, <2>3 DEF Place, UpToDate, Goes, Scorer, IsLive
  <2>5. QED
    BY <1>0, <1>1, <1>2, <2>2, <2>3, <2>4, OneGoes
<1>4. CASE ~(q.kind = "view" /\ q.agent = "context" /\ Working(r))
  <2>1. req' = [req EXCEPT ![r] = Gone]
    BY <1>1, <1>4 DEF Raise, Leave
  <2>2. /\ Place(Gone) /\ Goes(q, Gone) /\ UpToDate(Gone) /\ Gone \in Request
    BY <1>0, <1>1, <1>2, StaysOrGoes
  <2>3. Gone.at = 0 /\ Gone.pc = "gone"
    BY DEF Gone, Idle
  <2>4. QED
    BY <1>0, <1>1, <1>2, <2>1, <2>2, <2>3, OneGoes
<1>5. QED
  BY <1>3, <1>4

-----------------------------------------------------------------------------
(* Steps of several requests, and the end of a view.                       *)

\* The requests are left as they are, or some are thrown out.
LEMMA ManyGo ==
  ASSUME PipelineInv, UNCHANGED <<complaint, runs, history, ended, begun, settled>>,
         cutoff' \in Nat, faults' \in Nat, sweeping' \in {{}, sweeping},
         NEW f \in [Requests -> Request], req' = f,
         \A p \in Requests : f[p] = req[p] \/ (IsLive(req[p]) /\ f[p] = Gone)
  PROVE  PipelineInv'
<1>1. begun' \in Nat /\ begun' >= begun
  BY DEF PipelineInv, Shapes
<1>2. ASSUME NEW p \in Requests
      PROVE  /\ Place(f[p]) /\ Goes(req[p], f[p]) /\ UpToDate(f[p])
             /\ f[p].at \in 0..begun' /\ \A i \in Rows : runs[i].started # f[p].at
             /\ f[p].at \in {0, req[p].at}
  BY <1>1, <1>2, StaysOrGoes
<1>3. ASSUME NEW p \in Requests, f[p].alone
      PROVE  /\ sweeping' = {} /\ f[p].at \in {0, begun'}
             /\ f[p].pc \in {"compute", "persist"} => begun' = begun
             /\ f[p].pc = "end" /\ LatestIs("priority", "SUCCEEDED") => ~PriorityStale
  <2>1. f[p] = req[p]
    BY <1>3 DEF Gone, Idle
  <2>2. QED
    BY <1>3, <2>1 DEF PipelineInv, Alone
<1>4. \A p, q \in Requests : f[p].at = f[q].at /\ p # q => f[p].at = 0
  BY <1>2 DEF PipelineInv, Ticks
<1>5. Going(f)
  BY <1>2, <1>3, <1>4 DEF Going
<1>6. sweeping' \subseteq Rows /\ settled' \in BOOLEAN /\ (settled => \A i \in sweeping' : runs[i].status # "SUCCEEDED")
  BY DEF PipelineInv, Shapes, Rest
<1>7. QED
  BY <1>1, <1>5, <1>6, QuietStep DEF PipelineInv

LEMMA CrashStep == ASSUME PipelineInv, Crash PROVE PipelineInv'
<1>1. [r \in Requests |-> IF r \in Live THEN Gone ELSE req[r]] \in [Requests -> Request]
  BY IdleIsRequest DEF PipelineInv, Shapes
<1>2. faults' \in Nat /\ cutoff' \in Nat
  BY DEF PipelineInv, Shapes, Crash
<1>3. PICK f : f = [r \in Requests |-> IF r \in Live THEN Gone ELSE req[r]]
  OBVIOUS
<1>4. \A p \in Requests : f[p] = req[p] \/ (IsLive(req[p]) /\ f[p] = Gone)
  BY <1>3 DEF Live, IsLive
<1>5. req' = f /\ sweeping' = {} /\ UNCHANGED <<complaint, runs, history, ended, begun, settled>>
  BY <1>3 DEF Crash
<1>6. QED
  BY <1>1, <1>2, <1>3, <1>4, <1>5, ManyGo

LEMMA AgeStep == ASSUME PipelineInv, NEW i, Age(i) PROVE PipelineInv'
<1>1. runs[i].started \in Nat
  BY RowsAre DEF PipelineInv, Shapes, Age, Rows, Row
<1>2. faults' \in Nat /\ cutoff' \in Nat
  BY <1>1 DEF PipelineInv, Shapes, Age
<1>3. PICK f : f = req
  OBVIOUS
<1>4. f \in [Requests -> Request] /\ req' = f /\ \A p \in Requests : f[p] = req[p]
  BY <1>3 DEF PipelineInv, Shapes, Age
<1>5. sweeping' = sweeping /\ UNCHANGED <<complaint, runs, history, ended, begun, settled>>
  BY DEF Age
<1>6. QED
  BY <1>2, <1>4, <1>5, ManyGo

\* A poll selects rows that are RUNNING.
LEMMA SweepReadStep == ASSUME PipelineInv, NEW agents, SweepRead(agents) PROVE PipelineInv'
<1>1. PICK f : f = [p \in Requests |-> [req[p] EXCEPT !.alone = FALSE]]
  OBVIOUS
<1>2. begun' \in Nat /\ begun' >= begun /\ begun' = begun
  BY DEF PipelineInv, Shapes, SweepRead
<1>3. ASSUME NEW p \in Requests
      PROVE  /\ f[p] \in Request /\ ~f[p].alone /\ Place(f[p]) /\ Goes(req[p], f[p]) /\ UpToDate(f[p])
             /\ f[p].at = req[p].at
             /\ f[p].at \in 0..begun' /\ \A i \in Rows : runs[i].started # f[p].at
  <2>1. PICK q : q = req[p]
    OBVIOUS
  <2>2. PICK n : n = [q EXCEPT !.alone = FALSE]
    OBVIOUS
  <2>3. f[p] = n
    BY <1>1, <2>1, <2>2
  <2>4. q \in Request /\ Place(q) /\ UpToDate(q)
    BY <2>1, RequestAt
  <2>5. /\ n \in Request /\ n.kind = q.kind /\ n.loaded = q.loaded /\ n.mixed = q.mixed /\ ~n.alone
        /\ n.stale = q.stale /\ n.run = q.run /\ n.at = q.at /\ n.agent = q.agent /\ n.pc = q.pc
        /\ n.answer = q.answer /\ n.ok = q.ok
    BY <2>2, <2>4 DEF Request
  <2>6. Place(n)
    BY <2>4, <2>5 DEF Place
  <2>7. UpToDate(n)
    BY <2>4, <2>5 DEF UpToDate, Scorer, IsLive
  <2>8. Goes(q, q)
    BY <1>2, <2>1, StaysOrGoes
  <2>9. Goes(q, n)
    BY <2>5, <2>8 DEF Goes, IsLive, Tick
  <2>10. n.at \in 0..begun' /\ \A i \in Rows : runs[i].started # n.at
    BY <1>2, <2>1, <2>5 DEF PipelineInv, Ticks
  <2>11. QED
    BY <2>1, <2>3, <2>5, <2>6, <2>7, <2>9, <2>10
<1>4. f \in [Requests -> Request] /\ req' = f
  BY <1>1, <1>3 DEF SweepRead
<1>5. \A p, q \in Requests : f[p].at = f[q].at /\ p # q => f[p].at = 0
  BY <1>3 DEF PipelineInv, Ticks
<1>6. Going(f)
  BY <1>3, <1>4, <1>5 DEF Going
<1>7. sweeping' \subseteq Rows /\ \A i \in sweeping' : runs[i].status # "SUCCEEDED"
  BY DEF SweepRead, Stale, Rows
<1>8. settled' = settled /\ settled' \in BOOLEAN /\ cutoff' \in Nat /\ faults' \in Nat
      /\ UNCHANGED <<complaint, runs, history, ended>>
  BY DEF PipelineInv, Shapes, SweepRead, faultVars
<1>9. QED
  BY <1>2, <1>6, <1>7, <1>8, QuietStep DEF PipelineInv

\* A view that met nobody leaves nothing to be done.
LEMMA FinishStep == ASSUME PipelineInv, NEW r \in Requests, Finish(r) PROVE PipelineInv'
<1>1. PICK f : f = [req EXCEPT ![r] = Gone]
  OBVIOUS
<1>2. begun' \in Nat /\ begun' >= begun /\ begun' = begun
  BY DEF PipelineInv, Shapes, Finish
<1>3. f \in [Requests -> Request] /\ req' = f /\ \A p \in Requests : f[p] = IF p = r THEN Gone ELSE req[p]
  BY <1>1, IdleIsRequest DEF PipelineInv, Shapes, Finish, Leave
<1>4. IsLive(req[r]) /\ req[r].pc = "end"
  BY DEF Finish, IsLive
<1>5. ASSUME NEW p \in Requests
      PROVE  /\ Place(f[p]) /\ Goes(req[p], f[p]) /\ UpToDate(f[p])
             /\ f[p].at \in 0..begun' /\ \A i \in Rows : runs[i].started # f[p].at
             /\ f[p].at \in {0, req[p].at}
  BY <1>2, <1>3, <1>4, <1>5, StaysOrGoes
<1>6. ASSUME NEW p \in Requests PROVE ~f[p].alone \/ f[p] = req[p]
  BY <1>3 DEF Gone, Idle
<1>7. ASSUME NEW p \in Requests, f[p].alone
      PROVE  /\ sweeping' = {} /\ f[p].at \in {0, begun'}
             /\ f[p].pc \in {"compute", "persist"} => begun' = begun
             /\ f[p].pc = "end" /\ LatestIs("priority", "SUCCEEDED") => ~PriorityStale
  BY <1>2, <1>6, <1>7 DEF PipelineInv, Alone, Finish
<1>8. \A p, q \in Requests : f[p].at = f[q].at /\ p # q => f[p].at = 0
  BY <1>5 DEF PipelineInv, Ticks
<1>9. Going(f)
  BY <1>3, <1>5, <1>7, <1>8 DEF Going
<1>10. sweeping' = sweeping /\ sweeping' \subseteq Rows /\ settled' \in BOOLEAN /\ cutoff' \in Nat /\ faults' \in Nat
       /\ UNCHANGED <<complaint, runs, history, ended>>
  BY DEF PipelineInv, Shapes, Finish, Settled, faultVars, LatestIs
<1>11. Shapes' /\ Ticks' /\ Places' /\ Owners' /\ StatusIsEarned' /\ Alone' /\ Met'
  BY <1>2, <1>9, <1>10, QuietStep
<1>12. Rest'
  <2>1. CASE settled' = settled
    BY <1>2, <1>9, <1>10, <2>1, QuietStep DEF PipelineInv, Rest
  <2>2. CASE settled' /\ ~settled
    <3>1. req[r].alone /\ LatestIs("context", "SUCCEEDED") /\ LatestIs("priority", "SUCCEEDED")
      BY <2>2 DEF Finish, Settled
    <3>2. sweeping = {} /\ (\A q \in Live : q = r) /\ ~PriorityStale
      BY <1>4, <3>1 DEF PipelineInv, Alone
    <3>3. Live' = {}
      BY <1>3, <3>2 DEF Live, Gone, Idle
    <3>4. LatestIs("context", "SUCCEEDED")' /\ LatestIs("priority", "SUCCEEDED")' /\ ~PriorityStale'
      BY <1>10, <3>1, <3>2, SameRows
    <3>5. QED
      BY <1>10, <3>2, <3>3, <3>4 DEF Rest
  <2>3. QED
    BY <2>1, <2>2 DEF PipelineInv, Shapes, Finish, Settled
<1>13. QED
  BY <1>11, <1>12 DEF PipelineInv

LEMMA NewRequest ==
  ASSUME NEW kind \in Kind, NEW pc \in Pc, NEW agent \in Agent, NEW at \in Nat, NEW loaded \in Complaint,
         NEW stale \in SUBSET Nat, NEW alone \in BOOLEAN, NEW mixed \in BOOLEAN
  PROVE  [kind |-> kind, pc |-> pc, agent |-> agent, at |-> at, loaded |-> loaded, run |-> 0,
          answer |-> None, ok |-> FALSE, stale |-> stale, alone |-> alone, mixed |-> mixed] \in Request
BY DEF Request

\* A request begins, and those under way know it.
LEMMA BeginStep ==
  ASSUME PipelineInv, NEW r \in Requests, NEW kind \in Kind, Begin(r, kind)
  PROVE  PipelineInv'
<1>1. /\ begun \in Nat /\ begun' = begun + 1 /\ settled' = (settled /\ kind = "view") /\ settled \in BOOLEAN
      /\ UNCHANGED <<complaint, runs, history, sweeping, ended, cutoff, faults>>
      /\ req[r].pc = "none" /\ complaint \in Complaint
  BY DEF PipelineInv, Shapes, Begin, faultVars
<1>2. PICK n : n = Loaded(r, kind)
  OBVIOUS
<1>3. PICK f : f = [q \in Requests |-> IF q = r THEN n ELSE IF q \in Live THEN Overlapped(req[q], kind) ELSE req[q]]
  OBVIOUS
<1>4. req' = f
  BY <1>2, <1>3 DEF Begin
<1>5. Stale(Agent) \subseteq Rows /\ Rows \subseteq Nat /\ \A i \in Stale(Agent) : runs[i].status = "RUNNING"
  BY RowsAre DEF PipelineInv, Stale, Rows
<1>6. /\ n.kind = kind /\ n.at = begun + 1 /\ n.loaded = complaint /\ n.run = 0 /\ n.ok = FALSE
      /\ n.agent = (IF kind = "view" THEN "context" ELSE kind)
      /\ n.pc \in (IF kind = "view" THEN {"context", "reap"} ELSE {"create"})
      /\ n.stale \subseteq Stale(Agent)
      /\ n.alone = (kind = "view" /\ Live = {} /\ sweeping = {})
      /\ n.mixed = (Scored(kind) /\ \E q \in Live : req[q].kind = "triage")
  BY <1>2 DEF Loaded, Idle
<1>7. n \in Request
  <2>1. n = [kind |-> kind, pc |-> n.pc, agent |-> n.agent, at |-> begun + 1, loaded |-> complaint, run |-> 0,
             answer |-> None, ok |-> FALSE, stale |-> n.stale, alone |-> n.alone, mixed |-> n.mixed]
    BY <1>2 DEF Loaded, Idle
  <2>2. n.alone \in BOOLEAN /\ n.mixed \in BOOLEAN
    BY <1>6
  <2>3. n.pc \in Pc /\ n.agent \in Agent
    BY <1>6 DEF Kind, Pc, Agent
  <2>4. n.stale \in SUBSET Nat
    BY <1>5, <1>6
  <2>5. begun + 1 \in Nat
    BY <1>1
  <2>6. QED
    BY <1>1, <2>1, <2>2, <2>3, <2>4, <2>5, NewRequest
<1>8. IsLive(n)
  BY <1>6 DEF IsLive
<1>9. ASSUME NEW p \in Requests, p # r
      PROVE  /\ f[p] \in Request /\ ~f[p].alone
             /\ f[p].kind = req[p].kind /\ f[p].pc = req[p].pc /\ f[p].agent = req[p].agent /\ f[p].at = req[p].at
             /\ f[p].loaded = req[p].loaded /\ f[p].run = req[p].run /\ f[p].answer = req[p].answer
             /\ f[p].ok = req[p].ok /\ f[p].stale = req[p].stale
             /\ req[p].mixed => f[p].mixed
             /\ IsLive(req[p]) /\ kind = "triage" /\ Scored(req[p].kind) => f[p].mixed
  <2>1. PICK q : q = req[p]
    OBVIOUS
  <2>2. q \in Request /\ Place(q)
    BY <2>1, RequestAt
  <2>3. CASE p \in Live
    <3>1. f[p] = [q EXCEPT !.alone = FALSE, !.mixed = q.mixed \/ (kind = "triage" /\ Scored(q.kind))]
      BY <1>3, <1>9, <2>1, <2>3 DEF Overlapped
    <3>2. QED
      BY <2>1, <2>2, <3>1 DEF Request
  <2>4. CASE p \notin Live
    <3>1. f[p] = q /\ ~IsLive(q)
      BY <1>3, <1>9, <2>1, <2>4 DEF Live, IsLive
    <3>2. QED
      BY <2>1, <2>2, <3>1 DEF Place, IsLive
  <2>5. QED
    BY <2>3, <2>4
<1>10. f[r] = n /\ f \in [Requests -> Request]
  BY <1>3, <1>7, <1>9
<1>11. Rows' = Rows
  BY <1>1, SameRows
<1>12. Shapes'
  BY <1>1, <1>4, <1>10, <1>11 DEF PipelineInv, Shapes
<1>13. Ticks'
  <2>1. \A p \in Requests : f[p].at \in 0..(begun + 1) /\ (p # r => f[p].at = req[p].at /\ f[p].at \in 0..begun)
    BY <1>1, <1>6, <1>9, <1>10 DEF PipelineInv, Ticks
  <2>2. \A i \in Rows : runs[i].started \in 1..begun
    BY DEF PipelineInv, Ticks
  <2>3. \A p \in Requests : \A i \in Rows : runs[i].started # f[p].at
    BY <1>1, <1>6, <1>9, <1>10, <2>2 DEF PipelineInv, Ticks
  <2>4. \A p, q \in Requests : f[p].at = f[q].at /\ p # q => f[p].at = 0
    <3> SUFFICES ASSUME NEW p \in Requests, NEW q \in Requests, f[p].at = f[q].at, p # q PROVE f[p].at = 0
      OBVIOUS
    <3>1. p # r /\ q # r
      BY <1>1, <1>6, <1>10, <2>1
    <3>2. QED
      BY <2>1, <3>1 DEF PipelineInv, Ticks
  <2>5. \A i \in Rows : runs[i].started \in 1..(begun + 1)
    BY <1>1, <2>2
  <2>6. QED
    BY <1>1, <1>4, <1>11, <2>1, <2>3, <2>4, <2>5 DEF PipelineInv, Ticks
<1>14. Places'
  <2>1. Place(n)
    BY <1>1, <1>5, <1>6, RowsAre DEF Place, PipelineInv, Kind, Agent
  <2>2. ASSUME NEW p \in Requests, p # r PROVE Place(f[p])
    <3>1. PICK m, q : m = f[p] /\ q = req[p]
      OBVIOUS
    <3>2. /\ ~m.alone /\ m.kind = q.kind /\ m.pc = q.pc /\ m.agent = q.agent /\ m.at = q.at
          /\ m.run = q.run /\ m.answer = q.answer /\ m.ok = q.ok /\ m.stale = q.stale
      BY <1>9, <2>2, <3>1
    <3>3. Place(q)
      BY <3>1, RequestAt
    <3>4. Place(m)
      BY <3>2, <3>3 DEF Place
    <3>5. QED
      BY <3>1, <3>4
  <2>3. \A p \in Requests : Place(f[p])
    BY <1>10, <2>1, <2>2
  <2>4. QED
    BY <1>1, <1>4, <1>11, <2>3 DEF Places, Place
<1>15. Owners'
  <2>1. n.pc \notin {"compute", "persist"}
    BY <1>6
  <2>2. QED
    BY <1>4, <1>9, <1>10, <2>1 DEF PipelineInv, Owners
<1>16. StatusIsEarned'
  BY <1>1, <1>11 DEF PipelineInv, StatusIsEarned
<1>17. Alone'
  <2> SUFFICES ASSUME NEW p \in Requests, f[p].alone
               PROVE  /\ f[p].kind = "view" /\ sweeping' = {} /\ \A q \in Live' : q = p
                      /\ f[p].at \in {0, begun'} /\ f[p].pc \notin {"compute", "persist", "end"}
    BY <1>4 DEF Alone
  <2>1. p = r
    BY <1>9
  <2>2. kind = "view" /\ Live = {} /\ sweeping = {}
    BY <1>6, <1>10, <2>1
  <2>3. \A q \in Live' : q = r
    BY <1>4, <1>9, <2>2 DEF Live
  <2>4. QED
    BY <1>1, <1>6, <1>10, <2>1, <2>2, <2>3
<1>18. Rest'
  <2> SUFFICES ASSUME settled, kind = "view"
               PROVE  /\ LatestIs("context", "SUCCEEDED")' /\ LatestIs("priority", "SUCCEEDED")' /\ ~PriorityStale'
                      /\ \A p \in Live' : f[p].pc \in {"reap", "context", "priority", "end"}
                      /\ \A i \in sweeping' \cup UNION {f[p].stale : p \in Live'} : runs'[i].status # "SUCCEEDED"
    BY <1>1, <1>4 DEF Rest
  <2>1. LatestIs("context", "SUCCEEDED")' /\ LatestIs("priority", "SUCCEEDED")' /\ ~PriorityStale'
    BY <1>1, SameRows DEF PipelineInv, Rest
  <2>2. \A p \in Live' : p = r \/ (p \in Live /\ p # r)
    BY <1>4, <1>9 DEF Live
  <2>3. \A p \in Live' : f[p].pc \in {"reap", "context", "priority", "end"}
    BY <1>6, <1>9, <1>10, <2>2 DEF PipelineInv, Rest, Live
  <2>4. ASSUME NEW p \in Live', NEW i \in f[p].stale PROVE runs[i].status # "SUCCEEDED"
    <3>1. CASE p = r
      BY <1>5, <1>6, <1>10, <2>4, <3>1
    <3>2. CASE p # r
      <4>1. p \in Live /\ p \in Requests /\ i \in req[p].stale
        BY <1>9, <2>2, <2>4, <3>2 DEF Live
      <4>2. QED
        BY <4>1 DEF PipelineInv, Rest
    <3>3. QED
      BY <3>1, <3>2
  <2>5. \A i \in sweeping' : runs'[i].status # "SUCCEEDED"
    BY <1>1 DEF PipelineInv, Rest
  <2>6. QED
    BY <1>1, <2>1, <2>3, <2>4, <2>5
<1>19. Met'
  <2>1. Witnessed'
    <3> SUFFICES ASSUME NEW p \in Requests, NEW t \in Requests, Scorer(f[p]), Triaging(f[t]) PROVE f[p].mixed
      BY <1>4 DEF Witnessed, Scorer, Triaging, IsLive
    <3>1. CASE p = r
      <4>1. t # r /\ t \in Live /\ req[t].kind = "triage" /\ Scored(kind)
        BY <1>6, <1>9, <1>10, <3>1 DEF Scorer, Triaging, Live, IsLive, Scored
      <4>2. QED
        BY <1>6, <1>10, <3>1, <4>1
    <3>2. CASE p # r /\ t = r
      BY <1>6, <1>9, <1>10, <3>2 DEF Scorer, Triaging, IsLive, Scored
    <3>3. CASE p # r /\ t # r
      <4>1. Scorer(req[p]) /\ Triaging(req[t])
        BY <1>9, <3>3 DEF Scorer, Triaging, IsLive
      <4>2. req[p].mixed
        BY <4>1 DEF PipelineInv, Met, Witnessed
      <4>3. QED
        BY <1>9, <3>3, <4>2
    <3>4. QED
      BY <3>1, <3>2, <3>3
  <2>2. ASSUME NEW p \in Requests PROVE UpToDate(f[p])
    <3>1. CASE p = r
      BY <1>6, <1>10, <3>1 DEF UpToDate
    <3>2. CASE p # r
      BY <1>9, <3>2, RequestAt DEF UpToDate, Scorer, IsLive
    <3>3. QED
      BY <3>1, <3>2
  <2>3. \A p \in Requests : UpToDate(req[p])'
    BY <1>1, <1>4, <2>2 DEF UpToDate, Scorer, IsLive
  <2>4. Later'
    <3> SUFFICES ASSUME NEW t \in Requests, NEW i \in Rows, Triaging(f[t]), Pure(runs[i])
                 PROVE  NewerFrom(runs[i].ended, Tick(f[t]))
      BY <1>1, <1>4, <1>11 DEF Later, Triaging, IsLive, Pure, NewerFrom, Tick
    <3>1. CASE t = r
      <4>1. Tick(f[t]) = begun + 1
        BY <1>6, <1>10, <3>1 DEF Tick, Triaging
      <4>2. \A k \in Rows : runs[k].started \in 1..begun
        BY DEF PipelineInv, Ticks
      <4>3. QED
        BY <1>1, <4>1, <4>2 DEF NewerFrom
    <3>2. CASE t # r
      <4>1. Triaging(req[t]) /\ Tick(f[t]) = Tick(req[t])
        BY <1>9, <3>2 DEF Triaging, IsLive, Tick
      <4>2. QED
        BY <4>1 DEF PipelineInv, Met, Later
    <3>3. QED
      BY <3>1, <3>2
  <2>5. Reflected'
    BY <1>1, <1>11 DEF PipelineInv, Met, Reflected, Pure, NewerFrom
  <2>6. QED
    BY <2>1, <2>3, <2>4, <2>5 DEF Met
<1>20. QED
  BY <1>12, <1>13, <1>14, <1>15, <1>16, <1>17, <1>18, <1>19 DEF PipelineInv

-----------------------------------------------------------------------------
(* A sweep fails the rows it has in hand.                                  *)

\* Triages that were to end after a score still are.
LEMMA NewerStays ==
  ASSUME Shapes, Ticks, NEW now \in 0..ended, NEW tick, NewerFrom(now, tick),
         Rows \subseteq Rows',
         \A k \in Rows : /\ runs'[k].agent = runs[k].agent /\ runs'[k].started = runs[k].started
                         /\ runs'[k].ended \in {runs[k].ended, ended + 1},
         \A k \in Rows' \ Rows : runs'[k].ended = 0
  PROVE  NewerFrom(now, tick)'
<1> SUFFICES ASSUME NEW k \in Rows', runs'[k].agent = "triage", runs'[k].started >= tick
             PROVE  runs'[k].ended = 0 \/ runs'[k].ended > now
  BY DEF NewerFrom
<1>1. CASE k \in Rows
  <2>1. runs[k].ended = 0 \/ runs[k].ended > now
    BY <1>1 DEF NewerFrom
  <2>2. ended \in Nat
    BY DEF Shapes
  <2>3. QED
    BY <1>1, <2>1, <2>2
<1>2. CASE k \notin Rows
  BY <1>2
<1>3. QED
  BY <1>1, <1>2

LEMMA ReapStep ==
  ASSUME PipelineInv, NEW rows \in SUBSET Rows, Reap(rows), ended' = ended + 1,
         UNCHANGED <<complaint, history, begun, cutoff, faults, settled>>, sweeping' \in {{}, sweeping},
         settled => \A i \in rows : runs[i].status # "SUCCEEDED",
         NEW f \in [Requests -> Request], req' = f,
         \A p \in Requests :
           \/ f[p] = req[p]
           \/ /\ IsLive(req[p]) /\ Place(f[p]) /\ UpToDate(f[p]) /\ f[p].pc = "context"
              /\ f[p].kind = req[p].kind /\ f[p].mixed = req[p].mixed /\ f[p].alone = req[p].alone
              /\ f[p].stale = {} /\ f[p].at = 0,
         \A p \in Requests : f[p].alone => f[p].pc = "context" /\ sweeping = {}
  PROVE  PipelineInv'
<1>1. /\ Rows = 1..Len(runs) /\ Len(runs) \in Nat /\ ended \in Nat /\ begun \in Nat
      /\ \A i \in Rows : runs[i] \in Row
  BY RowsAre DEF PipelineInv, Shapes
<1>2. runs' = [i \in Rows |-> IF i \in rows THEN Reaped(runs[i], ended + 1) ELSE runs[i]]
  BY DEF Reap, Rows
<1>3. ASSUME NEW i \in Rows
      PROVE  /\ runs'[i] \in Row /\ runs'[i].agent = runs[i].agent /\ runs'[i].started = runs[i].started
             /\ runs'[i].result = runs[i].result /\ runs'[i].severity = runs[i].severity /\ runs'[i].mixed = runs[i].mixed
             /\ runs'[i].ended \in {runs[i].ended, ended + 1}
             /\ \/ i \in rows /\ runs'[i].status = "FAILED" /\ runs'[i].ended = ended + 1
                \/ i \notin rows /\ runs'[i] = runs[i]
  <2>1. PICK row : row = runs[i]
    OBVIOUS
  <2>2. row \in Row
    BY <1>1, <2>1
  <2>3. CASE i \in rows
    <3>1. runs'[i] = [row EXCEPT !.status = "FAILED", !.ended = ended + 1]
      BY <1>2, <2>1, <2>3 DEF Reaped
    <3>2. ended + 1 \in Nat
      BY <1>1
    <3>3. /\ runs'[i] \in Row /\ runs'[i].agent = row.agent /\ runs'[i].started = row.started
          /\ runs'[i].result = row.result /\ runs'[i].severity = row.severity /\ runs'[i].mixed = row.mixed
          /\ runs'[i].status = "FAILED" /\ runs'[i].ended = ended + 1
      BY <2>2, <3>1, <3>2 DEF Row
    <3>4. QED
      BY <2>1, <2>3, <3>3
  <2>4. CASE i \notin rows
    BY <1>2, <2>1, <2>2, <2>4
  <2>5. QED
    BY <2>3, <2>4
<1>4. Rows' = Rows /\ runs' \in Seq(Row) /\ Len(runs)' = Len(runs)
  BY <1>1, <1>2, <1>3 DEF Rows
<1>5. \A i, agent : IsLatest(i, agent)' <=> IsLatest(i, agent)
  BY <1>3, <1>4 DEF IsLatest, Rows
<1>7. Shapes'
  <2>1. ended' \in Nat
    BY <1>1
  <2>3. sweeping' \subseteq Rows
    BY DEF PipelineInv, Shapes
  <2>2. QED
    BY <1>4, <2>1, <2>3 DEF PipelineInv, Shapes
<1>8. Ticks'
  <2>1. \A i \in Rows : /\ runs'[i].started \in 1..begun /\ runs'[i].ended \in 0..(ended + 1)
                        /\ runs'[i].status # "RUNNING" => runs'[i].ended # 0
    BY <1>1, <1>3 DEF PipelineInv, Ticks
  <2>2. \A i, j \in Rows : runs'[i].started = runs'[j].started => i = j
    BY <1>3 DEF PipelineInv, Ticks
  <2>3. \A p \in Requests : f[p].at \in {0, req[p].at}
    OBVIOUS
  <2>4. \A p \in Requests : f[p].at \in 0..begun /\ \A i \in Rows : runs'[i].started # f[p].at
    <3>1. \A i \in Rows : runs'[i].started # 0
      BY <2>1, <1>1
    <3>2. QED
      BY <1>1, <1>3, <2>3, <3>1 DEF PipelineInv, Ticks
  <2>5. \A p, q \in Requests : f[p].at = f[q].at /\ p # q => f[p].at = 0
    BY <2>3 DEF PipelineInv, Ticks
  <2>6. QED
    BY <1>4, <2>1, <2>2, <2>4, <2>5 DEF Ticks
<1>9. Places'
  <2>1. ASSUME NEW p \in Requests PROVE Place(req[p])'
    <3>1. PICK q : q = f[p]
      OBVIOUS
    <3>2. Place(q)
      BY <3>1 DEF PipelineInv, Places
    <3>3. Place(q)'
      BY <1>1, <1>3, <1>4, <3>2, PlaceStays
    <3>4. QED
      BY <3>1, <3>3 DEF Place
  <2>2. QED
    BY <2>1 DEF Places
<1>10. Owners'
  BY DEF PipelineInv, Owners
<1>11. StatusIsEarned'
  BY <1>3, <1>4 DEF PipelineInv, StatusIsEarned, Rows
<1>12. Live' \subseteq Live
  BY DEF Live, IsLive
<1>13. Alone'
  <2> SUFFICES ASSUME NEW p \in Requests, f[p].alone
               PROVE  /\ f[p].kind = "view" /\ sweeping' = {} /\ (\A q \in Live' : q = p) /\ f[p].at \in {0, begun}
                      /\ f[p].pc \notin {"compute", "persist", "end"}
    BY DEF Alone
  <2>1. req[p].alone /\ f[p].kind = req[p].kind /\ f[p].at \in {0, req[p].at}
    OBVIOUS
  <2>2. QED
    BY <1>12, <2>1 DEF PipelineInv, Alone
<1>14. Rest'
  <2> SUFFICES ASSUME settled
               PROVE  /\ LatestIs("context", "SUCCEEDED")' /\ LatestIs("priority", "SUCCEEDED")' /\ ~PriorityStale'
                      /\ \A p \in Live' : f[p].pc \in {"reap", "context", "priority", "end"}
                      /\ \A i \in sweeping' \cup UNION {f[p].stale : p \in Live'} : runs'[i].status # "SUCCEEDED"
    BY DEF Rest
  <2>1. \A i \in Rows : runs[i].status = "SUCCEEDED" <=> runs'[i].status = "SUCCEEDED"
    BY <1>3
  <2>2. \A i \in Rows : runs[i].status = "SUCCEEDED" => runs'[i] = runs[i]
    BY <1>3
  <2>3. PICK c : IsLatest(c, "context") /\ runs[c].status = "SUCCEEDED"
    BY DEF PipelineInv, Rest, LatestIs
  <2>4. PICK s : IsLatest(s, "priority") /\ runs[s].status = "SUCCEEDED"
    BY DEF PipelineInv, Rest, LatestIs
  <2>12. c \in Rows /\ s \in Rows
    BY <2>3, <2>4 DEF IsLatest, Rows
  <2>5. c \in Rows /\ s \in Rows /\ runs'[c] = runs[c] /\ runs'[s] = runs[s]
    BY <2>2, <2>3, <2>4, <2>12
  <2>6. LatestIs("context", "SUCCEEDED")' /\ LatestIs("priority", "SUCCEEDED")'
    <3>1. IsLatest(c, "context")' /\ IsLatest(s, "priority")'
      BY <1>5, <2>3, <2>4
    <3>2. c \in DOMAIN runs' /\ s \in DOMAIN runs' /\ runs'[c].status = "SUCCEEDED" /\ runs'[s].status = "SUCCEEDED"
      BY <1>4, <2>3, <2>4, <2>5 DEF Rows
    <3>3. QED
      BY <3>1, <3>2 DEF LatestIs
  <2>7. ~PriorityStale'
    <3>1. ~NoRun("priority")'
      BY <1>4, <2>4, <2>5 DEF NoRun, IsLatest, Rows
    <3>2. \A i : IsLatest(i, "priority")' => i = s
      BY <1>5, <2>4, LatestIsOne DEF PipelineInv
    <3>3. ~LatestIs("priority", "FAILED")'
      BY <2>4, <2>5, <3>2 DEF LatestIs
    <3>4. ~Outdated(s)
      BY <2>4, <2>5 DEF PipelineInv, Rest, PriorityStale, Rows
    <3>5. ~Outdated(s)'
      <4> SUFFICES ASSUME runs'[s].ended # 0, NEW up \in Upstream, NEW i \in Rows, IsLatest(i, up)',
                          runs'[i].status = "SUCCEEDED", runs'[i].ended > runs'[s].ended
                   PROVE  FALSE
        BY <1>4 DEF Outdated, Rows
      <4>1. runs'[i] = runs[i] /\ IsLatest(i, up)
        BY <1>5, <2>1, <2>2
      <4>2. QED
        BY <2>5, <3>4, <4>1 DEF Outdated, Rows
    <3>6. QED
      BY <3>1, <3>2, <3>3, <3>5 DEF PriorityStale
  <2>8. \A p \in Live' : p \in Live /\ p \in Requests
    BY <1>12 DEF Live
  <2>9. \A p \in Live' : f[p].pc \in {"reap", "context", "priority", "end"}
    BY <2>8 DEF PipelineInv, Rest
  <2>10. ASSUME NEW i \in sweeping' \cup UNION {f[p].stale : p \in Live'} PROVE runs'[i].status # "SUCCEEDED"
    <3>1. i \in sweeping \cup UNION {req[p].stale : p \in Live}
      BY <2>8, <2>10
    <3>2. runs[i].status # "SUCCEEDED"
      BY <3>1 DEF PipelineInv, Rest
    <3>3. i \in Rows
      <4>1. sweeping \subseteq Rows
        BY DEF PipelineInv, Shapes
      <4>2. \A p \in Live : req[p].stale \subseteq Rows
        BY DEF PipelineInv, Places, Place, Live
      <4>3. QED
        BY <3>1, <4>1, <4>2
    <3>4. QED
      BY <2>1, <3>2, <3>3
  <2>11. QED
    BY <2>6, <2>7, <2>9, <2>10
<1>15. Met'
  <2>1. \A p \in Requests : IsLive(f[p]) => /\ IsLive(req[p]) /\ f[p].kind = req[p].kind /\ f[p].mixed = req[p].mixed
    BY DEF IsLive
  <2>2. Witnessed'
    BY <2>1 DEF PipelineInv, Met, Witnessed, Scorer, Triaging, IsLive
  <2>3. ASSUME NEW p \in Requests PROVE UpToDate(req[p])'
    <3>1. UpToDate(f[p])
      BY DEF PipelineInv, Met
    <3>2. QED
      BY <3>1 DEF UpToDate, Scorer, IsLive
  <2>4. ASSUME NEW i \in Rows, Pure(runs'[i])
        PROVE  runs'[i] = runs[i] /\ Pure(runs[i]) /\ runs[i].ended \in 0..ended
    <3>1. runs'[i] = runs[i]
      BY <1>3, <2>4 DEF Pure
    <3>2. QED
      BY <2>4, <3>1 DEF PipelineInv, Ticks
  <2>5. Later'
    <3> SUFFICES ASSUME NEW t \in Requests, NEW i \in Rows, Triaging(f[t]), Pure(runs'[i])
                 PROVE  NewerFrom(runs[i].ended, Tick(req[t]))'
      BY <1>4 DEF Later, Triaging, IsLive, Pure
    <3>1. PICK now, tick : now = runs[i].ended /\ tick = Tick(req[t])
      OBVIOUS
    <3>2. f[t] = req[t]
      BY <2>1 DEF Triaging, Place, IsLive
    <3>3. NewerFrom(now, tick) /\ now \in 0..ended
      BY <2>4, <3>1, <3>2 DEF PipelineInv, Met, Later
    <3>4. NewerFrom(now, tick)'
      BY <1>3, <1>4, <3>3, NewerStays DEF PipelineInv
    <3>5. Tick(req[t])' = tick
      <4>1. req[t].pc # "create" => req[t].run \in Rows
        <5>1. PICK q : q = req[t]
          OBVIOUS
        <5>2. q \in Request /\ Place(q) /\ Triaging(q)
          BY <3>2, <5>1, RequestAt
        <5>3. q.pc # "create" => q.run \in Rows
          BY <5>2 DEF Place, Triaging, IsLive, Request, Pc
        <5>4. QED
          BY <5>1, <5>3
      <4>2. QED
        BY <1>3, <3>1, <3>2, <4>1 DEF Tick
    <3>6. runs'[i].ended = now
      BY <2>4, <3>1
    <3>7. QED
      BY <3>4, <3>5, <3>6 DEF NewerFrom
  <2>6. Reflected'
    <3> SUFFICES ASSUME NEW i \in Rows, Pure(runs'[i])
                 PROVE  \/ runs'[i].severity = complaint.severity
                        \/ \E j \in Rows : runs'[j].agent = "triage" /\ NewerFrom(runs[i].ended, runs[j].started)'
      BY <1>4 DEF Reflected, Pure
    <3>1. Pure(runs[i]) /\ runs'[i] = runs[i] /\ runs[i].ended \in 0..ended
      BY <2>4
    <3>2. CASE runs[i].severity = complaint.severity
      BY <3>1, <3>2
    <3>3. ASSUME NEW j \in Rows, runs[j].agent = "triage", NewerFrom(runs[i].ended, runs[j].started)
          PROVE  runs'[j].agent = "triage" /\ NewerFrom(runs[i].ended, runs[j].started)'
      <4>1. PICK now, tick : now = runs[i].ended /\ tick = runs[j].started
        OBVIOUS
      <4>2. NewerFrom(now, tick)'
        BY <1>3, <1>4, <3>1, <3>3, <4>1, NewerStays DEF PipelineInv
      <4>3. runs'[i].ended = now /\ runs'[j].started = tick /\ runs'[j].agent = "triage"
        BY <1>3, <3>1, <3>3, <4>1
      <4>4. QED
        BY <4>2, <4>3 DEF NewerFrom
    <3>4. QED
      BY <3>1, <3>2, <3>3 DEF PipelineInv, Met, Reflected
  <2>7. QED
    BY <2>2, <2>3, <2>5, <2>6 DEF Met
<1>16. QED
  BY <1>7, <1>8, <1>9, <1>10, <1>11, <1>13, <1>14, <1>15 DEF PipelineInv

LEMMA SweepWriteStep == ASSUME PipelineInv, SweepWrite PROVE PipelineInv'
<1>1. PICK f : f = req
  OBVIOUS
<1>2. f \in [Requests -> Request] /\ req' = f /\ \A p \in Requests : f[p] = req[p]
  BY <1>1 DEF PipelineInv, Shapes, SweepWrite
<1>3. \A p \in Requests : ~f[p].alone
  BY <1>1 DEF PipelineInv, Alone, SweepWrite
<1>4. sweeping \in SUBSET Rows /\ (settled => \A i \in sweeping : runs[i].status # "SUCCEEDED")
  BY DEF PipelineInv, Shapes, Rest
<1>5. Reap(sweeping) /\ ended' = ended + 1 /\ sweeping' = {}
      /\ UNCHANGED <<complaint, history, begun, cutoff, faults, settled>>
  BY DEF SweepWrite, faultVars
<1>6. QED
  BY <1>2, <1>3, <1>4, <1>5, ReapStep

LEMMA ReapWriteStep == ASSUME PipelineInv, NEW r \in Requests, ReapWrite(r) PROVE PipelineInv'
<1>1. PICK q : q = req[r]
  OBVIOUS
<1>2. q \in Request /\ Place(q) /\ UpToDate(q) /\ q.pc = "reap" /\ q.kind = "view" /\ IsLive(q)
  BY <1>1, RequestAt DEF ReapWrite, Place, IsLive
<1>3. PICK n : n = [q EXCEPT !.at = 0, !.stale = {}, !.pc = "context"]
  OBVIOUS
<1>4. PICK f : f = [req EXCEPT ![r] = n]
  OBVIOUS
<1>5. req' = f
  BY <1>1, <1>2, <1>3, <1>4 DEF ReapWrite, Goto, Request
<1>6. /\ n \in Request /\ n.kind = "view" /\ n.loaded = q.loaded /\ n.mixed = q.mixed /\ n.alone = q.alone
      /\ n.stale = {} /\ n.run = q.run /\ n.at = 0 /\ n.agent = q.agent /\ n.pc = "context"
  BY <1>2, <1>3 DEF Request, Pc
<1>7. Place(n) /\ UpToDate(n)
  BY <1>2, <1>6 DEF Place, UpToDate, Scorer, IsLive
<1>8. f \in [Requests -> Request] /\ f[r] = n /\ \A p \in Requests \ {r} : f[p] = req[p]
  BY <1>4, <1>6 DEF PipelineInv, Shapes
<1>9. ASSUME NEW p \in Requests, f[p].alone PROVE f[p].pc = "context" /\ sweeping = {}
  <2>1. req[p].alone
    BY <1>1, <1>6, <1>8, <1>9
  <2>2. p = r /\ sweeping = {}
    BY <1>1, <1>2, <2>1 DEF PipelineInv, Alone, Live, IsLive
  <2>3. QED
    BY <1>6, <1>8, <2>2
<1>10. q.stale \in SUBSET Rows /\ (settled => \A i \in q.stale : runs[i].status # "SUCCEEDED")
  BY <1>1, <1>2 DEF PipelineInv, Rest, Place, Live, IsLive
<1>11. Reap(q.stale) /\ ended' = ended + 1 /\ sweeping' = sweeping
       /\ UNCHANGED <<complaint, history, begun, cutoff, faults, settled>>
  BY <1>1 DEF ReapWrite, faultVars
<1>12. QED
  BY <1>1, <1>2, <1>5, <1>6, <1>7, <1>8, <1>9, <1>10, <1>11, ReapStep

-----------------------------------------------------------------------------
(* A run is created and its outcome written.                               *)

\* What is known of a score is still true after such a step.
LEMMA ScoreStays ==
  ASSUME PipelineInv, complaint' = complaint, Rows \subseteq Rows',
         \A k \in Rows : /\ runs'[k].agent = runs[k].agent /\ runs'[k].started = runs[k].started
                         /\ runs'[k].ended \in {runs[k].ended, ended + 1},
         \A k \in Rows' \ Rows : runs'[k].ended = 0,
         \A t \in Requests : Triaging(req'[t]) => Triaging(req[t]) /\ Tick(req[t])' = Tick(req[t]),
         NEW i \in Rows, Pure(runs[i]), runs'[i] = runs[i]
  PROVE  /\ \A t \in Requests : Triaging(req'[t]) => NewerFrom(runs[i].ended, Tick(req[t]))'
         /\ \/ runs'[i].severity = complaint'.severity
            \/ \E j \in Rows' : runs'[j].agent = "triage" /\ NewerFrom(runs[i].ended, runs[j].started)'
<1>1. PICK now : now = runs[i].ended
  OBVIOUS
<1>2. now \in 0..ended /\ runs'[i].ended = now
  BY <1>1 DEF PipelineInv, Ticks
<1>3. ASSUME NEW tick, NewerFrom(now, tick) PROVE NewerFrom(now, tick)'
  BY <1>2, <1>3, NewerStays DEF PipelineInv
<1>4. ASSUME NEW t \in Requests, Triaging(req'[t]) PROVE NewerFrom(runs[i].ended, Tick(req[t]))'
  <2>1. PICK tick : tick = Tick(req[t])
    OBVIOUS
  <2>2. NewerFrom(now, tick) /\ Tick(req[t])' = tick
    BY <1>1, <1>4, <2>1 DEF PipelineInv, Met, Later
  <2>3. NewerFrom(now, tick)'
    BY <1>3, <2>2
  <2>4. QED
    BY <1>2, <2>2, <2>3 DEF NewerFrom
<1>5. ASSUME NEW j \in Rows, runs[j].agent = "triage", NewerFrom(runs[i].ended, runs[j].started)
      PROVE  j \in Rows' /\ runs'[j].agent = "triage" /\ NewerFrom(runs[i].ended, runs[j].started)'
  <2>1. PICK tick : tick = runs[j].started
    OBVIOUS
  <2>2. NewerFrom(now, tick)'
    BY <1>1, <1>3, <1>5, <2>1
  <2>3. QED
    BY <1>2, <1>5, <2>1, <2>2 DEF NewerFrom
<1>6. runs[i].severity = complaint.severity \/ \E j \in Rows : runs[j].agent = "triage" /\ NewerFrom(runs[i].ended, runs[j].started)
  BY DEF PipelineInv, Met, Reflected
<1>7. QED
  BY <1>4, <1>5, <1>6

LEMMA CreateStep ==
  ASSUME PipelineInv, NEW r \in Requests, Create(r)
  PROVE  PipelineInv'
<1>1. PICK q : q = req[r]
  OBVIOUS
<1>2. PICK new : new = Len(runs) + 1
  OBVIOUS
<1>3. /\ q \in Request /\ Place(q) /\ UpToDate(q) /\ q.pc = "create" /\ IsLive(q)
      /\ begun \in Nat /\ ended \in Nat /\ q.at \in 1..begun
  <2>1. q \in Request /\ Place(q) /\ UpToDate(q) /\ q.pc = "create" /\ begun \in Nat /\ ended \in Nat
    BY <1>1, RequestAt DEF Create
  <2>2. q.at \in 0..begun /\ q.at # 0
    BY <1>1, <2>1 DEF Place, PipelineInv, Ticks
  <2>3. QED
    BY <2>1, <2>2 DEF IsLive
<1>4. /\ Rows = 1..Len(runs) /\ Len(runs) \in Nat /\ \A i \in Rows : runs[i] \in Row
  BY RowsAre DEF PipelineInv
<1>5. PICK row : row = NewRow(q)
  OBVIOUS
<1>6. /\ row \in Row /\ row.agent = q.agent /\ row.status = "RUNNING" /\ row.started = q.at /\ row.ended = 0
      /\ ~row.result /\ row.severity = None
  BY <1>3, <1>5 DEF NewRow, Row, Request
<1>7. runs' = Append(runs, row)
  BY <1>1, <1>5 DEF Create
<1>8. /\ Rows' = Rows \cup {new} /\ new \notin Rows /\ Len(runs)' = new /\ new \in Nat
      /\ runs' \in Seq(Row) /\ runs'[new] = row /\ \A i \in Rows : runs'[i] = runs[i]
  <2>1. runs \in Seq(Row)
    BY DEF PipelineInv, Shapes
  <2>2. QED
    BY <1>2, <1>4, <1>6, <1>7, <2>1 DEF Rows
<1>9. PICK n : n = [q EXCEPT !.at = 0, !.run = new, !.pc = "compute"]
  OBVIOUS
<1>10. req' = [req EXCEPT ![r] = n]
  BY <1>1, <1>2, <1>3, <1>9 DEF Create, Goto, Request
<1>11. /\ n \in Request /\ n.kind = q.kind /\ n.loaded = q.loaded /\ n.mixed = q.mixed /\ n.alone = q.alone
       /\ n.stale = q.stale /\ n.run = new /\ n.at = 0 /\ n.agent = q.agent /\ n.pc = "compute"
  BY <1>3, <1>8, <1>9 DEF Request, Pc
<1>12. PICK f : f = req'
  OBVIOUS
<1>13. /\ f \in [Requests -> Request] /\ f[r] = n /\ \A p \in Requests : p # r => f[p] = req[p]
  BY <1>10, <1>11, <1>12 DEF PipelineInv, Shapes
<1>14. UNCHANGED <<complaint, history, sweeping, begun, ended, cutoff, faults, settled>>
  BY DEF Create, faultVars
<1>15. r \in Live /\ ~settled
  BY <1>1, <1>3 DEF PipelineInv, Rest, Live
<1>16. Shapes'
  BY <1>8, <1>12, <1>13, <1>14 DEF PipelineInv, Shapes
<1>17. Ticks'
  <2>1. /\ \A i \in Rows : runs[i].started # q.at
        /\ \A p \in Requests : p # r => req[p].at # q.at
    BY <1>1, <1>3 DEF PipelineInv, Ticks
  <2>2. \A i \in Rows' : /\ runs'[i].started \in 1..begun /\ runs'[i].ended \in 0..ended
                         /\ runs'[i].status # "RUNNING" => runs'[i].ended # 0
    BY <1>3, <1>6, <1>8 DEF PipelineInv, Ticks
  <2>3. \A i, j \in Rows' : runs'[i].started = runs'[j].started => i = j
    BY <1>6, <1>8, <2>1 DEF PipelineInv, Ticks
  <2>4. \A p \in Requests : f[p].at \in 0..begun /\ (p # r => f[p].at = req[p].at)
    BY <1>3, <1>11, <1>13 DEF PipelineInv, Ticks
  <2>5. ASSUME NEW p \in Requests, NEW i \in Rows' PROVE runs'[i].started # f[p].at
    <3>1. CASE p = r
      BY <1>3, <1>11, <1>13, <2>2, <3>1
    <3>2. CASE p # r
      BY <1>6, <1>8, <2>1, <2>4, <3>2 DEF PipelineInv, Ticks
    <3>3. QED
      BY <3>1, <3>2
  <2>6. \A p, t \in Requests : f[p].at = f[t].at /\ p # t => f[p].at = 0
    BY <1>11, <1>13 DEF PipelineInv, Ticks
  <2>7. QED
    BY <1>12, <1>14, <2>2, <2>3, <2>4, <2>5, <2>6 DEF Ticks
<1>18. Places'
  <2>1. ASSUME NEW p \in Requests PROVE Place(req[p])'
    <3>1. CASE p = r
      <4>1. /\ n.run \in Rows' /\ runs'[n.run].agent = n.agent /\ ~runs'[n.run].result /\ runs'[n.run].severity = None
            /\ n.run \in 0..Len(runs)' /\ n.stale \subseteq Rows'
        BY <1>3, <1>6, <1>8, <1>11 DEF Place
      <4>2. n.agent \in IF n.kind = "view" THEN {"context", "priority"} ELSE {n.kind}
        BY <1>3, <1>11 DEF Place
      <4>3. QED
        BY <1>11, <1>12, <1>13, <3>1, <4>1, <4>2 DEF Place
    <3>2. CASE p # r
      <4>1. PICK m : m = req[p]
        OBVIOUS
      <4>2. Place(m)
        BY <4>1, RequestAt
      <4>3. Place(m)'
        BY <1>2, <1>4, <1>8, <4>2, PlaceStays
      <4>4. req'[p] = m
        BY <1>12, <1>13, <3>2, <4>1
      <4>5. QED
        BY <4>3, <4>4 DEF Place
    <3>3. QED
      BY <3>1, <3>2
  <2>2. QED
    BY <2>1 DEF Places
<1>19. Owners'
  <2>1. ASSUME NEW p \in Requests, p # r, f[p].pc \in {"compute", "persist"} PROVE f[p].run # new
    <3>1. Place(req[p]) /\ f[p] = req[p]
      BY <1>13, <2>1, RequestAt
    <3>2. QED
      BY <1>8, <2>1, <3>1 DEF Place
  <2>2. QED
    BY <1>11, <1>12, <1>13, <2>1 DEF PipelineInv, Owners
<1>20. StatusIsEarned'
  BY <1>8, <1>14 DEF PipelineInv, StatusIsEarned, Rows
<1>21. Alone'
  <2> SUFFICES ASSUME NEW p \in Requests, f[p].alone
               PROVE  /\ f[p].kind = "view" /\ sweeping' = {} /\ (\A t \in Live' : t = p) /\ f[p].at \in {0, begun}
                      /\ runs'[f[p].run].started = begun /\ f[p].pc # "end"
    BY <1>12, <1>14 DEF Alone
  <2>1. req[p].alone
    BY <1>1, <1>11, <1>13
  <2>2. p = r
    BY <1>15, <2>1 DEF PipelineInv, Alone
  <2>3. q.kind = "view" /\ sweeping = {} /\ (\A t \in Live : t = r) /\ q.at = begun
    BY <1>1, <1>3, <2>1, <2>2 DEF PipelineInv, Alone
  <2>4. \A t \in Live' : t = r
    BY <1>12, <1>13, <2>3 DEF Live
  <2>5. QED
    BY <1>6, <1>8, <1>11, <1>13, <1>14, <2>2, <2>3, <2>4
<1>22. Rest'
  BY <1>14, <1>15 DEF Rest
<1>23. Met'
  <2>1. \A p \in Requests : /\ IsLive(f[p]) <=> IsLive(req[p])
                            /\ f[p].kind = req[p].kind /\ f[p].mixed = req[p].mixed
    BY <1>1, <1>3, <1>11, <1>13 DEF IsLive
  <2>2. Witnessed'
    BY <1>12, <2>1 DEF PipelineInv, Met, Witnessed, Scorer, Triaging, IsLive
  <2>3. ASSUME NEW p \in Requests PROVE UpToDate(req[p])'
    <3>1. UpToDate(f[p])
      <4>1. CASE p = r
        BY <1>3, <1>11, <1>13, <4>1 DEF UpToDate, Scorer, IsLive
      <4>2. CASE p # r
        BY <1>13, <4>2, RequestAt
      <4>3. QED
        BY <4>1, <4>2
    <3>2. QED
      BY <1>12, <1>14, <3>1 DEF UpToDate, Scorer, IsLive
  <2>4. ASSUME NEW t \in Requests, Triaging(req'[t]) PROVE Triaging(req[t]) /\ Tick(req[t])' = Tick(req[t])
    <3>1. Triaging(req[t])
      BY <1>12, <2>1, <2>4 DEF Triaging
    <3>2. CASE t = r
      <4>1. req[t] = q /\ req'[t] = n
        BY <1>1, <1>12, <1>13, <3>2
      <4>2. Tick(req[t]) = q.at
        BY <1>3, <4>1 DEF Tick
      <4>3. Tick(req[t])' = runs'[new].started
        BY <1>11, <4>1 DEF Tick
      <4>4. QED
        BY <1>6, <1>8, <3>1, <4>2, <4>3
    <3>3. CASE t # r
      <4>1. PICK m : m = req[t]
        OBVIOUS
      <4>2. m \in Request /\ Place(m) /\ Triaging(m) /\ req'[t] = m
        BY <1>12, <1>13, <3>1, <3>3, <4>1, RequestAt
      <4>3. m.pc # "create" => m.run \in Rows
        BY <4>2 DEF Place, Triaging, IsLive, Request, Pc
      <4>4. QED
        BY <1>8, <4>1, <4>2, <4>3 DEF Tick
    <3>4. QED
      BY <3>1, <3>2, <3>3
  <2>5. ASSUME NEW i \in Rows', Pure(runs'[i]) PROVE i \in Rows /\ Pure(runs[i]) /\ runs'[i] = runs[i]
    BY <1>6, <1>8, <2>5 DEF Pure
  <2>6. ASSUME NEW i \in Rows', Pure(runs'[i])
        PROVE  /\ \A t \in Requests : Triaging(req'[t]) => NewerFrom(runs[i].ended, Tick(req[t]))'
               /\ \/ runs'[i].severity = complaint'.severity
                  \/ \E j \in Rows' : runs'[j].agent = "triage" /\ NewerFrom(runs[i].ended, runs[j].started)'
    BY <1>6, <1>8, <1>14, <2>4, <2>5, <2>6, ScoreStays
  <2>7. Later'
    BY <2>6 DEF Later, Triaging, IsLive, Pure
  <2>8. Reflected'
    BY <2>6 DEF Reflected, Pure
  <2>9. QED
    BY <2>2, <2>3, <2>7, <2>8 DEF Met
<1>24. QED
  BY <1>16, <1>17, <1>18, <1>19, <1>20, <1>21, <1>22, <1>23 DEF PipelineInv

LEMMA PersistStep ==
  ASSUME PipelineInv, NEW r \in Requests, Persist(r)
  PROVE  PipelineInv'
<1>1. PICK q : q = req[r]
  OBVIOUS
<1>2. PICK w : w = q.run
  OBVIOUS
<1>3. /\ q \in Request /\ Place(q) /\ UpToDate(q) /\ q.pc = "persist" /\ IsLive(q)
      /\ begun \in Nat /\ ended \in Nat
  BY <1>1, RequestAt DEF Persist, IsLive
<1>4. /\ w \in Rows /\ runs[w].agent = q.agent /\ ~runs[w].result /\ runs[w].severity = None
  BY <1>2, <1>3 DEF Place
<1>5. /\ Rows = 1..Len(runs) /\ Len(runs) \in Nat /\ \A i \in Rows : runs[i] \in Row
  BY RowsAre DEF PipelineInv
<1>6. PICK old : old = runs[w]
  OBVIOUS
<1>7. PICK fin : fin = Finalized(old, q, ended + 1)
  OBVIOUS
<1>8. /\ fin \in Row /\ fin.agent = q.agent /\ fin.started = old.started /\ fin.ended = ended + 1
      /\ fin.status = (IF q.ok THEN "SUCCEEDED" ELSE "FAILED") /\ fin.result = q.ok /\ fin.severity = q.answer
      /\ fin.mixed = (q.mixed /\ q.agent # "context")
  <2>1. old \in Row /\ old.agent = q.agent
    BY <1>4, <1>5, <1>6
  <2>2. ended + 1 \in Nat /\ q.ok \in BOOLEAN /\ q.mixed \in BOOLEAN /\ q.answer \in Severities \cup {None}
    BY <1>3 DEF Request
  <2>3. fin = [old EXCEPT !.status = IF q.ok THEN "SUCCEEDED" ELSE "FAILED", !.ended = ended + 1,
                          !.result = q.ok, !.severity = q.answer, !.mixed = q.mixed /\ q.agent # "context"]
    BY <1>7 DEF Finalized
  <2>4. QED
    BY <2>1, <2>2, <2>3 DEF Row
<1>9. /\ Rows' = Rows /\ runs' \in Seq(Row) /\ Len(runs)' = Len(runs)
      /\ runs'[w] = fin /\ \A i \in Rows : i # w => runs'[i] = runs[i]
  <2>1. runs' = [runs EXCEPT ![w] = fin] /\ runs \in Seq(Row)
    BY <1>1, <1>2, <1>6, <1>7 DEF Persist, PipelineInv, Shapes
  <2>2. QED
    BY <1>4, <1>5, <1>8, <2>1 DEF Rows
<1>10. \A i \in Rows : /\ runs'[i].agent = runs[i].agent /\ runs'[i].started = runs[i].started
                       /\ runs'[i].ended \in {runs[i].ended, ended + 1}
  BY <1>4, <1>6, <1>8, <1>9
<1>11. PICK f : f = req'
  OBVIOUS
<1>12. PICK n : n = f[r]
  OBVIOUS
<1>13. /\ f \in [Requests -> Request] /\ \A p \in Requests : p # r => f[p] = req[p]
       /\ n \in Request /\ n.at = 0
       /\ \/ n.pc = "gone" /\ n = Gone
          \/ /\ n.kind = q.kind /\ n.loaded = q.loaded /\ n.mixed = q.mixed /\ n.alone = q.alone
             /\ n.stale = q.stale /\ n.run = w /\ n.agent = q.agent /\ n.answer = q.answer
             /\ n.pc = After(q) /\ n.pc \in {"apply", "priority", "end"}
  <2>1. CASE After(q) = "gone"
    <3>1. f = [req EXCEPT ![r] = Gone]
      BY <1>1, <1>11, <2>1 DEF Persist, Leave
    <3>2. Gone.pc = "gone" /\ Gone.at = 0
      BY DEF Gone, Idle
    <3>3. QED
      BY <1>12, <3>1, <3>2, IdleIsRequest DEF PipelineInv, Shapes
  <2>2. CASE After(q) # "gone"
    <3>1. After(q) \in {"apply", "priority", "end"}
      BY <2>2 DEF After
    <3>2. PICK m : m = [q EXCEPT !.at = 0, !.pc = After(q)]
      OBVIOUS
    <3>3. f = [req EXCEPT ![r] = m]
      BY <1>1, <1>3, <1>11, <2>2, <3>2 DEF Persist, Goto, Ended, Request
    <3>4. /\ m \in Request /\ m.kind = q.kind /\ m.loaded = q.loaded /\ m.mixed = q.mixed /\ m.alone = q.alone
          /\ m.stale = q.stale /\ m.run = w /\ m.at = 0 /\ m.agent = q.agent /\ m.answer = q.answer /\ m.pc = After(q)
      BY <1>2, <1>3, <3>1, <3>2 DEF Request, Pc
    <3>5. f[r] = m /\ f \in [Requests -> Request] /\ \A p \in Requests : p # r => f[p] = req[p]
      BY <3>3, <3>4 DEF PipelineInv, Shapes
    <3>6. QED
      BY <1>12, <3>1, <3>4, <3>5
  <2>3. QED
    BY <2>1, <2>2
<1>14. /\ UNCHANGED <<complaint, sweeping, begun, cutoff, faults, settled>> /\ ended' = ended + 1
       /\ history' \in Seq(Nat)
  BY <1>1, <1>2, <1>4, <1>5 DEF Persist, faultVars, PipelineInv, Shapes
<1>15. r \in Live /\ ~settled
  BY <1>1, <1>3 DEF PipelineInv, Rest, Live
<1>16. Shapes'
  BY <1>3, <1>9, <1>11, <1>13, <1>14 DEF PipelineInv, Shapes
<1>17. Ticks'
  <2>1. \A i \in Rows : /\ runs'[i].started \in 1..begun /\ runs'[i].ended \in 0..(ended + 1)
                        /\ runs'[i].status # "RUNNING" => runs'[i].ended # 0
    BY <1>3, <1>4, <1>6, <1>8, <1>9 DEF PipelineInv, Ticks
  <2>2. \A i, j \in Rows : runs'[i].started = runs'[j].started => i = j
    BY <1>10 DEF PipelineInv, Ticks
  <2>3. \A p \in Requests : f[p].at \in {0, req[p].at}
    BY <1>12, <1>13
  <2>4. \A p \in Requests : f[p].at \in 0..begun /\ \A i \in Rows : runs'[i].started # f[p].at
    BY <1>3, <1>10, <2>1, <2>3 DEF PipelineInv, Ticks
  <2>5. \A p, t \in Requests : f[p].at = f[t].at /\ p # t => f[p].at = 0
    BY <2>3 DEF PipelineInv, Ticks
  <2>6. QED
    BY <1>9, <1>11, <1>14, <2>1, <2>2, <2>4, <2>5 DEF Ticks
<1>18. Places'
  <2>1. ASSUME NEW p \in Requests PROVE Place(req[p])'
    <3>1. CASE p = r
      <4>1. CASE n = Gone
        <5>1. Place(Gone)'
          BY <1>5, <1>9 DEF Place, Gone, Idle
        <5>2. QED
          BY <1>11, <1>12, <3>1, <4>1, <5>1 DEF Place
      <4>2. CASE n.pc \in {"priority", "end"} /\ n.pc = After(q) /\ n.kind = q.kind /\ n.stale = q.stale /\ n.run = w /\ n.agent = q.agent
        <5>1. n.kind = "view"
          BY <4>2 DEF After
        <5>2. n.run \in 0..Len(runs)' /\ n.stale \subseteq Rows' /\ n.agent \in {"context", "priority"}
          BY <1>3, <1>4, <1>5, <1>9, <4>2, <5>1 DEF Place
        <5>3. QED
          BY <1>11, <1>12, <3>1, <4>2, <5>1, <5>2 DEF Place
      <4>3. CASE /\ n.pc = "apply" /\ n.pc = After(q) /\ n.kind = q.kind /\ n.stale = q.stale /\ n.run = w /\ n.agent = q.agent
                 /\ n.answer = q.answer
        <5>1. q.ok /\ q.agent \in {"triage", "vision"}
          BY <4>3 DEF After
        <5>2. /\ n.run \in Rows' /\ runs'[n.run].agent = n.agent /\ runs'[n.run].result
              /\ runs'[n.run].severity = n.answer
              /\ n.run \in 0..Len(runs)' /\ n.stale \subseteq Rows'
          <6>1. n.run = w /\ runs'[w] = fin
            BY <1>9, <4>3
          <6>2. fin.agent = n.agent /\ fin.result /\ fin.severity = n.answer
            BY <1>8, <4>3, <5>1
          <6>3. w \in 0..Len(runs)' /\ n.stale \subseteq Rows' /\ w \in Rows'
            BY <1>3, <1>4, <1>5, <1>9, <4>3 DEF Place
          <6>4. QED
            BY <6>1, <6>2, <6>3
        <5>3. n.agent = "triage" => n.answer \in Severities
          BY <1>3, <4>3, <5>1 DEF Place, Request
        <5>4. n.agent \in IF n.kind = "view" THEN {"context", "priority"} ELSE {n.kind}
          BY <1>3, <4>3 DEF Place
        <5>5. QED
          BY <1>11, <1>12, <3>1, <4>3, <5>1, <5>2, <5>3, <5>4 DEF Place
      <4>4. QED
        BY <1>13, <4>1, <4>2, <4>3
    <3>2. CASE p # r
      <4>1. PICK m : m = req[p]
        OBVIOUS
      <4>2. Place(m) /\ req'[p] = m
        BY <1>11, <1>13, <3>2, <4>1, RequestAt
      <4>3. m.run \in Rows /\ m.pc \in {"compute", "persist", "apply"} => m.run # w
        <5>1. m.pc \in {"compute", "persist"} => m.run # w
          BY <1>1, <1>2, <1>3, <3>2, <4>1 DEF PipelineInv, Owners
        <5>2. m.pc = "apply" => m.run # w
          BY <1>4, <4>2 DEF Place
        <5>3. QED
          BY <5>1, <5>2
      <4>4. Place(m)'
        BY <1>5, <1>9, <4>2, <4>3, PlaceStays
      <4>5. QED
        BY <4>2, <4>4 DEF Place
    <3>3. QED
      BY <3>1, <3>2
  <2>2. QED
    BY <2>1 DEF Places
<1>19. Owners'
  BY <1>11, <1>12, <1>13 DEF PipelineInv, Owners
<1>20. StatusIsEarned'
  <2>1. complaint.severity # None
    BY SeverityAssumption DEF PipelineInv, Shapes, Complaint
  <2>2. \A i \in Rows : runs[i].result \/ runs[i].severity = complaint.severity => runs'[i] = runs[i]
    BY <1>4, <1>9, <2>1
  <2>3. QED
    BY <1>9, <1>14, <2>2 DEF PipelineInv, StatusIsEarned, Rows
<1>21. Alone'
  <2> SUFFICES ASSUME NEW p \in Requests, f[p].alone
               PROVE  /\ f[p].kind = "view" /\ sweeping' = {} /\ (\A t \in Live' : t = p) /\ f[p].at \in {0, begun}
                      /\ f[p].pc \notin {"compute", "persist"}
                      /\ f[p].pc = "end" /\ LatestIs("priority", "SUCCEEDED")' => ~PriorityStale'
    BY <1>11, <1>14 DEF Alone
  <2>1. p = r
    BY <1>13, <1>15 DEF PipelineInv, Alone
  <2>2. n # Gone
    BY <1>12, <2>1 DEF Gone, Idle
  <2>3. q.alone /\ n.kind = q.kind /\ n.agent = q.agent /\ n.pc = After(q) /\ n.pc \in {"apply", "priority", "end"}
    BY <1>12, <1>13, <2>1, <2>2
  <2>4. q.kind = "view" /\ sweeping = {} /\ (\A t \in Live : t = r) /\ runs[w].started = begun
    BY <1>1, <1>2, <1>3, <2>3 DEF PipelineInv, Alone
  <2>5. \A t \in Live' : t = r
    BY <1>11, <1>13, <2>4 DEF Live
  <2>6. ASSUME n.pc = "end", LatestIs("priority", "SUCCEEDED")' PROVE ~PriorityStale'
    <3>1. q.agent = "priority"
      <4>1. q.agent \in {"context", "priority"}
        BY <1>3, <2>4 DEF Place
      <4>2. QED
        BY <2>3, <2>4, <2>6, <4>1 DEF After
    <3>2. \A i, agent : IsLatest(i, agent)' <=> IsLatest(i, agent)
      BY <1>9, <1>10 DEF IsLatest, Rows
    <3>3. IsLatest(w, "priority")
      <4>1. \A j \in Rows : runs[j].started <= begun
        BY <1>3 DEF PipelineInv, Ticks
      <4>2. QED
        BY <1>4, <2>4, <3>1, <4>1 DEF IsLatest, Rows
    <3>4. \A i : IsLatest(i, "priority")' => i = w
      BY <3>2, <3>3, LatestIsOne DEF PipelineInv
    <3>5. runs'[w].status = "SUCCEEDED"
      BY <2>6, <3>4 DEF LatestIs
    <3>6. ~NoRun("priority")' /\ ~LatestIs("priority", "FAILED")'
      BY <1>4, <1>8, <1>9, <3>1, <3>4, <3>5 DEF NoRun, LatestIs, Rows
    <3>7. ~Outdated(w)'
      <4>1. \A i \in Rows : runs'[i].ended \in 0..(ended + 1)
        BY <1>3, <1>9, <1>14, <1>17 DEF Ticks
      <4>2. \A i \in Rows : ~(runs'[i].ended > runs'[w].ended)
        BY <1>3, <1>8, <1>9, <4>1
      <4>3. QED
        BY <1>9, <4>2 DEF Outdated, Rows
    <3>8. QED
      BY <3>4, <3>6, <3>7 DEF PriorityStale
  <2>7. QED
    BY <1>12, <1>13, <1>14, <2>1, <2>3, <2>4, <2>5, <2>6
<1>22. Rest'
  BY <1>14, <1>15 DEF Rest
<1>23. Met'
  <2>1. \A p \in Requests : IsLive(f[p]) =>
          /\ IsLive(req[p]) /\ f[p].kind = req[p].kind /\ f[p].mixed = req[p].mixed /\ f[p].loaded = req[p].loaded
    BY <1>1, <1>3, <1>12, <1>13 DEF IsLive
  <2>2. Witnessed'
    BY <1>11, <2>1 DEF PipelineInv, Met, Witnessed, Scorer, Triaging, IsLive
  <2>3. ASSUME NEW p \in Requests PROVE UpToDate(req[p])'
    <3>1. UpToDate(f[p])
      <4>1. CASE p = r
        BY <1>1, <1>3, <1>12, <1>13, <2>1, <4>1 DEF UpToDate, Scorer, IsLive
      <4>2. CASE p # r
        BY <1>13, <4>2, RequestAt
      <4>3. QED
        BY <4>1, <4>2
    <3>2. QED
      BY <1>11, <1>14, <3>1 DEF UpToDate, Scorer, IsLive
  <2>4. ASSUME NEW t \in Requests, Triaging(req'[t])
        PROVE  Triaging(req[t]) /\ Tick(req[t])' = Tick(req[t])
    <3>1. Triaging(req[t])
      BY <1>11, <2>1, <2>4 DEF Triaging
    <3>2. CASE t = r
      <4>1. req[t] = q /\ req'[t] = n /\ n # Gone
        BY <1>1, <1>11, <1>12, <2>4, <3>2 DEF Triaging, IsLive, Gone, Idle
      <4>2. n.run = w /\ n.pc # "create"
        BY <1>13, <4>1
      <4>3. Tick(req[t]) = runs[w].started /\ Tick(req[t])' = runs'[w].started
        BY <1>2, <1>3, <4>1, <4>2 DEF Tick
      <4>4. QED
        BY <1>4, <1>10, <3>1, <4>3
    <3>3. CASE t # r
      <4>1. PICK m : m = req[t]
        OBVIOUS
      <4>2. m \in Request /\ Place(m) /\ Triaging(m) /\ req'[t] = m
        BY <1>11, <1>13, <3>1, <3>3, <4>1, RequestAt
      <4>3. m.pc # "create" => m.run \in Rows
        BY <4>2 DEF Place, Triaging, IsLive, Request, Pc
      <4>4. QED
        BY <1>10, <4>1, <4>2, <4>3 DEF Tick
    <3>4. QED
      BY <3>2, <3>3
  <2>5. ASSUME NEW i \in Rows, Pure(runs'[i])
        PROVE  /\ \A t \in Requests : Triaging(req'[t]) => NewerFrom(runs[i].ended, Tick(req[t]))'
               /\ \/ runs'[i].severity = complaint'.severity
                  \/ \E j \in Rows' : runs'[j].agent = "triage" /\ NewerFrom(runs[i].ended, runs[j].started)'
    <3>1. CASE i = w
      <4>1. q.agent = "priority" /\ q.ok /\ ~q.mixed
        BY <1>3, <1>8, <1>9, <2>5, <3>1 DEF Pure, Request
      <4>2. Scorer(q)
        BY <1>3, <4>1 DEF Scorer, Place
      <4>3. \A t \in Requests : ~Triaging(req[t])
        BY <1>1, <4>1, <4>2 DEF PipelineInv, Met, Witnessed
      <4>4. q.answer = complaint.severity
        BY <1>3, <4>1, <4>2 DEF UpToDate
      <4>5. QED
        BY <1>8, <1>9, <1>14, <2>4, <3>1, <4>3, <4>4
    <3>2. CASE i # w
      <4>1. runs'[i] = runs[i] /\ Pure(runs[i])
        BY <1>9, <2>5, <3>2
      <4>2. QED
        BY <1>9, <1>10, <1>14, <2>4, <4>1, ScoreStays
    <3>3. QED
      BY <3>1, <3>2
  <2>6. Later'
    BY <1>9, <2>5 DEF Later, Triaging, IsLive, Pure
  <2>7. Reflected'
    BY <1>9, <2>5 DEF Reflected, Pure
  <2>8. QED
    BY <2>2, <2>3, <2>6, <2>7 DEF Met
<1>24. QED
  BY <1>16, <1>17, <1>18, <1>19, <1>20, <1>21, <1>22, <1>23 DEF PipelineInv

\* A triage or vision writes the complaint and is gone.
LEMMA ApplyStep ==
  ASSUME PipelineInv, NEW r \in Requests, Apply(r)
  PROVE  PipelineInv'
<1>1. PICK q : q = req[r]
  OBVIOUS
<1>2. /\ q \in Request /\ Place(q) /\ q.pc = "apply" /\ IsLive(q) /\ complaint \in Complaint
  BY <1>1, RequestAt DEF Apply, IsLive, PipelineInv, Shapes
<1>3. /\ q.agent \in {"triage", "vision"} /\ q.kind = q.agent
      /\ q.run \in Rows /\ runs[q.run].agent = q.agent /\ runs[q.run].result
      /\ q.agent = "triage" => q.answer \in Severities /\ runs[q.run].severity = q.answer
  BY <1>2 DEF Place
<1>4. PICK f : f = req'
  OBVIOUS
<1>5. f \in [Requests -> Request] /\ f[r] = Gone /\ \A p \in Requests : p # r => f[p] = req[p]
  BY <1>4, IdleIsRequest DEF PipelineInv, Shapes, Apply, Leave
<1>6. ~IsLive(Gone) /\ Gone.at = 0 /\ ~Gone.alone
  BY DEF Gone, Idle, IsLive
<1>7. UNCHANGED <<runs, history, sweeping, begun, ended, cutoff, faults, settled>>
  BY DEF Apply, faultVars
<1>8. Rows' = Rows
  BY <1>7, SameRows
<1>9. r \in Live /\ ~settled
  BY <1>1, <1>2 DEF PipelineInv, Rest, Live
<1>10. /\ complaint' \in Complaint
       /\ q.agent = "triage" => /\ complaint'.severity \in {complaint.severity, q.answer}
                                /\ complaint'.status \in {complaint.status, "PRIORITIZED"}
       /\ q.agent = "vision" => /\ complaint'.severity = complaint.severity
                                /\ complaint'.status \in {complaint.status, "EVIDENCE_VERIFIED"}
  <2>1. CASE q.agent = "triage"
    <3>1. complaint' = Written(q.loaded, q.answer, "PRIORITIZED")
      BY <1>1, <2>1 DEF Apply
    <3>2. QED
      BY <1>2, <1>3, <2>1, <3>1 DEF Written, Complaint, Status
  <2>2. CASE q.agent = "vision"
    <3>1. complaint' = Written(q.loaded, q.loaded.severity, "EVIDENCE_VERIFIED")
      BY <1>1, <2>2 DEF Apply
    <3>2. QED
      BY <1>2, <2>2, <3>1 DEF Written, Complaint, Status
  <2>3. QED
    BY <1>3, <2>1, <2>2
<1>11. Shapes'
  BY <1>4, <1>5, <1>7, <1>8, <1>10 DEF PipelineInv, Shapes
<1>12. Ticks'
  <2>1. \A p \in Requests : f[p].at \in {0, req[p].at}
    BY <1>5, <1>6
  <2>2. \A i \in Rows : runs[i].started # 0
    BY DEF PipelineInv, Ticks
  <2>3. \A p \in Requests : f[p].at \in 0..begun /\ \A i \in Rows : runs[i].started # f[p].at
    BY <1>6, <2>1, <2>2 DEF PipelineInv, Ticks, Shapes
  <2>4. \A p, t \in Requests : f[p].at = f[t].at /\ p # t => f[p].at = 0
    BY <2>1 DEF PipelineInv, Ticks
  <2>5. QED
    BY <1>4, <1>7, <1>8, <2>3, <2>4 DEF PipelineInv, Ticks
<1>13. Places'
  <2>1. \A p \in Requests : Place(f[p])
    BY <1>5, IdleIsRequest, RequestAt
  <2>2. QED
    BY <1>4, <1>7, <1>8, <2>1 DEF Places, Place
<1>14. Owners'
  <2>1. Gone.pc = "gone"
    BY DEF Gone
  <2>2. QED
    BY <1>4, <1>5, <2>1 DEF PipelineInv, Owners
<1>15. StatusIsEarned'
  <2>1. CASE q.agent = "triage"
    BY <1>3, <1>7, <1>10, <2>1 DEF PipelineInv, StatusIsEarned, Rows
  <2>2. CASE q.agent = "vision"
    BY <1>3, <1>7, <1>10, <2>2 DEF PipelineInv, StatusIsEarned, Rows
  <2>3. QED
    BY <1>3, <2>1, <2>2
<1>16. Alone'
  <2> SUFFICES ASSUME NEW p \in Requests, f[p].alone PROVE FALSE
    BY <1>4 DEF Alone
  <2>1. p # r /\ req[p].alone
    BY <1>5, <1>6
  <2>2. QED
    BY <1>9, <2>1 DEF PipelineInv, Alone
<1>17. Rest'
  BY <1>7, <1>9 DEF Rest
<1>18. Met'
  <2>1. \A p \in Requests : IsLive(f[p]) => p # r /\ f[p] = req[p]
    BY <1>5, <1>6
  <2>2. Witnessed'
    BY <1>4, <2>1 DEF PipelineInv, Met, Witnessed, Scorer, Triaging, IsLive
  <2>3. ASSUME NEW p \in Requests PROVE UpToDate(req[p])'
    <3> SUFFICES ASSUME Scorer(f[p]), ~f[p].mixed PROVE complaint'.severity = complaint.severity /\ UpToDate(f[p])
      BY <1>4 DEF UpToDate, Scorer, IsLive
    <3>1. f[p] = req[p] /\ UpToDate(f[p])
      BY <2>1, RequestAt DEF Scorer
    <3>2. ~Triaging(q)
      BY <1>1, <3>1 DEF PipelineInv, Met, Witnessed
    <3>3. q.agent = "vision"
      BY <1>2, <1>3, <3>2 DEF Triaging
    <3>4. QED
      BY <1>10, <3>1, <3>3
  <2>4. Later'
    BY <1>4, <1>7, <1>8, <2>1 DEF PipelineInv, Met, Later, Triaging, IsLive, Pure, NewerFrom, Tick
  <2>5. Reflected'
    <3> SUFFICES ASSUME NEW i \in Rows, Pure(runs[i])
                 PROVE  \/ runs[i].severity = complaint'.severity
                        \/ \E j \in Rows : runs[j].agent = "triage" /\ NewerFrom(runs[i].ended, runs[j].started)
      BY <1>7, <1>8 DEF Reflected, Pure, NewerFrom
    <3>1. CASE q.agent = "triage"
      <4>1. NewerFrom(runs[i].ended, Tick(q)) /\ Tick(q) = runs[q.run].started
        BY <1>1, <1>2, <1>3, <3>1 DEF PipelineInv, Met, Later, Triaging, Tick
      <4>2. QED
        BY <1>3, <3>1, <4>1
    <3>2. CASE q.agent = "vision"
      BY <1>10, <3>2 DEF PipelineInv, Met, Reflected
    <3>3. QED
      BY <1>3, <3>1, <3>2
  <2>6. QED
    BY <2>2, <2>3, <2>4, <2>5 DEF Met
<1>19. QED
  BY <1>11, <1>12, <1>13, <1>14, <1>15, <1>16, <1>17, <1>18 DEF PipelineInv

-----------------------------------------------------------------------------
LEMMA PipelineStutters == ASSUME PipelineInv, UNCHANGED vars PROVE PipelineInv'
<1>1. UNCHANGED <<complaint, runs, history, req, sweeping, begun, ended, cutoff, faults, settled>>
  BY DEF vars, faultVars
<1>2. Rows' = Rows
  BY <1>1, SameRows
<1>3. Shapes' /\ StatusIsEarned' /\ Owners'
  BY <1>1, <1>2 DEF PipelineInv, Shapes, StatusIsEarned, Owners
<1>4. Ticks'
  BY <1>1, <1>2 DEF PipelineInv, Ticks
<1>5. Places'
  BY <1>1, <1>2 DEF PipelineInv, Places, Place
<1>6. Alone' /\ Rest'
  BY <1>1, <1>2, SameRows DEF PipelineInv, Alone, Rest, Live
<1>7. Met'
  <2>1. Witnessed' /\ \A p \in Requests : UpToDate(req[p])'
    BY <1>1 DEF PipelineInv, Met, Witnessed, UpToDate, Scorer, Triaging, IsLive
  <2>2. Later' /\ Reflected'
    BY <1>1, <1>2 DEF PipelineInv, Met, Later, Reflected, Triaging, IsLive, Pure, NewerFrom, Tick
  <2>3. QED
    BY <2>1, <2>2 DEF Met
<1>8. QED
  BY <1>3, <1>4, <1>5, <1>6, <1>7 DEF PipelineInv

LEMMA PipelineStep == PipelineInv /\ [Next]_vars => PipelineInv'
<1> SUFFICES ASSUME PipelineInv, [Next]_vars PROVE PipelineInv'
  OBVIOUS
<1>1. ASSUME NEW r \in Requests, NEW kind \in Kind, Begin(r, kind) PROVE PipelineInv'
  BY <1>1, BeginStep
<1>2. ASSUME NEW r \in Requests, Work(r) PROVE PipelineInv'
  BY <1>2, CreateStep, ComputeStep, PersistStep, ApplyStep DEF Work
<1>3. ASSUME NEW r \in Requests, View(r) PROVE PipelineInv'
  BY <1>3, ReapWriteStep, LookStep, ScoreStep, SkipStep, FinishStep DEF View
<1>4. ASSUME NEW r \in Requests, Raise(r) PROVE PipelineInv'
  BY <1>4, RaiseStep
<1>5. ASSUME NEW agents, SweepRead(agents) PROVE PipelineInv'
  BY <1>5, SweepReadStep
<1>6. ASSUME NEW i, Age(i) PROVE PipelineInv'
  BY <1>6, AgeStep
<1>7. CASE UNCHANGED vars
  BY <1>7, PipelineStutters
<1>8. QED
  BY <1>1, <1>2, <1>3, <1>4, <1>5, <1>6, <1>7, SweepWriteStep, CrashStep DEF Next

\* PipelineInv holds in every state.
THEOREM PipelineIsSound == Spec => []PipelineInv
<1>1. Init => PipelineInv
  BY PipelineStart
<1>2. PipelineInv /\ [Next]_vars => PipelineInv'
  BY PipelineStep
<1>3. QED
  BY <1>1, <1>2, PTL DEF Spec

\* The complaint's severity and status are earned: nothing but a stored result
\* of the agent that says so moves them (_transition_complaint runs after
\* finalize_run committed), whatever sweeps, exceptions and crashes fall between.
THEOREM StatusStaysEarned == Spec => []StatusIsEarned
<1>1. PipelineInv => StatusIsEarned
  BY DEF PipelineInv
<1>2. QED
  BY <1>1, PipelineIsSound, PTL

\* Once a view that met nobody has answered, ensure_intelligence_pipeline
\* starts nothing in further views until an agent is asked for.
THEOREM SettledViewsStartNothing == Spec => []SettledStays
<1>1. PipelineInv => SettledStays
  <2> SUFFICES ASSUME PipelineInv, settled, NEW r \in Requests PROVE ~Working(r)
    BY DEF SettledStays
  <2>1. CASE r \in Live
    BY <2>1 DEF PipelineInv, Rest, Working
  <2>2. CASE r \notin Live
    BY <2>2 DEF Live, Working
  <2>3. QED
    BY <2>1, <2>2
<1>2. QED
  BY <1>1, PipelineIsSound, PTL

\* When nothing is to be done, the latest score was computed from the severity
\* the complaint has, unless a triage was under way during the scoring or the
\* latest triage did not succeed.
THEOREM ScoresReflectSeverity == Spec => []ScoreReflectsSeverity
<1>1. PipelineInv => ScoreReflectsSeverity
  <2> SUFFICES ASSUME PipelineInv, NEW i \in Rows, settled, IsLatest(i, "priority"), ~runs[i].mixed,
                      NoRun("triage") \/ LatestIs("triage", "SUCCEEDED")
               PROVE  runs[i].severity = complaint.severity
    BY DEF ScoreReflectsSeverity, Rows
  <2>1. runs[i].status = "SUCCEEDED" /\ ~PriorityStale
    <3>1. PICK s : IsLatest(s, "priority") /\ runs[s].status = "SUCCEEDED"
      BY DEF PipelineInv, Rest, LatestIs
    <3>2. s = i
      BY <3>1, LatestIsOne DEF PipelineInv
    <3>3. QED
      BY <3>1, <3>2 DEF PipelineInv, Rest
  <2>2. Pure(runs[i])
    BY <2>1 DEF Pure, IsLatest
  <2>3. ASSUME NEW j \in Rows, runs[j].agent = "triage", NewerFrom(runs[i].ended, runs[j].started) PROVE FALSE
    <3>1. PICK k : IsLatest(k, "triage") /\ runs[k].status = "SUCCEEDED"
      BY <2>3 DEF LatestIs, NoRun, Rows
    <3>2. k \in Rows /\ runs[k].agent = "triage" /\ runs[j].started <= runs[k].started
      BY <2>3, <3>1 DEF IsLatest, Rows
    <3>3. runs[k].ended # 0 /\ runs[i].ended # 0
      BY <2>1, <3>1, <3>2 DEF PipelineInv, Ticks
    <3>4. runs[k].ended > runs[i].ended
      <4>1. runs[j].started \in Nat /\ runs[k].started \in Nat
        BY <2>3, <3>2, RowsAre DEF PipelineInv, Row
      <4>2. runs[k].started >= runs[j].started
        BY <3>2, <4>1
      <4>3. QED
        BY <2>3, <3>2, <3>3, <4>2 DEF NewerFrom
    <3>5. Outdated(i)
      BY <3>1, <3>2, <3>3, <3>4 DEF Outdated, Upstream, Rows
    <3>6. QED
      BY <2>1, <3>5 DEF PriorityStale, Rows
  <2>4. QED
    BY <2>2, <2>3 DEF PipelineInv, Met, Reflected
<1>2. QED
  BY <1>1, PipelineIsSound, PTL
=============================================================================
