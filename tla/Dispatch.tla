------------------------------ MODULE Dispatch ------------------------------
(***************************************************************************)
(* From a complaint to a draft work order: agents/routing_agent.py and     *)
(* services/routing_service.py decide the department, officers override    *)
(* it, agents/dispatch_agent.py reads it, ranks the field workers with     *)
(* services/dispatch_engine.py and writes the draft an officer approves.   *)
(* A request is split where it awaits the database and others may commit.  *)
(* Workers are numbered in the order of their names.  Criteria are in      *)
(* thousandths, weights in hundredths, the score has four decimals.        *)
(***************************************************************************)
EXTENDS RoutingEngine, FiniteSets

CONSTANTS
  None,
  Workers,       \* 1..n, in the order of their names
  Rosters,       \* what the workers may be like
  Complaints,    \* what the complaint may be like
  Buckets,       \* the buckets the priority engine may give it
  Rulings,       \* the departments an officer may choose
  Needs,         \* _required_from_department: tags and tools of each department
  DefaultLimit,  \* DISPATCH_MAX_ACTIVE_ORDERS
  Reference,     \* DISPATCH_DISTANCE_REF_KILOMETERS
  Requests, MaxDrafts, MaxOverrides, MaxJobs  \* bounds

ASSUME WorkersAreOrdered == Workers \subseteq Nat /\ IsFiniteSet(Workers) /\ None \notin Workers

VARIABLES
  complaint,  \* category, fallen, ward, whether it is located
  bucket,     \* the newest row of complaint_priority_history, or None
  routed,     \* complaint_department_history: the newest decision, or None
  overrides,  \* department_overrides: [began, old, new]
  overriding, \* override requests that have read and not committed
  begun,      \* how many of them have begun
  roster, active, jobs, \* the workers, who is ACTIVE, their assignment rows
  request,    \* dispatch requests
  drafts      \* the work orders written

complaintVars == <<complaint, bucket>>
departmentVars == <<routed, overrides, overriding, begun>>
crewVars == <<roster, active, jobs>>
vars == <<complaintVars, departmentVars, crewVars, request, drafts>>

JobStatus == {"ASSIGNED", "REASSIGNED"}
\* CandidateInput: crew, home ward, skills and equipment, ceiling, distance from home.
Profile == [crew : {"PW", "SN", "PR", None}, ward : STRING \cup {None}, tags : SUBSET STRING, tools : SUBSET STRING,
            limit : Nat \cup {None}, km : Nat \cup {None}]
Idle == [at |-> "IDLE"]

ASSUME InputsAssumption ==
  /\ DOMAIN Needs = Department
  /\ \A d \in Department : IsFiniteSet(Needs[d].tags) /\ IsFiniteSet(Needs[d].tools)
  /\ Rulings \subseteq Department /\ None \notin Department
  /\ Rosters \subseteq [Workers -> Profile] /\ DefaultLimit \in Nat /\ Reference \in Nat

-----------------------------------------------------------------------------
(* The ranking. *)

CrewsOf ==
  [WATER |-> {"PW"}, ROADS |-> {"PW"}, ELECTRICAL |-> {"PW"}, WASTE |-> {"SN"},
   DRAINAGE |-> {"SN"}, PARKS |-> {"PR"}, EMERGENCY_DISASTER |-> {"PW", "SN"}]

\* "max_active_orders or ...": a limit of 0 is no limit of one's own.
Capacity(w) == IF roster[w].limit \in {None, 0} THEN DefaultLimit ELSE roster[w].limit
\* A mutated form of Load: work that was taken over is forgotten.
LoadAssignedOnly(w) == jobs[w]["ASSIGNED"]
Load(w) == jobs[w]["ASSIGNED"] + jobs[w]["REASSIGNED"]

Covered(owned, required) ==
  IF required = {} THEN 1000 ELSE (1000 * Cardinality(owned \cap required)) \div Cardinality(required)
Urgent == bucket \in {"P1_CRITICAL", "P2_HIGH"}

\* The criteria of a worker for an order of a department.
Available(w) == IF Load(w) < Capacity(w) THEN 1000 ELSE 0
Skill(w, department) == Covered(roster[w].tags, Needs[department].tags)
Equipment(w, department) == Covered(roster[w].tools, Needs[department].tools)
Owns(w, department) == IF roster[w].crew \in CrewsOf[department] THEN 1000 ELSE 0
SameWard(w) == IF complaint.ward # None /\ roster[w].ward = complaint.ward THEN 1000 ELSE 0
\* Without coordinates the order lies at (0, 0), farther than any reference.
Proximity(w) ==
  IF ~complaint.located \/ roster[w].km = None \/ roster[w].km >= Reference THEN 0
  ELSE (1000 * (Reference - roster[w].km)) \div Reference
Free(w) == IF Load(w) >= Capacity(w) THEN 0 ELSE (1000 * (Capacity(w) - Load(w))) \div Capacity(w)

\* What one worker is worth: urgency moves weight from the load to the distance.
\* A mutated form: the distance counts against the worker.
ScoreFarther(w, department) ==
  (2 * (30 * Available(w) + 25 * Skill(w, department) + 10 * Equipment(w, department)
        + 10 * Owns(w, department) + 10 * SameWard(w) + (IF Urgent THEN 5 * 1000 ELSE 5 * 500)
        + (IF Urgent THEN 25 ELSE 20) * (1000 - Proximity(w)) + (IF Urgent THEN 10 ELSE 15) * Free(w)) + 12) \div 25
Score(w, department) ==
  (2 * (30 * Available(w) + 25 * Skill(w, department) + 10 * Equipment(w, department)
        + 10 * Owns(w, department) + 10 * SameWard(w) + (IF Urgent THEN 5 * 1000 ELSE 5 * 500)
        + (IF Urgent THEN 25 ELSE 20) * Proximity(w) + (IF Urgent THEN 10 ELSE 15) * Free(w)) + 12) \div 25

\* A worker of no department is never ranked.
Candidates == {w \in active : roster[w].crew # None}
Beats(v, w, department) ==
  \/ Score(v, department) > Score(w, department)
  \/ Score(v, department) = Score(w, department) /\ v < w
Top(department) ==
  CHOOSE w \in Candidates : \A v \in Candidates \ {w} : Beats(w, v, department)

-----------------------------------------------------------------------------
(* The department. *)

Decision == RouteComplaint(complaint.category, complaint.fallen)

\* overridden_at is the begin of the transaction that wrote the override.
LatestOverride == CHOOSE o \in overrides : \A p \in overrides : p.began <= o.began
\* A mutated form: the newest decision of the agent hides the officer's.
EffectiveRoutedFirst ==
  IF routed # None THEN routed.primary
  ELSE IF overrides # {} THEN LatestOverride.new ELSE None
EffectiveDepartment ==
  IF overrides # {} THEN LatestOverride.new ELSE IF routed # None THEN routed.primary ELSE None

\* The agent's run is one step: the department it decides depends on nothing that
\* changes while it computes.
RunRouting ==
  /\ routed' = Decision
  /\ UNCHANGED <<complaintVars, overrides, overriding, begun, crewVars, request, drafts>>

BeginOverride(d) ==
  /\ begun < MaxOverrides
  /\ begun' = begun + 1
  /\ overriding' = overriding \cup {[began |-> begun + 1, old |-> EffectiveDepartment, new |-> d]}
  /\ UNCHANGED <<complaintVars, routed, overrides, crewVars, request, drafts>>

CommitOverride(o) ==
  /\ overriding' = overriding \ {o}
  /\ overrides' = overrides \cup {o}
  /\ UNCHANGED <<complaintVars, routed, begun, crewVars, request, drafts>>

-----------------------------------------------------------------------------
(* A dispatch request: it reads the case, ranks the crew, writes the draft. *)

ReadCase(r) ==
  /\ request[r].at = "IDLE"
  /\ request' = [request EXCEPT ![r] =
       [at |-> "READ", ruled |-> overrides # {},
        department |-> IF EffectiveDepartment # None THEN EffectiveDepartment
                       ELSE Decision.primary]]
  /\ UNCHANGED <<complaintVars, departmentVars, crewVars, drafts>>

\* _postgis_distances converts the distance of a worker without a home to a float
\* and raises; the run's row stays RUNNING.
Uncomputable == complaint.located /\ \E w \in active : roster[w].km = None

RankCrew(r) ==
  /\ request[r].at = "READ" /\ ~Uncomputable
  /\ LET department == request[r].department
         best == IF Candidates = {} THEN None ELSE Top(department)
     IN request' = [request EXCEPT ![r] =
          [at |-> "RANKED", ruled |-> request[r].ruled, department |-> department, best |-> best,
           worker |-> IF best # None /\ Available(best) = 1000 THEN best ELSE None,
           crew |-> [w \in Candidates |->
             [room |-> Load(w) < Capacity(w),
              merits |-> <<Available(w), Skill(w, department), Equipment(w, department),
                           Owns(w, department), SameWard(w), Proximity(w), Free(w)>>]],
           full |-> {w \in Workers : jobs[w]["ASSIGNED"] + jobs[w]["REASSIGNED"] >= Capacity(w)}]]
  /\ UNCHANGED <<complaintVars, departmentVars, crewVars, drafts>>

\* PostGIS may fail too: the transaction is aborted and no later query succeeds.
RankingRaises(r) ==
  /\ request[r].at = "READ"
  /\ request' = [request EXCEPT ![r] = Idle]
  /\ UNCHANGED <<complaintVars, departmentVars, crewVars, drafts>>

PersistDraft(r) ==
  /\ request[r].at = "RANKED" /\ Cardinality(drafts) < MaxDrafts
  /\ drafts' = drafts \cup
       {[number |-> Cardinality(drafts) + 1, status |-> "PENDING_APPROVAL", worker |-> request[r].worker,
         department |-> request[r].department, ruled |-> request[r].ruled]}
  /\ request' = [request EXCEPT ![r] = Idle]
  /\ UNCHANGED <<complaintVars, departmentVars, crewVars>>

-----------------------------------------------------------------------------
(* What happens around it. *)

\* Approval gives the worker the job and looks at neither load nor status again.
Approve(d) ==
  /\ d.status = "PENDING_APPROVAL" /\ (d.worker # None => jobs[d.worker]["ASSIGNED"] < MaxJobs)
  /\ drafts' = (drafts \ {d}) \cup {[d EXCEPT !.status = "ASSIGNED"]}
  /\ jobs' = IF d.worker = None THEN jobs ELSE [jobs EXCEPT ![d.worker]["ASSIGNED"] = @ + 1]
  /\ UNCHANGED <<complaintVars, departmentVars, roster, active, request>>

\* Other orders are assigned and reassigned to workers, and finished.
TakeJob(w, s) ==
  /\ w \in active /\ jobs[w][s] < MaxJobs
  /\ jobs' = [jobs EXCEPT ![w][s] = @ + 1]
  /\ UNCHANGED <<complaintVars, departmentVars, roster, active, request, drafts>>
EndJob(w, s) ==
  /\ jobs[w][s] > 0
  /\ jobs' = [jobs EXCEPT ![w][s] = @ - 1]
  /\ UNCHANGED <<complaintVars, departmentVars, roster, active, request, drafts>>

SetStatus(w) ==
  /\ active' = IF w \in active THEN active \ {w} ELSE active \cup {w}
  /\ UNCHANGED <<complaintVars, departmentVars, roster, jobs, request, drafts>>

Reprioritize(b) ==
  /\ bucket' = b
  /\ UNCHANGED <<complaint, departmentVars, crewVars, request, drafts>>

Init ==
  /\ complaint \in Complaints
  /\ bucket = None /\ routed = None /\ overrides = {} /\ overriding = {} /\ begun = 0
  /\ roster \in Rosters
  /\ active = Workers /\ jobs = [w \in Workers |-> [s \in JobStatus |-> 0]]
  /\ request = [r \in Requests |-> Idle] /\ drafts = {}

Next ==
  \/ RunRouting
  \/ \E d \in Rulings : BeginOverride(d)
  \/ \E o \in overriding : CommitOverride(o)
  \/ \E r \in Requests : ReadCase(r) \/ RankCrew(r) \/ RankingRaises(r) \/ PersistDraft(r)
  \/ \E d \in drafts : Approve(d)
  \/ \E w \in Workers : SetStatus(w) \/ \E s \in JobStatus : TakeJob(w, s) \/ EndJob(w, s)
  \/ \E b \in Buckets \ {bucket} : Reprioritize(b)

Spec == Init /\ [][Next]_vars

-----------------------------------------------------------------------------
(* Properties. *)

Ranked == {r \in Requests : request[r].at = "RANKED"}
\* As good in everything and better, by more than the rounding of the score, in something.
Outdoes(m, n) ==
  /\ \A i \in DOMAIN m : m[i] >= n[i]
  /\ \E i \in DOMAIN m : m[i] > n[i] + 1

\* The ranking is fair: whatever the weights do for an urgent order, the worker
\* on top is never one whom another outdoes, at least as good in every criterion
\* and better in one (dispatch_engine.score_candidate).  Criteria that differ by
\* less than the four decimals of a score can tie, and then the name decides.
BestIsOnTop ==
  \A r \in Ranked : LET crew == request[r].crew IN
    \A v \in DOMAIN crew : ~Outdoes(crew[v].merits, crew[request[r].best].merits)

\* A worker who is recommended had room for another job when the crew was read,
\* whichever way the jobs came to them: assigned, or taken over from another.
RecommendedHasRoom == \A r \in Ranked : request[r].worker \notin request[r].full

\* An officer's ruling on the department binds every dispatch that starts after it
\* was committed, however often the agent routes the complaint again.
RulingBinds ==
  \A d \in drafts : d.ruled => \E o \in overrides : o.new = d.department

=============================================================================
