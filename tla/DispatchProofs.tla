--------------------------- MODULE DispatchProofs ---------------------------
(***************************************************************************)
(* Theorems about Dispatch, for any crew, complaint, rulings and requests: *)
(* who is on top of a ranking and why, that who is recommended had room,   *)
(* and that an officer's ruling on the department binds later dispatches.  *)
(***************************************************************************)
EXTENDS Dispatch, FiniteSetTheorems, WellFoundedInduction, TLAPS

-----------------------------------------------------------------------------
(* A ranking of finitely many has a top. *)

\* What the rank of w among S with these scores has to be to come first.
First(w, S, score) ==
  \A v \in S \ {w} : score[w] > score[v] \/ (score[w] = score[v] /\ w < v)

\* Among finitely many workers, one comes first: the smallest set without a
\* first one would have a first one when any of its members is left out.
LEMMA SomebodyIsFirst ==
  ASSUME NEW S \in SUBSET Nat, IsFiniteSet(S), S # {}, NEW score \in [S -> Int]
  PROVE  \E w \in S : First(w, S, score)
<1> DEFINE Bad == {T \in FiniteSubsetsOf(S) : T # {} /\ ~ \E w \in T : First(w, T, score)}
<1>1. SUFFICES ASSUME Bad # {} PROVE FALSE
  <2>1. S \in FiniteSubsetsOf(S)
    BY DEF FiniteSubsetsOf
  <2>2. QED
    BY <1>1, <2>1
<1>2. PICK T \in Bad : \A U \in Bad : <<U, T>> \notin StrictSubsetOrdering(S)
  <2>1. Bad \subseteq FiniteSubsetsOf(S)
    OBVIOUS
  <2> HIDE DEF Bad
  <2>2. QED
    BY <1>1, <2>1, FS_StrictSubsetOrderingWellFounded, WFMin
<1>3. T \subseteq S /\ IsFiniteSet(T) /\ T # {} /\ ~ \E w \in T : First(w, T, score)
  BY <1>2 DEF FiniteSubsetsOf
<1>4. PICK x \in T : TRUE
  BY <1>3
<1> DEFINE U == T \ {x}
<1>5. U \notin Bad
  <2>1. <<U, T>> \in StrictSubsetOrdering(S)
    BY <1>3, <1>4 DEF StrictSubsetOrdering
  <2>2. QED
    BY <1>2, <2>1
<1>6. U \in FiniteSubsetsOf(S)
  BY <1>3, FS_RemoveElement DEF FiniteSubsetsOf
<1>7. CASE U = {}
  <2>1. First(x, T, score)
    BY <1>7 DEF First
  <2>2. QED
    BY <1>3, <1>4, <2>1
<1>8. CASE U # {}
  <2>1. PICK w \in U : First(w, U, score)
    BY <1>5, <1>6, <1>8
  <2>2. /\ w \in T /\ w \in Nat /\ x \in Nat /\ w # x
        /\ score[w] \in Int /\ score[x] \in Int
    BY <1>3, <1>4, <2>1
  <2>3. First(w, T, score) \/ First(x, T, score)
    <3>1. CASE score[w] > score[x] \/ (score[w] = score[x] /\ w < x)
      BY <2>1, <3>1 DEF First
    <3>2. CASE score[x] > score[w] \/ (score[w] = score[x] /\ x < w)
      <4>1. ASSUME NEW v \in T \ {x}
            PROVE  score[x] > score[v] \/ (score[x] = score[v] /\ x < v)
        <5>1. v \in Nat /\ score[v] \in Int
          BY <1>3
        <5>2. CASE v = w
          BY <3>2, <5>2
        <5>3. CASE v # w
          <6>1. score[w] > score[v] \/ (score[w] = score[v] /\ w < v)
            BY <2>1, <5>3 DEF First
          <6>2. QED
            BY <2>2, <3>2, <5>1, <6>1
        <5>4. QED
          BY <5>2, <5>3
      <4>2. QED
        BY <4>1 DEF First
    <3>3. QED
      BY <2>2, <3>1, <3>2
  <2>4. QED
    BY <1>3, <1>4, <2>2, <2>3
<1>9. QED
  BY <1>7, <1>8

-----------------------------------------------------------------------------
(* Merits and scores *)

CrewOK == roster \in [Workers -> Profile] /\ jobs \in [Workers -> [JobStatus -> Nat]] /\ active \subseteq Workers

LEMMA Loads ==
  ASSUME CrewOK, NEW w \in Workers
  PROVE  Capacity(w) \in Nat /\ Load(w) \in Nat
<1>1. roster[w].limit \in Nat \cup {None} /\ DefaultLimit \in Nat
  BY InputsAssumption DEF CrewOK, Profile
<1>2. jobs[w]["ASSIGNED"] \in Nat /\ jobs[w]["REASSIGNED"] \in Nat
  BY DEF CrewOK, JobStatus
<1>3. QED
  BY <1>1, <1>2 DEF Capacity, Load

LEMMA PartOfThousand ==
  ASSUME NEW part \in Nat, NEW whole \in Nat, whole # 0
  PROVE  (1000 * part) \div whole \in Nat
OBVIOUS

LEMMA CoveredIsNat ==
  ASSUME NEW owned, NEW required, IsFiniteSet(required)
  PROVE  Covered(owned, required) \in Nat
<1>1. Cardinality(required) \in Nat /\ Cardinality(owned \cap required) \in Nat
  <2>1. IsFiniteSet(owned \cap required)
    BY FS_Subset
  <2>2. QED
    BY <2>1, FS_CardinalityType
<1>2. required # {} => Cardinality(required) # 0
  BY FS_EmptySet
<1>3. QED
  BY <1>1, <1>2, PartOfThousand DEF Covered

\* The criteria of a worker, in the order of the record that RankCrew keeps.
Merits(w, department) ==
  <<Available(w), Skill(w, department), Equipment(w, department),
    Owns(w, department), SameWard(w), Proximity(w), Free(w)>>

LEMMA MeritsAreNat ==
  ASSUME CrewOK, NEW w \in Workers, NEW department \in Department
  PROVE  \A i \in 1..7 : Merits(w, department)[i] \in Nat
<1>1. Available(w) \in Nat /\ Owns(w, department) \in Nat /\ SameWard(w) \in Nat
  BY DEF Available, Owns, SameWard
<1>2. Skill(w, department) \in Nat /\ Equipment(w, department) \in Nat
  BY InputsAssumption, CoveredIsNat DEF Skill, Equipment
<1>3. Proximity(w) \in Nat
  <2>1. roster[w].km \in Nat \cup {None} /\ Reference \in Nat
    BY InputsAssumption DEF CrewOK, Profile
  <2>2. CASE roster[w].km \in Nat /\ roster[w].km < Reference
    <3>1. Reference - roster[w].km \in Nat /\ Reference # 0
      BY <2>1, <2>2
    <3>2. QED
      BY <2>1, <3>1, PartOfThousand DEF Proximity
  <2>3. CASE roster[w].km = None \/ ~(roster[w].km < Reference)
    BY <2>1, <2>3 DEF Proximity
  <2>4. QED
    BY <2>1, <2>2, <2>3
<1>4. Free(w) \in Nat
  <2>1. Capacity(w) \in Nat /\ Load(w) \in Nat
    BY Loads
  <2>2. CASE Load(w) >= Capacity(w)
    BY <2>2 DEF Free
  <2>3. CASE Load(w) < Capacity(w)
    <3>1. Capacity(w) - Load(w) \in Nat /\ Capacity(w) # 0
      BY <2>1, <2>3
    <3>2. QED
      BY <2>1, <3>1, PartOfThousand DEF Free
  <2>4. QED
    BY <2>1, <2>2, <2>3
<1>5. QED
  BY <1>1, <1>2, <1>3, <1>4 DEF Merits

\* The weighted sum of criteria m, and the score it makes.
Weighted(m) ==
  30 * m[1] + 25 * m[2] + 10 * m[3] + 10 * m[4] + 10 * m[5] + (IF Urgent THEN 5 * 1000 ELSE 5 * 500)
  + (IF Urgent THEN 25 ELSE 20) * m[6] + (IF Urgent THEN 10 ELSE 15) * m[7]

LEMMA ScoreIsOfMerits ==
  ASSUME NEW w, NEW department
  PROVE  Score(w, department) = (2 * Weighted(Merits(w, department)) + 12) \div 25
BY DEF Score, Weighted, Merits

LEMMA ScoresGrow ==
  ASSUME NEW a \in Nat, NEW b \in Nat, a >= b + 20
  PROVE  (2 * a + 12) \div 25 > (2 * b + 12) \div 25
OBVIOUS

\* The sums for an urgent order and for any other.
InHaste(a, b, c, d, e, f, g) == 30*a + 25*b + 10*c + 10*d + 10*e + 5 * 1000 + 25*f + 10*g
AtLeisure(a, b, c, d, e, f, g) == 30*a + 25*b + 10*c + 10*d + 10*e + 5 * 500 + 20*f + 15*g

\* Every criterion weighs ten hundredths or more: who outdoes scores higher.
LEMMA OutdoingScores ==
  ASSUME NEW m, NEW n, DOMAIN m = 1..7, \A i \in 1..7 : m[i] \in Nat /\ n[i] \in Nat, Outdoes(m, n)
  PROVE  (2 * Weighted(m) + 12) \div 25 > (2 * Weighted(n) + 12) \div 25
<1>1. /\ m[1] >= n[1] /\ m[2] >= n[2] /\ m[3] >= n[3] /\ m[4] >= n[4]
      /\ m[5] >= n[5] /\ m[6] >= n[6] /\ m[7] >= n[7]
  BY DEF Outdoes
<1>2. \/ m[1] > n[1] + 1 \/ m[2] > n[2] + 1 \/ m[3] > n[3] + 1 \/ m[4] > n[4] + 1
      \/ m[5] > n[5] + 1 \/ m[6] > n[6] + 1 \/ m[7] > n[7] + 1
  BY DEF Outdoes
<1>3. /\ m[1] \in Nat /\ m[2] \in Nat /\ m[3] \in Nat /\ m[4] \in Nat
      /\ m[5] \in Nat /\ m[6] \in Nat /\ m[7] \in Nat
      /\ n[1] \in Nat /\ n[2] \in Nat /\ n[3] \in Nat /\ n[4] \in Nat
      /\ n[5] \in Nat /\ n[6] \in Nat /\ n[7] \in Nat
  OBVIOUS
<1>4. Weighted(m) \in Nat /\ Weighted(n) \in Nat /\ Weighted(m) >= Weighted(n) + 20
  <2>1. /\ InHaste(m[1], m[2], m[3], m[4], m[5], m[6], m[7]) \in Nat
        /\ InHaste(n[1], n[2], n[3], n[4], n[5], n[6], n[7]) \in Nat
        /\ InHaste(m[1], m[2], m[3], m[4], m[5], m[6], m[7])
             >= InHaste(n[1], n[2], n[3], n[4], n[5], n[6], n[7]) + 20
        /\ AtLeisure(m[1], m[2], m[3], m[4], m[5], m[6], m[7]) \in Nat
        /\ AtLeisure(n[1], n[2], n[3], n[4], n[5], n[6], n[7]) \in Nat
        /\ AtLeisure(m[1], m[2], m[3], m[4], m[5], m[6], m[7])
             >= AtLeisure(n[1], n[2], n[3], n[4], n[5], n[6], n[7]) + 20
    <3>1. PICK m1, m2, m3, m4, m5, m6, m7 \in Nat : 
             /\ m1 = m[1] /\ m2 = m[2] /\ m3 = m[3] /\ m4 = m[4] /\ m5 = m[5] /\ m6 = m[6] /\ m7 = m[7]
      BY <1>3, Zenon
    <3>2. PICK n1, n2, n3, n4, n5, n6, n7 \in Nat : 
             /\ n1 = n[1] /\ n2 = n[2] /\ n3 = n[3] /\ n4 = n[4] /\ n5 = n[5] /\ n6 = n[6] /\ n7 = n[7]
      BY <1>3, Zenon
    <3>3. /\ m1 >= n1 /\ m2 >= n2 /\ m3 >= n3 /\ m4 >= n4 /\ m5 >= n5 /\ m6 >= n6 /\ m7 >= n7
          /\ \/ m1 > n1 + 1 \/ m2 > n2 + 1 \/ m3 > n3 + 1 \/ m4 > n4 + 1
             \/ m5 > n5 + 1 \/ m6 > n6 + 1 \/ m7 > n7 + 1
      BY <1>1, <1>2, <3>1, <3>2
    <3>4. /\ InHaste(m1, m2, m3, m4, m5, m6, m7) \in Nat /\ InHaste(n1, n2, n3, n4, n5, n6, n7) \in Nat
          /\ InHaste(m1, m2, m3, m4, m5, m6, m7) >= InHaste(n1, n2, n3, n4, n5, n6, n7) + 20
          /\ AtLeisure(m1, m2, m3, m4, m5, m6, m7) \in Nat /\ AtLeisure(n1, n2, n3, n4, n5, n6, n7) \in Nat
          /\ AtLeisure(m1, m2, m3, m4, m5, m6, m7) >= AtLeisure(n1, n2, n3, n4, n5, n6, n7) + 20
      BY <3>3 DEF InHaste, AtLeisure
    <3>5. QED
      BY <3>1, <3>2, <3>4
  <2>2. CASE Urgent
    BY <2>1, <2>2 DEF Weighted, InHaste
  <2>3. CASE ~Urgent
    BY <2>1, <2>3 DEF Weighted, AtLeisure
  <2>4. QED
    BY <2>2, <2>3
<1>5. QED
  BY <1>4, ScoresGrow

\* Nobody outdoes the top of a ranking.
LEMMA TopIsNotOutdone ==
  ASSUME CrewOK, NEW department \in Department, NEW v \in Candidates
  PROVE  /\ Top(department) \in Candidates
         /\ ~Outdoes(Merits(v, department), Merits(Top(department), department))
<1> DEFINE score == [w \in Candidates |-> Score(w, department)]
<1>1. Candidates \subseteq Workers /\ Candidates \in SUBSET Nat /\ IsFiniteSet(Candidates)
  <2>1. Candidates \subseteq Workers
    BY DEF Candidates, CrewOK
  <2>2. QED
    BY <2>1, WorkersAreOrdered, FS_Subset
<1>2. \A w \in Candidates : /\ \A i \in 1..7 : Merits(w, department)[i] \in Nat
                            /\ Score(w, department) \in Int
  <2> SUFFICES ASSUME NEW w \in Candidates
               PROVE  /\ \A i \in 1..7 : Merits(w, department)[i] \in Nat
                      /\ Score(w, department) \in Int
    OBVIOUS
  <2>1. \A i \in 1..7 : Merits(w, department)[i] \in Nat
    BY <1>1, MeritsAreNat
  <2>2. Weighted(Merits(w, department)) \in Nat
    BY <2>1 DEF Weighted
  <2>3. QED
    BY <2>1, <2>2, ScoreIsOfMerits
<1>3. \E w \in Candidates : \A u \in Candidates \ {w} : Beats(w, u, department)
  <2>1. score \in [Candidates -> Int]
    BY <1>2
  <2>2. PICK w \in Candidates : First(w, Candidates, score)
    BY <1>1, <2>1, SomebodyIsFirst
  <2>3. QED
    BY <2>2 DEF First, Beats
<1>4. /\ Top(department) \in Candidates
      /\ \A u \in Candidates \ {Top(department)} : Beats(Top(department), u, department)
  BY <1>3 DEF Top
<1>5. ASSUME Outdoes(Merits(v, department), Merits(Top(department), department))
      PROVE  FALSE
  <2>1. Score(v, department) > Score(Top(department), department)
    <3>1. DOMAIN Merits(v, department) = 1..7
      BY DEF Merits
    <3>2. QED
      BY <1>2, <1>4, <1>5, <3>1, OutdoingScores, ScoreIsOfMerits
  <2>2. v # Top(department) => Beats(Top(department), v, department)
    BY <1>4
  <2>3. QED
    BY <1>2, <1>4, <2>1, <2>2 DEF Beats
<1>6. QED
  BY <1>4, <1>5

-----------------------------------------------------------------------------
(* The inductive invariant *)

\* Rulings are numbered as they began, and name departments, as the agent does.
RulingsOK ==
  /\ begun \in Nat
  /\ \A o \in overrides \cup overriding : o.began \in 1..begun /\ o.new \in Rulings
  /\ routed # None => routed.primary \in Department

\* What was ruled when a case was read has been ruled.
Bound(case) == case.ruled => \E o \in overrides : o.new = case.department

RequestOK(q) ==
  /\ q.at \in {"IDLE", "READ", "RANKED"}
  /\ q.at # "IDLE" => q.department \in Department /\ Bound(q)
  /\ q.at = "RANKED" =>
       /\ q.worker \notin q.full
       /\ \A v \in DOMAIN q.crew : ~Outdoes(q.crew[v].merits, q.crew[q.best].merits)

DispatchInv ==
  /\ CrewOK /\ RulingsOK
  /\ request = [r \in Requests |-> request[r]]
  /\ \A r \in Requests : RequestOK(request[r])
  /\ \A d \in drafts : Bound(d)

LEMMA DecidedIsDepartment == Decision.primary \in Department
<1>1. "DRAINAGE" \in Department
  BY DEF Department, CategoryPrimary
<1>2. QED
  BY <1>1 DEF Decision, RouteComplaint, Routable, Department

\* The latest of the overrides there are is one of them.
LEMMA LatestIsThere ==
  ASSUME RulingsOK, overrides # {}
  PROVE  LatestOverride \in overrides
<1> DEFINE Ages == {begun - o.began : o \in overrides}
<1> DEFINE R == OpToRel(<, Nat)
<1>1. Ages \subseteq Nat /\ Ages # {}
  BY DEF RulingsOK
<1>2. PICK n \in Ages : \A m \in Ages : <<m, n>> \notin R
  <2>1. IsWellFoundedOn(R, Nat)
    BY NatLessThanWellFounded
  <2> HIDE DEF R, Ages
  <2>2. QED
    BY <1>1, <2>1, WFMin
<1>3. \A m \in Ages : ~(m < n)
  BY <1>1, <1>2 DEF OpToRel
<1>4. PICK o \in overrides : n = begun - o.began
  BY <1>2
<1>5. \A p \in overrides : p.began <= o.began
  <2> SUFFICES ASSUME NEW p \in overrides PROVE p.began <= o.began
    OBVIOUS
  <2>1. ~(begun - p.began < begun - o.began)
    BY <1>3, <1>4
  <2>2. begun \in Nat /\ p.began \in Nat /\ o.began \in Nat
    BY DEF RulingsOK
  <2>3. QED
    BY <2>1, <2>2
<1>6. QED
  BY <1>5 DEF LatestOverride

LEMMA DispatchStart == Init => DispatchInv
<1> SUFFICES ASSUME Init PROVE DispatchInv
  OBVIOUS
<1>1. CrewOK
  BY InputsAssumption DEF Init, CrewOK
<1>2. RulingsOK
  BY DEF Init, RulingsOK
<1>3. request = [r \in Requests |-> request[r]] /\ \A r \in Requests : RequestOK(request[r])
  BY DEF Init, Idle, RequestOK
<1>4. QED
  BY <1>1, <1>2, <1>3 DEF Init, DispatchInv

\* What steps that touch no request and no draft of a department leave.
LEMMA DepartmentStep ==
  ASSUME DispatchInv,
         \/ RunRouting \/ (\E d \in Rulings : BeginOverride(d)) \/ (\E o \in overriding : CommitOverride(o))
  PROVE  DispatchInv'
<1>1. RulingsOK'
  <2>1. CASE RunRouting
    BY <2>1, DecidedIsDepartment DEF RunRouting, DispatchInv, RulingsOK
  <2>2. CASE \E d \in Rulings : BeginOverride(d)
    <3>1. PICK d \in Rulings : BeginOverride(d)
      BY <2>2
    <3> DEFINE o == [began |-> begun + 1, old |-> EffectiveDepartment, new |-> d]
    <3>2. o.began = begun + 1 /\ o.new = d
      OBVIOUS
    <3>3. begun' = begun + 1 /\ overriding' = overriding \cup {o} /\ overrides' = overrides /\ routed' = routed
      BY <3>1 DEF BeginOverride
    <3> HIDE DEF o
    <3>4. QED
      BY <3>2, <3>3 DEF DispatchInv, RulingsOK
  <2>3. CASE \E o \in overriding : CommitOverride(o)
    BY <2>3 DEF CommitOverride, DispatchInv, RulingsOK
  <2>4. QED
    BY <2>1, <2>2, <2>3
<1>2. overrides \subseteq overrides' /\ UNCHANGED <<crewVars, request, drafts>>
  BY DEF RunRouting, BeginOverride, CommitOverride
<1>3. \A r \in Requests : RequestOK(request[r])'
  <2> SUFFICES ASSUME NEW r \in Requests PROVE RequestOK(request[r])'
    OBVIOUS
  <2>1. RequestOK(request[r]) /\ request'[r] = request[r]
    BY <1>2 DEF DispatchInv
  <2>2. Bound(request[r]) => Bound(request[r])'
    BY <1>2 DEF Bound
  <2>3. QED
    BY <2>1, <2>2 DEF RequestOK
<1>4. QED
  BY <1>1, <1>2, <1>3 DEF DispatchInv, CrewOK, crewVars, Bound

\* Steps of a request and of a draft keep the rulings.
LEMMA RulingsKept == ASSUME RulingsOK, UNCHANGED departmentVars PROVE RulingsOK'
BY DEF RulingsOK, departmentVars

LEMMA ReadCaseStep ==
  ASSUME DispatchInv, NEW r \in Requests, ReadCase(r)
  PROVE  DispatchInv'
<1> DEFINE department == IF EffectiveDepartment # None THEN EffectiveDepartment ELSE Decision.primary
           q == [at |-> "READ", ruled |-> overrides # {}, department |-> department]
<1>1. /\ request' = [request EXCEPT ![r] = q]
      /\ UNCHANGED <<complaintVars, departmentVars, crewVars, drafts>>
  BY DEF ReadCase
<1>2. overrides # {} => LatestOverride \in overrides /\ department = LatestOverride.new /\ department \in Department
  <2>1. ASSUME overrides # {} PROVE LatestOverride \in overrides /\ LatestOverride.new \in Rulings
    BY <2>1, LatestIsThere DEF DispatchInv, RulingsOK
  <2>2. QED
    BY <2>1, InputsAssumption DEF EffectiveDepartment
<1>3. department \in Department
  BY <1>2, DecidedIsDepartment DEF EffectiveDepartment, DispatchInv, RulingsOK
<1>4. q.at = "READ" /\ q.department = department /\ q.ruled = (overrides # {})
  OBVIOUS
<1> HIDE DEF q, department
<1>5. RequestOK(q)
  BY <1>2, <1>3, <1>4 DEF RequestOK, Bound
<1>6. QED
  BY <1>1, <1>5, RulingsKept DEF DispatchInv, CrewOK, crewVars, departmentVars, RequestOK, Bound

LEMMA RankCrewStep ==
  ASSUME DispatchInv, NEW r \in Requests, RankCrew(r)
  PROVE  DispatchInv'
<1> DEFINE department == request[r].department
           best == IF Candidates = {} THEN None ELSE Top(department)
           crew == [w \in Candidates |->
                     [room |-> Load(w) < Capacity(w), merits |-> Merits(w, department)]]
           full == {w \in Workers : jobs[w]["ASSIGNED"] + jobs[w]["REASSIGNED"] >= Capacity(w)}
           worker == IF best # None /\ Available(best) = 1000 THEN best ELSE None
           q == [at |-> "RANKED", ruled |-> request[r].ruled, department |-> department, best |-> best,
                 worker |-> worker, crew |-> crew, full |-> full]
<1>1. /\ request' = [request EXCEPT ![r] = q] /\ request[r].at = "READ"
      /\ UNCHANGED <<complaintVars, departmentVars, crewVars, drafts>>
  BY DEF RankCrew, Merits
<1>2. department \in Department /\ Bound(request[r])
  BY <1>1 DEF DispatchInv, RequestOK
<1>3. worker \notin full
  <2>1. None \notin full
    BY WorkersAreOrdered
  <2>2. ASSUME best \in full, Available(best) = 1000 PROVE FALSE
    <3>1. best \in Workers /\ Load(best) >= Capacity(best)
      BY <2>2 DEF Load
    <3>2. Load(best) \in Nat /\ Capacity(best) \in Nat
      BY <3>1, Loads DEF DispatchInv
    <3>3. QED
      BY <2>2, <3>1, <3>2 DEF Available
  <2> HIDE DEF best, full
  <2>3. QED
    BY <2>1, <2>2
<1>4. ASSUME NEW v \in DOMAIN crew PROVE ~Outdoes(crew[v].merits, crew[best].merits)
  <2>1. v \in Candidates /\ best = Top(department) /\ Top(department) \in Candidates
    BY <1>2, <1>4, TopIsNotOutdone DEF DispatchInv
  <2>2. /\ crew[v].merits = Merits(v, department)
        /\ crew[Top(department)].merits = Merits(Top(department), department)
    BY <2>1
  <2>3. ~Outdoes(Merits(v, department), Merits(Top(department), department))
    BY <1>2, <2>1, TopIsNotOutdone DEF DispatchInv
  <2> HIDE DEF crew, best
  <2>4. QED
    BY <2>1, <2>2, <2>3
<1>5. /\ q.at = "RANKED" /\ q.department = department /\ q.ruled = request[r].ruled
      /\ q.worker = worker /\ q.full = full /\ q.crew = crew /\ q.best = best
  OBVIOUS
<1> HIDE DEF q, crew, best, worker, full
<1>6. RequestOK(q)
  <2>1. Bound(q)
    BY <1>2, <1>5 DEF Bound
  <2>2. QED
    BY <1>2, <1>3, <1>4, <1>5, <2>1 DEF RequestOK
<1>7. QED
  BY <1>1, <1>6, RulingsKept DEF DispatchInv, CrewOK, crewVars, departmentVars, RequestOK, Bound

LEMMA RequestEnds ==
  ASSUME DispatchInv, NEW r \in Requests, RankingRaises(r) \/ PersistDraft(r)
  PROVE  DispatchInv'
<1>1. /\ request' = [request EXCEPT ![r] = Idle]
      /\ UNCHANGED <<complaintVars, departmentVars, crewVars>>
  BY DEF RankingRaises, PersistDraft
<1>2. Idle.at = "IDLE"
  BY DEF Idle
<1>3. \A x \in Requests : RequestOK(request[x])'
  BY <1>1, <1>2 DEF DispatchInv, RequestOK, Bound, departmentVars
<1>4. \A d \in drafts' : Bound(d)
  <2>1. CASE RankingRaises(r)
    BY <2>1 DEF RankingRaises, DispatchInv
  <2>2. CASE PersistDraft(r)
    <3> DEFINE d == [number |-> Cardinality(drafts) + 1, status |-> "PENDING_APPROVAL",
                     worker |-> request[r].worker, department |-> request[r].department,
                     ruled |-> request[r].ruled]
    <3>1. drafts' = drafts \cup {d} /\ request[r].at = "RANKED"
      BY <2>2 DEF PersistDraft
    <3>2. Bound(request[r])
      BY <3>1 DEF DispatchInv, RequestOK
    <3>3. d.ruled = request[r].ruled /\ d.department = request[r].department
      OBVIOUS
    <3> HIDE DEF d
    <3>4. QED
      BY <3>1, <3>2, <3>3 DEF DispatchInv, Bound
  <2>3. QED
    BY <2>1, <2>2
<1>5. QED
  BY <1>1, <1>3, <1>4, RulingsKept DEF DispatchInv, CrewOK, crewVars, departmentVars, Bound

LEMMA ApproveStep ==
  ASSUME DispatchInv, NEW d \in drafts, Approve(d)
  PROVE  DispatchInv'
<1>1. UNCHANGED <<complaintVars, departmentVars, roster, active, request>>
  BY DEF Approve
<1>2. CrewOK'
  <2>1. jobs' \in [Workers -> [JobStatus -> Nat]]
    <3>1. jobs' = jobs \/ jobs' = [jobs EXCEPT ![d.worker]["ASSIGNED"] = @ + 1]
      BY DEF Approve
    <3>2. CASE d.worker \in Workers
      <4>1. jobs[d.worker] \in [JobStatus -> Nat]
        BY <3>2 DEF DispatchInv, CrewOK
      <4>2. QED
        BY <3>1, <3>2, <4>1 DEF DispatchInv, CrewOK, JobStatus
    <3>3. CASE d.worker \notin Workers
      BY <3>1, <3>3 DEF DispatchInv, CrewOK
    <3>4. QED
      BY <3>2, <3>3
  <2>2. QED
    BY <1>1, <2>1 DEF DispatchInv, CrewOK
<1>3. \A e \in drafts' : Bound(e)
  <2> DEFINE e == [d EXCEPT !.status = "ASSIGNED"]
  <2>1. drafts' = (drafts \ {d}) \cup {e} /\ e.ruled = d.ruled /\ e.department = d.department
    BY DEF Approve
  <2> HIDE DEF e
  <2>2. QED
    BY <2>1 DEF DispatchInv, Bound
<1>4. QED
  BY <1>1, <1>2, <1>3, RulingsKept DEF DispatchInv, departmentVars, RequestOK, Bound

LEMMA CrewStep ==
  ASSUME DispatchInv,
         \/ \E w \in Workers : SetStatus(w) \/ \E s \in JobStatus : TakeJob(w, s) \/ EndJob(w, s)
         \/ \E b \in Buckets \ {bucket} : Reprioritize(b)
  PROVE  DispatchInv'
<1>1. UNCHANGED <<departmentVars, roster, request, drafts>>
  BY DEF SetStatus, TakeJob, EndJob, Reprioritize, crewVars
<1>2. CrewOK'
  <2>1. CASE \E w \in Workers, s \in JobStatus : TakeJob(w, s) \/ EndJob(w, s)
    <3>1. PICK w \in Workers, s \in JobStatus : TakeJob(w, s) \/ EndJob(w, s)
      BY <2>1
    <3>2. jobs[w] \in [JobStatus -> Nat] /\ jobs[w][s] \in Nat
      BY DEF DispatchInv, CrewOK
    <3>3. PICK n \in Nat : jobs' = [jobs EXCEPT ![w] = [jobs[w] EXCEPT ![s] = n]]
      <4>0. jobs \in [Workers -> [JobStatus -> Nat]]
        BY DEF DispatchInv, CrewOK
      <4>1. CASE TakeJob(w, s)
        <5>1. jobs' = [jobs EXCEPT ![w] = [jobs[w] EXCEPT ![s] = jobs[w][s] + 1]]
          BY <4>0, <4>1 DEF TakeJob
        <5>2. jobs[w][s] + 1 \in Nat
          BY <3>2
        <5>3. QED
          BY <5>1, <5>2
      <4>2. CASE EndJob(w, s)
        <5>1. jobs' = [jobs EXCEPT ![w] = [jobs[w] EXCEPT ![s] = jobs[w][s] - 1]]
          BY <4>0, <4>2 DEF EndJob
        <5>2. jobs[w][s] - 1 \in Nat
          BY <3>2, <4>2 DEF EndJob
        <5>3. QED
          BY <5>1, <5>2
      <4>3. QED
        BY <3>1, <4>1, <4>2
    <3>4. UNCHANGED <<roster, active>>
      BY <3>1 DEF TakeJob, EndJob
    <3>5. QED
      BY <3>2, <3>3, <3>4 DEF DispatchInv, CrewOK
  <2>2. CASE (\E w \in Workers : SetStatus(w)) \/ \E b \in Buckets \ {bucket} : Reprioritize(b)
    BY <2>2 DEF SetStatus, Reprioritize, crewVars, DispatchInv, CrewOK
  <2>3. QED
    BY <2>1, <2>2
<1>3. QED
  BY <1>1, <1>2, RulingsKept DEF DispatchInv, departmentVars, RequestOK, Bound

LEMMA DispatchStep == DispatchInv /\ [Next]_vars => DispatchInv'
<1> SUFFICES ASSUME DispatchInv, [Next]_vars PROVE DispatchInv'
  OBVIOUS
<1>1. CASE Next
  BY <1>1, DepartmentStep, ReadCaseStep, RankCrewStep, RequestEnds, ApproveStep, CrewStep DEF Next
<1>2. CASE UNCHANGED vars
  BY <1>2, RulingsKept DEF vars, crewVars, departmentVars, DispatchInv, CrewOK, RequestOK, Bound
<1>3. QED
  BY <1>1, <1>2

\* The types of the crew, its jobs, the rulings and the requests, and what a
\* request carries from the moment it read the case and ranked the crew.
THEOREM DispatchIsSound == Spec => []DispatchInv
BY DispatchStart, DispatchStep, PTL DEF Spec

\* Whatever the crew, the load and the urgency: a worker on top of a ranking is
\* outdone by nobody in it.
THEOREM NobodyOutdoesTheBest == Spec => []BestIsOnTop
<1>1. DispatchInv => BestIsOnTop
  BY DEF DispatchInv, RequestOK, BestIsOnTop, Ranked
<1>2. QED
  BY <1>1, DispatchIsSound, PTL

\* Who is recommended had room for another job when the crew was read.
THEOREM RecommendationsHaveRoom == Spec => []RecommendedHasRoom
<1>1. DispatchInv => RecommendedHasRoom
  BY DEF DispatchInv, RequestOK, RecommendedHasRoom, Ranked
<1>2. QED
  BY <1>1, DispatchIsSound, PTL

\* A draft of a dispatch that began after a ruling is for a ruled department,
\* however many rulings, agent runs and requests overlap.
THEOREM RulingsBind == Spec => []RulingBinds
<1>1. DispatchInv => RulingBinds
  BY DEF DispatchInv, Bound, RulingBinds
<1>2. QED
  BY <1>1, DispatchIsSound, PTL
=============================================================================
