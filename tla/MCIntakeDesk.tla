---------------------------- MODULE MCIntakeDesk ----------------------------
(* What is computed of a complaint after its intake: its duplicates, of two   *)
(* complaints of one street corner and a third, far away, in the same words,  *)
(* or its priority.                                                           *)
EXTENDS Correlation, PriorityEngine, TLC

CONSTANTS hospital, station

VARIABLE focus  \* which of the two a behaviour is about

MCAbout ==
  "a" :> [where |-> 100, text |-> "pothole", category |-> "ROAD", hour |-> 0]
  @@ "b" :> [where |-> 160, text |-> "water", category |-> "FLOODING", hour |-> 30]
  @@ "c" :> [where |-> 5000, text |-> "pothole", category |-> "ROAD", hour |-> 50]
MCAlike == [p \in {"pothole", "water"} \X {"pothole", "water"} |-> IF p[1] = p[2] THEN 950 ELSE 300]
Symmetric == Permutations(Decisions) \cup Permutations(Requests)

Weights == [severity |-> 25, infrastructure |-> 30, population |-> 10, history |-> 5,
            weather |-> 10, evidence |-> 20]
Types == (hospital :> "HOSPITAL") @@ (station :> "POLICE_STATION")
Metres == {40, 90, 140, 240, 400}
Samples == {"ROAD", "DRAINAGE", "ELECTRICITY"}
NamedOnes == {Missing, "HOSPITAL"}

Dry == [rain |-> 0, recent |-> 0, forecast |-> 0, chance |-> 10, rainy |-> FALSE]
Storm == [rain |-> 45, recent |-> 20, forecast |-> 60, chance |-> 90, rainy |-> TRUE]
SkySamples ==
  {Dry, Storm, [Dry EXCEPT !.rain = 4, !.rainy = TRUE], [Dry EXCEPT !.forecast = 8, !.chance = 70],
   [Dry EXCEPT !.rain = Missing, !.recent = Missing, !.forecast = Missing, !.chance = Missing]}

Quiet == [k \in {"d250", "d500", "d1000", "m500", "m1000", "people7", "people30", "open7", "open30",
                 "spread", "same7", "same30", "near30", "cluster", "ward", "similar"} |-> 0]
Several == [Quiet EXCEPT !.d500 = 2, !.m500 = 3, !.people7 = 1, !.same30 = 5, !.near30 = 3]
Many == [k \in DOMAIN Quiet |-> IF k = "spread" THEN 1200 ELSE 50]
AreaSamples == {[Quiet EXCEPT !.ward = Missing], Quiet, Several, Many}

Bare == [accuracy |-> 0, chars |-> 0, media |-> 0, structured |-> FALSE,
         triage |-> Missing, vision |-> Missing, mismatch |-> FALSE]
ProofSamples == {Bare, [accuracy |-> 20, chars |-> 120, media |-> 2, structured |-> TRUE,
                        triage |-> 980, vision |-> Missing, mismatch |-> FALSE]}

\* A correlation never reads the priority: one context stands for all.
OneCase ==
  /\ context.category = "ROAD" /\ context.named = Missing /\ ~context.located
  /\ context.area = Quiet /\ context.proof = Bare

MCInit ==
  /\ Init /\ CaseInit
  /\ \/ focus = "duplicates" /\ OneCase
     \/ focus = "priority"
MCNext ==
  /\ UNCHANGED focus
  /\ \/ focus = "duplicates" /\ Next /\ UNCHANGED caseVars
     \/ focus = "priority" /\ CaseNext /\ UNCHANGED vars
MCSpec == MCInit /\ [][MCNext]_<<vars, caseVars, focus>>
=============================================================================
