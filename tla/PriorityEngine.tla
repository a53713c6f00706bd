--------------------------- MODULE PriorityEngine ---------------------------
(***************************************************************************)
(* The priority score of one complaint: what the data service collects,    *)
(* the six components of services/priority_engine.py and the amplifiers.   *)
(* Around it the context changes as it does between two priority runs: the *)
(* label is revised, the registry finds a facility or finds it nearer, the *)
(* weather and the reports nearby change, a lookup fails or works again.   *)
(* Units are thousandths, cut after every product.                         *)
(***************************************************************************)
EXTENDS PriorityRulebook, FiniteSets, FiniteSetsExt

CONSTANTS
  Missing,     \* no number, no facility in range, a lookup that failed
  MaxPoints,   \* PRIORITY_WEIGHT_*: the points of each component
  Categories,  \* the categories enumerated
  Named,       \* facility types the description may name, or Missing
  Facilities, TypeOf, Verified, \* the facilities there are, and the registry's own
  Distances,   \* metres at which one may be found
  Skies,       \* what the weather service may answer
  Areas,       \* what the counts of the reports nearby may be
  Proofs       \* the evidence a complaint may have

ASSUME FacilityAssumption ==
  /\ TypeOf \in [Facilities -> FacilityType] /\ Verified \subseteq Facilities
  /\ Distances \subseteq 0..500 /\ Missing \notin Int /\ Categories \subseteq Category
\* Not ensured by the settings: a severity weight of 30 breaks it.
ASSUME WeightAssumption ==
  LET Sub(fraction) == Points(fraction, MaxPoints.severity) IN
  Sub(400) + Sub(200) + Sub(120) + Sub(160) + Sub(120) <= MaxPoints.severity

VARIABLES context, score
caseVars == <<context, score>>

Sky == [rain : Nat \cup {Missing}, recent : Nat \cup {Missing}, forecast : Nat \cup {Missing},
        chance : 0..100 \cup {Missing}, rainy : BOOLEAN]
\* Reports within 250, 500 and 1000 m over 7 and 30 days, their reporters, the
\* unresolved ones, how far they spread; of the same category, in the ward.
Area == [d250 : Nat, d500 : Nat, d1000 : Nat, m500 : Nat, m1000 : Nat,
         people7 : Nat, people30 : Nat, open7 : Nat, open30 : Nat, spread : Nat,
         same7 : Nat, same30 : Nat, near30 : Nat, cluster : Nat, similar : Nat,
         ward : Nat \cup {Missing}]  \* Missing: the complaint is in no ward
\* accuracy 0: not known; triage and vision Missing: no latest run that succeeded.
Proof == [accuracy : Nat, chars : Nat, media : Nat, structured : BOOLEAN,
          triage : 0..One \cup {Missing}, vision : 0..One \cup {Missing}, mismatch : BOOLEAN]
\* located: the complaint has coordinates; without them nothing is looked up and
\* nothing is near it.  found: how far each facility is, or Missing: no lookup.
Context == [category : Categories, label : DOMAIN BaseOfLabel, named : Named,
            located : BOOLEAN, found : [Facilities -> Distances \cup {Missing}] \cup {Missing},
            sky : Skies \cup {Missing}, area : Areas, proof : Proofs]

-----------------------------------------------------------------------------
(* What is near. *)

InRange(c) == IF c.found = Missing THEN {} ELSE {f \in Facilities : c.found[f] # Missing}
Within(c, types, limit) == {f \in InRange(c) : TypeOf[f] \in types /\ c.found[f] <= limit}
Nearest(c, facilities) == Min({c.found[f] : f \in facilities})

\* best_facility_match: verified facilities of the type the description names.
Matches(c) == {f \in InRange(c) \cap Verified : TypeOf[f] = c.named}

\* _severity_context_open: a LOW label needs the description to name a facility.
ContextOpen(c) == BaseOfLabel[c.label] >= BaseOfLabel.MEDIUM \/ c.named # Missing

\* _weather_precip_signals.
Amounts(sky) == {sky.rain, sky.recent, sky.forecast} \ {Missing}
Likely(sky) ==
  sky.forecast # Missing /\ sky.chance # Missing /\ sky.forecast > 0 /\ sky.chance >= 60
Precipitation(sky) ==
  IF sky = Missing THEN 0
  ELSE Max({RainSignal(mm) : mm \in Amounts(sky)} \cup {IF Likely(sky) THEN 450 ELSE 0})

-----------------------------------------------------------------------------
(* Severity: five parts, each under a maximum of its own. *)

EmergencyTier(c) ==
  IF ~ContextOpen(c) \/ c.category \notin AccessAffecting THEN 0
  ELSE IF Within(c, Emergency, 50) # {} THEN One
  ELSE IF Within(c, Emergency, 100) # {} THEN 800
  ELSE IF Within(c, Emergency, 150) # {} THEN 600 ELSE 0

\* The inherent hazard, and people nearby where no emergency tier applies.
Inherent(c) ==
  LET half == Hazard[c.category] \div 2
      exposed == /\ ContextOpen(c) /\ EmergencyTier(c) = 0
                 /\ c.category \in PublicAffecting /\ Within(c, PeopleExposing, 150) # {}
  IN IF exposed THEN half + 150 ELSE half

RainHarm(c) ==
  IF c.category \in WetAffected /\ Precipitation(c.sky) > 0
  THEN 400 + Times(600, Precipitation(c.sky)) ELSE 0

Corroboration(c) ==
  Times(50, Share(c.area.d500 + c.area.d250, 6)) + Times(50, Share(c.area.people7, 4))

SafetyUnit(c) ==
  Clamp(Larger(Larger(Inherent(c), EmergencyTier(c)), RainHarm(c)) + Corroboration(c))

AccessibilityUnit(c) ==
  LET exposed == Within(c, Emergency \cup PeopleExposing, 500) IN
  IF c.category \notin AccessAffecting \/ ~ContextOpen(c) \/ exposed = {} THEN 0
  ELSE Larger(350 + Times(650, Band(Nearest(c, exposed))), 600)

\* The named facility when it is verified, else the nearest that matters.
CriticalTargets(c) ==
  IF c.named \in Emergency /\ ExplicitRelevant(c.category, c.named) /\ Matches(c) # {}
  THEN Matches(c)
  ELSE {f \in Within(c, Emergency, 500) : ExplicitRelevant(c.category, TypeOf[f])}
CriticalUnit(c) ==
  IF ~ContextOpen(c) \/ CriticalTargets(c) = {} THEN 0
  ELSE 250 + Times(750, Band(Nearest(c, CriticalTargets(c))))

EnvironmentalUnit(c) == Clamp(Times(Precipitation(c.sky), Multiplier[c.category]))

\* The five parts, scored; the component is their sum.
Part(unit, fraction) == Points(unit, Points(fraction, MaxPoints.severity))
Severity(c) ==
  Part(BaseOfLabel[c.label], 400) + Part(SafetyUnit(c), 200) + Part(AccessibilityUnit(c), 120)
    + Part(CriticalUnit(c), 160) + Part(EnvironmentalUnit(c), 120)

-----------------------------------------------------------------------------
(* The other five components: points, or Missing where the data is missing. *)

Contribution(c, f) ==
  Times(Smaller(1500, Times(BaseRelevance[TypeOf[f]], Factor(c.category, TypeOf[f]))), Band(c.found[f]))

AccessBonus(c) ==
  IF c.category \notin AccessAffecting THEN 0
  ELSE IF Within(c, Emergency, 50) # {} THEN 280
  ELSE IF Within(c, Emergency, 100) # {} THEN 180 ELSE 0

ContextualUnit(c) ==
  IF InRange(c) = {} THEN 0
  ELSE LET peak == Max({Contribution(c, f) : f \in InRange(c)})
           total == MapThenSumSet(LAMBDA f : Contribution(c, f), InRange(c))
       IN Clamp(Times(600, Smaller(One, peak)) + Times(250, Saturated(total, 2200)) + AccessBonus(c))

\* The 30/30 rule: the description names it, the registry verifies it, it matters.
ExplicitRule(c) == Matches(c) # {} /\ ExplicitRelevant(c.category, c.named)

Infrastructure(c) ==
  IF c.found = Missing THEN Missing
  ELSE Points(IF ExplicitRule(c) THEN One ELSE ContextualUnit(c), MaxPoints.infrastructure)

ReportPressure(a) ==
  Times(300, Share(a.d500, 8)) + Times(200, Share(a.d250, 4)) + Times(100, Share(a.d1000, 20))
    + Times(100, Share(a.m500, 20)) + Times(50, Share(a.m1000, 40))
    + Times(100, Share(a.people7, 4)) + Times(50, Share(a.people30, 10))
    + Times(100, Share(a.open7, 6)) + Times(50, Share(a.open30, 12))

\* PRIORITY_SENSITIVE_FACILITY_BAND_M is 300.
SensitiveExposure(c) ==
  Saturated(MapThenSumSet(LAMBDA f : Band(c.found[f]), Within(c, Sensitive, 300)), 2000)

\* The density grid is never available: the other three are renormalised.
Population(c) ==
  IF ~c.located THEN Missing
  ELSE LET weighted == 250 * ReportPressure(c.area) + 100 * Share(c.area.spread, 1000)
                         + 350 * SensitiveExposure(c)
       IN Points(Clamp(weighted \div 700), MaxPoints.population)

History(c) ==
  IF ~c.located /\ c.area.ward = Missing THEN Missing
  ELSE Points(Times(250, Share(c.area.same30, 10)) + Times(200, Share(c.area.same7, 5))
                + Times(150, Share(c.area.cluster, 6)) + Times(100, IF c.area.ward = Missing THEN 0 ELSE Share(c.area.ward, 40))
                + Times(150, Share(c.area.near30, 20)) + Times(150, Share(c.area.similar, 4)),
              MaxPoints.history)

\* A forecast counts for more the likelier it is, in full when no chance is given.
ForecastSignal(sky) ==
  Times(RainSignal(sky.forecast), IF sky.chance = Missing THEN One ELSE 600 + 4 * sky.chance)
WeatherSignals(sky) ==
  (IF sky.recent # Missing THEN {Times(RainSignal(sky.recent), 900)} ELSE {})
  \cup (IF sky.rain # Missing THEN {RainSignal(sky.rain)} ELSE {})
  \cup (IF sky.forecast # Missing THEN {ForecastSignal(sky)} ELSE {})
  \cup (IF sky.rainy THEN {550} ELSE {})
  \cup (IF Likely(sky) THEN {IF sky.chance >= 85 THEN 600 ELSE 450} ELSE {})
Weather(c) ==
  IF c.sky = Missing THEN Missing
  ELSE Points(Clamp(Times(Max(WeatherSignals(c.sky) \cup {0}), Multiplier[c.category])), MaxPoints.weather)

\* ai_evidence_confidence: vision where it ran and agrees, else triage.
Confidence(p) == IF p.vision # Missing /\ ~p.mismatch THEN p.vision ELSE p.triage
PlainEvidence(c) ==
  LET p == c.proof IN
  Times(300, IF ~c.located THEN 0
             ELSE IF p.accuracy = 0 THEN 900 ELSE 600 + Times(400, One - Share(p.accuracy, 100)))
    + Times(200, Share(p.chars, 300)) + Times(200, Share(p.media, 2))
    + (IF p.structured THEN 150 ELSE 0)
    + Times(150, Share(c.area.near30, 6))
Unproved(c) ==
  LET p == c.proof IN
  ~c.located /\ p.chars = 0 /\ p.media = 0 /\ ~p.structured /\ p.triage = Missing /\ p.vision = Missing
Evidence(c) ==
  IF Unproved(c) THEN Missing
  ELSE Points(Larger(Smaller(PlainEvidence(c), 850),
                     IF Confidence(c.proof) = Missing THEN 0 ELSE Confidence(c.proof)), MaxPoints.evidence)

-----------------------------------------------------------------------------
(* Amplifiers, total, bucket, readiness. *)

RainThreshold == 5

FloodingRisk(c) ==
  /\ c.category \in FloodProne
  /\ \/ c.sky # Missing /\ c.sky.rain # Missing /\ c.sky.rain >= RainThreshold
     \/ c.sky # Missing /\ c.sky.forecast # Missing /\ c.sky.forecast >= RainThreshold
     \/ c.area.same30 > 0
     \* "Weather data is live (no rain signal yet)"
     \/ c.sky # Missing /\ c.sky.rain = Missing /\ c.sky.forecast = Missing
EmergencyAccessRisk(c) == c.category \in AccessAffecting /\ Within(c, Emergency, 250) # {}
PublicSafetyRisk(c) == c.category \in PublicSafety /\ Within(c, PeopleExposing, 150) # {}
RecurringHotspot(c) == c.area.same30 >= 5 /\ c.area.similar >= 1

Amplifiers(c) ==
  (IF FloodingRisk(c) THEN 6 ELSE 0) + (IF EmergencyAccessRisk(c) THEN 5 ELSE 0)
    + (IF PublicSafetyRisk(c) THEN 5 ELSE 0) + (IF RecurringHotspot(c) THEN 4 ELSE 0)

Scored(c) ==
  [severity |-> Severity(c), infrastructure |-> Infrastructure(c), population |-> Population(c),
   history |-> History(c), weather |-> Weather(c), evidence |-> Evidence(c)]
Sum(components) ==
  MapThenSumSet(LAMBDA k : IF components[k] = Missing THEN 0 ELSE components[k], DOMAIN components)

ScorePriority(c) == Smaller(100, Smaller(100, Sum(Scored(c))) + Amplifiers(c))

PriorityFromScore(s) ==
  IF s >= 80 THEN "P1_CRITICAL" ELSE IF s >= 60 THEN "P2_HIGH" ELSE IF s >= 40 THEN "P3_MEDIUM" ELSE "P4_LOW"
Readiness(components) ==
  LET n == Cardinality({k \in DOMAIN components : components[k] # Missing}) IN
  IF n >= 5 THEN "READY" ELSE IF n >= 3 THEN "PARTIAL" ELSE "INSUFFICIENT_DATA"

-----------------------------------------------------------------------------
(* One complaint, scored again whenever something about it has changed.     *)

Rescore(c) == context' = c /\ score' = ScorePriority(c)

\* What the counts may be: only the ward's where there are no coordinates.
Counted(located, ward) ==
  {a \in Areas : /\ (a.ward = Missing) = (ward = Missing)
                 /\ located \/ \A k \in DOMAIN a \ {"ward"} : a[k] = 0}

CaseInit ==
  /\ context \in [category : Categories, label : {"LOW"}, named : Named, located : BOOLEAN,
                  found : {Missing}, sky : {Missing}, area : Areas, proof : Proofs]
  /\ context.area \in Counted(context.located, context.area.ward)
  /\ score = ScorePriority(context)

\* A later triage labels the complaint anew.
Relabel ==
  \E l \in DOMAIN BaseOfLabel \ {context.label} : Rescore([context EXCEPT !.label = l])

\* A facility is registered, removed, or found at another distance.
Survey ==
  /\ context.found # Missing
  /\ \E f \in Facilities, d \in Distances \cup {Missing} :
       d # context.found[f] /\ Rescore([context EXCEPT !.found[f] = d])

WeatherTurns ==
  /\ context.sky # Missing
  /\ \E s \in Skies \ {context.sky} : Rescore([context EXCEPT !.sky = s])

ReportsArrive ==
  \E a \in Counted(context.located, context.area.ward) \ {context.area} :
    Rescore([context EXCEPT !.area = a])

EvidenceArrives == \E p \in Proofs \ {context.proof} : Rescore([context EXCEPT !.proof = p])

\* The data service degrades each lookup by itself and never fails the run.
LookupFails ==
  \E k \in {"found", "sky"} : context[k] # Missing /\ Rescore([context EXCEPT ![k] = Missing])
LookupWorks ==
  /\ context.located
  /\ \/ /\ context.found = Missing
        /\ \E f \in [Facilities -> Distances \cup {Missing}] : Rescore([context EXCEPT !.found = f])
     \/ /\ context.sky = Missing
        /\ \E s \in Skies : Rescore([context EXCEPT !.sky = s])

CaseNext ==
  \/ Relabel \/ Survey \/ WeatherTurns \/ ReportsArrive \/ EvidenceArrives
  \/ LookupFails \/ LookupWorks

CaseSpec == CaseInit /\ [][CaseNext]_caseVars

-----------------------------------------------------------------------------
(* When one context is at least as bad as another. *)

\* Both numbers are missing, or both are there and the second is no smaller.
NoLess(x, y) == (x = Missing /\ y = Missing) \/ (x # Missing /\ y # Missing /\ x <= y)

NoDrier(s, t) ==
  \/ s = Missing
  \/ /\ s # Missing /\ t # Missing /\ (s.rainy => t.rainy)
     /\ \A k \in {"rain", "recent", "forecast", "chance"} : NoLess(s[k], t[k])
NoFewer(a, b) == \A k \in DOMAIN a : NoLess(a[k], b[k])
NoFarther(c, d) == \A f \in InRange(c) : f \in InRange(d) /\ d.found[f] <= c.found[f]

\* critical_infra_unit drops a nearer facility for the named one once it is verified.
TargetSwitches(c, d) == c.named \in Emergency /\ Matches(c) = {} /\ Matches(d) # {}

NoBetter(c, d) ==
  /\ BaseOfLabel[c.label] <= BaseOfLabel[d.label]
  /\ NoFarther(c, d) /\ NoDrier(c.sky, d.sky) /\ NoFewer(c.area, d.area)
  /\ c.proof = d.proof /\ ~TargetSwitches(c, d)

-----------------------------------------------------------------------------
(* Properties. *)

\* A complaint never loses points because something got worse, a lookup that
\* answers again included: a higher label, a nearer facility, more rain or more
\* reports never lower the score, and the failure of a lookup never raises it
\* (score_from_units: "a missing factor never inflates the others").
WorseNeverScoresLower == [][NoBetter(context, context') => score <= score']_caseVars

=============================================================================
