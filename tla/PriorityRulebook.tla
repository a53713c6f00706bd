-------------------------- MODULE PriorityRulebook --------------------------
(***************************************************************************)
(* The tables of services/priority_engine.py, in thousandths, and the few  *)
(* numeric helpers its components share.  The key OTHER of a table is     *)
(* GENERAL here: OTHER is a word of the language.                          *)
(***************************************************************************)
EXTENDS Integers

One == 1000

BaseOfLabel == [LOW |-> 300, MEDIUM |-> 600, HIGH |-> 900, CRITICAL |-> 1000]

Multiplier ==
  [FLOODING |-> 1600, DRAINAGE |-> 1600, WATER_LEAK |-> 1200, WATER |-> 1000, ROAD |-> 1000,
   FALLEN_TREE |-> 1000, SANITATION |-> 800, PUBLIC_SAFETY |-> 700, ELECTRICITY |-> 600,
   GARBAGE |-> 500, PARKS |-> 400, GENERAL |-> 400, STREET_LIGHTING |-> 150]

Hazard ==
  [ELECTRICITY |-> 900, PUBLIC_SAFETY |-> 800, FLOODING |-> 850, FALLEN_TREE |-> 750,
   SANITATION |-> 700, GARBAGE |-> 600, WATER_LEAK |-> 550, WATER |-> 500, DRAINAGE |-> 500,
   ROAD |-> 450, GENERAL |-> 250, STREET_LIGHTING |-> 150, PARKS |-> 100]

Category == DOMAIN Hazard

AccessAffecting ==
  {"ROAD", "FLOODING", "DRAINAGE", "FALLEN_TREE", "WATER_LEAK", "SANITATION", "PUBLIC_SAFETY", "GARBAGE"}
PublicAffecting ==
  {"ROAD", "STREET_LIGHTING", "DRAINAGE", "FLOODING", "PUBLIC_SAFETY", "ELECTRICITY",
   "FALLEN_TREE", "SANITATION", "GARBAGE"}
PublicSafety == {"PUBLIC_SAFETY", "ELECTRICITY", "FALLEN_TREE", "ROAD", "DRAINAGE", "FLOODING"}
FloodProne == {"FLOODING", "DRAINAGE", "WATER_LEAK", "SANITATION"}
WetAffected == {"FLOODING", "DRAINAGE", "WATER_LEAK", "WATER"}

BaseRelevance ==
  [HOSPITAL |-> 900, FIRE_STATION |-> 850, SCHOOL |-> 750, POLICE_STATION |-> 700, TRANSPORT |-> 500,
   BUS_STOP |-> 450, ROAD |-> 500, PUBLIC_FACILITY |-> 300, GOVERNMENT_BUILDING |-> 250, GENERAL |-> 100]

FacilityType == DOMAIN BaseRelevance
Emergency == {"HOSPITAL", "FIRE_STATION", "POLICE_STATION"}
PeopleExposing == {"SCHOOL", "HOSPITAL", "TRANSPORT", "BUS_STOP", "PUBLIC_FACILITY"}
Sensitive == Emergency \cup {"SCHOOL", "TRANSPORT", "BUS_STOP"}

\* _CATEGORY_FACILITY_FACTORS: 1.0 for every pair that is not listed.
RaisedFactor ==
  [ROAD |-> [HOSPITAL |-> 1100, SCHOOL |-> 1100, FIRE_STATION |-> 1150, POLICE_STATION |-> 1200,
             TRANSPORT |-> 1200, BUS_STOP |-> 1200],
   FLOODING |-> [HOSPITAL |-> 1100, FIRE_STATION |-> 1200, SCHOOL |-> 1100, TRANSPORT |-> 900,
                 BUS_STOP |-> 900],
   DRAINAGE |-> [HOSPITAL |-> 1100, FIRE_STATION |-> 1150, SCHOOL |-> 1100],
   SANITATION |-> [HOSPITAL |-> 1150, SCHOOL |-> 1150, BUS_STOP |-> 1100],
   GARBAGE |-> [HOSPITAL |-> 1200, SCHOOL |-> 1200, BUS_STOP |-> 1100],
   WATER_LEAK |-> [HOSPITAL |-> 1150, SCHOOL |-> 1100, FIRE_STATION |-> 1100],
   WATER |-> [HOSPITAL |-> 1050],
   PUBLIC_SAFETY |-> [HOSPITAL |-> 1200, SCHOOL |-> 1150, POLICE_STATION |-> 1200,
                      TRANSPORT |-> 1200, BUS_STOP |-> 1200],
   STREET_LIGHTING |-> [SCHOOL |-> 1300, HOSPITAL |-> 1100, TRANSPORT |-> 1200, BUS_STOP |-> 1300],
   ELECTRICITY |-> [HOSPITAL |-> 1100, FIRE_STATION |-> 1200],
   FALLEN_TREE |-> [HOSPITAL |-> 1100, FIRE_STATION |-> 1200, POLICE_STATION |-> 1100],
   PARKS |-> [SCHOOL |-> 1100, BUS_STOP |-> 1100]]

Factor(category, type) ==
  IF category \in DOMAIN RaisedFactor /\ type \in DOMAIN RaisedFactor[category]
  THEN RaisedFactor[category][type] ELSE One

\* _SCORE30_RELEVANT_FACILITIES, for the categories that are not access-affecting.
ListedFacilities ==
  [WATER |-> {"HOSPITAL", "SCHOOL"},
   STREET_LIGHTING |-> {"SCHOOL", "HOSPITAL", "TRANSPORT", "BUS_STOP", "POLICE_STATION"},
   ELECTRICITY |-> {"HOSPITAL", "FIRE_STATION", "SCHOOL"},
   PARKS |-> {"SCHOOL", "BUS_STOP", "HOSPITAL"}]

\* explicit_facility_relevant: Sensitive is the list an access-affecting category uses.
ExplicitRelevant(category, type) ==
  \/ category \in AccessAffecting /\ type \in Sensitive
  \/ category \in DOMAIN ListedFacilities /\ type \in ListedFacilities[category]

Clamp(x) == IF x < 0 THEN 0 ELSE IF x > One THEN One ELSE x
Larger(x, y) == IF x < y THEN y ELSE x
Smaller(x, y) == IF x < y THEN x ELSE y

\* A product of two thousandths; a share of n in a cap.
Times(x, y) == (x * y) \div One
Share(n, cap) == Smaller(One, (n * One) \div cap)

\* Python's round of a quotient: to the nearest, a tie to the even one.
Rounded(n, d) ==
  LET q == n \div d
      r == n % d
  IN IF 2 * r > d \/ (2 * r = d /\ q % 2 = 1) THEN q + 1 ELSE q

\* The points of a unit under a maximum.
Points(unit, max) == Rounded(unit * max, One)

\* A mutated form of Band: two factors in the wrong order.
BandSwapped(distance) ==
  IF distance <= 50 THEN One
  ELSE IF distance <= 100 THEN 600
  ELSE IF distance <= 250 THEN 900
  ELSE IF distance <= 500 THEN 350 ELSE 0

\* distance_band_factor.
Band(distance) ==
  IF distance <= 50 THEN One
  ELSE IF distance <= 100 THEN 900
  ELSE IF distance <= 250 THEN 600
  ELSE IF distance <= 500 THEN 350 ELSE 0

\* _rain_signal_mm: linear between the points of _RAIN_MM_SIGNAL.
RainSignal(mm) ==
  IF mm <= 1 THEN 250 * mm
  ELSE IF mm <= 5 THEN 250 + (250 * (mm - 1)) \div 4
  ELSE IF mm <= 8 THEN 500 + (100 * (mm - 5)) \div 3
  ELSE IF mm <= 20 THEN 600 + (250 * (mm - 8)) \div 12
  ELSE IF mm <= 40 THEN 850 + (150 * (mm - 20)) \div 20 ELSE One

\* 1 - exp(-total/saturation), with four terms of the series of exp.
Saturated(total, saturation) ==
  LET x1 == (total * One) \div saturation
      x2 == (x1 * x1) \div 2000
      x3 == (x2 * x1) \div 3000
      x4 == (x3 * x1) \div 4000
  IN One - (One * One) \div (One + x1 + x2 + x3 + x4)
=============================================================================
