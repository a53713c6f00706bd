--------------------------- MODULE RoutingEngine ---------------------------
(***************************************************************************)
(* services/routing_engine.py: which of the seven departments a complaint  *)
(* is for.  Its confidence is read by nothing and is  *)
(* left out.  The category OTHER is GENERAL, as in PriorityRulebook.       *)
(***************************************************************************)
EXTENDS Integers

CategoryPrimary ==
  [WATER |-> "WATER", WATER_LEAK |-> "WATER", ROAD |-> "ROADS", ELECTRICITY |-> "ELECTRICAL",
   STREET_LIGHTING |-> "ELECTRICAL", GARBAGE |-> "WASTE", SANITATION |-> "WASTE",
   DRAINAGE |-> "DRAINAGE", FLOODING |-> "DRAINAGE", PARKS |-> "PARKS", FALLEN_TREE |-> "PARKS",
   PUBLIC_SAFETY |-> "EMERGENCY_DISASTER"]

Department == {CategoryPrimary[c] : c \in DOMAIN CategoryPrimary}
Routable(category) == category \in DOMAIN CategoryPrimary

\* fallen: the description tells of fallen, exposed or sparking equipment.
Collaborators(category, fallen) ==
  CASE category = "FLOODING" -> {"ROADS"}
    [] category = "ELECTRICITY" /\ fallen -> {"EMERGENCY_DISASTER"}
    [] OTHER -> {}

\* What no department answers for goes to DRAINAGE, marked for a human.
RouteComplaint(category, fallen) ==
  [primary |-> IF Routable(category) THEN CategoryPrimary[category] ELSE "DRAINAGE",
   secondary |-> Collaborators(category, fallen),
   ambiguous |-> ~Routable(category)]
=============================================================================
