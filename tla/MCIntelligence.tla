--------------------------- MODULE MCIntelligence ---------------------------
(* What each request of an instance of Intelligence may be. *)
EXTENDS Intelligence

\* Two requests that may overlap, then one view after another.
FourKinds == <<{"triage", "vision", "view"}, {"triage", "priority", "view"}, {"view"}, {"context", "view"}>>
=============================================================================
