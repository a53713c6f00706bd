---------------------------- MODULE MCSlaMonitor ----------------------------
(* One order, a department of its own and another one. *)
EXTENDS SlaMonitor

CONSTANTS roads, water

OneDepartment == [o \in Orders |-> roads]
RoadScopes == {None, roads}
=============================================================================
