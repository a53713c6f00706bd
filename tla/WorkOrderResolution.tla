------------------------- MODULE WorkOrderResolution -------------------------
(***************************************************************************)
(* WorkOrder implements Resolution: the statuses between approval and      *)
(* certification, the assignment book, the evidence and the reviews'       *)
(* commits are detail.                                                     *)
(***************************************************************************)
EXTENDS WorkOrder

Stage(o) ==
  CASE ~Exists(o) -> "none"
    [] InStatus(o, {"PENDING_APPROVAL"}) -> "draft"
    [] InStatus(o, {"REJECTED"}) -> "refused"
    [] InStatus(o, {"COMPLETED"}) -> "done"
    [] OTHER -> "open"

stageBar == [o \in Orders |-> Stage(o)]
ofBar == [o \in Orders |-> IF Exists(o) THEN order[o].complaint ELSE None]
assessedBar == {o \in Orders : verdict[o] # None}
resolvedBar == {c \in Complaints : complaint[c] = "RESOLVED"}

Promise == INSTANCE Resolution
  WITH NoComplaint <- None, stage <- stageBar, of <- ofBar,
       assessed <- assessedBar, resolved <- resolvedBar

\* Every behaviour of the handlers is one the abstract resolution allows.
ImplementsResolution == Promise!Spec
=============================================================================
