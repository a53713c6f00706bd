---------------------------- MODULE MCWorkOrder ----------------------------
(* An instance of WorkOrder for TLC: either two workers meet over the book of
   assignments, or two officers over the verdicts on one worker's job. *)
EXTENDS WorkOrderResolution, TLC

VARIABLE focus  \* which of the two a behaviour is about

\* Workers are compared with nothing but each other, and so are officers.
Symmetric == Permutations(Workers) \cup Permutations(Officers)

AllVars == <<vars, focus>>

\* The workers an order has met.
Known(o) ==
  {w \in Workers : Holds(w, o)} \cup {assignments[o][i].worker : i \in DOMAIN assignments[o]}

\* Bounds of the reviews: one worker, on duty once the verification starts, two
\* assignment rows, and no analysis of the complaint; of the book: no verification.
Reviews ==
  /\ onDuty' = Workers \/ (\A o \in Orders : runs'[o] = 0)
  /\ \A o \in Orders : Cardinality(Known(o)') <= 1 /\ Len(assignments'[o]) <= 2
  /\ \A c \in Complaints : complaint'[c] \notin Analysed

MCInit == Init /\ focus \in {"book", "review"}
MCNext ==
  /\ UNCHANGED focus
  /\ Next
  /\ focus = "book" => UNCHANGED runs
  /\ focus = "review" => Reviews
MCSpec == MCInit /\ [][MCNext]_AllVars
=============================================================================
