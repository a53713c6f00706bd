----------------------------- MODULE Resolution -----------------------------
(***************************************************************************)
(* What the resolution of complaints promises, whatever the officers, the  *)
(* field workers, the agents and the clock do in between: a complaint      *)
(* becomes resolved only by certifying an order of its own that an officer *)
(* commissioned and the verification agent assessed; a certified order is  *)
(* reopened only together with its complaint.                              *)
(***************************************************************************)
CONSTANTS Complaints, Orders, NoComplaint

VARIABLES
  stage,     \* none, draft, refused, open or done
  of,        \* the complaint an order serves
  assessed,  \* orders that have a verdict of the verification agent
  resolved   \* complaints the citizen reads as RESOLVED

vars == <<stage, of, assessed, resolved>>

Init ==
  /\ stage = [o \in Orders |-> "none"]
  /\ of = [o \in Orders |-> NoComplaint]
  /\ assessed = {}
  /\ resolved = {}

Move(o, S, t) ==
  /\ stage[o] \in S
  /\ stage' = [stage EXCEPT ![o] = t]

Draft(o, c) ==
  /\ Move(o, {"none"}, "draft")
  /\ of' = [of EXCEPT ![o] = c]
  /\ UNCHANGED <<assessed, resolved>>

Refuse(o) ==
  /\ Move(o, {"draft"}, "refused")
  /\ UNCHANGED <<of, assessed, resolved>>

Commission(o) ==
  /\ Move(o, {"draft"}, "open")
  /\ UNCHANGED <<of, assessed, resolved>>

Assess(o) ==
  /\ stage[o] \in {"open", "done"}
  /\ assessed' = assessed \cup {o}
  /\ UNCHANGED <<stage, of, resolved>>

Certify(o) ==
  /\ o \in assessed
  /\ Move(o, {"open", "done"}, "done")
  /\ resolved' = resolved \cup {of[o]}
  /\ UNCHANGED <<of, assessed>>

Reopen(o) ==
  /\ o \in assessed
  /\ Move(o, {"open", "done"}, "open")
  /\ resolved' = resolved \ {of[o]}
  /\ UNCHANGED <<of, assessed>>

\* Other work on the complaint, or a new analysis of it, takes it up again.
TakeUp(c) ==
  /\ resolved' = resolved \ {c}
  /\ UNCHANGED <<stage, of, assessed>>

Next ==
  \/ \E o \in Orders :
       \/ \E c \in Complaints : Draft(o, c)
       \/ Refuse(o) \/ Commission(o) \/ Assess(o) \/ Certify(o) \/ Reopen(o)
  \/ \E c \in Complaints : TakeUp(c)

Spec == Init /\ [][Next]_vars

\* Every resolved complaint has a certified, assessed order behind it.
Backed ==
  \A c \in resolved :
    \E o \in Orders : of[o] = c /\ stage[o] = "done" /\ o \in assessed
=============================================================================
