------------------------ MODULE MCVerifyRepairAgent ------------------------
(* The answers for the instances of VerifyRepairAgent. *)
EXTENDS VerifyRepairAgent

\* One answer on each side of every gate.
EdgeAnswers ==
  {[status |-> "VERIFIED", confidence |-> 2, review |-> FALSE],
   [status |-> "VERIFIED", confidence |-> 1, review |-> FALSE],
   [status |-> "PARTIALLY_RESOLVED", confidence |-> 0, review |-> TRUE]}
=============================================================================
