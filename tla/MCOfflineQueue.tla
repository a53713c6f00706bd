---------------------------- MODULE MCOfflineQueue ----------------------------
(* What one user does beside the complaints: the worker's queue of offline      *)
(* actions, a browser's session, or the administration of accounts.             *)
EXTENDS OfflineQueue, Sessions, Administration, TLC

VARIABLE focus  \* which of the three a behaviour is about

\* Neither overlapping runs nor photos, tabs or requests have names.
Symmetric ==
  {p @@ q : p \in Permutations(Runs), q \in Permutations(Photos)}
    \cup Permutations(Tabs) \cup Permutations(Fetches)

MCInit == Init /\ SessionInit /\ AdminInit /\ focus \in {"queue", "session", "accounts"}
MCNext ==
  /\ UNCHANGED focus
  /\ \/ focus = "queue" /\ Next /\ UNCHANGED <<sessionVars, adminVars>>
     \/ focus = "session" /\ SessionNext /\ UNCHANGED <<vars, adminVars>>
     \/ focus = "accounts" /\ AdminNext /\ UNCHANGED <<vars, sessionVars>>
MCSpec == MCInit /\ [][MCNext]_<<vars, sessionVars, adminVars, focus>>
=============================================================================
