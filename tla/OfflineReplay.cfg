SPECIFICATION Spec
CONSTANTS
  Actions = {a1, a2}
  Photos = {}
  Accepts = {}
  Runs = {r1, r2}
  Room = 1
  MaxCalls = 3
CHECK_DEADLOCK FALSE
INVARIANT AppliedOnce
