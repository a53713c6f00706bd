SPECIFICATION Spec
CONSTANTS
  None = None
  Severities = {low, high}
  Default = low
  Requests = {1, 2, 3, 4}
  Kinds <- FourKinds
  Late = {3, 4}
  MaxRuns = 5
  MaxFaults = 1
CHECK_DEADLOCK FALSE
INVARIANTS
  SettledStays
  ScoreReflectsSeverity
  StatusIsEarned
PROPERTIES
  RunsEnd
