SPECIFICATION MCSpec
CONSTANTS
  Complaints = {c1}
  Orders = {o1}
  Workers = {w1, w2}
  Officers = {u1, u2}
  None = None
  Capacity = 1
  AiVerdicts = {"VERIFIED", "NOT_RESOLVED"}
  Analysed = {"PRIORITIZED"}
  MaxAssignments = 3
  MaxRounds = 2
  MaxRuns = 2
SYMMETRY Symmetric
INVARIANTS
  NoWorkBeforeApproval
  HolderOnRecord
  CertifiedStands
  ReturnedIsOnRecord
  ResolvedIsBacked
PROPERTIES
  ReviewIsFinal
  ImplementsResolution
