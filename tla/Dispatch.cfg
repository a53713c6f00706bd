SPECIFICATION Spec
CONSTANTS
  None = None
  Workers = {1, 2}
  Rosters <- RosterSamples
  Complaints <- ComplaintSamples
  Buckets = {"P1_CRITICAL"}
  Rulings = {"ROADS", "WASTE"}
  Needs <- NeedsOf
  DefaultLimit = 2
  Reference = 20
  Requests = {r1}
  MaxDrafts = 1
  MaxOverrides = 1
  MaxJobs = 1
INVARIANTS
  BestIsOnTop
  RecommendedHasRoom
  RulingBinds
