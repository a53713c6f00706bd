SPECIFICATION MCSpec
CONSTANTS
  None = None
  Missing = Missing
  hospital = hospital
  station = station
  Complaints = {"a", "b", "c"}
  About <- MCAbout
  Alike <- MCAlike
  Radius = 500
  Window = 168
  Threshold = 600
  MaxCandidates = 2
  Requests = {r1, r2, r3}
  Decisions = {o1, o2, o3}
  MaxPoints <- Weights
  Categories <- Samples
  Named <- NamedOnes
  Facilities = {hospital, station}
  TypeOf <- Types
  Verified = {hospital}
  Distances <- Metres
  Skies <- SkySamples
  Areas <- AreaSamples
  Proofs <- ProofSamples
SYMMETRY Symmetric
INVARIANTS ConfirmedIsBacked NeighboursMeet
PROPERTIES DecisionsStand WorseNeverScoresLower
CHECK_DEADLOCK FALSE
