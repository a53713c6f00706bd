SPECIFICATION MCSpec
CONSTANTS
  Complaints = {c1}
  Orders = {o1}
  Workers = {w1, w2}
  Officers = {u1}
  None = None
  Capacity = 1
  AiVerdicts = {"NOT_RESOLVED"}
  Analysed = {}
  MaxAssignments = 3
  MaxRounds = 2
  MaxRuns = 2
  ann = ann
  rep = rep
  t1 = t1
  t2 = t2
  Nothing = Nothing
  Threads = {t1, t2}
  Citizens = {ann}
  Staff = {rep}
  Officials = {}
  Owner <- MCOwner
  Reps <- MCReps
  MaxMessages = 2
  MaxFiles = 1
  MaxSends = 2
  p1 = p1
  p2 = p2
  north = north
  south = south
  Places = {p1, p2}
  Wards = {north, south}
  WardAt <- MCWardAt
  ActiveWards = {north}
  HomeWard = north
  Nowhere = Nowhere
  MaxImages = 1
  MaxFixes = 1
  MaxMedia = 1
  MaxFiled = 2
SYMMETRY WorkerSymmetry
INVARIANTS StepIsAccepted DecisionIsOffered AttachmentsStay FiledAsReviewed
CHECK_DEADLOCK FALSE
