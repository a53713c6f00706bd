SPECIFICATION MCSpec
CONSTANTS
  Actions = {a1, p1, p2}
  Photos = {p1, p2}
  Accepts = {a1}
  Runs = {r1, r2}
  Room = 1
  MaxCalls = 3
  Tabs = {t1, t2}
  Fetches = {c1, c2}
  MaxPairs = 3
  MaxTroubles = 1
  Accounts = {ann, bob}
  Founders = {ann}
  Roles = {"SUPER_ADMIN", "FIELD_WORKER", "WARD_REPRESENTATIVE", "CITIZEN"}
  Districts = {"north"}
  Departments = {"water"}
  Categories = {"POTHOLE"}
  Weights = {"severity"}
  Settings = {"GROQ_MODEL"}
  Built = {"SUPER_ADMIN", "FIELD_WORKER", "WARD_REPRESENTATIVE"}
  Unset = Unset
  Nil = Nil
  MaxJobs = 2
  MaxEdits = 5
SYMMETRY Symmetric
CHECK_DEADLOCK FALSE
INVARIANTS
  SentInOrder
  AppliedOnceUnlessRaced
  KeptUnlessErased
  NobodyIsThrownOut
  LogoutEnds
  RolesStaySound
