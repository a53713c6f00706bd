SPECIFICATION Spec
CONSTANTS
  None = None
  roads = roads
  water = water
  Orders = {o1}
  Departments = {roads, water}
  DepartmentOf <- OneDepartment
  Scopes <- RoadScopes
  Filters = {None, water}
  Hours = {1, 2}
  Quarter = 3
  Horizon = 2
  Scans = {1, 2, 3}
  Late = {3}
  MaxEvents = 2
CHECK_DEADLOCK FALSE
INVARIANTS
  NoRepeat
  NoSilentBreach
