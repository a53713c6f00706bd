SPECIFICATION MCSpec
CONSTANTS
  None = None
  road = road
  lane = lane
  bridge = bridge
  roads = roads
  stops = stops
  Osm = {road, lane, bridge}
  FileRows = {census, survey}
  Manual = {m1}
  Buckets = {roads, stops}
  CategoryOf <- Asked
  Within <- Around
  Backfills = 1
  Imports = {i1, i2}
  Near = {road, lane}
  Distance <- Afar
  Limits <- Taken
  Mirrors = {1, 2}
  Has <- Knows
  Retries = 1
  Lookups = {1, 2}
  Jobs = {j1, j2}
  MinAssets = 1
  MinHistory = 1
  MaxHistory = 2
  MaxVersion = 2
SYMMETRY Symmetric
CHECK_DEADLOCK FALSE
INVARIANTS
   AbsenceIsChecked VerifiedIsNamed
  OneModelServes ForecastsAreTraceable
