\* The floor between refreshes, with concurrent lookups.
SPECIFICATION Spec
CONSTANTS
  Callers = {c1, c2}
  Kids = {NoKid, k1}
  NoKid = NoKid
  TTL = 2
  MinRefresh = 1
  FetchTimeout = 1
  MaxTime = 3
  MaxVersions = 2
PROPERTIES
  RefreshFloor
CHECK_DEADLOCK FALSE
