\* Two goroutines, a key set that rotates, fetches that overlap.
SPECIFICATION FairSpec
CONSTANTS
  Callers = {c1, c2}
  Kids = {NoKid, k1}
  NoKid = NoKid
  TTL = 2
  MinRefresh = 1
  FetchTimeout = 1
  MaxTime = 5
  MaxVersions = 2
INVARIANTS
  TypeOK
  WithdrawnKeyExpires
  PublishedKeyIsFound
PROPERTIES
  EveryLookupDecided
CHECK_DEADLOCK FALSE
