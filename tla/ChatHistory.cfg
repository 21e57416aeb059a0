CONSTANTS
  v1 = v1
  Viewers = {v1}
  MaxMsgs = 3
  MaxRev = 1
  Old = {1}
  Limit = 2
  Faults = TRUE
SPECIFICATION FairSpec
INVARIANTS TypeOK CacheBounded NothingAhead HistoryInOrder
PROPERTIES CacheHeals
