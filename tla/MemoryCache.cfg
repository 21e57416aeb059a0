CONSTANTS
  p1 = p1
  p2 = p2
  Cleaner = Cleaner
  v1 = v1
  None = None
  Callers = {p1, p2}
  Values = {v1}
  TTL = 0
  MaxTime = 1
SPECIFICATION FairSpec
INVARIANTS TypeOK LocksBalanced NoDeadlock
PROPERTIES CacheSpec CallsReturn
