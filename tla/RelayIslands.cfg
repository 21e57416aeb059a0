CONSTANTS
  Servers = {s1, s2}
  RedisCap = 1
  MaxItems = 2
  MaxFaults = 1
SPECIFICATION Spec
INVARIANTS ForeignEventsReachLocals
CHECK_DEADLOCK FALSE
