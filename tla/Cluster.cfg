CONSTANTS
  s1 = s1
  s2 = s2
  Servers = {s1, s2}
  TTL = 2
  MaxFaults = 2
  RedisCap = 1
  MaxItems = 2
SYMMETRY ServerSymmetry
SPECIFICATION ClusterSpec
INVARIANTS ClusterTypeOK BeatingIsListed NoExpiryIsHalf NothingForged
