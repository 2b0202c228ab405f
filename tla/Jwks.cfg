SPECIFICATION Spec
CONSTANTS
  k1 = k1
  k2 = k2
  c1 = c1
  c2 = c2
  c3 = c3
  Key = {k1, k2}
  Call = {c1, c2}
  Ttl = 2
  Timeout = 1
  Horizon = 4
CHECK_DEADLOCK FALSE
SYMMETRY Symmetry
INVARIANTS TypeOK RetiredKeysExpire RetrySeesRefreshedKeys
PROPERTY ValidationEnds
