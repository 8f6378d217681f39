SPECIFICATION Spec
CONSTANTS
  s1 = s1
  s2 = s2
  e2 = e2
  e1 = e1
  c1 = c1
  c2 = c2
  k1 = k1
  k2 = k2
  Lookers = {k1, k2}
  N = 3
  SourceIds <- MCSourceIds
  Home <- MCHome
  SourceOf <- MCSourceOf
  CallsAt <- MCCallsAt
  Refusable = {0}
  LocalCallsAt = {1}
  CacheDuration = 1
  MaxStarts = 1
  MaxTook = 1
  MaxBusy = 4
SYMMETRY Symmetry
INVARIANTS
  TypeOK
  AtHome
  Accounted
  ReadsReachHome
  MetaCatchesUp
