SPECIFICATION Spec
CONSTANTS
  s1 = s1
  s2 = s2
  w1 = w1
  w2 = w2
  Sources = {s1, s2}
  Writers = {w1, w2}
  MetaReaders = {}
  Timestamps = {1, 2}
  MaxInt64 = 100
  MaxPerSource = 2
  MaxTimestampFudge = 1
  Memories <- Pressure
  PercentToFill = 20
  PrunesPerGC = 2
  MaxPuts = 3
INVARIANT NothingStranded
CHECK_DEADLOCK FALSE
