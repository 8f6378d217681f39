SPECIFICATION FairSpec
CONSTANTS
  s1 = s1
  s2 = s2
  w1 = w1
  w2 = w2
  r1 = r1
  Sources = {s1, s2}
  Writers = {w1, w2}
  MetaReaders = {r1}
  Timestamps = {1}
  MaxInt64 = 100
  MaxPerSource = 3
  MaxTimestampFudge = 1
  Memories <- Pressure
  PercentToFill = 20
  PrunesPerGC = 2
  MaxPuts = 4
PROPERTIES
  CallsReturn
  PressureRelieved
CHECK_DEADLOCK FALSE
