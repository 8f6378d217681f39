SPECIFICATION Spec
CONSTANTS
  s1 = s1
  s2 = s2
  w1 = w1
  w2 = w2
  Sources = {s1, s2}
  Writers = {w1, w2}
  MetaReaders = {}
  Timestamps = {1, 2, 4}
  MaxInt64 = 100
  MaxPerSource = 3
  MaxTimestampFudge = 1
  Memories <- AllMemories
  PercentToFill = 20
  PrunesPerGC = 2
  MaxPuts = 4
SYMMETRY Symmetry
INVARIANTS
  TypeOK
  EnvelopesConserved
  CountAccounts
  PerSourceBound
  HeapEntriesIndexed
  EmptyIsAwaited
  MetaTracksTree
  OrphanLossBounded
  HeapPopNeedsLeak
PROPERTIES
  OldestRemovedFirst
  ImplementsPromise
CHECK_DEADLOCK FALSE
