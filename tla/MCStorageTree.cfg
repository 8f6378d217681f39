SPECIFICATION QuerySpec
CONSTANTS
  Envelopes <- MixedEnvelopes
  MaxPerSource = 5
  MaxTimestampFudge = 2
  Now = 7
  DefaultLimit = 1
  MaxLimit = 8
  Requests <- MixedRequests
  MaxPuts = 6
  Selections <- MixedSelections
  Second = 2
  WalkDelay = 2
  MaxErrors = 2
  MaxQueryPuts = 4
INVARIANTS
  TypeOK
  ReadsOnlyWanted
  ReadsExactWithoutFudge
  FullReadsComplete
  WalkExact
  SeekExact
PROPERTY
  ImplementsPromise
CHECK_DEADLOCK FALSE
