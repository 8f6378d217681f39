SPECIFICATION QuerySpec
CONSTANTS
  Envelopes <- LogEnvelopes
  MaxPerSource = 6
  MaxTimestampFudge = 3
  Now = 7
  DefaultLimit = 8
  MaxLimit = 8
  Requests <- LogRequests
  MaxPuts = 6
  Selections = {}
  Second = 1
  WalkDelay = 2
  MaxErrors = 2
  MaxQueryPuts = 4
INVARIANT ReadsComplete
CHECK_DEADLOCK FALSE
