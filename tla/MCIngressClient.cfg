SPECIFICATION Spec
CONSTANTS
  a1 = a1
  a2 = a2
  Senders = {a1, a2}
  DiodeSize = 2
  BatchSize = 2
  MaxEnvelopes = 4
INVARIANTS
  TypeOK
  DropsAreCountedUnlessOverlapped
  ArrivesOnce
  ArrivesInOrder
PROPERTIES
  BatchLeaves
  CatchesUp
