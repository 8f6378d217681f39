SPECIFICATION Spec
CONSTANTS
  Conns = {1, 2}
  Messages <- MCMessages
  ChannelSize = 1
  DiodeSize = 2
  BatchChannelSize = 2
  Writers = {1, 2}
  MaxResults = 3
INVARIANTS
  TypeOK
  Reconciles
  ArrivesOnceInOrder
PROPERTIES
  SendersServed
  Drains
