CONSTANTS
  Handlers = {h1, h2}
  Monitor = monitor
  NoThread = none
  MaxPackets = 2
  MaxRequests = 3
  SocketRoom = 2
SYMMETRY Symmetry
SPECIFICATION Spec
INVARIANTS TypeOK OneTransactionAtATime NoSubscriberLeaks FlagMatchesSet
  StationsKnowEverySentPacket
PROPERTY KeepsFeedPromise
CHECK_DEADLOCK FALSE
