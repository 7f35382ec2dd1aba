CONSTANTS
  Handlers = {h1}
  Monitor = monitor
  NoThread = none
  MaxPackets = 1
  MaxRequests = 1
  SocketRoom = 1
SPECIFICATION LifeFairSpec
INVARIANTS ServerIsThereToClose ReturnedMeansComplete
PROPERTIES SignalEndsProcess ImplementsDaemon
CHECK_DEADLOCK FALSE
