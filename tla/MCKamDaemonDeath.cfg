CONSTANTS
  Handlers = {h1}
  Monitor = monitor
  NoThread = none
  MaxPackets = 2
  MaxRequests = 1
  SocketRoom = 1
SPECIFICATION Spec
INVARIANT MonitorRunsUntilShutdown
CHECK_DEADLOCK FALSE
