CONSTANTS
  Handlers = {h1, h2}
  Listener = h1
  Operator = h2
  Monitor = monitor
  NoThread = none
  MaxPackets = 2
  MaxRequests = 2
  SocketRoom = 1
SPECIFICATION RoleSpec
PROPERTY KamRequestsAreServed
CHECK_DEADLOCK FALSE
