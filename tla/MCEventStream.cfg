CONSTANTS
  Streams = {s1, s2}
  MaxPackets = 2
  SocketRoom = 2
SPECIFICATION FairSpec
INVARIANTS StreamTypeOK OnlyTheFirstEventIsLost
PROPERTY GoneBrowsersAreForgotten
\* The daemon may exit with every stream closed.
CHECK_DEADLOCK FALSE
