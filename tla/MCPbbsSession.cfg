SPECIFICATION Spec
CONSTANTS
  MaxStored = 3
  BodyLines = 2
INVARIANTS PbbsEndsDisconnected ListedIsStored ReadIsStored
\* The call is over.
CHECK_DEADLOCK FALSE
