CONSTANTS
  MaxCalls = 3
  MaxPackets = 1
  MaxTexts = 1
SPECIFICATION Spec
INVARIANTS TypeOK QuietCommandIsAnswered ConnectIsAboutItself
PROPERTY DisconnectLeavesNoLink
\* All calls have been made.
CHECK_DEADLOCK FALSE
