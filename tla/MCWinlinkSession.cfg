CONSTANT MaxMail = 2
SPECIFICATION Spec
INVARIANTS TypeOK SessionEndsDisconnected MessagesMeetTheirProposals NoMailIsLost
  SentIsWhatWasAccepted
\* The call returns, and the gateway may be silent then.
CHECK_DEADLOCK FALSE
