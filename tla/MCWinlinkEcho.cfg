CONSTANT MaxMail = 1
SPECIFICATION Spec
INVARIANT WaitingMailIsReturned
CHECK_DEADLOCK FALSE
