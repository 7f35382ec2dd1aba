\* Every text of up to 7 characters, cut into chunks of up to 3 in every way.
CONSTANTS
  Chars   <- MCChars
  LF      <- MCLF
  CR      <- MCCR
  Headers <- MCHeaders
  Source  <- MCSource
  UIHeaders <- MCUIHeaders
  Reports <- MCReports
  MaxText  = 7
  MaxChunk = 3
SPECIFICATION TrackerSpec
INVARIANTS ChunkingIsIrrelevant FlushDropsNothing StationsMatchTheText
\* A flushed parser is discarded.
CHECK_DEADLOCK FALSE
