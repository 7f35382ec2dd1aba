CONSTANTS
  LITERALS = 2
  N = 16
  F = 4
  THRESHOLD = 2
  MAX_FREQ = 8
  CODE_BITS = 3
  Space = 1
  BYTE = 3
  LENGTH_BYTES = 2
  POLY = {0, 1, 6}
  Digits = {6, 7}
  Digit = 6
  MaxNoisy = 6
  Mails <- MCMails
  ChunkSizes = {3, 8}
  TitleBytes <- MCTitle
SPECIFICATION Spec
INVARIANTS
  MatchIsLongest
  MailIsDelivered
  ErrorMeansDamage
  TreesAreHuffman
  PositionsDecode
CHECK_DEADLOCK FALSE
