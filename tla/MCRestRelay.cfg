SPECIFICATION Spec
CONSTANTS
  Slots <- MCSlots
  Client <- MCClient
  NoRequest = NoRequest
  Scenarios <- MCScenarios
  Factory <- MCFactory
  Tolerated <- MCTolerated
  Strays <- MCStrays
  Leaps = {1, 2, 3, 4, 5}
  COMMANDS <- MCCommands
  UpperCase <- MCUpperCase
  Numeral <- MCNumeral
INVARIANTS TypeOK TimeoutMeansBusy  AnsweredWriteStands OnlyWithTheKey
PROPERTY OperationsEnd
