SPECIFICATION LiveSpec
CONSTANTS
  App <- ControlApp
  Threads = 2
  MaxOps = 3
INVARIANTS TypeOK TransferInv AnswerHasItsFrame
PROPERTIES TakesTurns BrokenIsReleased
