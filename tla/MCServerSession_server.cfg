SPECIFICATION LiveSpec
CONSTANTS
  App <- EchoApp
  Threads = 2
  MaxTimers = 2
  MaxOps = 2
INVARIANTS TypeOK TransferInv AnswerHasItsFrame OneTimerHandler
PROPERTIES TakesTurns ExpiryIsHandled
