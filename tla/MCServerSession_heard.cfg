SPECIFICATION LiveSpec
CONSTANTS
  App <- ChatApp
  Threads = 2
  MaxTimers = 3
  MaxOps = 2
PROPERTIES CloseOnlyIfQuiet
