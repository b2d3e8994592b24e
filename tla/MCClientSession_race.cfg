SPECIFICATION Spec
CONSTANTS
  App <- ChatApp
  Threads = 2
  MaxOps = 2
INVARIANTS OneTransfer
