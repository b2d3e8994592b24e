SPECIFICATION LiveSpec
CONSTANTS
  Limit = 3
  Requests <- OneAnswer
  MaxRequests = 6
INVARIANTS QueueInv
PROPERTIES BrokenIsReleased
