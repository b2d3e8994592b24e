SPECIFICATION LiveSpec
CONSTANTS
  OnHandshakeDoes <- Opening
  OnMessageDoes <- Talking
  MaxRequests = 6
INVARIANTS ExchangeInv
PROPERTIES BrokenIsReleased
