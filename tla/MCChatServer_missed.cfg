SPECIFICATION Spec
CONSTANTS
  ann = ann
  bob = bob
  Clients <- TwoClients
  NameOf <- PlainNames
  Inputs <- PlainInputs
  Symbols <- SomeSymbols
  Modulus = 16
  Threads = 1
  MaxMessages = 4
  MaxWrites = 2
  MaxTimed = 1
INVARIANTS NothingMissed
