SPECIFICATION Spec
CONSTANTS
  ann = ann
  bob = bob
  Clients <- TwoClients
  NameOf <- OddNames
  Inputs <- OddInputs
  Symbols <- SomeSymbols
  Modulus = 16
  Threads = 2
  MaxMessages = 3
  MaxWrites = 2
  MaxTimed = 1
INVARIANTS TypeOK ReadsAreSingle OpenGoesOn NothingLeft EveryoneIsTold HistoryNeedsPlain NamedMayLeave
PROPERTIES ToldInOrder
