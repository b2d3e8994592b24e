SPECIFICATION LiveSpec
CONSTANTS
  Threads = 2
  MaxWrites = 3
  MaxOutput = 3
INVARIANTS TypeOK ReadsAreSingle OpenGoesOn NothingLeft
PROPERTIES ConsoleStartsUnlessTested
