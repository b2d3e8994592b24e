SPECIFICATION LiveSpec
CONSTANTS
  Threads = 1
  MaxWrites = 3
  MaxOutput = 3
PROPERTIES ConsoleStarts
