\* one thread, crashes between any two writes
SPECIFICATION RSpec
CONSTANTS
  Threads = {t1}
  Files = {f, g}
  FAT_PER_BLOCK = 4
  MaxBlocks = 7
  MaxFile = 2
  NoState = NoState
  MaxCrashes = 1
INVARIANTS
  RTypeOK
  DataOwned
  SavedFilesIntact
  BrokenByCrashesOnly
CHECK_DEADLOCK FALSE
