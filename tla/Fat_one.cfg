\* one operation at a time; a process that ran into undefined behaviour stops
SPECIFICATION FairSpec
CONSTANTS
  Threads = {t1}
  Files = {f, g}
  FAT_PER_BLOCK = 3
  MaxBlocks = 10
  MaxFile = 3
INVARIANTS
  TypeOK
  ChainsFitSizes
  BlocksPartitioned
  FreeBlocksCounted
  TableReadable
  NeverFreedTwice
  OverrunByLoneBlock
PROPERTIES
  ChainsChangeAtTheEnd
  OperationsEnd
CHECK_DEADLOCK FALSE
