SPECIFICATION Spec
CONSTANTS
  Threads = {t1}
  Files = {f}
  FAT_PER_BLOCK = 4
  MaxBlocks = 10
  MaxFile = 3
INVARIANTS
  ChainsEndWithNull
CHECK_DEADLOCK FALSE
