SPECIFICATION Spec
CONSTANTS
  Threads = {t1, t2}
  Files = {f, g}
  FAT_PER_BLOCK = 4
  MaxBlocks = 10
  MaxFile = 3
INVARIANTS
  NoSharedBlocks
CHECK_DEADLOCK FALSE
