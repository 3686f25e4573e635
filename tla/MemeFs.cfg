\* any client, and the prototype file system, on each way to store blocks
SPECIFICATION MSpec
CONSTANTS
  MaxBlocks = 9
  MetaSlots = 1
  TestBlocks = 3
  Zero = Zero
  Pattern = SuperBlock
  NoFile = NoFile
  Empty = Empty
  Untouched = Untouched
  Data = {SuperBlock, InodeTable, RootDir}
  SuperBlock = SuperBlock
  InodeTable = InodeTable
  RootDir = RootDir
  MaxCuts = 2
  MaxClient = 3
  Unwritten = Unwritten
INVARIANTS
  TypeOK
  AllocatorSound
  WritesStick
  FreedDataGone
  TestsPass
  RootStays
  BlocksStay
CHECK_DEADLOCK FALSE
