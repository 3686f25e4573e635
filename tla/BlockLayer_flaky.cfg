\* downloads may fail; the process never dies
SPECIFICATION Spec
CONSTANTS
  MaxBlocks = 4
  MetaSlots = 62
  Data = {d1}
  Zero = Zero
  NoFile = NoFile
  Junk = Junk
  Nothing = Nothing
  Flaky = TRUE
  Crashes = {}
INVARIANTS
  TypeOK
  AllocatorExact
PROPERTIES
  FreshAllocation
  ImplementsBlockStore
