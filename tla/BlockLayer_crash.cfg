\* the process may die anywhere; downloads succeed
SPECIFICATION Spec
CONSTANTS
  MaxBlocks = 4
  MetaSlots = 62
  Data = {d1}
  Zero = Zero
  NoFile = NoFile
  Junk = Junk
  Nothing = Nothing
  Flaky = FALSE
  Crashes = {"between calls", "in write_block", "in save_state"}
PROPERTIES
  SavedBlocksSafe
  SavedDataKept
