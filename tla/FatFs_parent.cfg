SPECIFICATION Spec
CONSTANTS
  NameSet = {a, b, c}
  LongNames = {}
  Perms = {p}
  RootPerm = p
  LinkPerm = p
  Made = {"file", "link", "dir"}
  FILES_PER_DIR = 3
  MaxBlocks = 6
  MaxEntries = 4
INVARIANT
  FoundInParent
CHECK_DEADLOCK FALSE
