\* everything that can be created, directories that fill up, move and go, and a name that is too long
SPECIFICATION Spec
CONSTANTS
  NameSet = {a, b, long}
  LongNames = {long}
  Perms = {p, q}
  RootPerm = p
  LinkPerm = q
  Made = {"file", "link", "dir"}
  FILES_PER_DIR = 3
  MaxBlocks = 6
  MaxEntries = 3
SYMMETRY Renamings
INVARIANTS
  TypeOK
  NamesUnique
  BlocksNamed
  DotsStayFirst
PROPERTY
  ImplementsNames
CHECK_DEADLOCK FALSE
