\* every range on a file of up to three blocks
SPECIFICATION Spec
CONSTANTS
  Byte = {0, 1}
  BLOCK_SIZE = 2
  MaxSize = 5
INVARIANT
  TypeOK
PROPERTY
  ImplementsByteFile
