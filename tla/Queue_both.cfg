\* queue.c and queue_desc.c; a program that has written to freed memory stops
SPECIFICATION Spec
CONSTANTS
  Numbers = {0, 1, 2, 3}
  Cells = {c1, c2, c3}
  NULL = NULL
INVARIANTS
  TypeOK
  WellFormed
  StrictlyDescending
PROPERTY
  ImplementsFreeSet
CHECK_DEADLOCK FALSE
