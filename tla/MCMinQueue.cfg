\* Three levels below the root, equal keys, one reallocation.
CONSTANTS
  Item = {1, 2, 3, 4, 5, 6}
  cmp <- MCCmp
  NULL = NULL
  SLOTS_PER_MALLOC = 3
SPECIFICATION Spec
INVARIANTS
  MinQueueTypeOK
  HeapOrder
  NothingTwice
PROPERTIES
  IsPriorityQueue
