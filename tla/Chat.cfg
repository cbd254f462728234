CONSTANTS
  MaxTyped = 2
  MaxQueue = 3
  MayEnd = {"server", "client"}
  NOBODY = NOBODY
SPECIFICATION Spec
INVARIANTS
  PrintedInOrder
  AnswersTheFirst
PROPERTIES
  MessagesArrive
CHECK_DEADLOCK FALSE
