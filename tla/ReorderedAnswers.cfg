CONSTANTS
  SeqSpace = 5
  MAX_WINDOW_SIZE = 2
  FileLen = 4
  NULL = NULL
  MaxLag = 3
  MaxAnswers = 3
  FailAt = 3
SPECIFICATION MCUnorderedSpec
INVARIANTS SenderInBounds
CHECK_DEADLOCK FALSE
