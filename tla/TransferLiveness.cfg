CONSTANTS
  SeqSpace = 5
  MAX_WINDOW_SIZE = 2
  FileLen = 5
  NULL = NULL
  MaxLag = 3
  MaxAnswers = 3
  FailAt = 4
SPECIFICATION MCFairSpec
PROPERTIES TransferCompletes
CHECK_DEADLOCK FALSE
