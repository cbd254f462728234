CONSTANTS
  SeqSpace = 5
  MAX_WINDOW_SIZE = 2
  FileLen = 2
  NULL = NULL
  MaxLag = 3
  MaxAnswers = 3
  FailAt = 3
SPECIFICATION MCFairLossySpec
PROPERTIES TransferCompletes
CHECK_DEADLOCK FALSE
