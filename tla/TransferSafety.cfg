CONSTANTS
  SeqSpace = 6
  MAX_WINDOW_SIZE = 3
  FileLen = 6
  NULL = NULL
  MaxLag = 3
  MaxAnswers = 3
  FailAt = 5
SPECIFICATION MCLossySpec
INVARIANTS
  TypeOK
  InOrderDelivery
  SenderInBounds
  UnwrittenIsHeld
  ExitMeansDelivered
  NeverAheadOfReceiver
PROPERTIES
  ImplementsFileTransfer
CHECK_DEADLOCK FALSE
