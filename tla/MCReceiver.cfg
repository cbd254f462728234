\* Wraps the sequence numbers around twice; up to 3 packets wait in the buffer.
CONSTANTS
  SeqSpace = 8
  MAX_WINDOW_SIZE = 4
  FileLen = 0
  NULL = NULL
  MaxWritten = 18
SPECIFICATION MCSpec
INVARIANTS
  ReceiverTypeOK
  WindowCountsFreeSlots
  BufferOrdered
  NoDanglingPacket
  WindowNeverCloses
  WrittenInSequence
PROPERTIES
  NoBufferedPacketLost
  WriteIsAcknowledged
