\* Foreign headers that no packet has.
CONSTANTS
  MAX_PAYLOAD_SIZE = 512
  MAX_WINDOW_SIZE = 31
  SIZE_MAX = 1048575
  Checksum <- MCChecksum
  UNSET = UNSET
  NONE = NONE
  Bytes <- MCBytes
  SeqNums = {0, 255}
  Windows = {1, 31}
  ReadResults <- MCReadResults
  Foreign <- MCForeign
  Programs = {"sender", "receiver", "chat -s", "chat -c"}
  Hosts = {"local", "remote", "ipv4", "unknown"}
  Values = {32767}
SPECIFICATION MCSpec
INVARIANT
  HeaderAsFound
CHECK_DEADLOCK FALSE
