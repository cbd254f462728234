\* Two hitches while two packets wait.
CONSTANTS
  Second = 3
  UINT_MAX = 255
  Options <- MCOptions
  Source = {client, alien}
  dest_addr = dest
  NULL = NULL
  MaxTime = 4
  MaxArrivals = 2
  MaxHitches = 2
SPECIFICATION LiveSpec
PROPERTY
  EveryPacketLeaves
CHECK_DEADLOCK FALSE
