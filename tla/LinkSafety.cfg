\* The clock crosses two seconds; three datagrams from three addresses.
CONSTANTS
  Second = 2
  UINT_MAX = 255
  Options <- MCOptions
  Source = {client, alien}
  dest_addr = dest
  NULL = NULL
  MaxTime = 5
  MaxArrivals = 3
  MaxHitches = 1
SPECIFICATION MCSpec
INVARIANTS
  LinkSimTypeOK
  TimeoutIsSound
  NothingLostNorRepeated
  NeverASecondEarly
  ConstantDelayKeepsOrder
  OneConversation
CHECK_DEADLOCK FALSE
