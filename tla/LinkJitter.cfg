\* The default jitter.
CONSTANTS
  Second = 3
  UINT_MAX = 255
  Options <- MCDefaultJitter
  Source = {client, alien}
  dest_addr = dest
  NULL = NULL
  MaxTime = 3
  MaxArrivals = 1
  MaxHitches = 0
SPECIFICATION MCSpec
INVARIANT
  DefaultJitterWorks
CHECK_DEADLOCK FALSE
