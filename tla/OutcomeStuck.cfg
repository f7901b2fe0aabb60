\* No fault: the open position shows the target, and the chain counts what was closed.
SPECIFICATION OutcomeFairSpec
CONSTANTS
  Gains = {1, 2}
  PROFIT = 2
  DAILY = 2
  LOSS = 3
  MaxCloses = 2
  MaxCycles = 1
  MaxPosts = 1
  MaxLapses = 0
PROPERTY
  PassReachesChain
CHECK_DEADLOCK FALSE
