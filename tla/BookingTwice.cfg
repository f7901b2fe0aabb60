\* No fault at all, and a position that closes whole: both paths close it.
SPECIFICATION BookingSpec
CONSTANTS
  pos1 = pos1
  Positions = {pos1}
  Size = 1
  MaxInFlight = 1
  MaxFaults = 0
INVARIANT
  NeverDoubleBooked
CHECK_DEADLOCK FALSE
