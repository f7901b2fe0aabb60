\* One fault: a page reload posts a position again.
SPECIFICATION BookingSpec
CONSTANTS
  pos1 = pos1
  Positions = {pos1}
  Size = 1
  MaxInFlight = 2
  MaxFaults = 1
INVARIANT
  OneRowPerPosition
CHECK_DEADLOCK FALSE
