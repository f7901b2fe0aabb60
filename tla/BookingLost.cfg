\* At most one fault: a request fails, or is refused, after its key was claimed.
SPECIFICATION BookingSpec
CONSTANTS
  pos1 = pos1
  Positions = {pos1}
  Size = 1
  MaxInFlight = 1
  MaxFaults = 1
INVARIANT
  SentCloseIsBooked
CHECK_DEADLOCK FALSE
