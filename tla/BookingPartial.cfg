\* No fault, and a position that closes by halves.
SPECIFICATION BookingSpec
CONSTANTS
  pos1 = pos1
  Positions = {pos1}
  Size = 2
  MaxInFlight = 1
  MaxFaults = 0
INVARIANT
  BooksWhatClosed
CHECK_DEADLOCK FALSE
