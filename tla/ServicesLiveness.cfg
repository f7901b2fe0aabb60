\* Booking: one position that closes in two parts, one fault.  Feed: two streams, two
\* marks, two batches waiting.  Outcome: two closes, two cycles, one request lost.
SPECIFICATION MCFairSpec
CONSTANTS
  Scenes = {"booking", "feed", "outcome"}
  pos1 = pos1
  Positions = {pos1}
  Size = 2
  MaxInFlight = 2
  MaxFaults = 1
  Streams = {1, 2}
  MaxMark = 2
  MaxQueue = 2
  Gains <- MCGains
  PROFIT = 2
  DAILY = 2
  LOSS = 3
  MaxCloses = 2
  MaxCycles = 2
  MaxPosts = 2
  MaxLapses = 1
INVARIANT
  BookingTypeOK
PROPERTIES
  PricesNeverGoBack
  CrossedRowIsSettled
  EveryCloseIsSent
  BrowserRecovers
  OutcomeReachesChain
CHECK_DEADLOCK FALSE
