\* No mark is needed: a catalog fetch fails, and later the socket drops.
SPECIFICATION FeedFairSpec
CONSTANTS
  Streams = {1}
  MaxMark = 0
  MaxQueue = 1
PROPERTY
  VenueReconnects
CHECK_DEADLOCK FALSE
