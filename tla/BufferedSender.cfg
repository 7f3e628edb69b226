SPECIFICATION FairSpec
CONSTANTS
  MaxSends = 3
  MaxLength = 5
  MaxSegSize = 3
  MaxBufferedRequests = 2
  MayFail = TRUE
INVARIANTS NothingLostOrReordered ResolvedMeansSent
PROPERTY EverySendSettles
CHECK_DEADLOCK FALSE
