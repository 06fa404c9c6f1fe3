SPECIFICATION DispatchSpec
CONSTANTS
  o1 = o1  o2 = o2  d1 = d1  d2 = d2
  Order <- Orders
  Rider <- Riders
  Handler <- Handlers
  WaveSize = 2
  MaxAttempt = 2
  ExcludeTimeouts = TRUE
  MaxOffers = 3
  DispatchFault <- DispatchFaults
  DispatchScopes <- Scopes
INVARIANT ReleasedIsRedispatched
CHECK_DEADLOCK FALSE
