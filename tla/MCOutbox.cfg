SPECIFICATION CoreSpec
CONSTANTS
  e1 = e1  e2 = e2  r1 = r1  r2 = r2
  t1 = t1  t2 = t2  t3 = t3  c1 = c1  c2 = c2  c3 = c3
  None = None
  Event <- MCEvent
  Relay <- MCRelay
  MAX_ATTEMPTS = 2
  Fault <- AllFaults
  MaxFaults = 2
  Tick <- Ticks
  TickFault <- TickFaults
  MaxFirings = 4
  MaxTickFaults = 2
  Call <- Calls
  THRESHOLD = 2
  MAX_RETRIES = 1
  MaxOutages = 2
INVARIANTS SentWasPublished AttemptsDecide DuplicatesExplained OneRunner
PROPERTIES Settles BreakerRecovers
CHECK_DEADLOCK FALSE
