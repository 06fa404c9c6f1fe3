SPECIFICATION FairDelivery
CONSTANTS
  e1 = e1
  forged = forged
  p1 = p1
  p2 = p2
  Nobody = Nobody
  Envelope <- MCEvent
  Unsigned <- MCUnsigned
  Process <- MCProcess
  Publishes <- MCPublishes
  MAX_DELIVER = 2
  DeliveryFault <- DeliveryFaults
  MaxDeliveryFaults = 2
INVARIANTS
  AppliedOnce
  NoSilentLoss
  DeadLetterJustified
PROPERTIES
  EventuallyResolved
CHECK_DEADLOCK FALSE
