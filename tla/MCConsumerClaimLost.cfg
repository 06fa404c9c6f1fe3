SPECIFICATION DeliverySpec
CONSTANTS
  e1 = e1
  forged = forged
  p1 = p1
  p2 = p2
  Nobody = Nobody
  Envelope <- MCEvent
  Unsigned <- MCUnsigned
  Process <- MCProcess
  Publishes <- MCPublishes
  MAX_DELIVER = 2
  DeliveryFault <- NoFaultAfterCommit
  MaxDeliveryFaults = 2
INVARIANT NeverAppliedTwice
CHECK_DEADLOCK FALSE
