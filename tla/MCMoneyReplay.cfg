SPECIFICATION FairMoneySpec
CONSTANTS
  o1 = o1  o2 = o2  r1 = r1  r2 = r2  p1 = p1  p2 = p2
  Order <- Orders
  Refund <- Refunds
  Runner <- Runners
  Total = 3
  RefundSum <- Sums
  PaymentFault <- PaymentFaults
  MaxAttempts = 1
  Errand <- Errands
  Scopes <- MoneyScopes
  ReplayBatch = 1
PROPERTY EveryResolvedIsPosted
CHECK_DEADLOCK FALSE
