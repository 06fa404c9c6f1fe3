SPECIFICATION CheckoutSpec
CONSTANTS
  q1 = q1  q2 = q2  k1 = k1  v1 = v1  v2 = v2
  c1 = c1  c2 = c2  c3 = c3  c4 = c4  o1 = o1  o2 = o2  i1 = i1  i2 = i2
  u1 = u1  u2 = u2  w1 = w1  w2 = w2  d1 = d1  d2 = d2  h1 = h1  h2 = h2
  Request <- Requests
  Key <- Keys
  None = None
  Vendor <- Vendors
  Basket <- Baskets
  Price = 2
  Discount = 1
  Granted = 1
  SagaFault <- SagaFaults
  MaxSagaFaults = 2
  Caller <- Callers
  Buyer <- Buyers
  Item <- Items
  Stocked = 1
  Quantity <- Quantities
  RedemptionLimit = 1
  Customer = u1
  Referrer = u2
  Claim <- Claims
  Sale <- Sales
  Errand <- Errands
  Clerk <- Clerks
  Reward = 2
  Unspent = 1
  Refund = 2
  Points = 1
  Spending = 2
  Story <- Stories
  MaxOperations = 6
  CreditFault <- CreditFaults
INVARIANTS OnePurchasePerKey DiscountIsRedeemed  CatalogBooks
  CreditBooks NoDoubleRefund RewardsAsPromised OwnMoneyKept
PROPERTY KeySettles
CHECK_DEADLOCK FALSE
