SPECIFICATION BackOfficeSpec
CONSTANTS
  o1 = o1  s1 = s1  s2 = s2  v1 = v1  p1 = p1  p2 = p2
  t1 = t1  t2 = t2  w1 = w1  h1 = h1  h2 = h2
  a1 = a1  a2 = a2  a3 = a3
  d1 = d1  d2 = d2  m1 = m1  q1 = q1  q2 = q2  j1 = j1
  VOrder <- VOrders
  Settlement <- Settlements
  Withdrawal <- Withdrawals
  Worker <- Workers
  Amount <- Amounts
  Share = 3
  Fee = 1
  ReservePct = 50
  MinSettlement = 2
  DailyCap = 1
  Bonus = 1
  BonusAfter = 1
  PayoutFault <- PayoutFaults
  MaxCycle = 2
  MaxJobs = 4
  MaxPayoutFaults = 1
  Trip <- Trips
  Payout <- Payouts
  Handler <- Handlers
  Admin <- Admins
  Sum <- Sums
  TripFee = 4
  TripCash = 1
  PayoutFee = 1
  WalletFault <- WalletFaults
  MaxSteps = 4
  MaxWalletFaults = 1
  Signer <- Signers
  SuperAdmin <- SuperAdmins
  Tier <- Tiers
  MaxRuns = 2
  MaxApprovalFaults = 1
  Rep <- Reps
  Expert <- Experts
  Super <- SuperAdmins
  Desk <- Desks
  Post <- Posts
  MAX_TOOL_TURNS = 1
  MaxDecisions = 4
  MaxSupportFaults = 1
  Request <- Requests
  Job <- Jobs
  MaxRequests = 3
  MaxApplicationFaults = 1
INVARIANTS VendorBooks OutcomeIsTransfers WalletBooks PaidOrRefunded SignedByOthers DecisionStands
  CustomerIsHeard LiveAsApproved VerdictIsTaken
PROPERTIES InFlightSettles OwnedToResolution
CHECK_DEADLOCK FALSE
