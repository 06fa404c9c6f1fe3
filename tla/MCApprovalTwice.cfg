SPECIFICATION ApprovalSpec
CONSTANTS
  a1 = a1  a2 = a2  a3 = a3
  Signer <- Signers
  SuperAdmin <- SuperAdmins
  Tier <- Tiers
  MaxRuns = 2
  MaxApprovalFaults = 0
INVARIANT WorkRunsOnce
CHECK_DEADLOCK FALSE
