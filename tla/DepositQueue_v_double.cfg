SPECIFICATION Spec
CONSTANTS
  Deposit = {n1}
  NoDeposit = NoDeposit
  MaxAttempts = 2
  MaxCrashes = 1
INVARIANT NoDoublePay
CHECK_DEADLOCK FALSE
