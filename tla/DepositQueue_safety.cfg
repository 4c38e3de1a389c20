SPECIFICATION FairSpec
CONSTANTS
  Deposit = {n1}
  NoDeposit = NoDeposit
  MaxAttempts = 3
  MaxCrashes = 2
INVARIANTS ConfirmedIsPaid MintedOnceAndBacked
PROPERTIES NeverResent NoteSettles
CHECK_DEADLOCK FALSE
