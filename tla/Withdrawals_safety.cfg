SPECIFICATION Spec
CONSTANTS
  User = {u1, u2}
  Call = {c1, c2}
  Usdc = {3}
  Apy = {0, 1}
  Ray = 2
  Year = 2
  MaxTime = 2
  MaxIn = 6
SYMMETRY Symmetry
INVARIANTS FairShare EveryoneCanLeave CreditIsCovered RecordedWasPaid
PROPERTIES ValueNeverFalls
CHECK_DEADLOCK FALSE
