SPECIFICATION MoneySpec
CONSTANTS
  Chain = {c1, c2}
  Primary = c1
  Errand = {r1, r2}
  Start = 1
  Limit = 3
  MaxFaults = 2
  Reserve = 2
  Keeper = Keeper
  Nobody = Nobody
  Unasked = Unasked
  Over = Over
SYMMETRY RequestSymmetry
INVARIANTS LimitKept OpeningIsUndone LegsOnRecord CanPayOut
CHECK_DEADLOCK FALSE
