SPECIFICATION Spec
CONSTANTS
  Position = {p1, p2}
  Strategy = {s1, s2}
  MaxBase = 1
  MaxFaults = 2
SYMMETRY PositionSymmetry
INVARIANTS OpenIsWhole ClosedIsEmpty OnlyReturnedIsSold
PROPERTIES ClosedIsFinal
CHECK_DEADLOCK FALSE
