SPECIFICATION Spec
CONSTANTS
  Position = {p1}
  Strategy = {s1, s2}
  Request = {r1, r2, r3}
  Value = {0, 5, 6}
  MaxPayouts = 3
SYMMETRY CloseSymmetry
INVARIANTS PaidAtMostOnce DockedBeforePaid
PROPERTIES KeepsPromise
CHECK_DEADLOCK FALSE
