SPECIFICATION MonitorSpec
CONSTANTS
  Note = {n1}
  Rogue = {r1, r2, r3}
  Pushed = {r3}
  Stray = {r3}
  Request = {q1, q2}
  Batch = 2
  None = None
  MaxPushes = 2
  MaxFaults = 1
SYMMETRY Interchangeable
CONSTRAINT Focus
INVARIANTS HeardOnce NothingSkipped RoguesAreReported
CHECK_DEADLOCK FALSE
