SPECIFICATION ReceiptSpec
CONSTANTS
  Kiosks = 2
  Boxes = 3
  Holder = {h1, h2}
  Run = {r1, r2}
  Amount = {1}
  Limit = {0, 1, 2}
  MaxSupply = 2
  MaxDays = 2
SYMMETRY Symmetry
CONSTRAINT Focus
INVARIANTS SupplyIsReserve RedeemedInFull RecordedWasBurned WithinDailyLimit
CHECK_DEADLOCK FALSE
