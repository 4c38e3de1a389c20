SPECIFICATION KioskFairSpec
CONSTANTS
  Visit = {a, b}
  a = a
  b = b
  NoVisit = NoVisit
  Note = {n1}
  MaxFaults = 1
INVARIANTS RightCustomer
CHECK_DEADLOCK FALSE
CONSTRAINT Focus
PROPERTIES SlotCloses NoteIsKnown
