SPECIFICATION Spec
CONSTANTS
  Visit = {v1, v2}
  NoVisit = NoVisit
  Note = {n1, n2}
  Required = FALSE
  MaxCrashes = 1
SYMMETRY VisitSymmetry
INVARIANTS VerifiedOnce ReceiptOnce ReceiptNotForgotten
CHECK_DEADLOCK FALSE
