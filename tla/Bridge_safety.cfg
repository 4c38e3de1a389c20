SPECIFICATION FairSpec
CONSTANTS
  t1 = t1
  t2 = t2
  Transfer = {t1, t2}
  Kinds = {"customer", "treasury"}
  BatchLimit = 1
  MaxTx = 2
  MaxFaults = 1
CONSTRAINT Focus
PROPERTIES Arrives
INVARIANTS Backed OncePerLeg FailedIsUntouched
CHECK_DEADLOCK FALSE
