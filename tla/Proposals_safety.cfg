SPECIFICATION Spec
CONSTANTS
  Proposal = {p1, p2}
  NoProposal = NoProposal
  Caller = {c1, c2}
  Amount = {1, 2}
  Cap = 3
  OwnLimit = 2
SYMMETRY ProposalSymmetry
INVARIANTS CarriedOutOnce RowTellsTruth WithinLimits
CHECK_DEADLOCK FALSE
