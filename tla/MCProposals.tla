---------------------------- MODULE MCProposals ----------------------------
\* Proposals with interchangeable rows and calls.
EXTENDS Proposals, TLC

ProposalSymmetry == Permutations(Proposal) \cup Permutations(Caller)
=============================================================================
