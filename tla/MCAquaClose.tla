---------------------------- MODULE MCAquaClose ----------------------------
\* AquaClose with interchangeable requests and strategies.
EXTENDS AquaClose, TLC

CloseSymmetry == Permutations(Request) \cup Permutations(Strategy)
=============================================================================
