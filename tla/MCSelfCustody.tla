---------------------------- MODULE MCSelfCustody ----------------------------
\* SelfCustody with interchangeable positions and strategies.
EXTENDS SelfCustody, TLC
PositionSymmetry == Permutations(Position) \cup Permutations(Strategy)
=============================================================================
