--------------------------- MODULE MCDepositQueue ---------------------------
\* DepositQueue on a few interchangeable notes.
EXTENDS DepositQueue, TLC

NoteSymmetry == Permutations(Deposit)
=============================================================================
