--------------------------- MODULE MCCustomerMoney ---------------------------
\* CustomerMoney with interchangeable requests.
EXTENDS CustomerMoney, TLC
RequestSymmetry == Permutations(Errand)
=============================================================================
