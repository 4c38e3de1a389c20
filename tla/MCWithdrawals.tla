--------------------------- MODULE MCWithdrawals ---------------------------
\* Withdrawals with interchangeable customers and requests.
EXTENDS Withdrawals, TLC

Symmetry == {p @@ q : p \in Permutations(User), q \in Permutations(Call)}
=============================================================================
