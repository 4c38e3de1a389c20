--------------------------- MODULE MCCashReceipt ---------------------------
\* CashReceipt with interchangeable holders and withdrawals.
EXTENDS CashReceipt, TLC

Symmetry == {p @@ q : p \in Permutations(Holder), q \in Permutations(Run)}

\* Two halves in one run: withdrawals from three boxes, one of which the backend
\* does not know, on the first day and without a limit, and limits over several
\* days with one box and no withdrawal.  Only the first box is ever frozen, or
\* taken out of service with cash in it.
Focus ==
  /\ \A k \in Kiosk \ {1} : ~kiosk[k].frozen /\ (kiosk[k].reserve > 0 => kiosk[k].active)
  /\ \/ highest = 0 /\ day = 1 /\ ~paused
     \/ /\ \A r \in Run : run[r].pc = "idle"
        /\ \A k \in Kiosk \ {1} : kiosk[k] = [active |-> FALSE, frozen |-> FALSE, reserve |-> 0]
        /\ ~kiosk[1].frozen
=============================================================================
