------------------------------ MODULE MCVisits ------------------------------
\* Visits with interchangeable visits and notes.
EXTENDS Visits, TLC
VisitSymmetry == Permutations(Visit) \cup Permutations(Note)
=============================================================================
