------------------------------ MODULE MCMonitor ------------------------------
\* Monitor with interchangeable webhook requests and unsigned mints of a chain.
EXTENDS Monitor, TLC
Interchangeable == Permutations(Request) \cup Permutations(Rogue \ Pushed)

\* Bounds: a note is minted within the window, two checks run at once, and
\* events of both chains meet while each has one.
Focus ==
  /\ faded \subseteq hashed
  /\ Cardinality({m \in Mint : check[m] \in {"reads", "found"}}) <= 2
  /\ others = {} \/ Len(mined) <= 1
=============================================================================
