------------------------------ MODULE MCBridge ------------------------------
\* Bridge on a few transfers, created in the order of Order.
EXTENDS Bridge

CONSTANTS t1, t2

Order == <<t1, t2>>
InOrder == \A i \in DOMAIN Order : kind[Order[i]] # "none" => older[Order[i]] = {Order[j] : j \in 1..i - 1}

\* One transfer that two runs may be on, of which one leg at most goes twice, or
\* several transfers with one run each and no hash lost.
Alone == \A x, y \in Transfer : kind[x] # "none" /\ kind[y] # "none" => x = y
TwiceAtMostOne(x) == Cardinality({g \in Leg : Len(chain[x][g]) > 1}) <= 1
Focus ==
  /\ InOrder
  /\ Alone \/ \A x \in Transfer : ~overlap[x] /\ ~lost[x]
  /\ \A x \in Transfer : overlap[x] => TwiceAtMostOne(x)
=============================================================================
