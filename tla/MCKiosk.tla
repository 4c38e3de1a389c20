------------------------------ MODULE MCKiosk ------------------------------
\* Kiosk with two visits, one after the other as far as their logins begin.
EXTENDS Kiosk
CONSTANTS a, b
InOrder == login[b] # "none" => login[a] # "none"
\* A page load's own logout is alone in flight, and no call has failed by then.
Loads == out[NoVisit] # NoRequest => faults = 0 /\ Cardinality({u \in Slot : out[u] # NoRequest}) = 1
Focus == InOrder /\ Loads
=============================================================================
