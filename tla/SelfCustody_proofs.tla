-------------------------- MODULE SelfCustody_proofs --------------------------
(***************************************************************************)
(* SelfCustody for any number of positions and strategies and any bounds:  *)
(* IndInv is inductive, and it implies TypeOK, OpenIsWhole, ClosedIsEmpty, *)
(* ClosedIsFinal and OnlyReturnedIsSold.                                   *)
(***************************************************************************)
EXTENDS SelfCustody, TLAPS

\* prepareOpen writes the row with the first step of the page, once.
RowFirst == \A p \in Position : row[p] # "none" => opener[p] # "none"

\* Every strategy is signed for once, so what has succeeded is not flying; a
\* manager's one transaction is.
SignedOnce ==
  \A p \in Position :
    /\ flying[p] \cup shipped[p] \subseteq signed[p]
    /\ flying[p] \cap shipped[p] = {}
    /\ opener[p] \in {"none", "signing"} /\ manager[p] => signed[p] = {}
    /\ opener[p] = "none" => signed[p] = {}

\* The check of an opening has seen all of it succeed, which does not go away.
CheckedWhole ==
  \A p \in Position : row[p] = "open" \/ opener[p] = "writing" => shipped[p] = Strategy

\* The check of a close has seen nothing live, and what comes later is marked.
CheckedEmpty ==
  \A p \in Position : row[p] = "closed" \/ closer[p] = "writing" => live[p] \subseteq late[p]

\* An exit is of a whole position, and it has sold nothing before it sells.
ExitIsWhole ==
  \A p \in Position :
    /\ closer[p] # "none" => sold[p] = 0
    /\ closer[p] \in {"reading", "selling"} => exiting[p]
    /\ closer[p] = "reading" => back[p] = 0
    /\ live[p] = {} => base[p] = 0
    /\ closer[p] \in {"writing", "selling"} /\ exiting[p] => live[p] = {}
    /\ closer[p] # "none" /\ exiting[p] => shipped[p] = Strategy
    /\ closer[p] # "none" /\ exiting[p] /\ back[p] # 0 => live[p] = {}

\* What an exit has read of the position is what is still there and what came
\* back; what it has read of the wallet lacks only the latter.
ReadIsTrue ==
  \A p \in Position :
    exiting[p] /\ ~strange =>
      /\ closer[p] # "none" => expected[p] = base[p] + back[p]
      /\ closer[p] \notin {"none", "reading"} /\ manager[p] => held = before[p] + back[p]

IndInv ==
  /\ TypeOK /\ RowFirst /\ SignedOnce /\ CheckedWhole /\ CheckedEmpty
  /\ ExitIsWhole /\ ReadIsTrue /\ OnlyReturnedIsSold

\* The dock of a strategy that Aqua does not show reverts.
LEMMA NothingToDock ==
  ASSUME NEW p \in Position, SignDock(p), live[p] = {}
  PROVE  UNCHANGED <<base, back, held, strange>>
<1>1. \A batch \in IF manager[p] THEN {Strategy} ELSE {{t} : t \in undocked[p]} :
        ~(batch \subseteq live[p])
  BY StrategyAssumption
<1> QED
  BY <1>1, Zenon DEF SignDock

\* Every step keeps the types.
LEMMA TypeStep ==
  ASSUME TypeOK, ReadIsTrue, [Next]_vars
  PROVE  TypeOK'
<1> USE DEF vars, rowVars, aquaVars, openVars, closeVars, baseVars, exitVars, TypeOK, Opener,
            Closer
<1>1. ASSUME NEW p \in Position, PrepareOpen(p) PROVE TypeOK'
  BY <1>1 DEF PrepareOpen, Opens
<1>2. ASSUME NEW p \in Position, SignOpen(p) PROVE TypeOK'
  BY <1>2 DEF SignOpen, Batches, Opens
<1>3. ASSUME NEW p \in Position, LeaveOpening(p) PROVE TypeOK'
  BY <1>3, BoundAssumption DEF LeaveOpening, Fault, Opens
<1>4. ASSUME NEW p \in Position, Mine(p) PROVE TypeOK'
  BY <1>4, BoundAssumption DEF Mine, Fault
<1>5. ASSUME NEW p \in Position, VerifyOpen(p) PROVE TypeOK'
  BY <1>5 DEF VerifyOpen, AllSigned, Opens
<1>6. ASSUME NEW p \in Position, RecordOpen(p) PROVE TypeOK'
  BY <1>6 DEF RecordOpen, StillPending, Opens
<1>7. ASSUME NEW p \in Position, RecordFails(p) PROVE TypeOK'
  BY <1>7, BoundAssumption DEF RecordFails, Fault, Opens
<1>8. ASSUME NEW p \in Position, ReadWallet(p) PROVE TypeOK'
  BY <1>8 DEF ReadWallet, Closes
<1>9. ASSUME NEW p \in Position, PrepareClose(p) PROVE TypeOK'
  BY <1>9 DEF PrepareClose, Closes, Partial
<1>10. ASSUME NEW p \in Position, SignDock(p) PROVE TypeOK'
  BY <1>10 DEF SignDock, Closes
<1>11. ASSUME NEW p \in Position, LeaveClosing(p) PROVE TypeOK'
  BY <1>11, BoundAssumption DEF LeaveClosing, Fault, Closes
<1>12. ASSUME NEW p \in Position, VerifyClose(p) PROVE TypeOK'
  BY <1>12 DEF VerifyClose, Closes, Partial, NoneLive
<1>13. ASSUME NEW p \in Position, RefuseClose(p) PROVE TypeOK'
  BY <1>13 DEF RefuseClose, Closes, NoneLive
<1>14. ASSUME NEW p \in Position, RecordClose(p) PROVE TypeOK'
  BY <1>14 DEF RecordClose, Closes
<1>15. ASSUME NEW p \in Position, Sell(p) PROVE TypeOK'
  BY <1>15 DEF Sell, Closes, Returned, Least
<1>16. ASSUME NEW p \in Position, NEW exit \in BOOLEAN, StartClose(p, exit) PROVE TypeOK'
  BY <1>16 DEF StartClose, Closes, Partial
<1>17. ASSUME NEW p \in Position, NEW d \in {-1, 1}, Trade(p, d) PROVE TypeOK'
  BY <1>17, BoundAssumption DEF Trade, Fault
<1>18. ASSUME Receive PROVE TypeOK'
  BY <1>18, BoundAssumption DEF Receive, Fault
<1>19. ASSUME UNCHANGED vars PROVE TypeOK'
  BY <1>19
<1> QED
  BY <1>1, <1>2, <1>3, <1>4, <1>5, <1>6, <1>7, <1>8, <1>9, <1>10, <1>11, <1>12, <1>13, <1>14,
     <1>15, <1>16, <1>17, <1>18, <1>19 DEF Next

\* A page that is gone stays gone.
LEMMA RowStep ==
  ASSUME TypeOK, RowFirst, [Next]_vars
  PROVE  RowFirst'
<1> USE DEF vars, rowVars, aquaVars, openVars, closeVars, baseVars, exitVars, TypeOK, Opener,
            Closer, RowFirst
<1>1. ASSUME NEW p \in Position, PrepareOpen(p) PROVE RowFirst'
  BY <1>1 DEF PrepareOpen, Opens
<1>2. ASSUME NEW p \in Position, SignOpen(p) PROVE RowFirst'
  BY <1>2 DEF SignOpen, Batches, Opens
<1>3. ASSUME NEW p \in Position, LeaveOpening(p) PROVE RowFirst'
  BY <1>3 DEF LeaveOpening, Fault, Opens
<1>4. ASSUME NEW p \in Position, Mine(p) PROVE RowFirst'
  BY <1>4 DEF Mine, Fault
<1>5. ASSUME NEW p \in Position, VerifyOpen(p) PROVE RowFirst'
  BY <1>5 DEF VerifyOpen, AllSigned, Opens
<1>6. ASSUME NEW p \in Position, RecordOpen(p) PROVE RowFirst'
  BY <1>6 DEF RecordOpen, StillPending, Opens
<1>7. ASSUME NEW p \in Position, RecordFails(p) PROVE RowFirst'
  BY <1>7 DEF RecordFails, Fault, Opens
<1>8. ASSUME NEW p \in Position, ReadWallet(p) PROVE RowFirst'
  BY <1>8 DEF ReadWallet, Closes
<1>9. ASSUME NEW p \in Position, PrepareClose(p) PROVE RowFirst'
  BY <1>9 DEF PrepareClose, Closes, Partial
<1>10. ASSUME NEW p \in Position, SignDock(p) PROVE RowFirst'
  BY <1>10 DEF SignDock, Closes
<1>11. ASSUME NEW p \in Position, LeaveClosing(p) PROVE RowFirst'
  BY <1>11 DEF LeaveClosing, Fault, Closes
<1>12. ASSUME NEW p \in Position, VerifyClose(p) PROVE RowFirst'
  BY <1>12 DEF VerifyClose, Closes, Partial, NoneLive
<1>13. ASSUME NEW p \in Position, RefuseClose(p) PROVE RowFirst'
  BY <1>13 DEF RefuseClose, Closes, NoneLive
<1>14. ASSUME NEW p \in Position, RecordClose(p) PROVE RowFirst'
  BY <1>14 DEF RecordClose, Closes
<1>15. ASSUME NEW p \in Position, Sell(p) PROVE RowFirst'
  BY <1>15 DEF Sell, Closes, Returned, Least
<1>16. ASSUME NEW p \in Position, NEW exit \in BOOLEAN, StartClose(p, exit) PROVE RowFirst'
  BY <1>16 DEF StartClose, Closes, Partial
<1>17. ASSUME NEW p \in Position, NEW d \in {-1, 1}, Trade(p, d) PROVE RowFirst'
  BY <1>17 DEF Trade, Fault
<1>18. ASSUME Receive PROVE RowFirst'
  BY <1>18 DEF Receive, Fault
<1>19. ASSUME UNCHANGED vars PROVE RowFirst'
  BY <1>19
<1> QED
  BY <1>1, <1>2, <1>3, <1>4, <1>5, <1>6, <1>7, <1>8, <1>9, <1>10, <1>11, <1>12, <1>13, <1>14,
     <1>15, <1>16, <1>17, <1>18, <1>19 DEF Next

\* The wallet signs each strategy of an opening once.
LEMMA SignedStep ==
  ASSUME TypeOK, SignedOnce, [Next]_vars
  PROVE  SignedOnce'
<1> USE DEF vars, rowVars, aquaVars, openVars, closeVars, baseVars, exitVars, TypeOK, Opener,
            Closer, SignedOnce
<1>1. ASSUME NEW p \in Position, PrepareOpen(p) PROVE SignedOnce'
  BY <1>1 DEF PrepareOpen, Opens
<1>2. ASSUME NEW p \in Position, SignOpen(p) PROVE SignedOnce'
  BY <1>2 DEF SignOpen, Batches, Opens
<1>3. ASSUME NEW p \in Position, LeaveOpening(p) PROVE SignedOnce'
  BY <1>3 DEF LeaveOpening, Fault, Opens
<1>4. ASSUME NEW p \in Position, Mine(p) PROVE SignedOnce'
  BY <1>4 DEF Mine, Fault
<1>5. ASSUME NEW p \in Position, VerifyOpen(p) PROVE SignedOnce'
  BY <1>5 DEF VerifyOpen, AllSigned, Opens
<1>6. ASSUME NEW p \in Position, RecordOpen(p) PROVE SignedOnce'
  BY <1>6 DEF RecordOpen, StillPending, Opens
<1>7. ASSUME NEW p \in Position, RecordFails(p) PROVE SignedOnce'
  BY <1>7 DEF RecordFails, Fault, Opens
<1>8. ASSUME NEW p \in Position, ReadWallet(p) PROVE SignedOnce'
  BY <1>8 DEF ReadWallet, Closes
<1>9. ASSUME NEW p \in Position, PrepareClose(p) PROVE SignedOnce'
  BY <1>9 DEF PrepareClose, Closes, Partial
<1>10. ASSUME NEW p \in Position, SignDock(p) PROVE SignedOnce'
  BY <1>10 DEF SignDock, Closes
<1>11. ASSUME NEW p \in Position, LeaveClosing(p) PROVE SignedOnce'
  BY <1>11 DEF LeaveClosing, Fault, Closes
<1>12. ASSUME NEW p \in Position, VerifyClose(p) PROVE SignedOnce'
  BY <1>12 DEF VerifyClose, Closes, Partial, NoneLive
<1>13. ASSUME NEW p \in Position, RefuseClose(p) PROVE SignedOnce'
  BY <1>13 DEF RefuseClose, Closes, NoneLive
<1>14. ASSUME NEW p \in Position, RecordClose(p) PROVE SignedOnce'
  BY <1>14 DEF RecordClose, Closes
<1>15. ASSUME NEW p \in Position, Sell(p) PROVE SignedOnce'
  BY <1>15 DEF Sell, Closes, Returned, Least
<1>16. ASSUME NEW p \in Position, NEW exit \in BOOLEAN, StartClose(p, exit) PROVE SignedOnce'
  BY <1>16 DEF StartClose, Closes, Partial
<1>17. ASSUME NEW p \in Position, NEW d \in {-1, 1}, Trade(p, d) PROVE SignedOnce'
  BY <1>17 DEF Trade, Fault
<1>18. ASSUME Receive PROVE SignedOnce'
  BY <1>18 DEF Receive, Fault
<1>19. ASSUME UNCHANGED vars PROVE SignedOnce'
  BY <1>19
<1> QED
  BY <1>1, <1>2, <1>3, <1>4, <1>5, <1>6, <1>7, <1>8, <1>9, <1>10, <1>11, <1>12, <1>13, <1>14,
     <1>15, <1>16, <1>17, <1>18, <1>19 DEF Next

\* What was mined stays mined.
LEMMA WholeStep ==
  ASSUME TypeOK, RowFirst, CheckedWhole, [Next]_vars
  PROVE  CheckedWhole'
<1> USE DEF vars, rowVars, aquaVars, openVars, closeVars, baseVars, exitVars, TypeOK, Opener,
            Closer, RowFirst, CheckedWhole
<1>1. ASSUME NEW p \in Position, PrepareOpen(p) PROVE CheckedWhole'
  BY <1>1 DEF PrepareOpen, Opens
<1>2. ASSUME NEW p \in Position, SignOpen(p) PROVE CheckedWhole'
  BY <1>2 DEF SignOpen, Batches, Opens
<1>3. ASSUME NEW p \in Position, LeaveOpening(p) PROVE CheckedWhole'
  BY <1>3 DEF LeaveOpening, Fault, Opens
<1>4. ASSUME NEW p \in Position, Mine(p) PROVE CheckedWhole'
  <2>0. flying \in [Position -> SUBSET Strategy] /\ shipped \in [Position -> SUBSET Strategy]
    OBVIOUS
  <2>1. PICK batch \in SUBSET Strategy : shipped' = shipped \/ shipped' = [shipped EXCEPT ![p] = @ \cup batch]
    BY <1>4, <2>0 DEF Mine
  <2>2. ASSUME NEW q \in Position, shipped[q] = Strategy
        PROVE  shipped'[q] = Strategy
    <3>1. shipped'[q] = shipped[q] \/ shipped'[q] = Strategy \cup batch
      BY <2>0, <2>1, <2>2
    <3> QED
      BY <2>2, <3>1
  <2> QED
    BY <1>4, <2>2 DEF Mine
<1>5. ASSUME NEW p \in Position, VerifyOpen(p) PROVE CheckedWhole'
  BY <1>5 DEF VerifyOpen, AllSigned, Opens
<1>6. ASSUME NEW p \in Position, RecordOpen(p) PROVE CheckedWhole'
  BY <1>6 DEF RecordOpen, StillPending, Opens
<1>7. ASSUME NEW p \in Position, RecordFails(p) PROVE CheckedWhole'
  BY <1>7 DEF RecordFails, Fault, Opens
<1>8. ASSUME NEW p \in Position, ReadWallet(p) PROVE CheckedWhole'
  BY <1>8 DEF ReadWallet, Closes
<1>9. ASSUME NEW p \in Position, PrepareClose(p) PROVE CheckedWhole'
  BY <1>9 DEF PrepareClose, Closes, Partial
<1>10. ASSUME NEW p \in Position, SignDock(p) PROVE CheckedWhole'
  BY <1>10 DEF SignDock, Closes
<1>11. ASSUME NEW p \in Position, LeaveClosing(p) PROVE CheckedWhole'
  BY <1>11 DEF LeaveClosing, Fault, Closes
<1>12. ASSUME NEW p \in Position, VerifyClose(p) PROVE CheckedWhole'
  BY <1>12 DEF VerifyClose, Closes, Partial, NoneLive
<1>13. ASSUME NEW p \in Position, RefuseClose(p) PROVE CheckedWhole'
  BY <1>13 DEF RefuseClose, Closes, NoneLive
<1>14. ASSUME NEW p \in Position, RecordClose(p) PROVE CheckedWhole'
  BY <1>14 DEF RecordClose, Closes
<1>15. ASSUME NEW p \in Position, Sell(p) PROVE CheckedWhole'
  BY <1>15 DEF Sell, Closes, Returned, Least
<1>16. ASSUME NEW p \in Position, NEW exit \in BOOLEAN, StartClose(p, exit) PROVE CheckedWhole'
  BY <1>16 DEF StartClose, Closes, Partial
<1>17. ASSUME NEW p \in Position, NEW d \in {-1, 1}, Trade(p, d) PROVE CheckedWhole'
  BY <1>17 DEF Trade, Fault
<1>18. ASSUME Receive PROVE CheckedWhole'
  BY <1>18 DEF Receive, Fault
<1>19. ASSUME UNCHANGED vars PROVE CheckedWhole'
  BY <1>19
<1> QED
  BY <1>1, <1>2, <1>3, <1>4, <1>5, <1>6, <1>7, <1>8, <1>9, <1>10, <1>11, <1>12, <1>13, <1>14,
     <1>15, <1>16, <1>17, <1>18, <1>19 DEF Next

\* Behind the check of a close only an opening can make a strategy live.
LEMMA EmptyStep ==
  ASSUME TypeOK, RowFirst, CheckedEmpty, [Next]_vars
  PROVE  CheckedEmpty'
<1> USE DEF vars, rowVars, aquaVars, openVars, closeVars, baseVars, exitVars, TypeOK, Opener,
            Closer, RowFirst, CheckedEmpty
<1>1. ASSUME NEW p \in Position, PrepareOpen(p) PROVE CheckedEmpty'
  BY <1>1 DEF PrepareOpen, Opens
<1>2. ASSUME NEW p \in Position, SignOpen(p) PROVE CheckedEmpty'
  BY <1>2 DEF SignOpen, Batches, Opens
<1>3. ASSUME NEW p \in Position, LeaveOpening(p) PROVE CheckedEmpty'
  BY <1>3 DEF LeaveOpening, Fault, Opens
<1>4. ASSUME NEW p \in Position, Mine(p) PROVE CheckedEmpty'
  BY <1>4 DEF Mine, Fault
<1>5. ASSUME NEW p \in Position, VerifyOpen(p) PROVE CheckedEmpty'
  BY <1>5 DEF VerifyOpen, AllSigned, Opens
<1>6. ASSUME NEW p \in Position, RecordOpen(p) PROVE CheckedEmpty'
  BY <1>6 DEF RecordOpen, StillPending, Opens
<1>7. ASSUME NEW p \in Position, RecordFails(p) PROVE CheckedEmpty'
  BY <1>7 DEF RecordFails, Fault, Opens
<1>8. ASSUME NEW p \in Position, ReadWallet(p) PROVE CheckedEmpty'
  BY <1>8 DEF ReadWallet, Closes
<1>9. ASSUME NEW p \in Position, PrepareClose(p) PROVE CheckedEmpty'
  BY <1>9 DEF PrepareClose, Closes, Partial
<1>10. ASSUME NEW p \in Position, SignDock(p) PROVE CheckedEmpty'
  BY <1>10 DEF SignDock, Closes
<1>11. ASSUME NEW p \in Position, LeaveClosing(p) PROVE CheckedEmpty'
  BY <1>11 DEF LeaveClosing, Fault, Closes
<1>12. ASSUME NEW p \in Position, VerifyClose(p) PROVE CheckedEmpty'
  BY <1>12 DEF VerifyClose, Closes, Partial, NoneLive
<1>13. ASSUME NEW p \in Position, RefuseClose(p) PROVE CheckedEmpty'
  BY <1>13 DEF RefuseClose, Closes, NoneLive
<1>14. ASSUME NEW p \in Position, RecordClose(p) PROVE CheckedEmpty'
  BY <1>14 DEF RecordClose, Closes
<1>15. ASSUME NEW p \in Position, Sell(p) PROVE CheckedEmpty'
  BY <1>15 DEF Sell, Closes, Returned, Least
<1>16. ASSUME NEW p \in Position, NEW exit \in BOOLEAN, StartClose(p, exit) PROVE CheckedEmpty'
  BY <1>16 DEF StartClose, Closes, Partial
<1>17. ASSUME NEW p \in Position, NEW d \in {-1, 1}, Trade(p, d) PROVE CheckedEmpty'
  BY <1>17 DEF Trade, Fault
<1>18. ASSUME Receive PROVE CheckedEmpty'
  BY <1>18 DEF Receive, Fault
<1>19. ASSUME UNCHANGED vars PROVE CheckedEmpty'
  BY <1>19
<1> QED
  BY <1>1, <1>2, <1>3, <1>4, <1>5, <1>6, <1>7, <1>8, <1>9, <1>10, <1>11, <1>12, <1>13, <1>14,
     <1>15, <1>16, <1>17, <1>18, <1>19 DEF Next

\* No strategy of a whole position becomes live again.
LEMMA ExitStep ==
  ASSUME TypeOK, SignedOnce, CheckedWhole, ExitIsWhole, [Next]_vars
  PROVE  ExitIsWhole'
<1> USE DEF vars, rowVars, aquaVars, openVars, closeVars, baseVars, exitVars, TypeOK, Opener,
            Closer, SignedOnce, CheckedWhole, ExitIsWhole
<1>1. ASSUME NEW p \in Position, PrepareOpen(p) PROVE ExitIsWhole'
  BY <1>1 DEF PrepareOpen, Opens
<1>2. ASSUME NEW p \in Position, SignOpen(p) PROVE ExitIsWhole'
  BY <1>2 DEF SignOpen, Batches, Opens
<1>3. ASSUME NEW p \in Position, LeaveOpening(p) PROVE ExitIsWhole'
  BY <1>3 DEF LeaveOpening, Fault, Opens
<1>4. ASSUME NEW p \in Position, Mine(p) PROVE ExitIsWhole'
  BY <1>4 DEF Mine, Fault
<1>5. ASSUME NEW p \in Position, VerifyOpen(p) PROVE ExitIsWhole'
  BY <1>5 DEF VerifyOpen, AllSigned, Opens
<1>6. ASSUME NEW p \in Position, RecordOpen(p) PROVE ExitIsWhole'
  BY <1>6 DEF RecordOpen, StillPending, Opens
<1>7. ASSUME NEW p \in Position, RecordFails(p) PROVE ExitIsWhole'
  BY <1>7 DEF RecordFails, Fault, Opens
<1>8. ASSUME NEW p \in Position, ReadWallet(p) PROVE ExitIsWhole'
  BY <1>8 DEF ReadWallet, Closes
<1>9. ASSUME NEW p \in Position, PrepareClose(p) PROVE ExitIsWhole'
  BY <1>9 DEF PrepareClose, Closes, Partial
<1>10. ASSUME NEW p \in Position, SignDock(p) PROVE ExitIsWhole'
  BY <1>10 DEF SignDock, Closes
<1>11. ASSUME NEW p \in Position, LeaveClosing(p) PROVE ExitIsWhole'
  BY <1>11 DEF LeaveClosing, Fault, Closes
<1>12. ASSUME NEW p \in Position, VerifyClose(p) PROVE ExitIsWhole'
  BY <1>12 DEF VerifyClose, Closes, Partial, NoneLive
<1>13. ASSUME NEW p \in Position, RefuseClose(p) PROVE ExitIsWhole'
  BY <1>13 DEF RefuseClose, Closes, NoneLive
<1>14. ASSUME NEW p \in Position, RecordClose(p) PROVE ExitIsWhole'
  BY <1>14 DEF RecordClose, Closes
<1>15. ASSUME NEW p \in Position, Sell(p) PROVE ExitIsWhole'
  BY <1>15 DEF Sell, Closes, Returned, Least
<1>16. ASSUME NEW p \in Position, NEW exit \in BOOLEAN, StartClose(p, exit) PROVE ExitIsWhole'
  BY <1>16 DEF StartClose, Closes, Partial
<1>17. ASSUME NEW p \in Position, NEW d \in {-1, 1}, Trade(p, d) PROVE ExitIsWhole'
  BY <1>17 DEF Trade, Fault
<1>18. ASSUME Receive PROVE ExitIsWhole'
  BY <1>18 DEF Receive, Fault
<1>19. ASSUME UNCHANGED vars PROVE ExitIsWhole'
  BY <1>19
<1> QED
  BY <1>1, <1>2, <1>3, <1>4, <1>5, <1>6, <1>7, <1>8, <1>9, <1>10, <1>11, <1>12, <1>13, <1>14,
     <1>15, <1>16, <1>17, <1>18, <1>19 DEF Next

\* Whatever else moves base token while an exit is under way is strange.
LEMMA ReadStep ==
  ASSUME TypeOK, ExitIsWhole, ReadIsTrue, [Next]_vars
  PROVE  ReadIsTrue'
<1> USE DEF vars, rowVars, aquaVars, openVars, closeVars, baseVars, exitVars, TypeOK, Opener,
            Closer, ExitIsWhole, ReadIsTrue
<1>1. ASSUME NEW p \in Position, PrepareOpen(p) PROVE ReadIsTrue'
  BY <1>1 DEF PrepareOpen, Opens
<1>2. ASSUME NEW p \in Position, SignOpen(p) PROVE ReadIsTrue'
  BY <1>2 DEF SignOpen, Batches, Opens
<1>3. ASSUME NEW p \in Position, LeaveOpening(p) PROVE ReadIsTrue'
  BY <1>3 DEF LeaveOpening, Fault, Opens
<1>4. ASSUME NEW p \in Position, Mine(p) PROVE ReadIsTrue'
  BY <1>4 DEF Mine, Fault
<1>5. ASSUME NEW p \in Position, VerifyOpen(p) PROVE ReadIsTrue'
  BY <1>5 DEF VerifyOpen, AllSigned, Opens
<1>6. ASSUME NEW p \in Position, RecordOpen(p) PROVE ReadIsTrue'
  BY <1>6 DEF RecordOpen, StillPending, Opens
<1>7. ASSUME NEW p \in Position, RecordFails(p) PROVE ReadIsTrue'
  BY <1>7 DEF RecordFails, Fault, Opens
<1>8. ASSUME NEW p \in Position, ReadWallet(p) PROVE ReadIsTrue'
  BY <1>8 DEF ReadWallet, Closes
<1>9. ASSUME NEW p \in Position, PrepareClose(p) PROVE ReadIsTrue'
  BY <1>9 DEF PrepareClose, Closes, Partial
<1>10. ASSUME NEW p \in Position, SignDock(p) PROVE ReadIsTrue'
  <2>1. /\ closer[p] = "docking"
        /\ \A q \in Position \ {p} : closer'[q] = closer[q]
        /\ exiting' = exiting /\ before' = before /\ expected' = expected /\ manager' = manager
        /\ manager \in [Position -> BOOLEAN]
    BY <1>10 DEF SignDock, Closes
  <2>2. CASE base' = base /\ back' = back /\ held' = held /\ strange' = strange
    BY <2>1, <2>2
  <2>3. CASE /\ live[p] # {}
             /\ base' = [base EXCEPT ![p] = 0] /\ back' = [back EXCEPT ![p] = base[p]]
             /\ held' = IF manager[p] THEN held + base[p] ELSE held
             /\ strange' = (strange \/ \E q \in Position \ {p} :
                                         manager[p] /\ exiting[q] /\ base[p] > 0)
    <3>1. exiting[p] => back[p] = 0
      BY <2>1, <2>3
    <3>2. ASSUME exiting[p], ~strange'
          PROVE  /\ expected'[p] = base'[p] + back'[p]
                 /\ closer'[p] \notin {"none", "reading"} /\ manager'[p] => held' = before'[p] + back'[p]
      BY <2>1, <2>3, <3>1, <3>2
    <3>3. ASSUME NEW q \in Position \ {p}, exiting[q], ~strange'
          PROVE  base'[q] = base[q] /\ back'[q] = back[q] /\ held' = held
      BY <2>3, <3>3
    <3> QED
      BY <2>1, <2>3, <3>2, <3>3
  <2>4. live[p] # {} \/ UNCHANGED <<base, back, held, strange>>
    BY <1>10, NothingToDock
  <2> QED
    BY <1>10, <2>2, <2>3, <2>4 DEF SignDock
<1>11. ASSUME NEW p \in Position, LeaveClosing(p) PROVE ReadIsTrue'
  BY <1>11 DEF LeaveClosing, Fault, Closes
<1>12. ASSUME NEW p \in Position, VerifyClose(p) PROVE ReadIsTrue'
  BY <1>12 DEF VerifyClose, Closes, Partial, NoneLive
<1>13. ASSUME NEW p \in Position, RefuseClose(p) PROVE ReadIsTrue'
  BY <1>13 DEF RefuseClose, Closes, NoneLive
<1>14. ASSUME NEW p \in Position, RecordClose(p) PROVE ReadIsTrue'
  BY <1>14 DEF RecordClose, Closes
<1>15. ASSUME NEW p \in Position, Sell(p) PROVE ReadIsTrue'
  BY <1>15 DEF Sell, Closes, Returned, Least
<1>16. ASSUME NEW p \in Position, NEW exit \in BOOLEAN, StartClose(p, exit) PROVE ReadIsTrue'
  BY <1>16 DEF StartClose, Closes, Partial
<1>17. ASSUME NEW p \in Position, NEW d \in {-1, 1}, Trade(p, d) PROVE ReadIsTrue'
  BY <1>17 DEF Trade, Fault
<1>18. ASSUME Receive PROVE ReadIsTrue'
  BY <1>18 DEF Receive, Fault
<1>19. ASSUME UNCHANGED vars PROVE ReadIsTrue'
  BY <1>19
<1> QED
  BY <1>1, <1>2, <1>3, <1>4, <1>5, <1>6, <1>7, <1>8, <1>9, <1>10, <1>11, <1>12, <1>13, <1>14,
     <1>15, <1>16, <1>17, <1>18, <1>19 DEF Next

\* At most what came back is sold.
LEMMA SoldStep ==
  ASSUME TypeOK, ExitIsWhole, ReadIsTrue, OnlyReturnedIsSold, [Next]_vars
  PROVE  OnlyReturnedIsSold'
<1> USE DEF vars, rowVars, aquaVars, openVars, closeVars, baseVars, exitVars, TypeOK, Opener,
            Closer, ExitIsWhole, ReadIsTrue, OnlyReturnedIsSold
<1>1. ASSUME NEW p \in Position, PrepareOpen(p) PROVE OnlyReturnedIsSold'
  BY <1>1 DEF PrepareOpen, Opens
<1>2. ASSUME NEW p \in Position, SignOpen(p) PROVE OnlyReturnedIsSold'
  BY <1>2 DEF SignOpen, Batches, Opens
<1>3. ASSUME NEW p \in Position, LeaveOpening(p) PROVE OnlyReturnedIsSold'
  BY <1>3 DEF LeaveOpening, Fault, Opens
<1>4. ASSUME NEW p \in Position, Mine(p) PROVE OnlyReturnedIsSold'
  BY <1>4 DEF Mine, Fault
<1>5. ASSUME NEW p \in Position, VerifyOpen(p) PROVE OnlyReturnedIsSold'
  BY <1>5 DEF VerifyOpen, AllSigned, Opens
<1>6. ASSUME NEW p \in Position, RecordOpen(p) PROVE OnlyReturnedIsSold'
  BY <1>6 DEF RecordOpen, StillPending, Opens
<1>7. ASSUME NEW p \in Position, RecordFails(p) PROVE OnlyReturnedIsSold'
  BY <1>7 DEF RecordFails, Fault, Opens
<1>8. ASSUME NEW p \in Position, ReadWallet(p) PROVE OnlyReturnedIsSold'
  BY <1>8 DEF ReadWallet, Closes
<1>9. ASSUME NEW p \in Position, PrepareClose(p) PROVE OnlyReturnedIsSold'
  BY <1>9 DEF PrepareClose, Closes, Partial
<1>10. ASSUME NEW p \in Position, SignDock(p) PROVE OnlyReturnedIsSold'
  BY <1>10 DEF SignDock, Closes
<1>11. ASSUME NEW p \in Position, LeaveClosing(p) PROVE OnlyReturnedIsSold'
  BY <1>11 DEF LeaveClosing, Fault, Closes
<1>12. ASSUME NEW p \in Position, VerifyClose(p) PROVE OnlyReturnedIsSold'
  BY <1>12 DEF VerifyClose, Closes, Partial, NoneLive
<1>13. ASSUME NEW p \in Position, RefuseClose(p) PROVE OnlyReturnedIsSold'
  BY <1>13 DEF RefuseClose, Closes, NoneLive
<1>14. ASSUME NEW p \in Position, RecordClose(p) PROVE OnlyReturnedIsSold'
  BY <1>14 DEF RecordClose, Closes
<1>15. ASSUME NEW p \in Position, Sell(p) PROVE OnlyReturnedIsSold'
  <2>1. exiting[p] /\ closer[p] = "selling" /\ back' = back /\ (~strange' => ~strange)
    BY <1>15 DEF Sell
  <2>2. PICK amount \in 0..(IF Returned(p) > 0 THEN Least(Returned(p), held) ELSE 0) :
          sold' = [sold EXCEPT ![p] = amount]
    BY <1>15 DEF Sell
  <2>3. base[p] \in Nat /\ back[p] \in Nat /\ before[p] \in Nat /\ expected[p] \in Nat /\ held \in Nat
    OBVIOUS
  <2>4. ASSUME ~strange PROVE Returned(p) \in Int /\ Returned(p) <= back[p]
    BY <2>1, <2>3, <2>4 DEF Returned
  <2> QED
    BY <2>1, <2>2, <2>3, <2>4 DEF Least
<1>16. ASSUME NEW p \in Position, NEW exit \in BOOLEAN, StartClose(p, exit) PROVE OnlyReturnedIsSold'
  BY <1>16 DEF StartClose, Closes, Partial
<1>17. ASSUME NEW p \in Position, NEW d \in {-1, 1}, Trade(p, d) PROVE OnlyReturnedIsSold'
  BY <1>17 DEF Trade, Fault
<1>18. ASSUME Receive PROVE OnlyReturnedIsSold'
  BY <1>18 DEF Receive, Fault
<1>19. ASSUME UNCHANGED vars PROVE OnlyReturnedIsSold'
  BY <1>19
<1> QED
  BY <1>1, <1>2, <1>3, <1>4, <1>5, <1>6, <1>7, <1>8, <1>9, <1>10, <1>11, <1>12, <1>13, <1>14,
     <1>15, <1>16, <1>17, <1>18, <1>19 DEF Next

\* IndInv is inductive.
LEMMA IndInvHolds == Spec => []IndInv
<1>1. Init => IndInv
  <2> SUFFICES ASSUME Init PROVE IndInv
    OBVIOUS
  <2>1. TypeOK
    <3>1. /\ \A f \in {live, shipped, flying, signed, docks, undocked, late} : f \in [Position -> SUBSET Strategy]
          /\ \A f \in {base, before, expected, back, sold} : f \in [Position -> Nat]
      BY DEF Init, Empty, Zero
    <3>2. held \in Nat /\ faults \in 0..MaxFaults
      BY BoundAssumption DEF Init
    <3>3. strange \in BOOLEAN
      BY Zenon DEF Init
    <3> QED
      BY <3>1, <3>2, <3>3 DEF Init, TypeOK, Opener, Closer
  <2>2. RowFirst /\ SignedOnce /\ CheckedWhole /\ CheckedEmpty
    BY DEF Init, Empty, RowFirst, SignedOnce, CheckedWhole, CheckedEmpty
  <2>3. ExitIsWhole /\ ReadIsTrue /\ OnlyReturnedIsSold
    BY DEF Init, Zero, ExitIsWhole, ReadIsTrue, OnlyReturnedIsSold
  <2> QED
    BY <2>1, <2>2, <2>3 DEF IndInv
<1>2. IndInv /\ [Next]_vars => IndInv'
  BY TypeStep, RowStep, SignedStep, WholeStep, EmptyStep, ExitStep, ReadStep, SoldStep DEF IndInv
<1> QED
  BY <1>1, <1>2, PTL DEF Spec

\* Rows, pages, wallet and chain keep their types.
THEOREM TypeCorrect == Spec => []TypeOK
BY IndInvHolds, PTL DEF IndInv

\* A row says open only of a position all of whose strategies were opened on
\* chain, whatever the page does (recordOpen).
THEOREM OpenIsWholeHolds == Spec => []OpenIsWhole
<1>1. IndInv => OpenIsWhole
  BY DEF IndInv, CheckedWhole, OpenIsWhole
<1> QED
  BY <1>1, IndInvHolds, PTL

\* A closed row leaves nothing on Aqua but what was mined behind its check
\* (recordClose).
THEOREM ClosedIsEmptyHolds == Spec => []ClosedIsEmpty
<1>1. IndInv => ClosedIsEmpty
  BY DEF IndInv, CheckedEmpty, ClosedIsEmpty
<1> QED
  BY <1>1, IndInvHolds, PTL

\* No late answer to an opening's check reopens a closed row: its update looks
\* for a pending one (recordOpen).
THEOREM ClosedIsFinalHolds == Spec => ClosedIsFinal
<1>1. ASSUME IndInv, [Next]_vars
      PROVE  [\A p \in Position : row[p] = "closed" => row'[p] = "closed"]_vars
  <2>1. \A p \in Position : row[p] = "closed" => opener[p] # "none"
    BY <1>1 DEF IndInv, RowFirst
  <2>2. row \in [Position -> {"none", "pending", "open", "closed"}]
    BY <1>1 DEF IndInv, TypeOK
  <2>3. ASSUME NEW p \in Position, PrepareOpen(p) \/ RecordOpen(p) \/ RecordClose(p)
        PROVE  \A q \in Position : row[q] = "closed" => row'[q] = "closed"
    BY <2>1, <2>2, <2>3 DEF PrepareOpen, RecordOpen, RecordClose, StillPending
  <2>4. ASSUME row' = row
        PROVE  \A q \in Position : row[q] = "closed" => row'[q] = "closed"
    BY <2>4
  <2> QED
    BY <1>1, <2>3, <2>4
    DEF Next, rowVars, vars, SignOpen, LeaveOpening, Mine, VerifyOpen, RecordFails, ReadWallet, PrepareClose,
        SignDock, LeaveClosing, VerifyClose, RefuseClose, Sell, StartClose, Trade, Receive
<1> QED
  BY <1>1, IndInvHolds, PTL DEF Spec, ClosedIsFinal

\* closeAndSwap sells at most what the position gave back, as long as nothing
\* else moves base token meanwhile.
THEOREM OnlyReturnedIsSoldHolds == Spec => []OnlyReturnedIsSold
BY IndInvHolds, PTL DEF IndInv
=============================================================================
