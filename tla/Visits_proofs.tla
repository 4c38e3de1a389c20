---------------------------- MODULE Visits_proofs ----------------------------
(***************************************************************************)
(* Visits for any number of visits and notes and any bound on crashes:     *)
(* IndInv is inductive, and it implies TypeOK, VerifiedOnce, ReceiptOnce   *)
(* and ReceiptNotForgotten.                                                *)
(***************************************************************************)
EXTENDS Visits, TLAPS

\* A note has a row only once StoreNote has written it.
RowIsLate ==
  \A n \in Note : /\ status[n] # "none" => where[n] \in {"stored", "over"}
                  /\ where[n] = "stored" => status[n] \notin {"none", "unqueued"}

\* A look at a receipt is a look at some visit's; a note starts its own only when
\* it settles.
TryHasVisit ==
  /\ \A c \in Caller : try[c] # "idle" => of[c] \in Visit
  /\ \A n \in Note : status[n] \in {"none", "queued", "unqueued"} => try[n] = "idle"

\* Before the claim nothing is sent, and one caller at most holds the claim.
ClaimIsOne ==
  /\ \A v \in Visit : ~claimed[v] => sent[v] = 0
  /\ \A c \in Caller : try[c] = "send" => claimed[of[c]] /\ sent[of[c]] = 0
  /\ \A c, d \in Caller : try[c] = "send" /\ try[d] = "send" /\ of[c] = of[d] => c = d

Waiting(v) == \E n \in NotesOf(v) : status[n] = "queued"
Looking(c, v) == of[c] = v /\ try[c] \in {"session", "notes", "claim"}
Excused(v) ==
  \/ claimed[v] \/ v \in replaced \/ crashes > 0
  \/ \E n \in NotesOf(v) : status[n] = "unqueued"

\* Somebody is still to come for a finished visit: a note that will settle, or a
\* look that has not claimed yet.
SomebodyComes ==
  \A v \in Visit :
    visit[v] = "finished" /\ NotesOf(v) # {} =>
      Excused(v) \/ Waiting(v) \/ \E c \in Caller : Looking(c, v)

IndInv == TypeOK /\ RowIsLate /\ VerifiedOnce /\ TryHasVisit /\ ClaimIsOne /\ ReceiptOnce /\ SomebodyComes

\* Every step keeps the types.
LEMMA TypeStep ==
  ASSUME TypeOK, TryHasVisit, [Next]_vars
  PROVE  TypeOK'
<1> USE DEF vars, deviceVars, noteVars, visitVars, tryVars, TypeOK, Caller, Where, Status,
            VisitStatus, Try
<1>1. ASSUME NEW n \in Note, TakeNote(n) PROVE TypeOK'
  BY <1>1 DEF TakeNote
<1>2. ASSUME NEW n \in Note, SignNote(n) PROVE TypeOK'
  BY <1>2 DEF SignNote
<1>3. ASSUME NEW n \in Note, CheckMachine(n) PROVE TypeOK'
  BY <1>3 DEF CheckMachine, Used
<1>4. ASSUME NEW n \in Note, ReadOpen(n) PROVE TypeOK'
  BY <1>4 DEF ReadOpen, OpenVisits
<1>5. ASSUME NEW n \in Note, StoreNote(n) PROVE TypeOK'
  BY <1>5 DEF StoreNote, IndexAllows, Used
<1>6. ASSUME NEW n \in Note, Enqueue(n) PROVE TypeOK'
  BY <1>6 DEF Enqueue
<1>7. ASSUME NEW n \in Note, Settle(n) PROVE TypeOK'
  BY <1>7 DEF Settle, TryAfter, Begin
<1>8. ASSUME NEW v \in Visit, CloseOpen(v) PROVE TypeOK'
  BY <1>8 DEF CloseOpen, OpenVisits
<1>9. ASSUME NEW v \in Visit, InsertVisit(v) PROVE TypeOK'
  BY <1>9 DEF InsertVisit
<1>10. ASSUME NEW v \in Visit, FinishVisit(v) PROVE TypeOK'
  BY <1>10 DEF FinishVisit, Begin
<1>11. ASSUME NEW c \in Caller, ReadSession(c) PROVE TypeOK'
  BY <1>11 DEF ReadSession, Advance
<1>12. ASSUME NEW c \in Caller, ReadNotes(c) PROVE TypeOK'
  BY <1>12 DEF ReadNotes, Advance
<1>13. ASSUME NEW c \in Caller, Claim(c) PROVE TypeOK'
  BY <1>13 DEF Claim, Advance, MayClaim
<1>14. ASSUME NEW c \in Caller, Send(c) PROVE TypeOK'
  BY <1>14 DEF TryHasVisit, Send, Advance
<1>15. ASSUME NEW c \in Caller, TryFails(c) PROVE TypeOK'
  BY <1>15, ModeAssumption DEF TryFails, Advance
<1>16. ASSUME RestartPi PROVE TypeOK'
  <2>1. \/ nonce' = file /\ file' = file /\ known' = known
        \/ nonce' = 0 /\ file' = 0 /\ known' = FALSE
    BY <1>16, Zenon DEF RestartPi
  <2>2. nonce' \in Nat /\ file' \in Nat
    BY <2>1
  <2>3. known' \in BOOLEAN
    BY <2>1, Zenon
  <2>4. where' \in [Note -> Where] /\ crashes' \in 0..MaxCrashes
    BY <1>16, ModeAssumption DEF RestartPi
  <2> QED
    BY <1>16, <2>2, <2>3, <2>4 DEF RestartPi
<1>17. ASSUME Crash PROVE TypeOK'
  BY <1>17, ModeAssumption DEF Crash
<1>18. ASSUME NEW n \in Note, Requeue(n) PROVE TypeOK'
  BY <1>18 DEF Requeue
<1>19. ASSUME UNCHANGED vars PROVE TypeOK'
  BY <1>19
<1> QED
  BY <1>1, <1>2, <1>3, <1>4, <1>5, <1>6, <1>7, <1>8, <1>9, <1>10,
     <1>11, <1>12, <1>13, <1>14, <1>15, <1>16, <1>17, <1>18, <1>19 DEF Next, Deposit, MaybeSend

\* Nothing takes a note with a row back.
LEMMA RowStep ==
  ASSUME TypeOK, RowIsLate, [Next]_vars
  PROVE  RowIsLate'
<1> USE DEF vars, deviceVars, noteVars, visitVars, tryVars, TypeOK, Caller, Where, Status,
            VisitStatus, Try, RowIsLate
<1>1. ASSUME NEW n \in Note, TakeNote(n) PROVE RowIsLate'
  BY <1>1 DEF TakeNote
<1>2. ASSUME NEW n \in Note, SignNote(n) PROVE RowIsLate'
  BY <1>2 DEF SignNote
<1>3. ASSUME NEW n \in Note, CheckMachine(n) PROVE RowIsLate'
  BY <1>3 DEF CheckMachine, Used
<1>4. ASSUME NEW n \in Note, ReadOpen(n) PROVE RowIsLate'
  BY <1>4 DEF ReadOpen, OpenVisits
<1>5. ASSUME NEW n \in Note, StoreNote(n) PROVE RowIsLate'
  BY <1>5 DEF StoreNote, IndexAllows, Used
<1>6. ASSUME NEW n \in Note, Enqueue(n) PROVE RowIsLate'
  BY <1>6 DEF Enqueue
<1>7. ASSUME NEW n \in Note, Settle(n) PROVE RowIsLate'
  BY <1>7 DEF Settle, TryAfter, Begin
<1>8. ASSUME NEW v \in Visit, CloseOpen(v) PROVE RowIsLate'
  BY <1>8 DEF CloseOpen, OpenVisits
<1>9. ASSUME NEW v \in Visit, InsertVisit(v) PROVE RowIsLate'
  BY <1>9 DEF InsertVisit
<1>10. ASSUME NEW v \in Visit, FinishVisit(v) PROVE RowIsLate'
  BY <1>10 DEF FinishVisit, Begin
<1>11. ASSUME NEW c \in Caller, ReadSession(c) PROVE RowIsLate'
  BY <1>11 DEF ReadSession, Advance
<1>12. ASSUME NEW c \in Caller, ReadNotes(c) PROVE RowIsLate'
  BY <1>12 DEF ReadNotes, Advance
<1>13. ASSUME NEW c \in Caller, Claim(c) PROVE RowIsLate'
  BY <1>13 DEF Claim, Advance, MayClaim
<1>14. ASSUME NEW c \in Caller, Send(c) PROVE RowIsLate'
  BY <1>14 DEF Send, Advance
<1>15. ASSUME NEW c \in Caller, TryFails(c) PROVE RowIsLate'
  BY <1>15 DEF TryFails, Advance
<1>16. ASSUME RestartPi PROVE RowIsLate'
  BY <1>16 DEF RestartPi
<1>17. ASSUME Crash PROVE RowIsLate'
  BY <1>17 DEF Crash
<1>18. ASSUME NEW n \in Note, Requeue(n) PROVE RowIsLate'
  BY <1>18 DEF Requeue
<1>19. ASSUME UNCHANGED vars PROVE RowIsLate'
  BY <1>19
<1> QED
  BY <1>1, <1>2, <1>3, <1>4, <1>5, <1>6, <1>7, <1>8, <1>9, <1>10,
     <1>11, <1>12, <1>13, <1>14, <1>15, <1>16, <1>17, <1>18, <1>19 DEF Next, Deposit, MaybeSend

\* The index on (machine_name, machine_nonce) does it: what is signed or checked
\* again has no row yet.
LEMMA VerifiedStep ==
  ASSUME TypeOK, RowIsLate, VerifiedOnce, [Next]_vars
  PROVE  VerifiedOnce'
<1> USE DEF vars, deviceVars, noteVars, visitVars, tryVars, TypeOK, Caller, Where, Status,
            VisitStatus, Try, RowIsLate, VerifiedOnce
<1>1. ASSUME NEW n \in Note, TakeNote(n) PROVE VerifiedOnce'
  BY <1>1 DEF TakeNote
<1>2. ASSUME NEW n \in Note, SignNote(n) PROVE VerifiedOnce'
  BY <1>2 DEF SignNote
<1>3. ASSUME NEW n \in Note, CheckMachine(n) PROVE VerifiedOnce'
  BY <1>3 DEF CheckMachine, Used
<1>4. ASSUME NEW n \in Note, ReadOpen(n) PROVE VerifiedOnce'
  BY <1>4 DEF ReadOpen, OpenVisits
<1>5. ASSUME NEW n \in Note, StoreNote(n) PROVE VerifiedOnce'
  BY <1>5 DEF StoreNote, IndexAllows, Used
<1>6. ASSUME NEW n \in Note, Enqueue(n) PROVE VerifiedOnce'
  BY <1>6 DEF Enqueue
<1>7. ASSUME NEW n \in Note, Settle(n) PROVE VerifiedOnce'
  BY <1>7 DEF Settle, TryAfter, Begin
<1>8. ASSUME NEW v \in Visit, CloseOpen(v) PROVE VerifiedOnce'
  BY <1>8 DEF CloseOpen, OpenVisits
<1>9. ASSUME NEW v \in Visit, InsertVisit(v) PROVE VerifiedOnce'
  BY <1>9 DEF InsertVisit
<1>10. ASSUME NEW v \in Visit, FinishVisit(v) PROVE VerifiedOnce'
  BY <1>10 DEF FinishVisit, Begin
<1>11. ASSUME NEW c \in Caller, ReadSession(c) PROVE VerifiedOnce'
  BY <1>11 DEF ReadSession, Advance
<1>12. ASSUME NEW c \in Caller, ReadNotes(c) PROVE VerifiedOnce'
  BY <1>12 DEF ReadNotes, Advance
<1>13. ASSUME NEW c \in Caller, Claim(c) PROVE VerifiedOnce'
  BY <1>13 DEF Claim, Advance, MayClaim
<1>14. ASSUME NEW c \in Caller, Send(c) PROVE VerifiedOnce'
  BY <1>14 DEF Send, Advance
<1>15. ASSUME NEW c \in Caller, TryFails(c) PROVE VerifiedOnce'
  BY <1>15 DEF TryFails, Advance
<1>16. ASSUME RestartPi PROVE VerifiedOnce'
  BY <1>16 DEF RestartPi
<1>17. ASSUME Crash PROVE VerifiedOnce'
  BY <1>17 DEF Crash
<1>18. ASSUME NEW n \in Note, Requeue(n) PROVE VerifiedOnce'
  BY <1>18 DEF Requeue
<1>19. ASSUME UNCHANGED vars PROVE VerifiedOnce'
  BY <1>19
<1> QED
  BY <1>1, <1>2, <1>3, <1>4, <1>5, <1>6, <1>7, <1>8, <1>9, <1>10,
     <1>11, <1>12, <1>13, <1>14, <1>15, <1>16, <1>17, <1>18, <1>19 DEF Next, Deposit, MaybeSend

\* Looks begin with a visit.
LEMMA TryStep ==
  ASSUME TypeOK, RowIsLate, TryHasVisit, [Next]_vars
  PROVE  TryHasVisit'
<1> USE DEF vars, deviceVars, noteVars, visitVars, tryVars, TypeOK, Caller, Where, Status,
            VisitStatus, Try, TryHasVisit
<1>1. ASSUME NEW n \in Note, TakeNote(n) PROVE TryHasVisit'
  BY <1>1 DEF TakeNote
<1>2. ASSUME NEW n \in Note, SignNote(n) PROVE TryHasVisit'
  BY <1>2 DEF SignNote
<1>3. ASSUME NEW n \in Note, CheckMachine(n) PROVE TryHasVisit'
  BY <1>3 DEF CheckMachine, Used
<1>4. ASSUME NEW n \in Note, ReadOpen(n) PROVE TryHasVisit'
  BY <1>4 DEF ReadOpen, OpenVisits
<1>5. ASSUME NEW n \in Note, StoreNote(n) PROVE TryHasVisit'
  BY <1>5 DEF RowIsLate, StoreNote, IndexAllows, Used
<1>6. ASSUME NEW n \in Note, Enqueue(n) PROVE TryHasVisit'
  BY <1>6 DEF RowIsLate, Enqueue
<1>7. ASSUME NEW n \in Note, Settle(n) PROVE TryHasVisit'
  BY <1>7 DEF Settle, TryAfter, Begin
<1>8. ASSUME NEW v \in Visit, CloseOpen(v) PROVE TryHasVisit'
  BY <1>8 DEF CloseOpen, OpenVisits
<1>9. ASSUME NEW v \in Visit, InsertVisit(v) PROVE TryHasVisit'
  BY <1>9 DEF InsertVisit
<1>10. ASSUME NEW v \in Visit, FinishVisit(v) PROVE TryHasVisit'
  BY <1>10, VisitAssumption DEF FinishVisit, Begin
<1>11. ASSUME NEW c \in Caller, ReadSession(c) PROVE TryHasVisit'
  BY <1>11 DEF ReadSession, Advance
<1>12. ASSUME NEW c \in Caller, ReadNotes(c) PROVE TryHasVisit'
  BY <1>12 DEF ReadNotes, Advance
<1>13. ASSUME NEW c \in Caller, Claim(c) PROVE TryHasVisit'
  BY <1>13 DEF Claim, Advance, MayClaim
<1>14. ASSUME NEW c \in Caller, Send(c) PROVE TryHasVisit'
  BY <1>14 DEF Send, Advance
<1>15. ASSUME NEW c \in Caller, TryFails(c) PROVE TryHasVisit'
  BY <1>15 DEF TryFails, Advance
<1>16. ASSUME RestartPi PROVE TryHasVisit'
  BY <1>16 DEF RestartPi
<1>17. ASSUME Crash PROVE TryHasVisit'
  BY <1>17 DEF Crash
<1>18. ASSUME NEW n \in Note, Requeue(n) PROVE TryHasVisit'
  BY <1>18 DEF Requeue
<1>19. ASSUME UNCHANGED vars PROVE TryHasVisit'
  BY <1>19
<1> QED
  BY <1>1, <1>2, <1>3, <1>4, <1>5, <1>6, <1>7, <1>8, <1>9, <1>10,
     <1>11, <1>12, <1>13, <1>14, <1>15, <1>16, <1>17, <1>18, <1>19 DEF Next, Deposit, MaybeSend

\* The conditional update of the claim lets one caller through.
LEMMA ClaimStep ==
  ASSUME TypeOK, TryHasVisit, ClaimIsOne, ReceiptOnce, [Next]_vars
  PROVE  ClaimIsOne' /\ ReceiptOnce'
<1> USE DEF vars, deviceVars, noteVars, visitVars, tryVars, TypeOK, Caller, Where, Status,
            VisitStatus, Try, TryHasVisit, ClaimIsOne, ReceiptOnce
<1>1. ASSUME NEW n \in Note, TakeNote(n) PROVE ClaimIsOne' /\ ReceiptOnce'
  BY <1>1 DEF TakeNote
<1>2. ASSUME NEW n \in Note, SignNote(n) PROVE ClaimIsOne' /\ ReceiptOnce'
  BY <1>2 DEF SignNote
<1>3. ASSUME NEW n \in Note, CheckMachine(n) PROVE ClaimIsOne' /\ ReceiptOnce'
  BY <1>3 DEF CheckMachine, Used
<1>4. ASSUME NEW n \in Note, ReadOpen(n) PROVE ClaimIsOne' /\ ReceiptOnce'
  BY <1>4 DEF ReadOpen, OpenVisits
<1>5. ASSUME NEW n \in Note, StoreNote(n) PROVE ClaimIsOne' /\ ReceiptOnce'
  BY <1>5 DEF StoreNote, IndexAllows, Used
<1>6. ASSUME NEW n \in Note, Enqueue(n) PROVE ClaimIsOne' /\ ReceiptOnce'
  BY <1>6 DEF Enqueue
<1>7. ASSUME NEW n \in Note, Settle(n) PROVE ClaimIsOne' /\ ReceiptOnce'
  BY <1>7 DEF Settle, TryAfter, Begin
<1>8. ASSUME NEW v \in Visit, CloseOpen(v) PROVE ClaimIsOne' /\ ReceiptOnce'
  BY <1>8 DEF CloseOpen, OpenVisits
<1>9. ASSUME NEW v \in Visit, InsertVisit(v) PROVE ClaimIsOne' /\ ReceiptOnce'
  BY <1>9 DEF InsertVisit
<1>10. ASSUME NEW v \in Visit, FinishVisit(v) PROVE ClaimIsOne' /\ ReceiptOnce'
  BY <1>10 DEF FinishVisit, Begin
<1>11. ASSUME NEW c \in Caller, ReadSession(c) PROVE ClaimIsOne' /\ ReceiptOnce'
  BY <1>11 DEF ReadSession, Advance
<1>12. ASSUME NEW c \in Caller, ReadNotes(c) PROVE ClaimIsOne' /\ ReceiptOnce'
  BY <1>12 DEF ReadNotes, Advance
<1>13. ASSUME NEW c \in Caller, Claim(c) PROVE ClaimIsOne' /\ ReceiptOnce'
  BY <1>13 DEF Claim, Advance, MayClaim
<1>14. ASSUME NEW c \in Caller, Send(c) PROVE ClaimIsOne' /\ ReceiptOnce'
  BY <1>14 DEF Send, Advance
<1>15. ASSUME NEW c \in Caller, TryFails(c) PROVE ClaimIsOne' /\ ReceiptOnce'
  BY <1>15 DEF TryFails, Advance
<1>16. ASSUME RestartPi PROVE ClaimIsOne' /\ ReceiptOnce'
  BY <1>16 DEF RestartPi
<1>17. ASSUME Crash PROVE ClaimIsOne' /\ ReceiptOnce'
  BY <1>17 DEF Crash
<1>18. ASSUME NEW n \in Note, Requeue(n) PROVE ClaimIsOne' /\ ReceiptOnce'
  BY <1>18 DEF Requeue
<1>19. ASSUME UNCHANGED vars PROVE ClaimIsOne' /\ ReceiptOnce'
  BY <1>19
<1> QED
  BY <1>1, <1>2, <1>3, <1>4, <1>5, <1>6, <1>7, <1>8, <1>9, <1>10,
     <1>11, <1>12, <1>13, <1>14, <1>15, <1>16, <1>17, <1>18, <1>19 DEF Next, Deposit, MaybeSend

\* Whoever finds that it is not the last leaves a note behind that is.
LEMMA ComesStep ==
  ASSUME TypeOK, RowIsLate, TryHasVisit, SomebodyComes, [Next]_vars
  PROVE  SomebodyComes'
<1> USE DEF vars, deviceVars, noteVars, visitVars, tryVars, TypeOK, Caller, Where, Status,
            VisitStatus, Try, RowIsLate, TryHasVisit, SomebodyComes, Excused, Waiting, Looking,
            NotesOf
<1>1. ASSUME NEW n \in Note, TakeNote(n) PROVE SomebodyComes'
  BY <1>1 DEF TakeNote
<1>2. ASSUME NEW n \in Note, SignNote(n) PROVE SomebodyComes'
  BY <1>2 DEF SignNote
<1>3. ASSUME NEW n \in Note, CheckMachine(n) PROVE SomebodyComes'
  BY <1>3 DEF CheckMachine, Used
<1>4. ASSUME NEW n \in Note, ReadOpen(n) PROVE SomebodyComes'
  BY <1>4 DEF ReadOpen, OpenVisits
<1>5. ASSUME NEW n \in Note, StoreNote(n) PROVE SomebodyComes'
  BY <1>5 DEF StoreNote, IndexAllows, Used
<1>6. ASSUME NEW n \in Note, Enqueue(n) PROVE SomebodyComes'
  BY <1>6 DEF Enqueue
<1>7. ASSUME NEW n \in Note, Settle(n) PROVE SomebodyComes'
  <2>1. \A v \in Visit : /\ NotesOf(v)' = NotesOf(v)
                         /\ Excused(v) => Excused(v)' \/ joins[n] = v
    BY <1>7 DEF Settle
  <2>2. \A c \in Caller \ {n} : try'[c] = try[c] /\ of'[c] = of[c]
    BY <1>7 DEF Settle, TryAfter, Begin
  <2>3. \A m \in Note \ {n} : status'[m] = status[m]
    BY <1>7 DEF Settle
  <2>4. try[n] = "idle" /\ (joins[n] \in Visit => try'[n] = "session" /\ of'[n] = joins[n])
    BY <1>7, VisitAssumption DEF Settle, TryAfter, Begin
  <2>5. \A v \in Visit : \A m \in NotesOf(v) : m \in Note /\ joins[m] = v
    OBVIOUS
  <2>6. visit' = visit
    BY <1>7 DEF Settle
  <2> HIDE DEF Excused, NotesOf
  <2> QED
    BY <1>7, <2>1, <2>2, <2>3, <2>4, <2>5, <2>6
<1>8. ASSUME NEW v \in Visit, CloseOpen(v) PROVE SomebodyComes'
  BY <1>8 DEF CloseOpen, OpenVisits
<1>9. ASSUME NEW v \in Visit, InsertVisit(v) PROVE SomebodyComes'
  BY <1>9 DEF InsertVisit
<1>10. ASSUME NEW v \in Visit, FinishVisit(v) PROVE SomebodyComes'
  BY <1>10 DEF FinishVisit, Begin
<1>11. ASSUME NEW c \in Caller, ReadSession(c) PROVE SomebodyComes'
  BY <1>11 DEF ReadSession, Advance
<1>12. ASSUME NEW c \in Caller, ReadNotes(c) PROVE SomebodyComes'
  <2>1. \A v \in Visit : /\ NotesOf(v)' = NotesOf(v) /\ Excused(v)' = Excused(v)
                         /\ Waiting(v)' = Waiting(v)
    BY <1>12 DEF ReadNotes
  <2>2. \A d \in Caller \ {c} : try'[d] = try[d] /\ of'[d] = of[d]
    BY <1>12 DEF ReadNotes, Advance
  <2>3. \/ try'[c] = "claim" /\ of'[c] = of[c]
        \/ NotesOf(of[c]) = {}
        \/ \E n \in NotesOf(of[c]) : ~Settled(n)
    BY <1>12 DEF ReadNotes, Advance
  <2>4. \A n \in NotesOf(of[c]) : ~Settled(n) => status[n] = "queued"
    BY DEF Settled
  <2>5. visit' = visit
    BY <1>12 DEF ReadNotes
  <2> HIDE DEF Excused, NotesOf
  <2> QED
    BY <1>12, <2>1, <2>2, <2>3, <2>4, <2>5 DEF ReadNotes
<1>13. ASSUME NEW c \in Caller, Claim(c) PROVE SomebodyComes'
  BY <1>13 DEF Claim, Advance, MayClaim
<1>14. ASSUME NEW c \in Caller, Send(c) PROVE SomebodyComes'
  BY <1>14 DEF Send, Advance
<1>15. ASSUME NEW c \in Caller, TryFails(c) PROVE SomebodyComes'
  BY <1>15 DEF TryFails, Advance
<1>16. ASSUME RestartPi PROVE SomebodyComes'
  BY <1>16 DEF RestartPi
<1>17. ASSUME Crash PROVE SomebodyComes'
  BY <1>17 DEF Crash
<1>18. ASSUME NEW n \in Note, Requeue(n) PROVE SomebodyComes'
  BY <1>18 DEF Requeue
<1>19. ASSUME UNCHANGED vars PROVE SomebodyComes'
  BY <1>19
<1> QED
  BY <1>1, <1>2, <1>3, <1>4, <1>5, <1>6, <1>7, <1>8, <1>9, <1>10,
     <1>11, <1>12, <1>13, <1>14, <1>15, <1>16, <1>17, <1>18, <1>19 DEF Next, Deposit, MaybeSend

\* IndInv is inductive.
LEMMA IndInvHolds == Spec => []IndInv
<1>1. Init => IndInv
  BY ModeAssumption
  DEF Init, IndInv, TypeOK, Caller, Where, Status, VisitStatus, Try, RowIsLate, VerifiedOnce, TryHasVisit,
      ClaimIsOne, ReceiptOnce, SomebodyComes
<1>2. IndInv /\ [Next]_vars => IndInv'
  BY TypeStep, RowStep, VerifiedStep, TryStep, ClaimStep, ComesStep DEF IndInv
<1> QED
  BY <1>1, <1>2, PTL DEF Spec

\* Every variable of the kiosk, the deposits, the visits and the looks at
\* receipts keeps its type, whatever restarts.
THEOREM TypeCorrect == Spec => []TypeOK
BY IndInvHolds, PTL DEF IndInv

\* One device nonce is on record as verified once, for any number of notes
\* signed at once, and any restarts of the Pi (uniq_machine_nonce behind checkMachine).
THEOREM VerifiedOnceHolds == Spec => []VerifiedOnce
BY IndInvHolds, PTL DEF IndInv

\* The receipt of a visit is emailed by itself once at most, however many
\* notes settle while it is finished, again and again (markReceiptEmailed).
THEOREM ReceiptOnceHolds == Spec => []ReceiptOnce
BY IndInvHolds, PTL DEF IndInv

\* A finished visit whose notes have settled and on which nobody works any more
\* has its receipt claimed, but for the exceptions that the property names
\* (maybeSendReceipt after the finish and after every note).
THEOREM ReceiptNotForgottenHolds == Spec => []ReceiptNotForgotten
<1>1. IndInv => ReceiptNotForgotten
  BY DEF IndInv, SomebodyComes, ReceiptNotForgotten, Quiet, Excused, Waiting, Looking, NotesOf
<1> QED
  BY <1>1, IndInvHolds, PTL
=============================================================================
