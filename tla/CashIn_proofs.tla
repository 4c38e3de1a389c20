---------------------------- MODULE CashIn_proofs ----------------------------
(***************************************************************************)
(* Cash on its way in, for every value of the constants.                   *)
(*                                                                         *)
(* The deposit pipeline (DepositQueue), for every set of notes, every      *)
(* number of attempts and every number of crashes: IndInv is inductive,    *)
(* and it implies the safety invariants and NeverResent.                   *)
(*                                                                         *)
(* The receipt token (CashReceipt), for every number of kiosks, holders,   *)
(* runs and values: ReceiptInv is inductive, and it implies that every     *)
(* token is backed, that what the withdrawals claim was burned, that the   *)
(* daily limit holds and that an undisturbed redeemAll redeems everything. *)
(*                                                                         *)
(* The terminal (Kiosk), for any number of visits, notes and failures:     *)
(* KioskInv is inductive, and it implies RightCustomer.                    *)
(***************************************************************************)
EXTENDS DepositQueue, CashReceipt, Kiosk, Sums, SequenceTheorems, TLAPS

-----------------------------------------------------------------------------
\* The deposit pipeline

\* A broadcast extends the note's transactions by one and leaves the earlier
\* ones, and every other note's, as they were.
LEMMA BroadcastExtends ==
  ASSUME TypeOK, NEW d \in Deposit
  PROVE  /\ Broadcast(d) \in [Deposit -> Seq(TxStatus)]
         /\ Len(Broadcast(d)[d]) = Len(tx[d]) + 1
         /\ Len(Broadcast(d)[d]) \in DOMAIN Broadcast(d)[d]
         /\ \A e \in Deposit : \A i \in DOMAIN tx[e] :
              i \in DOMAIN Broadcast(d)[e] /\ Broadcast(d)[e][i] = tx[e][i]
<1> DEFINE longer == Append(tx[d], "pending")
<1>1. tx[d] \in Seq(TxStatus) /\ "pending" \in TxStatus
  BY DEF TypeOK, TxStatus
<1>2. /\ longer \in Seq(TxStatus)
      /\ Len(longer) = Len(tx[d]) + 1
      /\ \A i \in 1..Len(tx[d]) : longer[i] = tx[d][i]
  BY <1>1, AppendProperties
<1>3. DOMAIN tx[d] = 1..Len(tx[d]) /\ DOMAIN longer = 1..Len(longer) /\ Len(tx[d]) \in Nat
  BY <1>1, <1>2, LenProperties
<1>4. Broadcast(d) = [tx EXCEPT ![d] = longer]
  BY DEF Broadcast
<1> HIDE DEF longer
<1> QED
  BY <1>1, <1>2, <1>3, <1>4 DEF TypeOK

\* The initial state: nothing has been recorded, queued, sent or minted.
LEMMA InitIndInv == Init => IndInv
<1> SUFFICES ASSUME Init PROVE IndInv
  OBVIOUS
<1> USE DEF Init, NoHash
<1>1. TypeOK
  BY BoundsAssumption DEF TypeOK, Status, HttpPc, JobState, WorkerPc, Processing, MintPc
<1>2. OneJobInHand /\ AttemptsLeft /\ RowFirst
  BY DepositAssumption, BoundsAssumption DEF OneJobInHand, AttemptsLeft, RowFirst
<1>3. StoredHashIsSent /\ WorkerKnows /\ MintIsLast
  BY DEF StoredHashIsSent, WorkerKnows, MintIsLast, MintStarted
<1>4. ConfirmedIsPaid /\ CompletedIsSettled
  BY DEF ConfirmedIsPaid, CompletedIsSettled
<1> QED
  BY <1>1, <1>2, <1>3, <1>4 DEF IndInv

\* POST /deposit and the late queue.add: they touch the row, the request and
\* the queue, and never un-settle a note.
LEMMA HttpStep ==
  ASSUME IndInv, NEW d \in Deposit, Http(d)
  PROVE  IndInv'
<1> USE DEF IndInv, httpVars, rowVars, jobVars, workerVars, mintVars
<1>1. CASE AcceptNote(d)
  <2> USE <1>1 DEF AcceptNote
  <2>1. TypeOK'
    BY DEF TypeOK, Status, HttpPc
  <2>2. OneJobInHand' /\ AttemptsLeft' /\ RowFirst' /\ StoredHashIsSent'
    BY DEF TypeOK, OneJobInHand, AttemptsLeft, RowFirst, StoredHashIsSent
  <2>3. WorkerKnows' /\ CompletedIsSettled'
    BY DEF TypeOK, OneJobInHand, AttemptsLeft, RowFirst, WorkerKnows, CompletedIsSettled, WorkerPc, Processing
  <2>4. MintIsLast' /\ ConfirmedIsPaid'
    BY DEF TypeOK, RowFirst, MintIsLast, MintStarted, Paid, ConfirmedIsPaid
  <2> QED
    BY <2>1, <2>2, <2>3, <2>4
<1>2. CASE AddJob(d) \/ LateAdd(d)
  <2>0. /\ job' = Enqueued(d)
        /\ http[d] # "idle"
        /\ UNCHANGED <<rowVars, made, workerVars, handler, tx, mintVars, crashes>>
        /\ \/ UNCHANGED late /\ http' = [http EXCEPT ![d] = "added"]
           \/ UNCHANGED http /\ late' = [late EXCEPT ![d] = FALSE]
    BY <1>2 DEF AddJob, LateAdd, RowFirst
  <2>1. TypeOK'
    BY <2>0 DEF TypeOK, HttpPc, JobState, Enqueued
  <2>2. OneJobInHand' /\ AttemptsLeft' /\ RowFirst'
    BY <2>0 DEF TypeOK, OneJobInHand, AttemptsLeft, RowFirst, Enqueued
  <2>3. StoredHashIsSent' /\ WorkerKnows' /\ MintIsLast' /\ ConfirmedIsPaid'
    BY <2>0 DEF StoredHashIsSent, WorkerKnows, MintIsLast, MintStarted, Paid, ConfirmedIsPaid
  <2>4. CompletedIsSettled'
    BY <2>0 DEF TypeOK, CompletedIsSettled, Enqueued
  <2> QED
    BY <2>1, <2>2, <2>3, <2>4
<1>3. CASE AddTimesOut(d)
  <2> USE <1>3 DEF AddTimesOut
  <2>1. TypeOK'
    BY DEF TypeOK, HttpPc
  <2>2. OneJobInHand' /\ AttemptsLeft' /\ RowFirst'
    BY DEF TypeOK, OneJobInHand, AttemptsLeft, RowFirst
  <2>3. StoredHashIsSent' /\ WorkerKnows' /\ MintIsLast' /\ ConfirmedIsPaid' /\ CompletedIsSettled'
    BY DEF StoredHashIsSent, WorkerKnows, MintIsLast, MintStarted, Paid, ConfirmedIsPaid, CompletedIsSettled
  <2> QED
    BY <2>1, <2>2, <2>3
<1>4. CASE MarkUnavailable(d)
  <2> USE <1>4 DEF MarkUnavailable
  <2>1. TypeOK'
    BY DEF TypeOK, HttpPc, Status
  <2>2. OneJobInHand' /\ AttemptsLeft' /\ RowFirst' /\ StoredHashIsSent'
    BY DEF TypeOK, OneJobInHand, AttemptsLeft, RowFirst, StoredHashIsSent
  <2>3. WorkerKnows' /\ CompletedIsSettled'
    BY DEF TypeOK, WorkerKnows, CompletedIsSettled
  <2>4. MintIsLast' /\ ConfirmedIsPaid'
    BY DEF TypeOK, MintIsLast, MintStarted, Paid, ConfirmedIsPaid
  <2> QED
    BY <2>1, <2>2, <2>3, <2>4
<1>5. CASE UnavailableThrows(d)
  <2> USE <1>5 DEF UnavailableThrows
  <2>1. TypeOK'
    BY DEF TypeOK, HttpPc
  <2>2. OneJobInHand' /\ AttemptsLeft' /\ RowFirst' /\ StoredHashIsSent'
    BY DEF TypeOK, OneJobInHand, AttemptsLeft, RowFirst, StoredHashIsSent
  <2>3. WorkerKnows' /\ CompletedIsSettled' /\ MintIsLast' /\ ConfirmedIsPaid'
    BY DEF WorkerKnows, CompletedIsSettled, MintIsLast, MintStarted, Paid, ConfirmedIsPaid
  <2> QED
    BY <2>1, <2>2, <2>3
<1> QED
  BY <1>1, <1>2, <1>3, <1>4, <1>5 DEF Http

\* A job that threw leaves the worker's hands for the queue or the dead.
LEMMA JobThrowsStep ==
  ASSUME IndInv, wpc \in Processing, JobThrows,
         tx' = tx \/ (wpc = "send" /\ tx' = Broadcast(wid)),
         UNCHANGED <<rowVars, httpVars, mintVars, crashes>>
  PROVE  IndInv'
<1> USE DEF IndInv, httpVars, rowVars, mintVars, JobThrows
<1>1. wid \in Deposit /\ job[wid] = "active"
  BY DEF TypeOK, OneJobInHand, Processing
<1>2. /\ tx' \in [Deposit -> Seq(TxStatus)]
      /\ \A d \in Deposit : \A i \in DOMAIN tx[d] :
           i \in DOMAIN tx'[d] /\ tx'[d][i] = tx[d][i]
  BY <1>1, BroadcastExtends DEF TypeOK
<1>3. TypeOK'
  <2>1. made' \in [Deposit -> 0..MaxAttempts]
    BY <1>1, BoundsAssumption DEF TypeOK, AttemptsLeft
  <2> QED
    BY <1>1, <1>2, <2>1 DEF TypeOK, JobState, WorkerPc, NoHash, LastAttempt, FinalEvent
<1>4. OneJobInHand' /\ AttemptsLeft' /\ RowFirst'
  BY <1>1, DepositAssumption, BoundsAssumption DEF LastAttempt, TypeOK, OneJobInHand, AttemptsLeft, RowFirst
<1>5. StoredHashIsSent' /\ ConfirmedIsPaid'
  BY <1>2 DEF StoredHashIsSent, ConfirmedIsPaid
<1>6. WorkerKnows' /\ CompletedIsSettled'
  BY <1>1 DEF TypeOK, WorkerKnows, CompletedIsSettled
<1>7. MintIsLast'
  BY <1>1, <1>2, DepositAssumption DEF TypeOK, MintIsLast, MintStarted, Paid
<1> QED
  BY <1>3, <1>4, <1>5, <1>6, <1>7

\* The worker's steps: it always acts on the one active job, with what it knows
\* of that note still true.
LEMMA WorkerStep ==
  ASSUME IndInv, Worker
  PROVE  IndInv'
<1> USE DEF IndInv, rowVars, httpVars, jobVars, mintVars
<1>0. wpc # "idle" => wid \in Deposit /\ job[wid] = "active" /\ http[wid] # "idle" /\ status[wid] # "none"
  BY DEF TypeOK, OneJobInHand, RowFirst
<1>1. ASSUME NEW d \in Deposit, Fetch(d) PROVE IndInv'
  <2> USE <1>1 DEF Fetch
  <2>1. TypeOK' /\ OneJobInHand' /\ AttemptsLeft' /\ RowFirst'
    BY DepositAssumption DEF TypeOK, OneJobInHand, AttemptsLeft, RowFirst, JobState, WorkerPc, Processing, NoHash
  <2>2. StoredHashIsSent' /\ WorkerKnows' /\ MintIsLast' /\ ConfirmedIsPaid' /\ CompletedIsSettled'
    BY DEF TypeOK, StoredHashIsSent, WorkerKnows, MintIsLast, MintStarted, Paid, ConfirmedIsPaid, CompletedIsSettled
  <2> QED
    BY <2>1, <2>2
<1>2. CASE ReadRow
  <2> USE <1>0, <1>2 DEF ReadRow, NothingLeftToDo, AfterRead
  <2>1. TypeOK' /\ OneJobInHand' /\ AttemptsLeft' /\ RowFirst'
    BY DEF TypeOK, OneJobInHand, AttemptsLeft, RowFirst, WorkerPc, Processing
  <2>2. StoredHashIsSent' /\ MintIsLast' /\ ConfirmedIsPaid' /\ CompletedIsSettled'
    BY DEF StoredHashIsSent, MintIsLast, MintStarted, Paid, ConfirmedIsPaid, CompletedIsSettled
  <2>3. WorkerKnows'
    BY DEF TypeOK, Status, WorkerKnows, StoredHashIsSent
  <2> QED
    BY <2>1, <2>2, <2>3
<1>3. CASE SendTx
  <2> USE <1>0, <1>3 DEF SendTx
  <2>1. /\ tx' \in [Deposit -> Seq(TxStatus)]
        /\ whash' \in DOMAIN tx'[wid] /\ whash' \in Nat
        /\ \A d \in Deposit : \A i \in DOMAIN tx[d] :
             i \in DOMAIN tx'[d] /\ tx'[d][i] = tx[d][i]
    <3>1. wid \in Deposit
      OBVIOUS
    <3> QED
      BY <3>1, BroadcastExtends, LenProperties
  <2>2. TypeOK' /\ OneJobInHand' /\ AttemptsLeft' /\ RowFirst'
    BY <2>1 DEF TypeOK, OneJobInHand, AttemptsLeft, RowFirst, WorkerPc, Processing
  <2>3. StoredHashIsSent' /\ ConfirmedIsPaid' /\ CompletedIsSettled'
    BY <2>1 DEF StoredHashIsSent, ConfirmedIsPaid, CompletedIsSettled
  <2>4. WorkerKnows' /\ MintIsLast'
    BY <2>1 DEF WorkerKnows, MintIsLast, MintStarted, Paid
  <2> QED
    BY <2>2, <2>3, <2>4
<1>4. CASE StoreHash
  <2> USE <1>0, <1>4 DEF StoreHash
  <2>1. TypeOK' /\ OneJobInHand' /\ AttemptsLeft' /\ RowFirst'
    BY DEF TypeOK, OneJobInHand, AttemptsLeft, RowFirst, WorkerPc, Processing, Status
  <2>2. StoredHashIsSent' /\ WorkerKnows'
    BY DEF TypeOK, StoredHashIsSent, WorkerKnows
  <2>3. MintIsLast' /\ ConfirmedIsPaid' /\ CompletedIsSettled'
    BY DEF TypeOK, MintIsLast, MintStarted, Paid, ConfirmedIsPaid, CompletedIsSettled
  <2> QED
    BY <2>1, <2>2, <2>3
<1>5. CASE WaitReceipt
  <2> USE <1>0, <1>5 DEF WaitReceipt, ReceiptAccepted
  <2>1. TypeOK' /\ OneJobInHand' /\ AttemptsLeft' /\ RowFirst'
    BY DEF TypeOK, OneJobInHand, AttemptsLeft, RowFirst, WorkerPc, Processing
  <2>2. StoredHashIsSent' /\ WorkerKnows' /\ MintIsLast' /\ ConfirmedIsPaid' /\ CompletedIsSettled'
    BY DEF StoredHashIsSent, WorkerKnows, MintIsLast, MintStarted, Paid, ConfirmedIsPaid, CompletedIsSettled
  <2> QED
    BY <2>1, <2>2
<1>6. CASE MarkConfirmed
  <2> USE <1>0, <1>6 DEF MarkConfirmed
  <2>1. TypeOK' /\ OneJobInHand' /\ AttemptsLeft' /\ RowFirst'
    BY DEF TypeOK, OneJobInHand, AttemptsLeft, RowFirst, WorkerPc, Processing, Status
  <2>2. StoredHashIsSent' /\ WorkerKnows' /\ ConfirmedIsPaid'
    BY DEF TypeOK, StoredHashIsSent, WorkerKnows, ConfirmedIsPaid
  <2>3. MintIsLast' /\ CompletedIsSettled'
    BY DEF TypeOK, MintIsLast, MintStarted, Paid, CompletedIsSettled
  <2> QED
    BY <2>1, <2>2, <2>3
<1>7. CASE Publish
  <2> USE <1>0, <1>7 DEF Publish
  <2>1. TypeOK' /\ OneJobInHand' /\ AttemptsLeft' /\ RowFirst'
    BY DEF TypeOK, OneJobInHand, AttemptsLeft, RowFirst, WorkerPc, Processing, MintPc
  <2>2. StoredHashIsSent' /\ WorkerKnows' /\ ConfirmedIsPaid' /\ CompletedIsSettled'
    BY DEF StoredHashIsSent, WorkerKnows, ConfirmedIsPaid, CompletedIsSettled
  <2>3. MintIsLast'
    BY DEF TypeOK, WorkerKnows, MintIsLast, MintStarted, Paid
  <2> QED
    BY <2>1, <2>2, <2>3
<1>8. CASE Return
  <2> USE <1>0, <1>8 DEF Return
  <2>1. TypeOK' /\ OneJobInHand' /\ AttemptsLeft' /\ RowFirst'
    BY DepositAssumption DEF TypeOK, OneJobInHand, AttemptsLeft, RowFirst, WorkerPc, Processing, JobState, NoHash
  <2>2. StoredHashIsSent' /\ WorkerKnows' /\ ConfirmedIsPaid' /\ CompletedIsSettled'
    BY DEF TypeOK, StoredHashIsSent, WorkerKnows, ConfirmedIsPaid, CompletedIsSettled
  <2>3. MintIsLast'
    BY DepositAssumption DEF MintIsLast, MintStarted, Paid
  <2> QED
    BY <2>1, <2>2, <2>3
<1>9. CASE WorkerThrows \/ SendLosesReply
  BY <1>9, JobThrowsStep DEF WorkerThrows, SendLosesReply, Processing
<1> QED
  BY <1>1, <1>2, <1>3, <1>4, <1>5, <1>6, <1>7, <1>8, <1>9 DEF Worker

\* The "failed" handler and the background mint: only ever on a note the
\* worker is done with, or to mark it failed.
LEMMA BackgroundStep ==
  ASSUME IndInv, NEW d \in Deposit, OnFailed(d) \/ Mint(d)
  PROVE  IndInv'
<1> USE DEF IndInv, rowVars, httpVars, jobVars, workerVars, mintVars
<1>1. CASE OnFailed(d)
  <2> USE <1>1 DEF OnFailed
  <2>1. TypeOK' /\ OneJobInHand' /\ AttemptsLeft' /\ StoredHashIsSent'
    BY DEF TypeOK, Status, OneJobInHand, AttemptsLeft, StoredHashIsSent
  <2>2. WorkerKnows' /\ MintIsLast' /\ ConfirmedIsPaid' /\ CompletedIsSettled'
    BY DEF TypeOK, WorkerKnows, MintIsLast, MintStarted, Paid, ConfirmedIsPaid, CompletedIsSettled
  <2>3. RowFirst'
    BY DEF TypeOK, RowFirst
  <2> QED
    BY <2>1, <2>2, <2>3
<1>2. CASE Mint(d)
  <2> USE <1>2 DEF Mint, MintCheck, MintSend, MintStore, MintFails
  <2>1. mintPc' \in [Deposit -> MintPc] /\ mints' \in [Deposit -> Nat] /\ tkHash' \in [Deposit -> BOOLEAN]
    <3>1. CASE MintCheck(d)
      BY <3>1 DEF TypeOK, MintPc
    <3>2. CASE MintSend(d)
      BY <3>2 DEF TypeOK, MintPc
    <3>3. CASE MintStore(d) \/ MintFails(d)
      BY <3>3 DEF TypeOK, MintPc
    <3> QED
      BY <3>1, <3>2, <3>3
  <2>4. TypeOK'
    BY <2>1 DEF TypeOK
  <2>2. OneJobInHand' /\ AttemptsLeft' /\ RowFirst' /\ StoredHashIsSent' /\ WorkerKnows' /\ CompletedIsSettled' /\ ConfirmedIsPaid'
    BY DEF OneJobInHand, AttemptsLeft, RowFirst, StoredHashIsSent, WorkerKnows, CompletedIsSettled, ConfirmedIsPaid
  <2>3. MintIsLast'
    BY DEF TypeOK, MintIsLast, MintStarted, Paid
  <2> QED
    BY <2>2, <2>3, <2>4
<1> QED
  BY <1>1, <1>2

\* The chain decides pending transactions only, so what succeeded stays so.
LEMMA MineStep ==
  ASSUME IndInv, NEW d \in Deposit, Mine(d)
  PROVE  IndInv'
<1> USE DEF IndInv, rowVars, httpVars, jobVars, workerVars, mintVars
<1>1. PICK i \in DOMAIN tx[d], st \in {"success", "reverted"} :
        tx[d][i] = "pending" /\ tx' = [tx EXCEPT ![d][i] = st]
  BY DEF Mine
<1>2. /\ tx' \in [Deposit -> Seq(TxStatus)]
      /\ \A e \in Deposit : DOMAIN tx'[e] = DOMAIN tx[e]
      /\ \A e \in Deposit : \A j \in DOMAIN tx[e] : tx[e][j] = "success" => tx'[e][j] = "success"
  <2>1. tx[d] \in Seq(TxStatus) /\ i \in 1..Len(tx[d]) /\ st \in TxStatus
    BY LenProperties DEF TypeOK, TxStatus
  <2>2. [tx[d] EXCEPT ![i] = st] \in Seq(TxStatus)
    BY <2>1, ExceptSeq
  <2>3. tx' = [tx EXCEPT ![d] = [tx[d] EXCEPT ![i] = st]]
    BY <1>1
  <2> QED
    BY <1>1, <2>2, <2>3 DEF TypeOK
<1>3. UNCHANGED <<rowVars, httpVars, jobVars, workerVars, handler, mintVars, crashes>>
  BY DEF Mine
<1>4. TypeOK' /\ OneJobInHand' /\ AttemptsLeft' /\ RowFirst'
  BY <1>2, <1>3 DEF TypeOK, OneJobInHand, AttemptsLeft, RowFirst
<1>5. StoredHashIsSent' /\ ConfirmedIsPaid' /\ CompletedIsSettled'
  BY <1>2, <1>3 DEF TypeOK, StoredHashIsSent, ConfirmedIsPaid, CompletedIsSettled
<1>6. WorkerKnows'
  BY <1>2, <1>3 DEF TypeOK, OneJobInHand, WorkerKnows
<1>7. MintIsLast'
  BY <1>2, <1>3 DEF TypeOK, MintIsLast, MintStarted, Paid
<1> QED
  BY <1>4, <1>5, <1>6, <1>7

\* A crash forgets what only the process knew, and the active job runs again.
LEMMA CrashStep ==
  ASSUME IndInv, Crash
  PROVE  IndInv'
<1> USE DEF IndInv, Crash, Recovered, rowVars
<1>1. TypeOK'
  <2>1. crashes' \in 0..MaxCrashes
    BY BoundsAssumption DEF TypeOK
  <2>2. http' \in [Deposit -> HttpPc] /\ job' \in [Deposit -> JobState] /\ mintPc' \in [Deposit -> MintPc]
    BY DEF TypeOK, HttpPc, JobState, MintPc
  <2> QED
    BY <2>1, <2>2 DEF TypeOK, WorkerPc, NoHash
<1>2. OneJobInHand' /\ AttemptsLeft' /\ RowFirst'
  BY DepositAssumption DEF TypeOK, OneJobInHand, AttemptsLeft, RowFirst
<1>3. StoredHashIsSent' /\ WorkerKnows' /\ ConfirmedIsPaid' /\ CompletedIsSettled'
  BY DEF StoredHashIsSent, WorkerKnows, ConfirmedIsPaid, CompletedIsSettled
<1>4. MintIsLast'
  BY DepositAssumption DEF TypeOK, MintIsLast, MintStarted, Paid
<1> QED
  BY <1>1, <1>2, <1>3, <1>4

LEMMA StepIndInv == IndInv /\ [Next]_vars => IndInv'
<1> SUFFICES ASSUME IndInv, [Next]_vars PROVE IndInv'
  OBVIOUS
<1>1. CASE Next
  BY <1>1, HttpStep, WorkerStep, BackgroundStep, MineStep, CrashStep DEF Next
<1>2. CASE UNCHANGED vars
  BY <1>2 DEF vars, rowVars, httpVars, jobVars, workerVars, mintVars, IndInv, TypeOK, OneJobInHand,
       AttemptsLeft, RowFirst, StoredHashIsSent, WorkerKnows, MintIsLast, MintStarted, Paid,
       ConfirmedIsPaid, CompletedIsSettled
<1> QED
  BY <1>1, <1>2

LEMMA AlwaysIndInv == Spec => []IndInv
BY InitIndInv, StepIndInv, PTL DEF Spec

\* Every variable keeps its type in every reachable state.
THEOREM TypeCorrect == Spec => []TypeOK
<1>1. IndInv => TypeOK
  BY DEF IndInv
<1> QED
  BY <1>1, AlwaysIndInv, PTL

\* A confirmed note is paid by its stored transaction: for any number of notes,
\* attempts and crashes.
THEOREM ConfirmedIsPaidHolds == Spec => []ConfirmedIsPaid
<1>1. IndInv => ConfirmedIsPaid
  BY DEF IndInv
<1> QED
  BY <1>1, AlwaysIndInv, PTL

\* The tkCASH of a note is minted at most once and only against a credit.
THEOREM MintedOnceAndBackedHolds == Spec => []MintedOnceAndBacked
<1>1. IndInv => MintedOnceAndBacked
  BY DEF IndInv, TypeOK, MintIsLast, MintStarted, Paid, MintedOnceAndBacked
<1> QED
  BY <1>1, AlwaysIndInv, PTL

\* No completed job leaves its note unsettled.
THEOREM CompletedIsSettledHolds == Spec => []CompletedIsSettled
<1>1. IndInv => CompletedIsSettled
  BY DEF IndInv
<1> QED
  BY <1>1, AlwaysIndInv, PTL

\* Once its hash is stored a note is never sent again and keeps that hash.
THEOREM NeverResentHolds == Spec => NeverResent
<1> DEFINE Kept == \A d \in Deposit : txHash[d] # NoHash =>
                      txHash'[d] = txHash[d] /\ Len(tx'[d]) = Len(tx[d])
<1>1. ASSUME IndInv, [Next]_vars PROVE Kept
  <2> SUFFICES ASSUME NEW e \in Deposit, txHash[e] # NoHash
               PROVE  txHash'[e] = txHash[e] /\ Len(tx'[e]) = Len(tx[e])
    OBVIOUS
  <2> USE <1>1 DEF IndInv, vars, rowVars, httpVars, jobVars, workerVars, mintVars
  <2>1. CASE UNCHANGED <<txHash, tx>>
    BY <2>1
  <2>2. CASE SendTx \/ StoreHash \/ SendLosesReply
    <3>1. wid # e
      BY <2>2 DEF WorkerKnows, SendTx, StoreHash, SendLosesReply
    <3> QED
      BY <2>2, <3>1 DEF SendTx, StoreHash, SendLosesReply, Broadcast, TypeOK
  <2>3. ASSUME NEW d \in Deposit, Mine(d) PROVE txHash'[e] = txHash[e] /\ Len(tx'[e]) = Len(tx[e])
    <3>1. PICK i \in DOMAIN tx[d], st \in {"success", "reverted"} :
            tx' = [tx EXCEPT ![d][i] = st]
      BY <2>3 DEF Mine
    <3>2. tx[d] \in Seq(TxStatus) /\ i \in 1..Len(tx[d]) /\ st \in TxStatus
      BY LenProperties DEF TypeOK, TxStatus
    <3>3. [tx[d] EXCEPT ![i] = st] \in Seq(TxStatus) /\ Len([tx[d] EXCEPT ![i] = st]) = Len(tx[d])
      BY <3>2, ExceptSeq
    <3> QED
      BY <2>3, <3>1, <3>3 DEF Mine, TypeOK
  <2> QED
    BY <2>1, <2>2, <2>3 DEF Next, Http, AcceptNote, AddJob, AddTimesOut, LateAdd, MarkUnavailable,
         UnavailableThrows,
         Worker, Fetch, ReadRow, WaitReceipt, MarkConfirmed, Publish, Return, WorkerThrows,
         OnFailed, Mint, MintCheck, MintSend, MintStore, MintFails, Crash
<1>2. IndInv /\ [Next]_vars => [Kept]_vars
  BY <1>1
<1> QED
  BY <1>2, AlwaysIndInv, PTL DEF Spec, NeverResent

\* A failure is the last attempt's, or of a note that was never queued.
LEMMA AlwaysFailedLast == Spec => []FailedLast
<1>1. Init => FailedLast
  BY DEF Init, FailedLast
<1>2. ASSUME IndInv, FailedLast, [Next]_vars PROVE FailedLast'
  <2> SUFFICES ASSUME NEW e \in Deposit
               PROVE  /\ handler'[e] => job'[e] = "failed"
                      /\ status'[e] = "failed" /\ http'[e] # "done" => job'[e] = "failed"
    BY DEF FailedLast
  <2> USE <1>2 DEF IndInv, TypeOK, FailedLast, vars, rowVars, httpVars, jobVars, workerVars, mintVars
  <2>1. ASSUME NEW d \in Deposit, Http(d) \/ OnFailed(d) \/ Mint(d) \/ Mine(d)
        PROVE  /\ handler'[e] => job'[e] = "failed"
               /\ status'[e] = "failed" /\ http'[e] # "done" => job'[e] = "failed"
    BY <2>1 DEF Http, AcceptNote, AddJob, AddTimesOut, LateAdd, Enqueued, MarkUnavailable,
         UnavailableThrows, OnFailed, Mint, MintCheck, MintSend, MintStore, MintFails, Mine
  <2>2. CASE WorkerThrows \/ SendLosesReply
    <3>1. wid \in Deposit /\ made[wid] \in Int /\ MaxAttempts \in Int
      BY <2>2, DepositAssumption, BoundsAssumption
      DEF WorkerThrows, SendLosesReply, OneJobInHand, Processing
    <3> QED
      BY <2>2, <3>1 DEF WorkerThrows, SendLosesReply, JobThrows, LastAttempt, FinalEvent, OneJobInHand
  <2>3. CASE Worker /\ ~WorkerThrows /\ ~SendLosesReply
    BY <2>3 DEF Worker, Fetch, ReadRow, SendTx, StoreHash, WaitReceipt, MarkConfirmed, Publish, Return,
         OneJobInHand
  <2>4. CASE Crash
    BY <2>4 DEF Crash, Recovered
  <2> QED
    BY <2>1, <2>2, <2>3, <2>4 DEF Next
<1> QED
  BY <1>1, <1>2, AlwaysIndInv, PTL DEF Spec

\* What the queue has settled, its worker cannot take up: the hash is stored, or
\* there is no attempt left.
OutOfReach(d) ==
  /\ status[d] \in {"confirmed", "failed"}
  /\ txHash[d] # NoHash \/ job[d] = "failed"

\* No step takes it up again.
LEMMA StaysOutOfReach ==
  ASSUME IndInv, NEW e \in Deposit, OutOfReach(e), [Next]_vars
  PROVE  OutOfReach(e)'
<1> USE DEF IndInv, TypeOK, OutOfReach, vars, rowVars, httpVars, jobVars, workerVars, mintVars
<1>1. ASSUME NEW d \in Deposit, Http(d) \/ OnFailed(d) \/ Mint(d) \/ Mine(d) PROVE OutOfReach(e)'
  BY <1>1 DEF Http, AcceptNote, AddJob, AddTimesOut, LateAdd, Enqueued, MarkUnavailable,
       UnavailableThrows, OnFailed, Mint, MintCheck, MintSend, MintStore, MintFails, Mine, RowFirst
<1>2. CASE StoreHash
  <2>1. txHash[wid] = NoHash /\ (wid = e => job[e] = "active")
    BY <1>2 DEF StoreHash, WorkerKnows, OneJobInHand
  <2> QED
    BY <1>2, <2>1 DEF StoreHash
<1>3. CASE Worker /\ ~StoreHash
  BY <1>3 DEF Worker, Fetch, ReadRow, SendTx, WaitReceipt, MarkConfirmed, Publish, Return,
       WorkerThrows, SendLosesReply, JobThrows, OneJobInHand
<1>4. CASE Crash
  BY <1>4 DEF Crash, Recovered
<1>5. CASE UNCHANGED vars
  BY <1>5
<1> QED
  BY <1>1, <1>2, <1>3, <1>4, <1>5 DEF Next

\* A note the queue has settled is never under way again, whatever is retried,
\* restarted or late: Visits counts on it.
THEOREM SettledForGoodHolds == Spec => SettledForGood
<1> SUFFICES ASSUME NEW d \in Deposit
             PROVE  Spec => [](SettledByQueue(d) => [](status[d] \in {"confirmed", "failed"}))
  BY DEF SettledForGood
<1>1. IndInv /\ FailedLast /\ SettledByQueue(d) => OutOfReach(d)
  BY DEF IndInv, FailedLast, SettledByQueue, OutOfReach, ConfirmedIsPaid, NoHash, TypeOK
<1>2. IndInv /\ OutOfReach(d) /\ [Next]_vars => OutOfReach(d)'
  BY StaysOutOfReach
<1>3. OutOfReach(d) => status[d] \in {"confirmed", "failed"}
  BY DEF OutOfReach
<1> QED
  BY <1>1, <1>2, <1>3, AlwaysIndInv, AlwaysFailedLast, PTL DEF Spec

-----------------------------------------------------------------------------
\* The receipt token

\* The parts of the type that an action leaves alone or changes, and the rest.
MoneyTyped ==
  /\ kiosk \in [Kiosk -> [active : BOOLEAN, frozen : BOOLEAN, reserve : Nat]]
  /\ balanceOf \in [Holder -> Nat]
  /\ totalReserve \in Nat /\ totalSupply \in Nat
RulesTyped ==
  /\ allowlist \in [Holder -> BOOLEAN]
  /\ dailyTransferLimit \in Limit \cup {0}
  /\ paused \in BOOLEAN
SpentTyped ==
  /\ spentToday \in [Holder -> Nat] /\ spentDay \in [Holder -> Nat] /\ sent \in [Holder -> Nat]
  /\ day \in Nat /\ highest \in Nat
CountsTyped == minted \in 0..MaxSupply /\ unrecorded \in [Holder -> Int]
RunTyped(q) ==
  /\ q \in [pc : Pc, user : Holder, k : Nat, left : Nat, amount : Nat, burned : Nat, alone : BOOLEAN]
  /\ q.k \in 0..Kiosks
  /\ q.pc = "idle" => q.k = 0 /\ q.burned = 0
  /\ q.pc \in {"kiosk", "redeem"} => q.k \in Kiosk
  /\ q.pc = "redeem" => q.amount <= q.left
RunsTyped == run = [r \in Run |-> run[r]] /\ \A r \in Run : RunTyped(run[r])

\* Types, the supply and the shape of the runs.
LedgerInv == MoneyTyped /\ RulesTyped /\ SpentTyped /\ CountsTyped /\ RunsTyped /\ SupplyIsReserve

\* What the runs of a holder have burned and not yet put on record.
Claim(h) == [r \in Run |-> IF run[r].user = h /\ run[r].pc # "done" THEN run[r].burned ELSE 0]
ClaimsCovered == \A h \in Holder : SumFunctionOnSet(Claim(h), Run) <= unrecorded[h]

DayRules ==
  /\ dailyTransferLimit <= highest
  /\ \A h \in Holder :
       /\ sent[h] <= highest
       /\ spentDay[h] <= day
       /\ sent[h] = IF spentDay[h] = day THEN spentToday[h] ELSE 0

\* What the kiosks from k on hold.
Rest(res, k) == SumFunctionOnSet(res, k..Boxes)

\* An undisturbed run q still has all of its balance before it, and the kiosks
\* it has not looked at, or will not look at, hold the cash for it.
OnTrack(q, balance, res) ==
  q.alone =>
    /\ q.pc \in {"kiosk", "redeem"} => q.left = balance[q.user] /\ q.left <= Rest(res, q.k)
    /\ q.pc = "redeem" => q.amount = Min2(q.left, res[q.k])
    /\ q.pc \in {"record", "done"} => balance[q.user] <= Rest(res, Kiosks + 1)
AllOnTrack == \A r \in Run : OnTrack(run[r], balanceOf, Reserves)

ReceiptInv ==
  /\ LedgerInv
  /\ ClaimsCovered
  /\ DayRules
  /\ AllOnTrack

-----------------------------------------------------------------------------
\* Sums over holders and kiosks

LEMMA KioskFinite == IsFiniteSet(Kiosk) /\ Kiosks \in Int /\ Boxes \in Int
BY ReceiptAssumption, FS_Interval DEF Kiosk

LEMMA SupplySums ==
  ASSUME MoneyTyped
  PROVE  /\ SumFunction(balanceOf) = SumFunctionOnSet(balanceOf, Holder)
         /\ SumFunction(Reserves) = SumFunctionOnSet(Reserves, Kiosk)
         /\ \A h \in Holder : balanceOf[h] \in Nat
         /\ \A k \in Kiosk : Reserves[k] \in Nat /\ Reserves[k] = kiosk[k].reserve
<1>1. DOMAIN balanceOf = Holder /\ DOMAIN Reserves = Kiosk
  BY DEF MoneyTyped, Reserves
<1> QED
  BY <1>1, SumOfAll DEF MoneyTyped, Reserves

LEMMA OneHolder ==
  ASSUME MoneyTyped, SupplyIsReserve, NEW h \in Holder, NEW k \in Kiosk
  PROVE  balanceOf[h] <= totalSupply /\ kiosk[k].reserve <= totalReserve
BY SupplySums, SumPart, KioskFinite, ReceiptAssumption DEF SupplyIsReserve

LEMMA SumsInt ==
  ASSUME MoneyTyped
  PROVE  SumFunctionOnSet(balanceOf, Holder) \in Nat /\ SumFunctionOnSet(Reserves, Kiosk) \in Nat
BY SupplySums, SumNat, KioskFinite, ReceiptAssumption

\* Tokens are minted or burned (d) at one kiosk for one holder.
LEMMA SupplyMoves ==
  ASSUME MoneyTyped, SupplyIsReserve, NEW h \in Holder, NEW k \in Kiosk, NEW d \in Int,
         kiosk' = [kiosk EXCEPT ![k].reserve = @ + d],
         totalReserve' = totalReserve + d, totalSupply' = totalSupply + d,
         balanceOf' = [balanceOf EXCEPT ![h] = @ + d],
         kiosk[k].reserve + d \in Nat, balanceOf[h] + d \in Nat
  PROVE  /\ MoneyTyped' /\ SupplyIsReserve'
         /\ Reserves' = [Reserves EXCEPT ![k] = @ + d]
<1>1. kiosk' \in [Kiosk -> [active : BOOLEAN, frozen : BOOLEAN, reserve : Nat]]
  BY DEF MoneyTyped
<1>2. balanceOf' \in [Holder -> Nat]
  BY DEF MoneyTyped
<1>3. Reserves' = [Reserves EXCEPT ![k] = @ + d]
  BY <1>1 DEF MoneyTyped, Reserves
<1>4. SumFunction(balanceOf') = SumFunction(balanceOf) + d
  <2>1. DOMAIN balanceOf = Holder /\ DOMAIN balanceOf' = Holder
    BY <1>2 DEF MoneyTyped
  <2>2. /\ IsFiniteSet(Holder) /\ balanceOf \in [Holder -> Int] /\ h \in Holder /\ d \in Int
        /\ balanceOf' = [balanceOf EXCEPT ![h] = @ + d]
    BY ReceiptAssumption DEF MoneyTyped
  <2>3. SumFunctionOnSet(balanceOf', Holder) = SumFunctionOnSet(balanceOf, Holder) + d
    BY ONLY <2>2, SumStep
  <2> QED BY <2>1, <2>3, SumOfAll
<1>5. SumFunction(Reserves') = SumFunction(Reserves) + d
  <2>1. DOMAIN Reserves = Kiosk /\ DOMAIN Reserves' = Kiosk
    BY DEF Reserves
  <2>2. /\ IsFiniteSet(Kiosk) /\ Reserves \in [Kiosk -> Int] /\ k \in Kiosk /\ d \in Int
        /\ Reserves' = [Reserves EXCEPT ![k] = @ + d]
    BY <1>3, SupplySums, KioskFinite DEF Reserves
  <2>3. SumFunctionOnSet(Reserves', Kiosk) = SumFunctionOnSet(Reserves, Kiosk) + d
    BY ONLY <2>2, SumStep
  <2> QED BY <2>1, <2>3, SumOfAll
<1>6. totalReserve \in Nat /\ totalSupply \in Nat /\ totalReserve + d = totalSupply + d
  BY DEF MoneyTyped, SupplyIsReserve
<1>7. SumFunction(balanceOf') \in Nat
  <2>1. SumFunctionOnSet(balanceOf', Holder) \in Nat
    BY <1>2, SumNat, ReceiptAssumption
  <2>2. DOMAIN balanceOf' = Holder
    BY <1>2
  <2> QED BY <2>1, <2>2, SumOfAll
<1>8. SupplyIsReserve'
  BY <1>4, <1>5, <1>6 DEF SupplyIsReserve
<1>9. totalSupply' \in Nat /\ totalReserve' \in Nat
  BY <1>7, <1>8 DEF SupplyIsReserve
<1> QED
  BY <1>1, <1>2, <1>3, <1>8, <1>9 DEF MoneyTyped

-----------------------------------------------------------------------------
\* The ledger: types, supply and the shape of the runs

LEMMA LedgerTypes == LedgerInv => ReceiptTypeOK
<1> SUFFICES ASSUME LedgerInv PROVE ReceiptTypeOK
  OBVIOUS
<1>1. run \in [Run -> [pc : Pc, user : Holder, k : Nat, left : Nat, amount : Nat, burned : Nat, alone : BOOLEAN]]
  BY DEF LedgerInv, RunsTyped, RunTyped
<1> QED
  BY <1>1 DEF LedgerInv, ReceiptTypeOK, MoneyTyped, RulesTyped, SpentTyped, CountsTyped

LEMMA OffTyped == \A h \in Holder : RunTyped(OffRun(h))
BY ReceiptAssumption DEF RunTyped, OffRun, Pc

LEMMA LedgerInit == ReceiptInit => LedgerInv
<1> SUFFICES ASSUME ReceiptInit PROVE LedgerInv
  OBVIOUS
<1>1. RunsTyped
  <2>1. run \in [Run -> {OffRun(h) : h \in Holder}]
    BY DEF ReceiptInit
  <2>2. \A r \in Run : \E h \in Holder : run[r] = OffRun(h)
    BY <2>1
  <2> QED
    BY <2>1, <2>2, OffTyped DEF RunsTyped
<1>2. MoneyTyped
  BY DEF ReceiptInit, MoneyTyped
<1>3. RulesTyped
  BY DEF ReceiptInit, RulesTyped
<1>4. SpentTyped /\ CountsTyped
  BY ReceiptAssumption DEF ReceiptInit, SpentTyped, CountsTyped
<1>5. SupplyIsReserve
  <2>1. \A h \in Holder : balanceOf[h] = 0
    BY DEF ReceiptInit
  <2>2. \A k \in Kiosk : Reserves[k] = 0
    BY DEF ReceiptInit, Reserves
  <2>3. SumFunctionOnSet(balanceOf, Holder) = 0 /\ SumFunctionOnSet(Reserves, Kiosk) = 0
    BY <2>1, <2>2, SumZero, KioskFinite, ReceiptAssumption
  <2> QED
    BY <1>2, <2>3, SupplySums DEF SupplyIsReserve, ReceiptInit
<1> QED
  BY <1>1, <1>2, <1>3, <1>4, <1>5 DEF LedgerInv

\* A run goes on with q; the others go on as they are or no longer alone.
LEMMA RunGoes ==
  ASSUME RunsTyped, NEW r \in Run, NEW q, RunTyped(q),
         run' = [run EXCEPT ![r] = q] \/ run' = [s \in Run |-> IF s = r THEN q ELSE [run[s] EXCEPT !.alone = FALSE]]
  PROVE  RunsTyped'
<1>1. \A s \in Run : RunTyped([run[s] EXCEPT !.alone = FALSE])
  BY DEF RunsTyped, RunTyped
<1>2. CASE run' = [run EXCEPT ![r] = q]
  BY <1>2 DEF RunsTyped
<1>3. CASE run' = [s \in Run |-> IF s = r THEN q ELSE [run[s] EXCEPT !.alone = FALSE]]
  <2>1. \A s \in Run : run'[s] = IF s = r THEN q ELSE [run[s] EXCEPT !.alone = FALSE]
    BY <1>3
  <2>2. run' = [s \in Run |-> run'[s]]
    BY <1>3
  <2> QED
    BY <1>1, <2>1, <2>2 DEF RunsTyped
<1> QED
  BY <1>2, <1>3

LEMMA RunsStale ==
  ASSUME RunsTyped, OthersStale
  PROVE  RunsTyped'
BY DEF RunsTyped, RunTyped, OthersStale

LEMMA LooksTyped ==
  ASSUME NEW q, RunTyped(q)
  PROVE  RunTyped(Looks(q))
<1>1. /\ q \in [pc : Pc, user : Holder, k : Nat, left : Nat, amount : Nat, burned : Nat, alone : BOOLEAN]
      /\ q.k \in 0..Kiosks /\ Kiosks \in Nat
  BY ReceiptAssumption DEF RunTyped
<1>2. CASE q.left = 0 \/ q.k = Kiosks
  <2>1. Looks(q) = [q EXCEPT !.pc = "record"]
    BY <1>2 DEF Looks
  <2> QED BY <1>1, <2>1 DEF RunTyped, Pc
<1>3. CASE ~(q.left = 0 \/ q.k = Kiosks)
  <2>1. Looks(q) = [q EXCEPT !.pc = "kiosk", !.k = q.k + 1]
    BY <1>3 DEF Looks
  <2>2. q.k + 1 \in 1..Kiosks /\ q.k + 1 \in Nat /\ q.k + 1 \in 0..Kiosks
    BY <1>1, <1>3
  <2>3. /\ Looks(q) \in [pc : Pc, user : Holder, k : Nat, left : Nat, amount : Nat, burned : Nat, alone : BOOLEAN]
        /\ Looks(q).pc = "kiosk" /\ Looks(q).k = q.k + 1
    BY <1>1, <2>1, <2>2 DEF Pc
  <2>4. q.k + 1 \in Kiosk
    BY <1>1, <2>2, ReceiptAssumption DEF Kiosk
  <2> HIDE DEF Looks
  <2> QED BY <2>2, <2>3, <2>4 DEF RunTyped
<1> QED
  BY <1>2, <1>3

LEMMA LedgerStep ==
  ASSUME LedgerInv, [ReceiptNext]_receiptVars
  PROVE  LedgerInv'
<1> USE DEF LedgerInv
<1>1. ASSUME NEW k \in Kiosk, NEW b \in BOOLEAN, SetKiosk(k, b) PROVE LedgerInv'
  <2>1. RulesTyped' /\ SpentTyped' /\ CountsTyped' /\ RunsTyped'
    BY <1>1 DEF SetKiosk, tokenVars, ruleVars, spentVars, RulesTyped, SpentTyped, CountsTyped, RunsTyped
  <2>2. MoneyTyped' /\ Reserves' = Reserves
    BY <1>1 DEF SetKiosk, tokenVars, MoneyTyped, Reserves
  <2>3. SupplyIsReserve'
    BY <1>1, <2>2 DEF SetKiosk, tokenVars, SupplyIsReserve
  <2> QED BY <2>1, <2>2, <2>3
<1>2. ASSUME NEW k \in Kiosk, NEW h \in Holder, NEW a \in Amount, RecordCashIn(k, h, a) PROVE LedgerInv'
  <2>0. a \in Nat /\ MaxSupply \in Nat
    BY ReceiptAssumption
  <2>1. RulesTyped' /\ SpentTyped'
    BY <1>2 DEF RecordCashIn, ruleVars, spentVars, RulesTyped, SpentTyped
  <2>2. CountsTyped'
    BY <1>2, <2>0 DEF RecordCashIn, CountsTyped
  <2>3. RunsTyped'
    BY <1>2, RunsStale DEF RecordCashIn
  <2>4. kiosk[k].reserve + a \in Nat /\ balanceOf[h] + a \in Nat
    BY <2>0 DEF MoneyTyped
  <2>5. kiosk' = [kiosk EXCEPT ![k].reserve = @ + a]
    BY <1>2 DEF RecordCashIn, ReserveWith, MoneyTyped
  <2>6. /\ a \in Int /\ totalReserve' = totalReserve + a /\ totalSupply' = totalSupply + a
        /\ balanceOf' = [balanceOf EXCEPT ![h] = @ + a]
    BY <1>2, <2>0 DEF RecordCashIn
  <2>7. MoneyTyped' /\ SupplyIsReserve'
    BY <2>4, <2>5, <2>6, SupplyMoves
  <2> QED BY <2>1, <2>2, <2>3, <2>7
<1>3. ASSUME NEW k \in Kiosk, NEW c \in 0..MaxSupply, AttestReserve(k, c) PROVE LedgerInv'
  <2>1. RulesTyped' /\ SpentTyped' /\ CountsTyped' /\ RunsTyped'
    BY <1>3 DEF AttestReserve, tokenVars, ruleVars, spentVars, RulesTyped, SpentTyped, CountsTyped, RunsTyped
  <2>2. (kiosk[k].frozen \/ c # kiosk[k].reserve) \in BOOLEAN
    OBVIOUS
  <2>3. MoneyTyped' /\ Reserves' = Reserves
    BY <1>3, <2>2 DEF AttestReserve, tokenVars, MoneyTyped, Reserves
  <2>4. SupplyIsReserve'
    BY <1>3, <2>3 DEF AttestReserve, tokenVars, SupplyIsReserve
  <2> QED BY <2>1, <2>3, <2>4
<1>4. ASSUME NEW k \in Kiosk, UnfreezeKiosk(k) PROVE LedgerInv'
  <2>1. RulesTyped' /\ SpentTyped' /\ CountsTyped' /\ RunsTyped'
    BY <1>4 DEF UnfreezeKiosk, tokenVars, ruleVars, spentVars, RulesTyped, SpentTyped, CountsTyped, RunsTyped
  <2>2. MoneyTyped' /\ Reserves' = Reserves
    BY <1>4 DEF UnfreezeKiosk, tokenVars, MoneyTyped, Reserves
  <2>3. SupplyIsReserve'
    BY <1>4, <2>2 DEF UnfreezeKiosk, tokenVars, SupplyIsReserve
  <2> QED BY <2>1, <2>2, <2>3
<1>5. ASSUME UNCHANGED <<kioskVars, tokenVars>> PROVE MoneyTyped' /\ SupplyIsReserve' /\ Reserves' = Reserves
  BY <1>5 DEF kioskVars, tokenVars, MoneyTyped, SupplyIsReserve, Reserves
<1>6. ASSUME NEW h \in Holder, NEW b \in BOOLEAN, SetAllowlisted(h, b) PROVE LedgerInv'
  <2>1. SpentTyped' /\ CountsTyped' /\ RunsTyped'
    BY <1>6 DEF SetAllowlisted, spentVars, SpentTyped, CountsTyped, RunsTyped
  <2>2. RulesTyped'
    BY <1>6 DEF SetAllowlisted, RulesTyped
  <2> QED BY <1>5, <1>6, <2>1, <2>2 DEF SetAllowlisted
<1>7. ASSUME NEW l \in Limit, SetDailyTransferLimit(l) PROVE LedgerInv'
  <2>1. CountsTyped' /\ RunsTyped'
    BY <1>7 DEF SetDailyTransferLimit, CountsTyped, RunsTyped
  <2>2. RulesTyped'
    BY <1>7 DEF SetDailyTransferLimit, RulesTyped
  <2>3. SpentTyped'
    BY <1>7, ReceiptAssumption DEF SetDailyTransferLimit, spentVars, SpentTyped
  <2> QED BY <1>5, <1>7, <2>1, <2>2, <2>3 DEF SetDailyTransferLimit
<1>8. ASSUME NEW b \in BOOLEAN, Pause(b) PROVE LedgerInv'
  <2>1. SpentTyped' /\ CountsTyped' /\ RunsTyped'
    BY <1>8 DEF Pause, spentVars, SpentTyped, CountsTyped, RunsTyped
  <2>2. RulesTyped'
    BY <1>8 DEF Pause, RulesTyped
  <2> QED BY <1>5, <1>8, <2>1, <2>2 DEF Pause
<1>9. ASSUME NEW h \in Holder, NEW to \in Holder, NEW a \in Amount, Transfer(h, to, a) PROVE LedgerInv'
  <2>0. a \in Nat
    BY ReceiptAssumption
  <2>1. RulesTyped' /\ CountsTyped'
    BY <1>9 DEF Transfer, ruleVars, RulesTyped, CountsTyped
  <2>2. RunsTyped'
    BY <1>9, RunsStale DEF Transfer
  <2>3. SpentTyped'
    BY <1>9, <2>0 DEF Transfer, Spend, SpentSoFar, spentVars, SpentTyped
  <2> DEFINE mid == [balanceOf EXCEPT ![h] = @ - a]
             d == -a
  <2>4. mid \in [Holder -> Nat]
    BY <1>9, <2>0 DEF Transfer, MoneyTyped
  <2>5. balanceOf' = [mid EXCEPT ![to] = @ + a]
    BY <1>9 DEF Transfer
  <2>6. MoneyTyped'
    <3> HIDE DEF mid
    <3> QED BY <1>9, <2>0, <2>4, <2>5 DEF Transfer, kioskVars, MoneyTyped
  <2>7. /\ IsFiniteSet(Holder) /\ h \in Holder /\ to \in Holder /\ a \in Int /\ d \in Int /\ a + d = 0
        /\ balanceOf \in [Holder -> Int] /\ mid \in [Holder -> Int]
    BY <2>0, <2>4, ReceiptAssumption DEF MoneyTyped
  <2>15. mid = [balanceOf EXCEPT ![h] = @ + d]
    BY <2>7
  <2> HIDE DEF mid, d
  <2>8. SumFunctionOnSet(mid, Holder) = SumFunctionOnSet(balanceOf, Holder) + d
    <3>1. /\ IsFiniteSet(Holder) /\ balanceOf \in [Holder -> Int] /\ h \in Holder /\ d \in Int
          /\ mid = [balanceOf EXCEPT ![h] = @ + d]
      BY <2>7, <2>15
    <3> QED BY ONLY <3>1, SumStep
  <2>9. SumFunctionOnSet(balanceOf', Holder) = SumFunctionOnSet(mid, Holder) + a
    <3>1. /\ IsFiniteSet(Holder) /\ mid \in [Holder -> Int] /\ to \in Holder /\ a \in Int
          /\ balanceOf' = [mid EXCEPT ![to] = @ + a]
      BY <2>5, <2>7
    <3> QED BY ONLY <3>1, SumStep
  <2>10. SumFunctionOnSet(balanceOf, Holder) \in Int
    BY SumsInt
  <2>11. SumFunctionOnSet(balanceOf', Holder) = SumFunctionOnSet(balanceOf, Holder)
    BY ONLY <2>7, <2>8, <2>9, <2>10
  <2>12. SumFunction(balanceOf') = SumFunction(balanceOf)
    <3>1. DOMAIN balanceOf = Holder /\ DOMAIN balanceOf' = Holder
      BY <2>6 DEF MoneyTyped
    <3> QED BY <2>11, <3>1, SumOfAll
  <2>13. Reserves' = Reserves
    BY <1>9 DEF Transfer, kioskVars, Reserves
  <2>14. SupplyIsReserve'
    BY <1>9, <2>12, <2>13 DEF Transfer, kioskVars, SupplyIsReserve
  <2> QED BY <2>1, <2>2, <2>3, <2>6, <2>14
<1>10. ASSUME NextDay PROVE LedgerInv'
  <2>1. CountsTyped' /\ RunsTyped' /\ RulesTyped'
    BY <1>10 DEF NextDay, ruleVars, CountsTyped, RunsTyped, RulesTyped
  <2>2. SpentTyped'
    BY <1>10, ReceiptAssumption DEF NextDay, SpentTyped, RulesTyped
  <2> QED BY <1>5, <1>10, <2>1, <2>2 DEF NextDay
<1>11. ASSUME NEW r \in Run PROVE RunTyped(run[r]) /\ RunTyped([run[r] EXCEPT !.alone = FALSE])
  BY DEF RunsTyped, RunTyped
<1>12. ASSUME NEW r \in Run, ReadBalance(r) PROVE LedgerInv'
  <2>1. RunTyped([run[r] EXCEPT !.left = balanceOf[run[r].user], !.alone = TRUE])
    BY <1>11, <1>12 DEF ReadBalance, At, RunTyped, MoneyTyped
  <2>2. RunsTyped'
    BY <1>12, <2>1, LooksTyped, RunGoes DEF ReadBalance, GoOn
  <2>3. RulesTyped' /\ SpentTyped' /\ CountsTyped'
    BY <1>12 DEF ReadBalance, ruleVars, spentVars, RulesTyped, SpentTyped, CountsTyped
  <2> QED BY <1>5, <1>12, <2>2, <2>3 DEF ReadBalance
<1>13. ASSUME NEW r \in Run, ReadKiosk(r) PROVE LedgerInv'
  <2> DEFINE a == Min2(run[r].left, kiosk[run[r].k].reserve)
  <2>1. RunTyped(run[r]) /\ run[r].pc = "kiosk" /\ run[r].k \in Kiosk
    BY <1>11, <1>13 DEF ReadKiosk, At, RunTyped
  <2>2. a \in Nat /\ a <= run[r].left
    BY <2>1 DEF Min2, RunTyped, MoneyTyped
  <2>3. RunTyped([run[r] EXCEPT !.pc = "redeem", !.amount = a])
    <3> HIDE DEF a
    <3> QED BY <2>1, <2>2 DEF RunTyped, Pc
  <2>4. run' = [run EXCEPT ![r] = IF a = 0 THEN Looks(run[r]) ELSE [run[r] EXCEPT !.pc = "redeem", !.amount = a]]
    BY <1>13 DEF ReadKiosk, GoOn
  <2>5. RunsTyped'
    <3> HIDE DEF a
    <3> QED BY <2>1, <2>3, <2>4, LooksTyped, RunGoes
  <2>6. RulesTyped' /\ SpentTyped' /\ CountsTyped'
    BY <1>13 DEF ReadKiosk, ruleVars, spentVars, RulesTyped, SpentTyped, CountsTyped
  <2> QED BY <1>5, <1>13, <2>5, <2>6 DEF ReadKiosk
\* redeem in either of the steps that call it
<1>14. ASSUME NEW r \in Run, At(r, "redeem"), Redeem(run[r].k, run[r].user, run[r].amount),
              UNCHANGED <<ruleVars, spentVars, day, minted, highest>>
       PROVE  MoneyTyped' /\ SupplyIsReserve' /\ RulesTyped' /\ SpentTyped' /\ CountsTyped'
  <2> DEFINE k == run[r].k
             h == run[r].user
             a == run[r].amount
  <2>1. k \in Kiosk /\ h \in Holder /\ a \in Nat
    BY <1>11, <1>14 DEF At, RunTyped
  <2>2. RulesTyped' /\ SpentTyped'
    BY <1>14 DEF ruleVars, spentVars, RulesTyped, SpentTyped
  <2>3. Redeem(k, h, a)
    BY <1>14
  <2> HIDE DEF k, h, a
  <2>4. CountsTyped'
    <3>1. unrecorded' = [unrecorded EXCEPT ![h] = @ + a] /\ minted' = minted
      BY <1>14, <2>3 DEF Redeem
    <3>2. unrecorded \in [Holder -> Int] /\ minted \in 0..MaxSupply
      BY DEF CountsTyped
    <3> QED BY <2>1, <3>1, <3>2 DEF CountsTyped
  <2>5. /\ kiosk' = [kiosk EXCEPT ![k].reserve = @ + (-a)]
        /\ balanceOf' = [balanceOf EXCEPT ![h] = @ + (-a)]
    BY <2>1, <2>3 DEF Redeem, MoneyTyped
  <2>6. /\ -a \in Int /\ totalReserve' = totalReserve + (-a) /\ totalSupply' = totalSupply + (-a)
        /\ kiosk[k].reserve + (-a) \in Nat /\ balanceOf[h] + (-a) \in Nat
    BY <2>1, <2>3 DEF Redeem, InReserve, MoneyTyped
  <2>7. MoneyTyped' /\ SupplyIsReserve'
    BY <2>1, <2>5, <2>6, SupplyMoves
  <2> QED BY <2>2, <2>4, <2>7
<1>15. ASSUME NEW r \in Run, RedeemSucceeds(r) PROVE LedgerInv'
  <2> DEFINE q == [run[r] EXCEPT !.left = @ - run[r].amount, !.burned = BurnedAfter(run[r]), !.amount = 0]
  <2>1. RunTyped(run[r]) /\ run[r].pc = "redeem"
    BY <1>11, <1>15 DEF RedeemSucceeds, At
  <2>2. RunTyped(q)
    <3>1. /\ run[r].left - run[r].amount \in Nat /\ BurnedAfter(run[r]) \in Nat
          /\ 0 <= run[r].left - run[r].amount
      BY <2>1 DEF RunTyped, BurnedAfter
    <3>2. /\ q \in [pc : Pc, user : Holder, k : Nat, left : Nat, amount : Nat, burned : Nat, alone : BOOLEAN]
          /\ q.pc = "redeem" /\ q.k = run[r].k /\ q.amount = 0 /\ q.left = run[r].left - run[r].amount
      BY <2>1, <3>1 DEF RunTyped
    <3> HIDE DEF q
    <3> QED BY <2>1, <3>1, <3>2 DEF RunTyped
  <2>3. run' = [s \in Run |-> IF s = r THEN Looks(q) ELSE [run[s] EXCEPT !.alone = FALSE]]
    BY <1>15 DEF RedeemSucceeds
  <2> HIDE DEF q
  <2>4. RunsTyped'
    BY <2>2, <2>3, LooksTyped, RunGoes
  <2> QED BY <1>14, <1>15, <2>4 DEF RedeemSucceeds
<1>16. ASSUME NEW r \in Run, RedeemFails(r) PROVE LedgerInv'
  <2> DEFINE q == [run[r] EXCEPT !.pc = "record", !.burned = 0, !.amount = 0, !.alone = FALSE]
  <2>1. RunTyped(q)
    BY <1>11 DEF RunTyped, Pc
  <2>2. run' = [run EXCEPT ![r] = q]
    BY <1>16 DEF RedeemFails, GoOn
  <2> HIDE DEF q
  <2>3. RunsTyped'
    BY <2>1, <2>2, RunGoes
  <2>4. RulesTyped' /\ SpentTyped' /\ CountsTyped'
    BY <1>16 DEF RedeemFails, ruleVars, spentVars, RulesTyped, SpentTyped, CountsTyped
  <2> QED BY <1>5, <1>16, <2>3, <2>4 DEF RedeemFails
<1>17. ASSUME NEW r \in Run, RedeemLosesReply(r) PROVE LedgerInv'
  <2> DEFINE q == [run[r] EXCEPT !.pc = "record", !.burned = 0, !.amount = 0, !.alone = FALSE]
  <2>1. RunTyped(q)
    BY <1>11 DEF RunTyped, Pc
  <2>2. run' = [s \in Run |-> IF s = r THEN q ELSE [run[s] EXCEPT !.alone = FALSE]]
    BY <1>17 DEF RedeemLosesReply
  <2> HIDE DEF q
  <2>3. RunsTyped'
    BY <2>1, <2>2, RunGoes
  <2> QED BY <1>14, <1>17, <2>3 DEF RedeemLosesReply
<1>18. ASSUME NEW r \in Run, RecordBurned(r) PROVE LedgerInv'
  <2> DEFINE q == [run[r] EXCEPT !.pc = "done", !.k = 0]
  <2>1. RunTyped(q)
    <3>1. /\ q \in [pc : Pc, user : Holder, k : Nat, left : Nat, amount : Nat, burned : Nat, alone : BOOLEAN]
          /\ q.pc = "done" /\ q.k = 0
      BY <1>11 DEF RunTyped, Pc
    <3> HIDE DEF q
    <3> QED BY <3>1, ReceiptAssumption DEF RunTyped
  <2>2. run' = [run EXCEPT ![r] = q]
    BY <1>18 DEF RecordBurned, GoOn
  <2> HIDE DEF q
  <2>3. RunsTyped'
    BY <2>1, <2>2, RunGoes
  <2>4. RulesTyped' /\ SpentTyped'
    BY <1>18 DEF RecordBurned, ruleVars, spentVars, RulesTyped, SpentTyped
  <2>5. run[r].user \in Holder /\ run[r].burned \in Nat
    BY <1>11 DEF RunTyped
  <2>6. CountsTyped'
    BY <1>18, <2>5 DEF RecordBurned, CountsTyped
  <2> QED BY <1>5, <1>18, <2>3, <2>4, <2>6 DEF RecordBurned
<1>19. ASSUME NEW r \in Run, RunEnds(r) PROVE LedgerInv'
  <2>1. run[r].user \in Holder
    BY <1>11 DEF RunTyped
  <2>2. RunsTyped'
    BY <1>19, <2>1, OffTyped, RunGoes DEF RunEnds, GoOn
  <2>3. RulesTyped' /\ SpentTyped' /\ CountsTyped'
    BY <1>19 DEF RunEnds, ruleVars, spentVars, RulesTyped, SpentTyped, CountsTyped
  <2> QED BY <1>5, <1>19, <2>2, <2>3 DEF RunEnds
<1>20. CASE UNCHANGED receiptVars
  <2>1. RulesTyped' /\ SpentTyped' /\ CountsTyped' /\ RunsTyped'
    BY <1>20 DEF receiptVars, ruleVars, spentVars, RulesTyped, SpentTyped, CountsTyped, RunsTyped
  <2> QED BY <1>5, <1>20, <2>1 DEF receiptVars
<1> HIDE DEF LedgerInv
<1> QED
  BY <1>1, <1>2, <1>3, <1>4, <1>6, <1>7, <1>8, <1>9, <1>10, <1>12, <1>13, <1>15, <1>16, <1>17,
     <1>18, <1>19, <1>20 DEF ReceiptNext, RedeemAll

-----------------------------------------------------------------------------
\* What was sent today

LEMMA DayInit == ReceiptInit => DayRules
BY DEF ReceiptInit, DayRules

LEMMA DayStep ==
  ASSUME LedgerInv, DayRules, [ReceiptNext]_receiptVars
  PROVE  DayRules'
<1> USE DEF DayRules
<1>0. SpentTyped /\ RulesTyped /\ dailyTransferLimit \in Nat
  <2>1. SpentTyped /\ RulesTyped
    BY DEF LedgerInv
  <2>2. dailyTransferLimit \in Limit \cup {0}
    BY ONLY <2>1 DEF RulesTyped
  <2>3. Limit \subseteq Nat
    BY ReceiptAssumption
  <2> QED
    BY ONLY <2>1, <2>2, <2>3
<1>1. ASSUME UNCHANGED <<spentVars, day, dailyTransferLimit, highest>> PROVE DayRules'
  BY <1>1 DEF spentVars
<1>2. ASSUME NEW l \in Limit, SetDailyTransferLimit(l) PROVE DayRules'
  <2>1. dailyTransferLimit \in Int /\ l \in Int /\ highest \in Int /\ \A h \in Holder : sent[h] \in Int
    BY <1>0, ReceiptAssumption DEF RulesTyped, SpentTyped
  <2> QED BY <1>2, <2>1 DEF SetDailyTransferLimit, spentVars
<1>3. ASSUME NEW from \in Holder, NEW to \in Holder, NEW a \in Amount, Transfer(from, to, a) PROVE DayRules'
  <2>1. a \in Nat /\ dailyTransferLimit \in Nat
    BY <1>0, ReceiptAssumption DEF RulesTyped
  <2>2. UNCHANGED <<day, dailyTransferLimit, highest>> /\ Spend(from, a)
    BY <1>3 DEF Transfer, ruleVars
  <2>3. CASE dailyTransferLimit = 0
    BY <1>1, <2>2, <2>3 DEF Spend
  <2>4. CASE dailyTransferLimit # 0
    <3>1. sent[from] = SpentSoFar(from) /\ SpentSoFar(from) + a <= dailyTransferLimit
      BY <2>2, <2>4 DEF Spend, SpentSoFar
    <3>2. /\ spentToday' = [spentToday EXCEPT ![from] = SpentSoFar(from) + a]
          /\ spentDay' = [spentDay EXCEPT ![from] = day]
          /\ sent' = [sent EXCEPT ![from] = sent[from] + a]
      BY <2>2, <2>4 DEF Spend
    <3> QED BY <1>0, <2>1, <2>2, <3>1, <3>2 DEF SpentTyped
  <2> QED BY <2>3, <2>4
<1>4. ASSUME NextDay PROVE DayRules'
  <2>2. \A h \in Holder : sent'[h] = 0 /\ spentDay'[h] = spentDay[h] /\ spentDay[h] < day'
    BY <1>0, <1>4 DEF NextDay, SpentTyped
  <2> QED BY <1>0, <1>4, <2>2 DEF NextDay, ruleVars, SpentTyped
<1> HIDE DEF DayRules
<1>5. ASSUME NEW k \in Kiosk, NEW b \in BOOLEAN, SetKiosk(k, b) PROVE DayRules'
  BY <1>1, <1>5 DEF SetKiosk, ruleVars
<1>6. ASSUME NEW k \in Kiosk, NEW h \in Holder, NEW a \in Amount, RecordCashIn(k, h, a) PROVE DayRules'
  BY <1>1, <1>6 DEF RecordCashIn, ruleVars
<1>7. ASSUME NEW k \in Kiosk, NEW c \in 0..MaxSupply, AttestReserve(k, c) PROVE DayRules'
  BY <1>1, <1>7 DEF AttestReserve, ruleVars
<1>8. ASSUME NEW k \in Kiosk, UnfreezeKiosk(k) PROVE DayRules'
  BY <1>1, <1>8 DEF UnfreezeKiosk, ruleVars
<1>9. ASSUME NEW h \in Holder, NEW b \in BOOLEAN, SetAllowlisted(h, b) PROVE DayRules'
  BY <1>1, <1>9 DEF SetAllowlisted, ruleVars
<1>10. ASSUME NEW b \in BOOLEAN, Pause(b) PROVE DayRules'
  BY <1>1, <1>10 DEF Pause, ruleVars
<1>11. ASSUME NEW r \in Run, RedeemAll(r) PROVE DayRules'
  <2>1. UNCHANGED <<ruleVars, spentVars, day, highest>>
    BY <1>11 DEF RedeemAll, ReadBalance, ReadKiosk, RedeemSucceeds, RedeemFails, RedeemLosesReply, RecordBurned, RunEnds
  <2> QED BY <1>1, <2>1 DEF ruleVars
<1>12. CASE UNCHANGED receiptVars
  BY <1>1, <1>12 DEF receiptVars, ruleVars
<1> QED
  BY <1>2, <1>3, <1>4, <1>5, <1>6, <1>7, <1>8, <1>9, <1>10, <1>11, <1>12 DEF ReceiptNext

-----------------------------------------------------------------------------
\* What the withdrawals record as burned

LEMMA ClaimNat ==
  ASSUME RunsTyped, NEW h \in Holder
  PROVE  /\ \A r \in Run : Claim(h)[r] \in Nat
         /\ SumFunctionOnSet(Claim(h), Run) \in Nat
<1>1. \A r \in Run : Claim(h)[r] \in Nat
  BY DEF RunsTyped, RunTyped, Claim
<1> QED
  BY <1>1, SumNat, ReceiptAssumption

\* One run goes on: the claims of the others stay what they are.
LEMMA ClaimMoves ==
  ASSUME RunsTyped, RunsTyped', NEW r \in Run, NEW h \in Holder,
         \A s \in Run \ {r} : run'[s].user = run[s].user /\ run'[s].pc = run[s].pc /\ run'[s].burned = run[s].burned
  PROVE  SumFunctionOnSet(Claim(h)', Run) = SumFunctionOnSet(Claim(h), Run) - Claim(h)[r] + Claim(h)'[r]
<1>1. IsFiniteSet(Run) /\ r \in Run
  BY ReceiptAssumption
<1>2. \A s \in Run : Claim(h)[s] \in Int /\ Claim(h)'[s] \in Int
  BY DEF RunsTyped, RunTyped, Claim
<1>3. \A s \in Run \ {r} : Claim(h)'[s] = Claim(h)[s]
  BY DEF Claim
<1> QED
  BY ONLY <1>1, <1>2, <1>3, SumChange

LEMMA ClaimsStay ==
  ASSUME RunsTyped, ClaimsCovered, unrecorded' = unrecorded,
         \A s \in Run : run'[s].user = run[s].user /\ run'[s].pc = run[s].pc /\ run'[s].burned = run[s].burned
  PROVE  ClaimsCovered'
<1> SUFFICES ASSUME NEW h \in Holder PROVE SumFunctionOnSet(Claim(h)', Run) <= unrecorded'[h]
  BY DEF ClaimsCovered
<1>1. \A s \in Run : Claim(h)'[s] = Claim(h)[s]
  BY DEF Claim
<1>2. IsFiniteSet(Run)
  BY ReceiptAssumption
<1>3. SumFunctionOnSet(Claim(h)', Run) = SumFunctionOnSet(Claim(h), Run)
  BY ONLY <1>1, <1>2, SumCongruence
<1> QED
  BY <1>3 DEF ClaimsCovered

LEMMA ClaimsInit == ReceiptInit => ClaimsCovered
<1> SUFFICES ASSUME ReceiptInit, NEW h \in Holder PROVE SumFunctionOnSet(Claim(h), Run) <= unrecorded[h]
  BY DEF ClaimsCovered
<1>1. \A r \in Run : Claim(h)[r] = 0
  BY DEF ReceiptInit, Claim, OffRun
<1>2. SumFunctionOnSet(Claim(h), Run) = 0
  BY <1>1, SumZero, ReceiptAssumption
<1> QED
  BY <1>2 DEF ReceiptInit

LEMMA ClaimsStep ==
  ASSUME LedgerInv, LedgerInv', ClaimsCovered, [ReceiptNext]_receiptVars
  PROVE  ClaimsCovered'
<1>0. RunsTyped /\ RunsTyped' /\ CountsTyped
  BY DEF LedgerInv
<1>1. ASSUME run' = run, unrecorded' = unrecorded PROVE ClaimsCovered'
  BY <1>0, <1>1, ClaimsStay
<1>2. ASSUME OthersStale, unrecorded' = unrecorded PROVE ClaimsCovered'
  BY <1>0, <1>2, ClaimsStay DEF OthersStale, RunsTyped, RunTyped
<1>3. ASSUME NEW k \in Kiosk, NEW h \in Holder, NEW a \in Amount, RecordCashIn(k, h, a) PROVE ClaimsCovered'
  BY <1>2, <1>3 DEF RecordCashIn
<1>4. ASSUME NEW h \in Holder, NEW to \in Holder, NEW a \in Amount, Transfer(h, to, a) PROVE ClaimsCovered'
  BY <1>2, <1>4 DEF Transfer
<1>5. ASSUME NEW k \in Kiosk, NEW b \in BOOLEAN, SetKiosk(k, b) PROVE ClaimsCovered'
  BY <1>1, <1>5 DEF SetKiosk
<1>6. ASSUME NEW k \in Kiosk, NEW c \in 0..MaxSupply, AttestReserve(k, c) PROVE ClaimsCovered'
  BY <1>1, <1>6 DEF AttestReserve
<1>7. ASSUME NEW k \in Kiosk, UnfreezeKiosk(k) PROVE ClaimsCovered'
  BY <1>1, <1>7 DEF UnfreezeKiosk
<1>8. ASSUME NEW h \in Holder, NEW b \in BOOLEAN, SetAllowlisted(h, b) PROVE ClaimsCovered'
  BY <1>1, <1>8 DEF SetAllowlisted
<1>9. ASSUME NEW l \in Limit, SetDailyTransferLimit(l) PROVE ClaimsCovered'
  BY <1>1, <1>9 DEF SetDailyTransferLimit
<1>10. ASSUME NEW b \in BOOLEAN, Pause(b) PROVE ClaimsCovered'
  BY <1>1, <1>10 DEF Pause
<1>11. ASSUME NextDay PROVE ClaimsCovered'
  BY <1>1, <1>11 DEF NextDay
<1>12. ASSUME NEW r \in Run, RedeemAll(r) PROVE ClaimsCovered'
  <2>1. /\ RunTyped(run[r]) /\ run[r].user \in Holder /\ run[r].burned \in Nat /\ run[r].amount \in Nat
        /\ \A h \in Holder : unrecorded[h] \in Int
    BY <1>0 DEF RunsTyped, RunTyped, CountsTyped
  <2>2. \A h \in Holder : /\ SumFunctionOnSet(Claim(h), Run) \in Int /\ Claim(h)[r] \in Nat
                          /\ SumFunctionOnSet(Claim(h), Run) <= unrecorded[h]
    BY <1>0, ClaimNat DEF ClaimsCovered
  <2>3. ASSUME \A s \in Run \ {r} : run'[s].user = run[s].user /\ run'[s].pc = run[s].pc /\ run'[s].burned = run[s].burned,
               \A h \in Holder : Claim(h)'[r] - Claim(h)[r] <= unrecorded'[h] - unrecorded[h],
               \A h \in Holder : unrecorded'[h] \in Int
        PROVE  ClaimsCovered'
    <3> SUFFICES ASSUME NEW h \in Holder PROVE SumFunctionOnSet(Claim(h)', Run) <= unrecorded'[h]
      BY DEF ClaimsCovered
    <3>1. SumFunctionOnSet(Claim(h)', Run) = SumFunctionOnSet(Claim(h), Run) - Claim(h)[r] + Claim(h)'[r]
      BY <1>0, <2>3, ClaimMoves
    <3>2. Claim(h)'[r] \in Int
      BY <1>0 DEF RunsTyped, RunTyped, Claim
    <3>3. /\ Claim(h)'[r] - Claim(h)[r] <= unrecorded'[h] - unrecorded[h]
          /\ unrecorded'[h] \in Int /\ unrecorded[h] \in Int
      BY <2>1, <2>3
    <3> QED BY <2>2, <3>1, <3>2, <3>3
  \* What a step makes of the run and of what is unrecorded.
  <2>4. \A h \in Holder :
          /\ Claim(h)[r] = IF run[r].user = h /\ run[r].pc # "done" THEN run[r].burned ELSE 0
          /\ Claim(h)'[r] = IF run'[r].user = h /\ run'[r].pc # "done" THEN run'[r].burned ELSE 0
    BY DEF Claim
  <2>5. \A s \in Run : run[s].alone \in BOOLEAN /\ \A q : q = [run[s] EXCEPT !.alone = FALSE] =>
                          q.user = run[s].user /\ q.pc = run[s].pc /\ q.burned = run[s].burned
    BY <1>0 DEF RunsTyped, RunTyped
  <2>6. CASE ReadBalance(r) \/ ReadKiosk(r)
    <3>1. \A q : RunTyped(q) => Looks(q).user = q.user /\ Looks(q).burned = q.burned /\ Looks(q).pc \in {"kiosk", "record"}
      BY DEF Looks, RunTyped
    <3>2. /\ run'[r].user = run[r].user /\ run'[r].burned = run[r].burned /\ run'[r].pc # "done" /\ run[r].pc # "done"
          /\ \A s \in Run \ {r} : run'[s] = run[s]
          /\ unrecorded' = unrecorded
      <4>1. CASE ReadBalance(r)
        <5> DEFINE q == [run[r] EXCEPT !.left = balanceOf[run[r].user], !.alone = TRUE]
        <5>1. RunTyped(q) /\ q.user = run[r].user /\ q.burned = run[r].burned
          <6>1. balanceOf[run[r].user] \in Nat
            BY <2>1 DEF LedgerInv, MoneyTyped
          <6> QED BY <2>1, <4>1, <6>1 DEF RunTyped, ReadBalance, At
        <5>2. run' = [run EXCEPT ![r] = Looks(q)]
          BY <4>1 DEF ReadBalance, GoOn
        <5> HIDE DEF q
        <5> QED BY <1>0, <3>1, <4>1, <5>1, <5>2 DEF ReadBalance, At, RunsTyped
      <4>2. CASE ReadKiosk(r)
        <5> DEFINE a == Min2(run[r].left, kiosk[run[r].k].reserve)
        <5>1. run' = [run EXCEPT ![r] = IF a = 0 THEN Looks(run[r]) ELSE [run[r] EXCEPT !.pc = "redeem", !.amount = a]]
          BY <4>2 DEF ReadKiosk, GoOn
        <5> HIDE DEF a
        <5>2. run'[r] = Looks(run[r]) \/ run'[r] = [run[r] EXCEPT !.pc = "redeem", !.amount = a]
          BY <1>0, <5>1 DEF RunsTyped
        <5>3. run'[r].user = run[r].user /\ run'[r].burned = run[r].burned /\ run'[r].pc # "done"
          BY <2>1, <3>1, <5>2 DEF RunTyped
        <5> QED BY <1>0, <4>2, <5>1, <5>3 DEF ReadKiosk, At, RunsTyped
      <4> QED BY <2>6, <4>1, <4>2
    <3>3. \A h \in Holder : Claim(h)'[r] - Claim(h)[r] <= unrecorded'[h] - unrecorded[h]
      BY <2>1, <2>4, <3>2
    <3> QED BY <2>1, <2>3, <3>2, <3>3
  <2>7. ASSUME run'[r].user = run[r].user, run'[r].burned = 0,
               \A s \in Run \ {r} : run'[s].user = run[s].user /\ run'[s].pc = run[s].pc /\ run'[s].burned = run[s].burned,
               \A h \in Holder : unrecorded'[h] \in Int /\ unrecorded[h] <= unrecorded'[h]
        PROVE  ClaimsCovered'
    <3>1. \A h \in Holder : Claim(h)'[r] - Claim(h)[r] <= unrecorded'[h] - unrecorded[h]
      BY <2>1, <2>4, <2>7
    <3> QED BY <2>3, <2>7, <3>1
  <2>8. CASE RedeemFails(r)
    <3>1. run' = [run EXCEPT ![r] = [run[r] EXCEPT !.pc = "record", !.burned = 0, !.amount = 0, !.alone = FALSE]]
      BY <2>8 DEF RedeemFails, GoOn
    <3>2. run'[r].user = run[r].user /\ run'[r].burned = 0 /\ \A s \in Run \ {r} : run'[s] = run[s]
      BY <1>0, <2>1, <3>1 DEF RunsTyped, RunTyped
    <3> QED BY <2>1, <2>7, <2>8, <3>2 DEF RedeemFails
  <2>9. ASSUME Redeem(run[r].k, run[r].user, run[r].amount)
        PROVE  \A h \in Holder : unrecorded'[h] = IF h = run[r].user THEN unrecorded[h] + run[r].amount ELSE unrecorded[h]
    BY <1>0, <2>1, <2>9 DEF Redeem, CountsTyped
  <2>10. CASE RedeemLosesReply(r)
    <3>1. \A s \in Run : run'[s] = IF s = r THEN [run[r] EXCEPT !.pc = "record", !.burned = 0, !.amount = 0, !.alone = FALSE]
                                   ELSE [run[s] EXCEPT !.alone = FALSE]
      BY <2>10 DEF RedeemLosesReply
    <3>2. run'[r].user = run[r].user /\ run'[r].burned = 0
      BY <2>1, <3>1 DEF RunTyped
    <3>3. \A s \in Run \ {r} : run'[s].user = run[s].user /\ run'[s].pc = run[s].pc /\ run'[s].burned = run[s].burned
      BY <2>5, <3>1
    <3>4. \A h \in Holder : unrecorded'[h] \in Int /\ unrecorded[h] <= unrecorded'[h]
      BY <2>1, <2>9, <2>10 DEF RedeemLosesReply
    <3> QED BY <2>7, <3>2, <3>3, <3>4
  <2>11. CASE RedeemSucceeds(r)
    <3> DEFINE q == [run[r] EXCEPT !.left = @ - run[r].amount, !.burned = BurnedAfter(run[r]), !.amount = 0]
    <3>1. \A s \in Run : run'[s] = IF s = r THEN Looks(q) ELSE [run[s] EXCEPT !.alone = FALSE]
      BY <2>11 DEF RedeemSucceeds
    <3>2. run'[r].user = run[r].user /\ run'[r].burned = run[r].burned + run[r].amount /\ run'[r].pc # "done" /\ run[r].pc # "done"
      <4>1. q.user = run[r].user /\ q.burned = run[r].burned + run[r].amount
        BY <2>1 DEF RunTyped, BurnedAfter
      <4>2. Looks(q) = [q EXCEPT !.pc = "record"] \/ Looks(q) = [q EXCEPT !.pc = "kiosk", !.k = @ + 1]
        BY DEF Looks
      <4>3. Looks(q).user = q.user /\ Looks(q).burned = q.burned /\ Looks(q).pc # "done"
        BY <2>1, <4>2 DEF RunTyped
      <4> QED BY <2>11, <3>1, <4>1, <4>3 DEF RedeemSucceeds, At
    <3>3. \A s \in Run \ {r} : run'[s].user = run[s].user /\ run'[s].pc = run[s].pc /\ run'[s].burned = run[s].burned
      BY <2>5, <3>1
    <3>4. \A h \in Holder : Claim(h)'[r] - Claim(h)[r] <= unrecorded'[h] - unrecorded[h] /\ unrecorded'[h] \in Int
      BY <2>1, <2>4, <2>9, <2>11, <3>2 DEF RedeemSucceeds
    <3> QED BY <2>3, <3>3, <3>4
  <2>12. CASE RecordBurned(r)
    <3>1. run' = [run EXCEPT ![r] = [run[r] EXCEPT !.pc = "done", !.k = 0]] /\ run[r].pc = "record"
      BY <2>12 DEF RecordBurned, GoOn, At
    <3>2. run'[r].user = run[r].user /\ run'[r].pc = "done" /\ \A s \in Run \ {r} : run'[s] = run[s]
      BY <1>0, <2>1, <3>1 DEF RunsTyped, RunTyped
    <3>3. \A h \in Holder : unrecorded'[h] = IF h = run[r].user THEN unrecorded[h] - run[r].burned ELSE unrecorded[h]
      BY <1>0, <2>1, <2>12 DEF RecordBurned, CountsTyped
    <3>4. \A h \in Holder : Claim(h)'[r] - Claim(h)[r] <= unrecorded'[h] - unrecorded[h] /\ unrecorded'[h] \in Int
      BY <2>1, <2>4, <3>1, <3>2, <3>3
    <3> QED BY <2>3, <3>2, <3>4
  <2>13. CASE RunEnds(r)
    <3>1. run' = [run EXCEPT ![r] = OffRun(run[r].user)] /\ unrecorded' = unrecorded
      BY <2>13 DEF RunEnds, GoOn
    <3>2. run'[r].user = run[r].user /\ run'[r].burned = 0 /\ \A s \in Run \ {r} : run'[s] = run[s]
      BY <1>0, <3>1 DEF RunsTyped, OffRun
    <3> QED BY <2>1, <2>7, <3>1, <3>2
  <2> QED BY <1>12, <2>6, <2>8, <2>10, <2>11, <2>12, <2>13 DEF RedeemAll
<1>13. CASE UNCHANGED receiptVars
  BY <1>1, <1>13 DEF receiptVars
<1> QED
  BY <1>3, <1>4, <1>5, <1>6, <1>7, <1>8, <1>9, <1>10, <1>11, <1>12, <1>13 DEF ReceiptNext

-----------------------------------------------------------------------------
\* Where the cash of an undisturbed run is

LEMMA RestLaws ==
  ASSUME NEW res, \A k \in Kiosk : res[k] \in Nat
  PROVE  /\ Rest(res, Boxes + 1) = 0
         /\ \A k \in 0..Boxes : Rest(res, k + 1) \in Nat
         /\ \A k \in Kiosk : Rest(res, k) = res[k] + Rest(res, k + 1) /\ Rest(res, k + 1) \in Nat
         /\ Rest(res, 1) = SumFunctionOnSet(res, Kiosk)
<1>1. Boxes \in Nat
  BY ReceiptAssumption
<1>2. (Boxes + 1)..Boxes = {}
  BY <1>1
<1>3. ASSUME NEW k \in Kiosk PROVE Rest(res, k) = res[k] + Rest(res, k + 1) /\ Rest(res, k + 1) \in Nat
  <2>1. k \in k..Boxes /\ k..Boxes \subseteq Kiosk /\ (k + 1)..Boxes \subseteq Kiosk /\ (k..Boxes) \ {k} = (k + 1)..Boxes
    BY <1>1 DEF Kiosk
  <2>2. IsFiniteSet(k..Boxes) /\ IsFiniteSet((k + 1)..Boxes)
    BY <2>1, KioskFinite, FS_Subset
  <2>3. \A j \in k..Boxes : res[j] \in Int
    BY <2>1
  <2>4. SumFunctionOnSet(res, k..Boxes) = res[k] + SumFunctionOnSet(res, (k..Boxes) \ {k})
    BY <2>1, <2>2, <2>3, SumRemove
  <2>5. SumFunctionOnSet(res, (k + 1)..Boxes) \in Nat
    BY <2>1, <2>2, SumNat
  <2> QED BY <2>1, <2>4, <2>5 DEF Rest
<1>4. ASSUME NEW k \in 0..Boxes PROVE Rest(res, k + 1) \in Nat
  <2>1. (k + 1)..Boxes \subseteq Kiosk
    BY <1>1 DEF Kiosk
  <2> QED BY <2>1, KioskFinite, FS_Subset, SumNat DEF Rest
<1> QED
  BY <1>2, <1>3, <1>4, SumEmpty DEF Rest, Kiosk

\* The run that has a balance before it and looks at the next kiosk.
LEMMA LooksOnTrack ==
  ASSUME NEW q, RunTyped(q), NEW balance, NEW res, \A k \in Kiosk : res[k] \in Nat,
         q.left = balance[q.user], q.left <= Rest(res, q.k + 1)
  PROVE  OnTrack(Looks(q), balance, res)
<1>1. CASE q.left = 0 \/ q.k = Kiosks
  <2>1. Rest(res, Kiosks + 1) \in Nat
    BY RestLaws, ReceiptAssumption
  <2>2. q.left <= Rest(res, Kiosks + 1)
    BY <1>1, <2>1
  <2>3. Looks(q).pc = "record" /\ Looks(q).user = q.user
    BY <1>1 DEF Looks, RunTyped
  <2> QED BY <2>2, <2>3 DEF OnTrack
<1>2. CASE ~(q.left = 0 \/ q.k = Kiosks)
  <2>1. /\ Looks(q).pc = "kiosk" /\ Looks(q).user = q.user
        /\ Looks(q).left = q.left /\ Looks(q).k = q.k + 1
    BY <1>2 DEF Looks, RunTyped
  <2> QED BY <2>1 DEF OnTrack
<1> QED
  BY <1>1, <1>2

LEMMA TrackInit == ReceiptInit => AllOnTrack
<1> SUFFICES ASSUME ReceiptInit, NEW r \in Run PROVE OnTrack(run[r], balanceOf, Reserves)
  BY DEF AllOnTrack
<1>1. PICK h \in Holder : run[r] = OffRun(h)
  BY DEF ReceiptInit
<1>2. run[r].pc = "idle"
  BY <1>1 DEF OffRun
<1> QED
  BY <1>2 DEF OnTrack

LEMMA TrackStep ==
  ASSUME LedgerInv, AllOnTrack, [ReceiptNext]_receiptVars
  PROVE  AllOnTrack'
<1>0. MoneyTyped /\ RunsTyped /\ SupplyIsReserve
  BY DEF LedgerInv
<1>1. ASSUME run' = run, balanceOf' = balanceOf, Reserves' = Reserves PROVE AllOnTrack'
  BY <1>1 DEF AllOnTrack
<1>2. ASSUME OthersStale PROVE AllOnTrack'
  <2>1. \A r \in Run : run'[r].alone = FALSE
    BY <1>0, <1>2 DEF OthersStale, RunsTyped, RunTyped
  <2> QED BY <2>1 DEF AllOnTrack, OnTrack
<1>3. ASSUME kioskVars' = kioskVars PROVE Reserves' = Reserves
  BY <1>3 DEF kioskVars, Reserves
<1>4. ASSUME NEW k \in Kiosk, NEW h \in Holder, NEW a \in Amount, RecordCashIn(k, h, a) PROVE AllOnTrack'
  BY <1>2, <1>4 DEF RecordCashIn
<1>5. ASSUME NEW h \in Holder, NEW to \in Holder, NEW a \in Amount, Transfer(h, to, a) PROVE AllOnTrack'
  BY <1>2, <1>5 DEF Transfer
<1>6. ASSUME NEW k \in Kiosk, NEW b \in BOOLEAN, SetKiosk(k, b) PROVE AllOnTrack'
  <2>1. Reserves' = Reserves
    BY <1>0, <1>6 DEF SetKiosk, MoneyTyped, Reserves
  <2> QED BY <1>1, <1>6, <2>1 DEF SetKiosk, tokenVars
<1>7. ASSUME NEW k \in Kiosk, NEW c \in 0..MaxSupply, AttestReserve(k, c) PROVE AllOnTrack'
  <2>1. Reserves' = Reserves
    BY <1>0, <1>7 DEF AttestReserve, MoneyTyped, Reserves
  <2> QED BY <1>1, <1>7, <2>1 DEF AttestReserve, tokenVars
<1>8. ASSUME NEW k \in Kiosk, UnfreezeKiosk(k) PROVE AllOnTrack'
  <2>1. Reserves' = Reserves
    BY <1>0, <1>8 DEF UnfreezeKiosk, MoneyTyped, Reserves
  <2> QED BY <1>1, <1>8, <2>1 DEF UnfreezeKiosk, tokenVars
<1>9. ASSUME NEW h \in Holder, NEW b \in BOOLEAN, SetAllowlisted(h, b) PROVE AllOnTrack'
  BY <1>1, <1>3, <1>9 DEF SetAllowlisted, tokenVars
<1>10. ASSUME NEW l \in Limit, SetDailyTransferLimit(l) PROVE AllOnTrack'
  BY <1>1, <1>3, <1>10 DEF SetDailyTransferLimit, tokenVars
<1>11. ASSUME NEW b \in BOOLEAN, Pause(b) PROVE AllOnTrack'
  BY <1>1, <1>3, <1>11 DEF Pause, tokenVars
<1>12. ASSUME NextDay PROVE AllOnTrack'
  BY <1>1, <1>3, <1>12 DEF NextDay, tokenVars
<1>13. ASSUME NEW r \in Run, RedeemAll(r) PROVE AllOnTrack'
  <2>1. RunTyped(run[r]) /\ OnTrack(run[r], balanceOf, Reserves)
    BY <1>0 DEF RunsTyped, AllOnTrack
  <2>2. /\ \A k \in Kiosk : Reserves[k] \in Nat /\ Reserves[k] = kiosk[k].reserve
        /\ \A h \in Holder : balanceOf[h] \in Nat
    BY <1>0, SupplySums
  \* A step of the run itself that moves no money
  <2>3. ASSUME NEW q, run' = [run EXCEPT ![r] = q], UNCHANGED <<kioskVars, tokenVars>>,
               OnTrack(q, balanceOf, Reserves)
        PROVE  AllOnTrack'
    <3>1. balanceOf' = balanceOf /\ Reserves' = Reserves
      BY <1>3, <2>3 DEF tokenVars
    <3>2. \A s \in Run : run'[s] = q \/ run'[s] = run[s]
      BY <1>0, <2>3 DEF RunsTyped
    <3> QED BY <2>3, <3>1, <3>2 DEF AllOnTrack
  <2>4. CASE ReadBalance(r)
    <3> DEFINE q == [run[r] EXCEPT !.left = balanceOf[run[r].user], !.alone = TRUE]
    <3>1. /\ RunTyped(q) /\ q.user = run[r].user /\ q.left = balanceOf[run[r].user] /\ q.k = 0
          /\ run[r].user \in Holder
      BY <2>1, <2>2, <2>4 DEF RunTyped, ReadBalance, At
    <3>2. run' = [run EXCEPT ![r] = Looks(q)]
      BY <2>4 DEF ReadBalance, GoOn
    <3> HIDE DEF q
    <3>3. q.left <= Rest(Reserves, q.k + 1)
      <4>1. q.left <= SumFunctionOnSet(balanceOf, Holder)
        BY <2>2, <3>1, SumPart, ReceiptAssumption
      <4>2. SumFunctionOnSet(balanceOf, Holder) = SumFunctionOnSet(Reserves, Kiosk)
        BY <1>0, SupplySums DEF SupplyIsReserve
      <4>3. Rest(Reserves, q.k + 1) = SumFunctionOnSet(Reserves, Kiosk)
        <5>1. q.k + 1 = 1
          BY <3>1
        <5> QED BY <2>2, <5>1, RestLaws
      <4> QED BY <4>1, <4>2, <4>3
    <3>4. OnTrack(Looks(q), balanceOf, Reserves)
      BY <2>2, <3>1, <3>3, LooksOnTrack
    <3> QED BY <2>3, <2>4, <3>2, <3>4 DEF ReadBalance
  <2>5. CASE ReadKiosk(r)
    <3> DEFINE a == Min2(run[r].left, kiosk[run[r].k].reserve)
               q == [run[r] EXCEPT !.pc = "redeem", !.amount = a]
    <3>1. run[r].pc = "kiosk" /\ run[r].k \in Kiosk /\ run[r].left \in Nat /\ run[r].alone \in BOOLEAN
      BY <2>1, <2>5 DEF RunTyped, ReadKiosk, At
    <3>2. run' = [run EXCEPT ![r] = IF a = 0 THEN Looks(run[r]) ELSE q]
      BY <2>5 DEF ReadKiosk, GoOn
    <3>3. /\ q.pc = "redeem" /\ q.amount = a /\ q.left = run[r].left /\ q.k = run[r].k
          /\ q.user = run[r].user /\ q.alone = run[r].alone
      BY <2>1 DEF RunTyped
    <3>4. a = Min2(run[r].left, Reserves[run[r].k])
      BY <2>2, <3>1
    <3> HIDE DEF a, q
    <3>5. OnTrack(q, balanceOf, Reserves)
      BY <2>1, <3>1, <3>3, <3>4 DEF OnTrack
    <3>6. ASSUME a = 0 PROVE OnTrack(Looks(run[r]), balanceOf, Reserves)
      <4>1. CASE ~run[r].alone
        <5>1. Looks(run[r]).alone = run[r].alone
          BY <2>1 DEF Looks, RunTyped
        <5> QED BY <4>1, <5>1 DEF OnTrack
      <4>2. CASE run[r].alone
        <5>1. run[r].left = balanceOf[run[r].user] /\ run[r].left <= Rest(Reserves, run[r].k)
          BY <2>1, <3>1, <4>2 DEF OnTrack
        <5>2. /\ Rest(Reserves, run[r].k) = Reserves[run[r].k] + Rest(Reserves, run[r].k + 1)
              /\ Rest(Reserves, run[r].k + 1) \in Nat
          BY <2>2, <3>1, RestLaws
        <5>3. run[r].left = 0 \/ Reserves[run[r].k] = 0
          BY <3>1, <3>4, <3>6 DEF Min2
        <5>4. run[r].left <= Rest(Reserves, run[r].k + 1)
          BY <2>2, <3>1, <5>1, <5>2, <5>3
        <5> QED BY <2>1, <2>2, <5>1, <5>4, LooksOnTrack
      <4> QED BY <3>1, <4>1, <4>2
    <3> QED BY <2>3, <2>5, <3>2, <3>5, <3>6 DEF ReadKiosk
  <2>6. CASE RedeemFails(r) \/ RecordBurned(r) \/ RunEnds(r)
    <3>1. CASE RedeemFails(r)
      <4> DEFINE q == [run[r] EXCEPT !.pc = "record", !.burned = 0, !.amount = 0, !.alone = FALSE]
      <4>1. q.alone = FALSE
        BY <2>1 DEF RunTyped
      <4>2. run' = [run EXCEPT ![r] = q]
        BY <3>1 DEF RedeemFails, GoOn
      <4> HIDE DEF q
      <4> QED BY <2>3, <3>1, <4>1, <4>2 DEF RedeemFails, OnTrack
    <3>2. CASE RecordBurned(r)
      <4> DEFINE q == [run[r] EXCEPT !.pc = "done", !.k = 0]
      <4>1. q.pc = "done" /\ q.alone = run[r].alone /\ q.user = run[r].user /\ run[r].pc = "record"
        BY <2>1, <3>2 DEF RunTyped, RecordBurned, At
      <4>2. run' = [run EXCEPT ![r] = q]
        BY <3>2 DEF RecordBurned, GoOn
      <4> HIDE DEF q
      <4>3. OnTrack(q, balanceOf, Reserves)
        BY <2>1, <4>1 DEF OnTrack
      <4> QED BY <2>3, <3>2, <4>2, <4>3 DEF RecordBurned
    <3>3. CASE RunEnds(r)
      <4> DEFINE q == OffRun(run[r].user)
      <4>1. q.pc = "idle"
        BY DEF OffRun
      <4>2. run' = [run EXCEPT ![r] = q]
        BY <3>3 DEF RunEnds, GoOn
      <4> HIDE DEF q
      <4> QED BY <2>3, <3>3, <4>1, <4>2 DEF RunEnds, OnTrack
    <3> QED BY <2>6, <3>1, <3>2, <3>3
  \* A step that burns: nobody else is undisturbed any longer
  <2>7. ASSUME NEW q, run' = [s \in Run |-> IF s = r THEN q ELSE [run[s] EXCEPT !.alone = FALSE]],
               OnTrack(q, balanceOf', Reserves')
        PROVE  AllOnTrack'
    <3>1. \A s \in Run : run'[s] = q \/ run'[s].alone = FALSE
      BY <1>0, <2>7 DEF RunsTyped, RunTyped
    <3> QED BY <2>7, <3>1 DEF AllOnTrack, OnTrack
  <2>8. CASE RedeemLosesReply(r)
    <3> DEFINE q == [run[r] EXCEPT !.pc = "record", !.burned = 0, !.amount = 0, !.alone = FALSE]
    <3>1. q.alone = FALSE
      BY <2>1 DEF RunTyped
    <3>2. run' = [s \in Run |-> IF s = r THEN q ELSE [run[s] EXCEPT !.alone = FALSE]]
      BY <2>8 DEF RedeemLosesReply
    <3> HIDE DEF q
    <3> QED BY <2>7, <3>1, <3>2 DEF OnTrack
  <2>9. CASE RedeemSucceeds(r)
    <3> DEFINE q == [run[r] EXCEPT !.left = @ - run[r].amount, !.burned = BurnedAfter(run[r]), !.amount = 0]
               k == run[r].k
               h == run[r].user
               a == run[r].amount
    <3>1. /\ run[r].pc = "redeem" /\ k \in Kiosk /\ h \in Holder /\ a \in Nat /\ run[r].left \in Nat
          /\ a <= run[r].left /\ run[r].alone \in BOOLEAN
      BY <2>1, <2>9 DEF RunTyped, RedeemSucceeds, At
    <3>2. RunTyped(q) /\ q.k = k /\ q.user = h /\ q.left = run[r].left - a /\ q.alone = run[r].alone
      <4>1. run[r].left - run[r].amount \in Nat /\ BurnedAfter(run[r]) \in Nat
        BY <2>1, <3>1 DEF RunTyped, BurnedAfter
      <4>2. /\ q \in [pc : Pc, user : Holder, k : Nat, left : Nat, amount : Nat, burned : Nat, alone : BOOLEAN]
            /\ q.pc = "redeem" /\ q.k = k /\ q.amount = 0 /\ q.left = run[r].left - a /\ q.user = h
            /\ q.alone = run[r].alone
        BY <2>1, <3>1, <4>1 DEF RunTyped
      <4>3. k \in 0..Kiosks
        BY <2>1 DEF RunTyped
      <4>4. 0 <= q.left
        BY <4>1, <4>2
      <4> HIDE DEF q, k, a, h
      <4> QED BY <3>1, <4>2, <4>3, <4>4 DEF RunTyped
    <3>3. run' = [s \in Run |-> IF s = r THEN Looks(q) ELSE [run[s] EXCEPT !.alone = FALSE]]
      BY <2>9 DEF RedeemSucceeds
    <3>4. Redeem(k, h, a)
      BY <2>9 DEF RedeemSucceeds
    <3> HIDE DEF q, k, h, a
    <3>5. /\ balanceOf'[h] = balanceOf[h] - a
          /\ \A j \in Kiosk : Reserves'[j] = IF j = k THEN Reserves[k] - a ELSE Reserves[j]
          /\ \A j \in Kiosk : Reserves'[j] \in Nat
      BY <1>0, <2>2, <3>1, <3>4 DEF Redeem, InReserve, MoneyTyped, Reserves
    <3>6. OnTrack(Looks(q), balanceOf', Reserves')
      <4>1. CASE ~q.alone
        <5>1. Looks(q).alone = q.alone
          BY <3>2 DEF Looks, RunTyped
        <5> QED BY <4>1, <5>1 DEF OnTrack
      <4>2. CASE q.alone
        <5>1. /\ run[r].left = balanceOf[h] /\ run[r].left <= Rest(Reserves, k)
              /\ a = Min2(run[r].left, Reserves[k])
          BY <2>1, <3>1, <3>2, <4>2 DEF OnTrack, k, h, a
        <5>2. Rest(Reserves, k) = Reserves[k] + Rest(Reserves, k + 1) /\ Rest(Reserves, k + 1) \in Nat
          BY <2>2, <3>1, RestLaws
        <5>3. Rest(Reserves', k + 1) = Rest(Reserves, k + 1)
          <6>1. (k + 1)..Boxes \subseteq Kiosk /\ \A j \in (k + 1)..Boxes : j # k
            BY <3>1, ReceiptAssumption DEF Kiosk
          <6>2. IsFiniteSet((k + 1)..Boxes) /\ \A j \in (k + 1)..Boxes : Reserves'[j] = Reserves[j]
            BY <3>5, <6>1, KioskFinite, FS_Subset
          <6> QED BY ONLY <6>2, SumCongruence DEF Rest
        <5>4. q.left <= Rest(Reserves', q.k + 1)
          BY <2>2, <3>1, <3>2, <5>1, <5>2, <5>3 DEF Min2
        <5>5. q.left = balanceOf'[q.user]
          BY <3>2, <3>5, <5>1
        <5> QED BY <3>2, <3>5, <5>4, <5>5, LooksOnTrack
      <4>3. q.alone \in BOOLEAN
        BY <3>1, <3>2
      <4> QED BY <4>1, <4>2, <4>3
    <3> QED BY <2>7, <3>3, <3>6
  <2> QED BY <1>13, <2>4, <2>5, <2>6, <2>8, <2>9 DEF RedeemAll
<1>14. CASE UNCHANGED receiptVars
  BY <1>1, <1>3, <1>14 DEF receiptVars, tokenVars
<1> QED
  BY <1>4, <1>5, <1>6, <1>7, <1>8, <1>9, <1>10, <1>11, <1>12, <1>13, <1>14 DEF ReceiptNext

-----------------------------------------------------------------------------
\* The theorems

\* Over every interleaving of notes, transfers, attestations and redeemAll runs
\* the ledger, the claims of the withdrawals, the daily rules and the progress
\* of undisturbed runs stay as ReceiptInv says.
THEOREM ReceiptInvariant == ReceiptSpec => []ReceiptInv
<1>1. ReceiptInit => ReceiptInv
  BY LedgerInit, ClaimsInit, DayInit, TrackInit DEF ReceiptInv
<1>2. ReceiptInv /\ [ReceiptNext]_receiptVars => ReceiptInv'
  <2> SUFFICES ASSUME ReceiptInv, [ReceiptNext]_receiptVars PROVE ReceiptInv'
    OBVIOUS
  <2>1. LedgerInv'
    BY LedgerStep DEF ReceiptInv
  <2>2. ClaimsCovered'
    BY <2>1, ClaimsStep DEF ReceiptInv
  <2>3. DayRules'
    BY DayStep DEF ReceiptInv
  <2>4. AllOnTrack'
    BY TrackStep DEF ReceiptInv
  <2> QED BY <2>1, <2>2, <2>3, <2>4 DEF ReceiptInv
<1> QED
  BY <1>1, <1>2, PTL DEF ReceiptSpec

\* The state of the contract and of the runs has its type.
THEOREM ReceiptTypes == ReceiptSpec => []ReceiptTypeOK
<1>1. ReceiptInv => ReceiptTypeOK
  BY LedgerTypes DEF ReceiptInv
<1> QED
  BY <1>1, ReceiptInvariant, PTL

\* The supply is what the holders have and what the kiosks keep, always.
THEOREM Backed == ReceiptSpec => []SupplyIsReserve
<1>1. ReceiptInv => SupplyIsReserve
  BY DEF ReceiptInv, LedgerInv
<1> QED
  BY <1>1, ReceiptInvariant, PTL

\* No withdrawal puts on record more burned tokens than redeemAll burned.
THEOREM NeverOverclaimed == ReceiptSpec => []RecordedWasBurned
<1>1. ReceiptInv => RecordedWasBurned
  <2> SUFFICES ASSUME ReceiptInv, NEW h \in Holder PROVE unrecorded[h] >= 0
    BY DEF RecordedWasBurned
  <2>1. SumFunctionOnSet(Claim(h), Run) \in Nat /\ SumFunctionOnSet(Claim(h), Run) <= unrecorded[h]
    BY ClaimNat DEF ReceiptInv, LedgerInv, ClaimsCovered
  <2>2. unrecorded[h] \in Int
    BY DEF ReceiptInv, LedgerInv, CountsTyped
  <2> QED BY <2>1, <2>2
<1> QED
  BY <1>1, ReceiptInvariant, PTL

\* What a holder sends in a day under a limit is within the highest of the day.
THEOREM LimitOfTheDay == ReceiptSpec => []WithinDailyLimit
<1>1. ReceiptInv => WithinDailyLimit
  BY DEF ReceiptInv, DayRules, WithinDailyLimit
<1> QED
  BY <1>1, ReceiptInvariant, PTL

\* A redeemAll that nobody disturbed leaves its customer no token but those of
\* cash in kiosks that the backend does not know.
THEOREM AllRedeemed == ReceiptSpec => []RedeemedInFull
<1>1. ReceiptInv => RedeemedInFull
  BY DEF ReceiptInv, AllOnTrack, OnTrack, RedeemedInFull, Rest, Unknown
<1> QED
  BY <1>1, ReceiptInvariant, PTL

-----------------------------------------------------------------------------
\* The terminal

\* The variables RightCustomer hangs on, and the rest.
ScreenTyped ==
  /\ live \subseteq Visit
  /\ login \in [Visit -> Login]
  /\ out \in [Slot -> LogoutRequest]
  /\ screen \in Visit \cup {NoVisit} /\ waiting \in Visit \cup {NoVisit} /\ cookie \in Visit \cup {NoVisit}
  /\ orphan \subseteq Visit
BoxTyped ==
  /\ box \in Visit \cup {NoVisit} /\ landing \subseteq Slot
NoteTyped ==
  /\ where \in [Note -> Where]
  /\ tok \in [Note -> Visit \cup {NoVisit}]
  /\ row \in [Note -> Visit \cup {NoVisit}]
  /\ owner \in [Note -> SUBSET Visit]
  /\ swapped \in [Note -> BOOLEAN]
FaultTyped == faults \in 0..MaxFaults
SignTyped ==
  /\ fresh \in BOOLEAN /\ polled \in BOOLEAN
  /\ feed \in [Note -> {"none", "pending", "failed"}]

\* The screen serves one visit at a time: it shows one that is logged in, or
\* waits for one that is on its way, and every other login on its way is one the
\* page let go of. A logout takes the visit's own cookie, or the visit is such a
\* one; a page load's own logout is waited for by nobody.
OneAtATime ==
  /\ waiting # NoVisit => screen = NoVisit /\ login[waiting] \in {"created", "bridged"}
  /\ screen # NoVisit => login[screen] = "done"
  /\ \A v \in Visit : login[v] \in {"created", "bridged"} => v = waiting \/ v \in orphan
  /\ \A v \in Visit : out[v] # NoRequest =>
       /\ login[v] = "done" /\ out[v].backend # "none" /\ (out[v].awaited => screen = v)
       /\ out[v].token = v \/ v \in orphan
  /\ ~out[NoVisit].awaited
  /\ \A v \in Visit : login[v] = "none" => v \notin live /\ box # v /\ v \notin landing

\* The logout of a visit is behind one of the two, or behind both.
Gone(v) == login[v] = "done" /\ screen # v /\ out[v] = NoRequest
PastBackend(v) == Gone(v) \/ out[v].backend = "over"
PastBridge(v) == Gone(v) \/ out[v].bridge = "over"

\* A session that outlives a logout of its own has cost a failure at each place:
\* at the backend, and at the bridge or on the way to it.
MayStart(v) == v \in landing
PaidFor(v) ==
  /\ MayStart(v) => faults > 0
  /\ PastBackend(v) /\ v \in live => faults > 0
  /\ PastBridge(v) /\ box = v => faults > 0
  /\ PastBackend(v) /\ v \in live /\ MayStart(v) => faults > 1
  /\ PastBackend(v) /\ PastBridge(v) /\ v \in live /\ box = v => faults > 1
LeftOpenIsPaid == \A v \in Visit \ orphan : PaidFor(v)

\* Who a note in the slot would be credited to, and who a note taken up is.
Rightful(n, v) ==
  \/ v \in owner[n] \/ swapped[n] \/ v \in orphan \/ faults > 1
  \/ login[v] = "done" /\ v \notin live
NotesRightful ==
  \A n \in Note :
    /\ where[n] = "stacked" /\ box # NoVisit => Rightful(n, box)
    /\ where[n] = "taken" /\ tok[n] # NoVisit => Rightful(n, tok[n])

\* A note still in front of the slot's end is on nobody's record.
RowIsLate == \A n \in Note : where[n] \in {"out", "held"} => row[n] = NoVisit

KioskInv ==
  /\ ScreenTyped /\ BoxTyped /\ NoteTyped /\ FaultTyped /\ SignTyped
  /\ OneAtATime /\ LeftOpenIsPaid /\ RowIsLate /\ NotesRightful /\ RightCustomer

\* A request that changes in one field stays a request.
LEMMA RequestKept ==
  ASSUME NEW q \in LogoutRequest, NEW l \in Leg
  PROVE  /\ [q EXCEPT !.backend = l] \in LogoutRequest /\ [q EXCEPT !.bridge = l] \in LogoutRequest
         /\ [q EXCEPT !.awaited = FALSE] \in LogoutRequest /\ ~[q EXCEPT !.awaited = FALSE].awaited
         /\ [q EXCEPT !.awaited = FALSE].backend = q.backend /\ [q EXCEPT !.awaited = FALSE].bridge = q.bridge
         /\ [q EXCEPT !.awaited = FALSE].token = q.token
BY DEF LogoutRequest

\* A page load leaves what every request is about, and nobody waits for one.
LEMMA PageLoads ==
  ASSUME KioskAssumption, ScreenTyped, PageLoad
  PROVE  /\ NobodyWaits \in [Slot -> LogoutRequest] /\ ~out'[NoVisit].awaited
         /\ \A w \in Visit : /\ out'[w] = [out[w] EXCEPT !.awaited = FALSE]
                            /\ ~out'[w].awaited /\ out'[w].backend = out[w].backend
                            /\ out'[w].bridge = out[w].bridge /\ out'[w].token = out[w].token
<1>1. \A u \in Slot : NobodyWaits[u] = [out[u] EXCEPT !.awaited = FALSE]
  BY DEF NobodyWaits
<1>2. \A u \in Slot : out[u] \in LogoutRequest
  BY DEF ScreenTyped
<1>3. \A u \in Slot : NobodyWaits[u] \in LogoutRequest /\ ~NobodyWaits[u].awaited
  BY <1>1, <1>2, RequestKept DEF Leg
<1>4. NobodyWaits \in [Slot -> LogoutRequest]
  BY <1>3 DEF NobodyWaits
<1>5. \A w \in Visit : out'[w] = NobodyWaits[w]
  BY <1>4 DEF PageLoad, Slot, KioskAssumption
<1>6. out'[NoVisit] \in {NobodyWaits[NoVisit], NewRequest(FALSE)}
  BY <1>4 DEF PageLoad, Slot
<1>7. ~out'[NoVisit].awaited
  BY <1>3, <1>6 DEF NewRequest, Slot
<1>8. ASSUME NEW w \in Visit
      PROVE  /\ out'[w] = [out[w] EXCEPT !.awaited = FALSE]
             /\ ~out'[w].awaited /\ out'[w].backend = out[w].backend
             /\ out'[w].bridge = out[w].bridge /\ out'[w].token = out[w].token
  <2>1. out[w] \in LogoutRequest /\ out'[w] = [out[w] EXCEPT !.awaited = FALSE] /\ "over" \in Leg
    BY <1>1, <1>2, <1>5 DEF Slot, Leg
  <2> QED
    BY <2>1, RequestKept
<1> QED
  BY <1>4, <1>7, <1>8

\* The screen, the requests and the sessions are typed.
LEMMA ScreenStep ==
  ASSUME KioskAssumption, ScreenTyped, BoxTyped, KioskNext
  PROVE  ScreenTyped'
<1> USE DEF ScreenTyped, Login
<1>a. NoRequest \in LogoutRequest /\ \A a \in BOOLEAN : NewRequest(a) \in LogoutRequest
  BY DEF NoRequest, NewRequest, LogoutRequest, Leg
<1>1. ASSUME NEW v \in Visit, StartLogin(v) PROVE ScreenTyped'
  BY <1>1 DEF StartLogin
<1>2. ASSUME NEW v \in Visit, TellBridge(v) PROVE ScreenTyped'
  BY <1>2 DEF TellBridge
<1>3. ASSUME NEW v \in Visit, ShowAccount(v) \/ LoginFails(v) \/ LoginUnseen(v) PROVE ScreenTyped'
  BY <1>3 DEF ShowAccount, LoginFails, LoginUnseen
<1>4. ASSUME NEW v \in Visit, AskLogout(v) PROVE ScreenTyped'
  <2>1. out' \in [Slot -> LogoutRequest] /\ screen' \in {screen, NoVisit} /\ orphan' \in {orphan, orphan \cup {v}}
    BY <1>a, <1>4 DEF AskLogout
  <2> QED
    BY <1>4, <2>1 DEF AskLogout
<1>5. ASSUME NEW v \in Slot, LogoutAtBackend(v) PROVE ScreenTyped'
  <2>1. [out[v] EXCEPT !.backend = "over"] \in LogoutRequest
    BY RequestKept DEF Leg
  <2> QED
    BY <1>5, <2>1 DEF LogoutAtBackend, Ended
<1>6. ASSUME NEW v \in Slot, LogoutAtBridge(v) PROVE ScreenTyped'
  <2>1. [out[v] EXCEPT !.bridge = "over"] \in LogoutRequest
    BY RequestKept DEF Leg
  <2> QED
    BY <1>6, <2>1 DEF LogoutAtBridge
<1>7. ASSUME NEW v \in Slot, LoggedOut(v) PROVE ScreenTyped'
  BY <1>a, <1>7 DEF LoggedOut
<1>8. ASSUME NEW v \in Visit, SessionExpires(v) PROVE ScreenTyped'
  BY <1>8 DEF SessionExpires, screenVars
<1>9. ASSUME UNCHANGED <<live, screenVars>> PROVE ScreenTyped'
  BY <1>9 DEF screenVars
<1>10. ASSUME NEW n \in Note, InsertNote(n) \/ Stack(n) \/ Report(n) \/ AnswerLost(n) PROVE ScreenTyped'
  BY <1>9, <1>10 DEF InsertNote, Stack, Report, TakeUp, SigningFails, PostNote, Answer, AnswerLost
<1>11. ASSUME Poll \/ Land \/ BoxExpires \/ Restart PROVE ScreenTyped'
  BY <1>9, <1>11 DEF Poll, Land, BoxExpires, Restart
<1>12. ASSUME PageLoad PROVE ScreenTyped'
  <2>1. NobodyWaits \in [Slot -> LogoutRequest]
    BY <1>12, PageLoads
  <2>2. out' \in [Slot -> LogoutRequest]
    BY <1>a, <1>12, <2>1 DEF PageLoad
  <2> QED
    BY <1>12, <2>2 DEF PageLoad
<1> QED
  BY <1>1, <1>2, <1>3, <1>4, <1>5, <1>6, <1>7, <1>8, <1>10, <1>11, <1>12 DEF KioskNext, Screen, Logout

\* So are the bridge's session and the calls that may still land.
LEMMA BoxStep ==
  ASSUME BoxTyped, KioskNext
  PROVE  BoxTyped'
<1> USE DEF BoxTyped
<1>1. ASSUME NEW v \in Visit, TellBridge(v) PROVE BoxTyped'
  BY <1>1 DEF TellBridge, StartBox, SetBox, KeepBox, Slot
<1>2. ASSUME NEW v \in Slot, LogoutAtBridge(v) PROVE BoxTyped'
  BY <1>2 DEF LogoutAtBridge, EndBox, SetBox, KeepBox, Slot
<1>3. ASSUME Land PROVE BoxTyped'
  <2> PICK c \in landing : /\ landing' = landing \ {c}
                           /\ IF c = NoVisit THEN EndBox ELSE StartBox(c)
    BY <1>3 DEF Land
  <2>1. c \in Visit \cup {NoVisit}
    BY DEF Slot
  <2> QED
    BY <2>1 DEF StartBox, EndBox, SetBox
<1>4. ASSUME Restart PROVE BoxTyped'
  BY <1>4 DEF Restart, EndBox, SetBox
<1>5. ASSUME UNCHANGED <<box, landing>> PROVE BoxTyped'
  BY <1>5
<1>6. ASSUME NEW v \in Visit,
             StartLogin(v) \/ ShowAccount(v) \/ LoginFails(v) \/ LoginUnseen(v) \/ AskLogout(v) \/ SessionExpires(v)
      PROVE  BoxTyped'
  BY <1>5, <1>6 DEF StartLogin, ShowAccount, LoginFails, LoginUnseen, AskLogout, SessionExpires, boxVars
<1>7. ASSUME NEW n \in Note, InsertNote(n) \/ Stack(n) \/ Report(n) \/ AnswerLost(n) PROVE BoxTyped'
  BY <1>5, <1>7 DEF InsertNote, Stack, Report, TakeUp, SigningFails, PostNote, Answer, AnswerLost, boxVars
<1>8. ASSUME Poll \/ BoxExpires \/ PageLoad PROVE BoxTyped'
  BY <1>5, <1>8 DEF Poll, BoxExpires, PageLoad, boxVars
<1>9. ASSUME NEW v \in Slot, LogoutAtBackend(v) \/ LoggedOut(v) PROVE BoxTyped'
  BY <1>5, <1>9 DEF LogoutAtBackend, LoggedOut, boxVars
<1> QED
  BY <1>1, <1>2, <1>3, <1>4, <1>6, <1>7, <1>8, <1>9 DEF KioskNext, Screen, Logout

\* Failures are counted, and never uncounted.
LEMMA FaultStep ==
  ASSUME BoundAssumption, FaultTyped, KioskNext
  PROVE  FaultTyped' /\ faults \in Nat /\ faults' \in Nat /\ faults <= faults'
<1> USE DEF FaultTyped, BoundAssumption
<1>1. ASSUME UNCHANGED faults \/ Fault PROVE FaultTyped' /\ faults \in Nat /\ faults' \in Nat /\ faults <= faults'
  BY <1>1 DEF Fault
<1>2. ASSUME NEW v \in Visit, Screen(v) PROVE UNCHANGED faults \/ Fault
  BY <1>2 DEF Screen, StartLogin, TellBridge, ShowAccount, LoginFails, LoginUnseen, AskLogout, SessionExpires
<1>3. ASSUME NEW n \in Note, InsertNote(n) \/ Stack(n) \/ Report(n) \/ AnswerLost(n) PROVE UNCHANGED faults \/ Fault
  BY <1>3 DEF InsertNote, Stack, Report, TakeUp, SigningFails, PostNote, Answer, AnswerLost
<1>4. ASSUME Poll \/ Land \/ BoxExpires \/ Restart \/ PageLoad PROVE UNCHANGED faults \/ Fault
  BY <1>4 DEF Poll, Land, BoxExpires, Restart, PageLoad
<1>5. ASSUME NEW v \in Slot, Logout(v) PROVE UNCHANGED faults \/ Fault
  BY <1>5 DEF Logout, LogoutAtBackend, LogoutAtBridge, LoggedOut
<1> QED
  BY <1>1, <1>2, <1>3, <1>4, <1>5 DEF KioskNext

\* What excuses a note's credit, or ends a session, is never taken back.
Lasts ==
  /\ orphan \subseteq orphan' /\ faults <= faults' /\ (\A n \in Note : swapped[n] => swapped'[n])
  /\ \A v \in Visit : login[v] = "done" /\ v \notin live => login'[v] = "done" /\ v \notin live'

\* No step takes back an excuse, or reopens a session.
LEMMA EverLasts ==
  ASSUME BoundAssumption, ScreenTyped, FaultTyped, KioskNext
  PROVE  Lasts
<1>a. faults <= faults'
  BY FaultStep
<1>1. ASSUME NEW v \in Visit, Screen(v)
      PROVE  /\ orphan \subseteq orphan'
             /\ \A w \in Visit : login[w] = "done" /\ w \notin live => login'[w] = "done" /\ w \notin live'
  <2> USE DEF ScreenTyped
  <2>1. CASE StartLogin(v)
    BY <2>1 DEF StartLogin
  <2>2. CASE TellBridge(v)
    BY <2>2 DEF TellBridge
  <2>3. CASE ShowAccount(v) \/ LoginFails(v) \/ LoginUnseen(v)
    BY <2>3 DEF ShowAccount, LoginFails, LoginUnseen
  <2>4. CASE AskLogout(v)
    BY <2>4 DEF AskLogout
  <2>7. CASE SessionExpires(v)
    BY <2>7 DEF SessionExpires, screenVars
  <2> QED
    BY <1>1, <2>1, <2>2, <2>3, <2>4, <2>7 DEF Screen
<1>2. ASSUME NEW v \in Visit, Screen(v) PROVE \A n \in Note : swapped[n] => swapped'[n]
  BY <1>2 DEF Screen, StartLogin, TellBridge, ShowAccount, LoginFails, LoginUnseen, AskLogout,
              SessionExpires, noteVars, StartBox, EndBox, KeepBox, SetBox
<1>3. ASSUME NEW n \in Note, InsertNote(n) \/ Stack(n) \/ Report(n) \/ AnswerLost(n)
      PROVE  UNCHANGED <<live, login, orphan, swapped>>
  BY <1>3 DEF InsertNote, Stack, Report, TakeUp, SigningFails, PostNote, Answer, AnswerLost, screenVars
<1>4. ASSUME Poll \/ Land \/ BoxExpires \/ Restart
      PROVE  UNCHANGED <<live, login, orphan>> /\ \A n \in Note : swapped[n] => swapped'[n]
  BY <1>4 DEF Poll, Land, BoxExpires, Restart, screenVars, noteVars, StartBox, EndBox, SetBox
<1>5. ASSUME PageLoad PROVE orphan \subseteq orphan' /\ UNCHANGED <<live, login, swapped>>
  BY <1>5 DEF PageLoad, noteVars
<1>6. ASSUME NEW v \in Slot, Logout(v)
      PROVE  UNCHANGED <<login, orphan>> /\ live' \subseteq live /\ \A n \in Note : swapped[n] => swapped'[n]
  BY <1>6 DEF Logout, LogoutAtBackend, Ended, LogoutAtBridge, LoggedOut, noteVars, EndBox, KeepBox, SetBox
<1> QED
  BY <1>a, <1>1, <1>2, <1>3, <1>4, <1>5, <1>6 DEF KioskNext, Lasts

\* The screen serves one visit at a time.
LEMMA OneAtATimeStep ==
  ASSUME KioskAssumption, BoundAssumption, ScreenTyped, BoxTyped, FaultTyped, OneAtATime, KioskNext
  PROVE  OneAtATime'
<1> USE DEF OneAtATime, KioskAssumption, Slot
<1>a. NoRequest = NoRequest' /\ NoRequest.awaited = FALSE /\ NoRequest.backend = "none"
  BY DEF NoRequest
<1>b. orphan \subseteq orphan'
  BY EverLasts DEF Lasts
<1>1. ASSUME NEW v \in Visit, StartLogin(v) PROVE OneAtATime'
  <2>1. /\ screen = NoVisit /\ waiting = NoVisit /\ login[v] = "none"
        /\ login' = [login EXCEPT ![v] = "created"] /\ waiting' = v /\ live' = live \cup {v}
        /\ UNCHANGED <<out, screen, orphan, box, landing>>
    BY <1>1 DEF StartLogin, boxVars
  <2>2. login'[v] = "created" /\ \A w \in Visit \ {v} : login'[w] = login[w]
    BY <2>1 DEF ScreenTyped
  <2> QED
    BY <1>a, <2>1, <2>2 DEF ScreenTyped
<1>2. ASSUME NEW v \in Visit, TellBridge(v) PROVE OneAtATime'
  <2>1. /\ login[v] = "created" /\ login' = [login EXCEPT ![v] = "bridged"]
        /\ UNCHANGED <<live, out, screen, waiting, orphan>>
        /\ box' \in {box, v} /\ landing' \in {landing, landing \cup {v}}
    BY <1>2 DEF TellBridge, StartBox, SetBox, KeepBox
  <2>2. login'[v] = "bridged" /\ \A w \in Visit \ {v} : login'[w] = login[w]
    BY <2>1 DEF ScreenTyped
  <2>3. \A w \in Visit : w \in landing' => w = v \/ w \in landing
    BY <2>1
  <2> QED
    BY <1>a, <2>1, <2>2, <2>3 DEF ScreenTyped
<1>3. ASSUME NEW v \in Visit, ShowAccount(v) PROVE OneAtATime'
  <2>1. /\ login[v] = "bridged" /\ waiting = v /\ screen = NoVisit
        /\ login' = [login EXCEPT ![v] = "done"] /\ screen' = v /\ waiting' = NoVisit
        /\ UNCHANGED <<live, out, orphan, box, landing>>
    BY <1>3 DEF ShowAccount, boxVars
  <2>2. login'[v] = "done" /\ \A w \in Visit \ {v} : login'[w] = login[w]
    BY <2>1 DEF ScreenTyped
  <2>3. \A w \in Visit : out[w] # NoRequest => ~out[w].awaited
    BY <2>1
  <2> QED
    BY <1>a, <2>1, <2>2, <2>3 DEF ScreenTyped
<1>4. ASSUME NEW v \in Visit, AskLogout(v) PROVE OneAtATime'
  <2>1. screen = v /\ waiting = NoVisit /\ UNCHANGED <<live, login, waiting, box, landing>>
    BY <1>4 DEF AskLogout, boxVars
  <2>2. \A w \in Visit \ {v} : out[w] # NoRequest => ~out[w].awaited
    BY <2>1
  <2>3. CASE out' = out /\ screen' = NoVisit
    <3>1. ~out[v].awaited
      BY <1>a, <1>4 DEF AskLogout
    <3> QED
      BY <1>a, <1>b, <2>1, <2>2, <2>3, <3>1
  <2>4. ASSUME NEW a \in BOOLEAN, out' = [out EXCEPT ![v] = NewRequest(a)],
               screen' = (IF a THEN screen ELSE NoVisit),
               orphan' = (IF cookie = v THEN orphan ELSE orphan \cup {v})
        PROVE  OneAtATime'
    <3>1. /\ out'[v].token = cookie /\ out'[v].awaited = a /\ out'[v].backend = "todo"
          /\ \A w \in Slot \ {v} : out'[w] = out[w]
      BY <2>4 DEF ScreenTyped, NewRequest
    <3>2. \A w \in Visit : out'[w] # NoRequest' =>
           /\ login'[w] = "done" /\ out'[w].backend # "none" /\ (out'[w].awaited => screen' = w)
           /\ out'[w].token = w \/ w \in orphan'
      BY <1>a, <2>1, <2>2, <2>4, <3>1
    <3>3. ~out'[NoVisit].awaited
      BY <3>1
    <3> QED
      BY <1>b, <2>1, <2>4, <3>2, <3>3
  <2> QED
    BY <1>4, <2>3, <2>4 DEF AskLogout
<1>5. ASSUME NEW v \in Slot, LogoutAtBackend(v) PROVE OneAtATime'
  <2>1. /\ out[v].backend = "todo" /\ out' = [out EXCEPT ![v].backend = "over"] /\ live' \subseteq live
        /\ UNCHANGED <<login, screen, waiting, orphan, box, landing>>
    BY <1>5 DEF LogoutAtBackend, Ended, boxVars
  <2>2. /\ out'[v].token = out[v].token /\ out'[v].awaited = out[v].awaited /\ out'[v].backend = "over"
        /\ out[v] # NoRequest
        /\ \A w \in Slot \ {v} : out'[w] = out[w]
    BY <2>1 DEF ScreenTyped, LogoutRequest, NoRequest
  <2> QED
    BY <1>a, <2>1, <2>2
<1>6. ASSUME NEW v \in Slot, LogoutAtBridge(v) PROVE OneAtATime'
  <2>1. /\ out[v].bridge = "todo" /\ out' = [out EXCEPT ![v].bridge = "over"]
        /\ UNCHANGED <<live, login, screen, waiting, orphan>>
        /\ box' \in {box, NoVisit} /\ landing' \in {landing, landing \cup {NoVisit}}
    BY <1>6 DEF LogoutAtBridge, EndBox, SetBox, KeepBox
  <2>2. /\ out'[v].token = out[v].token /\ out'[v].awaited = out[v].awaited /\ out'[v].backend = out[v].backend
        /\ out[v] # NoRequest
        /\ \A w \in Slot \ {v} : out'[w] = out[w]
    BY <2>1 DEF ScreenTyped, LogoutRequest, NoRequest
  <2>3. \A w \in Visit : w \in landing' => w \in landing
    BY <2>1
  <2> QED
    BY <1>a, <2>1, <2>2, <2>3
<1>7. ASSUME NEW v \in Slot, LoggedOut(v) PROVE OneAtATime'
  <2>1. /\ out[v].backend = "over" /\ out' = [out EXCEPT ![v] = NoRequest]
        /\ screen' = (IF out[v].awaited THEN NoVisit ELSE screen)
        /\ UNCHANGED <<live, login, waiting, orphan, box, landing>>
    BY <1>7 DEF LoggedOut, boxVars
  <2>2. /\ out'[v] = NoRequest /\ out[v] # NoRequest /\ \A w \in Slot \ {v} : out'[w] = out[w]
    BY <2>1 DEF ScreenTyped, NoRequest
  <2>3. \A w \in Visit : out'[w] # NoRequest => w # v /\ out'[w] = out[w] /\ (out[w].awaited => screen = w)
    BY <2>2
  <2>4. \A w \in Visit : out'[w] # NoRequest /\ out'[w].awaited => screen' = w
    BY <2>1, <2>2, <2>3
  <2>5. ~out'[NoVisit].awaited
    BY <1>a, <2>2
  <2> QED
    BY <1>a, <2>1, <2>2, <2>3, <2>4, <2>5
<1>8. ASSUME NEW v \in Visit, SessionExpires(v) PROVE OneAtATime'
  BY <1>8, <1>a DEF SessionExpires, screenVars, boxVars
<1>9. ASSUME UNCHANGED <<live, screenVars>>, box' \in {box, NoVisit}, landing' \subseteq landing PROVE OneAtATime'
  BY <1>9, <1>a DEF screenVars
<1>10. ASSUME NEW n \in Note, InsertNote(n) \/ Stack(n) \/ Report(n) \/ AnswerLost(n) PROVE OneAtATime'
  BY <1>9, <1>10 DEF InsertNote, Stack, Report, TakeUp, SigningFails, PostNote, Answer, AnswerLost, boxVars
<1>11. ASSUME Poll \/ BoxExpires \/ Restart PROVE OneAtATime'
  BY <1>9, <1>11 DEF Poll, BoxExpires, Restart, EndBox, SetBox
<1>12. ASSUME Land PROVE OneAtATime'
  <2> PICK c \in landing : /\ landing' = landing \ {c}
                           /\ IF c = NoVisit THEN EndBox ELSE StartBox(c)
    BY <1>12 DEF Land
  <2>0. UNCHANGED <<live, screenVars>>
    BY <1>12 DEF Land
  <2>1. c = NoVisit \/ c \in Visit
    BY DEF BoxTyped
  <2>2. CASE c # NoVisit
    <3>1. box' = c
      BY <2>1, <2>2 DEF StartBox, SetBox
    <3>2. login[box'] # "none"
      BY <2>1, <2>2, <3>1
    <3> QED
      BY <1>a, <2>0, <3>1, <3>2 DEF screenVars
  <2>3. CASE c = NoVisit
    BY <1>9, <2>0, <2>3 DEF EndBox, SetBox
  <2> QED
    BY <2>2, <2>3
<1>13. ASSUME NEW v \in Visit, LoginFails(v) PROVE OneAtATime'
  <2>1. /\ waiting = v /\ waiting' = NoVisit /\ orphan' = orphan \cup {v}
        /\ UNCHANGED <<live, login, out, screen, box, landing>>
    BY <1>13 DEF LoginFails, boxVars
  <2> QED
    BY <1>a, <2>1
<1>14. ASSUME NEW v \in Visit, LoginUnseen(v) PROVE OneAtATime'
  <2>1. /\ login[v] = "bridged" /\ waiting # v /\ login' = [login EXCEPT ![v] = "done"]
        /\ UNCHANGED <<live, out, screen, waiting, orphan, box, landing>>
    BY <1>14 DEF LoginUnseen, boxVars
  <2>2. login'[v] = "done" /\ \A w \in Visit \ {v} : login'[w] = login[w]
    BY <2>1 DEF ScreenTyped
  <2> QED
    BY <1>a, <2>1, <2>2 DEF ScreenTyped
<1>15. ASSUME PageLoad PROVE OneAtATime'
  <2>1. /\ screen' = NoVisit /\ waiting' = NoVisit /\ orphan' = orphan \cup ({waiting} \ {NoVisit})
        /\ UNCHANGED <<live, login, box, landing>>
    BY <1>15 DEF PageLoad, boxVars
  <2>2. /\ ~out'[NoVisit].awaited
        /\ \A w \in Visit : /\ out'[w] = [out[w] EXCEPT !.awaited = FALSE] /\ ~out'[w].awaited
                           /\ out'[w].backend = out[w].backend /\ out'[w].token = out[w].token
    BY <1>15, PageLoads
  <2>4. \A w \in Visit : out'[w] # NoRequest => out[w] # NoRequest
    BY <2>2 DEF NoRequest
  <2> QED
    BY <1>a, <2>1, <2>2, <2>4
<1> QED
  BY <1>1, <1>2, <1>3, <1>4, <1>5, <1>6, <1>7, <1>8, <1>10, <1>11, <1>12, <1>13, <1>14, <1>15 DEF KioskNext, Screen, Logout

\* A visit of which nothing new is open, and nothing more is over, owes nothing new.
LEMMA PaidForStays ==
  ASSUME NEW v \in Visit, PaidFor(v), faults \in Nat, faults' \in Nat, faults <= faults',
         v \in live' => v \in live, MayStart(v)' => MayStart(v), box' = v => box = v,
         PastBackend(v)' => PastBackend(v), PastBridge(v)' => PastBridge(v)
  PROVE  PaidFor(v)'
  BY DEF PaidFor

\* A session left open by a logout of its own has been paid for, at each place by a failure of its own.
LEMMA PaidStep ==
  ASSUME KioskAssumption, BoundAssumption, ScreenTyped, BoxTyped, FaultTyped, OneAtATime, LeftOpenIsPaid, KioskNext
  PROVE  LeftOpenIsPaid'
<1> SUFFICES ASSUME NEW w \in Visit, w \notin orphan' PROVE PaidFor(w)'
  BY DEF LeftOpenIsPaid
<1>a. PaidFor(w) /\ w \notin orphan
  BY EverLasts DEF LeftOpenIsPaid, Lasts
<1>b. faults \in Nat /\ faults' \in Nat /\ faults <= faults'
  BY FaultStep
<1>c. NoRequest' = NoRequest /\ NoRequest.backend = "none" /\ NoRequest.bridge = "none" /\ w # NoVisit
  BY DEF NoRequest, KioskAssumption
<1> USE DEF PastBackend, PastBridge, Gone, MayStart, Slot
<1>1. ASSUME NEW v \in Visit, StartLogin(v) PROVE PaidFor(w)'
  <2>1. /\ screen = NoVisit /\ login[v] = "none"
        /\ login' = [login EXCEPT ![v] = "created"] /\ live' = live \cup {v}
        /\ UNCHANGED <<out, screen, orphan, box, landing, faults>>
    BY <1>1 DEF StartLogin, boxVars
  <2>2. CASE w = v
    <3>1. login'[w] = "created" /\ out'[w] = NoRequest
      BY <2>1, <2>2 DEF ScreenTyped, OneAtATime
    <3>2. ~PastBackend(w)' /\ ~PastBridge(w)'
      BY <1>c, <3>1
    <3>3. MayStart(w)' => faults' > 0
      BY <1>a, <2>1 DEF PaidFor
    <3> QED
      BY <3>2, <3>3 DEF PaidFor
  <2>3. CASE w # v
    <3>1. login'[w] = login[w] /\ (w \in live' => w \in live)
      BY <2>1, <2>3 DEF ScreenTyped
    <3> QED
      BY <1>a, <1>b, <1>c, <2>1, <3>1, PaidForStays
  <2> QED
    BY <2>2, <2>3
<1>2. ASSUME NEW v \in Visit, TellBridge(v) PROVE PaidFor(w)'
  <2>1. /\ login[v] = "created" /\ login' = [login EXCEPT ![v] = "bridged"]
        /\ UNCHANGED <<live, out, screen, orphan>>
        /\ box' \in {box, v}
        /\ \/ landing' = landing
           \/ landing' = landing \cup {v} /\ faults' = faults + 1
    BY <1>2 DEF TellBridge, StartBox, SetBox, KeepBox, Fault
  <2>2. CASE w = v
    <3>1. login'[w] = "bridged" /\ out'[w] = NoRequest
      BY <2>1, <2>2 DEF ScreenTyped, OneAtATime
    <3>2. ~PastBackend(w)' /\ ~PastBridge(w)'
      BY <1>c, <3>1
    <3>3. MayStart(w)' => faults' > 0
      BY <1>a, <1>b, <2>1 DEF PaidFor
    <3> QED
      BY <3>2, <3>3 DEF PaidFor
  <2>3. CASE w # v
    <3>1. login'[w] = login[w] /\ (box' = w => box = w) /\ (MayStart(w)' => MayStart(w))
      BY <2>1, <2>3 DEF ScreenTyped
    <3> QED
      BY <1>a, <1>b, <1>c, <2>1, <3>1, PaidForStays
  <2> QED
    BY <2>2, <2>3
<1>3. ASSUME NEW v \in Visit, ShowAccount(v) PROVE PaidFor(w)'
  <2>1. /\ login[v] = "bridged" /\ login' = [login EXCEPT ![v] = "done"] /\ screen' = v /\ screen = NoVisit
        /\ UNCHANGED <<live, out, orphan, box, landing, faults>>
    BY <1>3 DEF ShowAccount, boxVars, OneAtATime, KioskAssumption
  <2>2. (w = v \/ login'[w] = login[w]) /\ screen # w
    BY <1>c, <2>1 DEF ScreenTyped
  <2>3. Gone(w)' => Gone(w)
    BY <1>c, <2>1, <2>2
  <2> QED
    BY <1>a, <1>b, <2>1, <2>3, PaidForStays
<1>4. ASSUME NEW v \in Visit, AskLogout(v) PROVE PaidFor(w)'
  <2>1. /\ screen = v /\ UNCHANGED <<live, login, box, landing>>
    BY <1>4 DEF AskLogout, boxVars
  <2>2. CASE w = v
    <3>1. UNCHANGED faults /\ \E a \in BOOLEAN : out' = [out EXCEPT ![v] = NewRequest(a)]
      BY <1>4, <2>2 DEF AskLogout
    <3>2. out'[w].backend = "todo" /\ out'[w].bridge = "todo"
      BY <2>2, <3>1 DEF ScreenTyped, NewRequest
    <3>3. ~PastBackend(w)' /\ ~PastBridge(w)'
      BY <1>c, <3>2
    <3> QED
      BY <1>a, <2>1, <3>1, <3>3 DEF PaidFor
  <2>3. CASE w # v
    <3>1. out'[w] = out[w] /\ screen # w
      BY <1>4, <2>1, <2>3 DEF ScreenTyped, AskLogout
    <3> QED
      BY <1>a, <1>b, <1>c, <2>1, <3>1, PaidForStays
  <2> QED
    BY <2>2, <2>3
<1>5. ASSUME NEW v \in Slot, LogoutAtBackend(v) PROVE PaidFor(w)'
  <2>1. /\ out[v].backend = "todo" /\ out' = [out EXCEPT ![v].backend = "over"]
        /\ UNCHANGED <<login, screen, orphan, box, landing>>
        /\ \/ live' = live \ {out[v].token} /\ faults' = faults
           \/ live' = live /\ faults' = faults + 1
    BY <1>5 DEF LogoutAtBackend, Ended, Fault, boxVars
  <2>2. /\ out[v] # NoRequest /\ out'[v].backend = "over" /\ out'[v].bridge = out[v].bridge
        /\ \A x \in Slot \ {v} : out'[x] = out[x]
    BY <1>c, <2>1 DEF ScreenTyped, LogoutRequest
  <2>3. CASE w = v
    <3>1. w \in live' => w \in live /\ faults' = faults + 1
      BY <1>a, <2>1, <2>2, <2>3 DEF OneAtATime
    <3>2. ~Gone(w) /\ ~Gone(w)'
      <4>1. out'[w] # NoRequest
        BY <1>c, <2>2, <2>3
      <4> QED
        BY <1>c, <2>2, <2>3, <4>1
    <3>3. PastBridge(w)' <=> PastBridge(w)
      BY <2>2, <2>3, <3>2
    <3> QED
      BY <1>a, <1>b, <2>1, <3>1, <3>3 DEF PaidFor
  <2>4. CASE w # v
    BY <1>a, <1>b, <1>c, <2>1, <2>2, <2>4, PaidForStays
  <2> QED
    BY <2>3, <2>4
<1>6. ASSUME NEW v \in Slot, LogoutAtBridge(v) PROVE PaidFor(w)'
  <2>1. /\ out[v].bridge = "todo" /\ out' = [out EXCEPT ![v].bridge = "over"]
        /\ UNCHANGED <<live, login, screen, orphan>>
        /\ \/ box' = NoVisit /\ landing' = landing /\ faults' = faults
           \/ /\ box' = box /\ faults' = faults + 1
              /\ landing' \in {landing, landing \cup {NoVisit}}
    BY <1>6 DEF LogoutAtBridge, EndBox, SetBox, KeepBox, Fault
  <2>2. /\ out[v] # NoRequest /\ out'[v].bridge = "over" /\ out'[v].backend = out[v].backend
        /\ \A x \in Slot \ {v} : out'[x] = out[x]
    BY <1>c, <2>1 DEF ScreenTyped, LogoutRequest
  <2>3. /\ (MayStart(w)' <=> MayStart(w))
        /\ (box' = w => box = w /\ faults' = faults + 1)
    BY <1>c, <2>1
  <2>4. CASE w = v
    <3>1. ~Gone(w) /\ ~Gone(w)'
      <4>1. out'[w] # NoRequest
        BY <1>c, <2>2, <2>4
      <4> QED
        BY <1>c, <2>2, <2>4, <4>1
    <3>2. PastBackend(w)' <=> PastBackend(w)
      BY <2>2, <2>4, <3>1
    <3> QED
      BY <1>a, <1>b, <2>1, <2>3, <3>2 DEF PaidFor
  <2>5. CASE w # v
    BY <1>a, <1>b, <1>c, <2>1, <2>2, <2>3, <2>5, PaidForStays
  <2> QED
    BY <2>4, <2>5
<1>7. ASSUME NEW v \in Slot, LoggedOut(v) PROVE PaidFor(w)'
  <2>1. /\ out[v].backend = "over" /\ out[v].bridge = "over" /\ out' = [out EXCEPT ![v] = NoRequest]
        /\ screen' = (IF out[v].awaited THEN NoVisit ELSE screen)
        /\ UNCHANGED <<live, login, orphan, box, landing>>
    BY <1>7 DEF LoggedOut, boxVars
  <2>2. out'[v] = NoRequest /\ \A x \in Slot \ {v} : out'[x] = out[x]
    BY <2>1 DEF ScreenTyped
  <2>3. CASE w = v
    <3>1. PastBackend(w) /\ PastBridge(w)
      BY <2>1, <2>3
    <3> HIDE DEF PastBackend, PastBridge
    <3> QED
      BY <1>a, <1>b, <2>1, <3>1, PaidForStays
  <2>4. CASE w # v
    <3>1. screen' # w => screen # w
      BY <1>c, <2>1, <2>4 DEF OneAtATime
    <3> QED
      BY <1>a, <1>b, <1>c, <2>1, <2>2, <2>4, <3>1, PaidForStays
  <2> QED
    BY <2>3, <2>4
<1>8. ASSUME NEW v \in Visit, SessionExpires(v) PROVE PaidFor(w)'
  <2>1. live' \subseteq live /\ UNCHANGED <<screenVars, box, landing, faults>>
    BY <1>8 DEF SessionExpires, boxVars
  <2> QED
    BY <1>a, <1>b, <1>c, <2>1, PaidForStays DEF screenVars
<1>9. ASSUME UNCHANGED <<live, screenVars>>, box' \in {box, NoVisit}, landing' \subseteq landing PROVE PaidFor(w)'
  <2>1. box' = w => box = w
    BY <1>9, <1>c
  <2> QED
    BY <1>a, <1>b, <1>c, <1>9, <2>1, PaidForStays DEF screenVars
<1>10. ASSUME NEW n \in Note, InsertNote(n) \/ Stack(n) \/ Report(n) \/ AnswerLost(n) PROVE PaidFor(w)'
  BY <1>9, <1>10 DEF InsertNote, Stack, Report, TakeUp, SigningFails, PostNote, Answer, AnswerLost, boxVars
<1>11. ASSUME Poll \/ BoxExpires \/ Restart PROVE PaidFor(w)'
  BY <1>9, <1>11 DEF Poll, BoxExpires, Restart, EndBox, SetBox
<1>12. ASSUME Land PROVE PaidFor(w)'
  <2> PICK c \in landing : /\ landing' = landing \ {c}
                           /\ IF c = NoVisit THEN EndBox ELSE StartBox(c)
    BY <1>12 DEF Land
  <2>0. UNCHANGED <<live, screenVars, faults>>
    BY <1>12 DEF Land
  <2>2. CASE c = w
    <3>1. box' = w /\ MayStart(w)
      BY <1>c, <2>2 DEF StartBox, SetBox
    <3>2. (PastBackend(w)' <=> PastBackend(w)) /\ (PastBridge(w)' <=> PastBridge(w))
      BY <1>c, <2>0 DEF screenVars
    <3> QED
      BY <1>a, <1>b, <2>0, <3>1, <3>2 DEF PaidFor, screenVars
  <2>3. CASE c # NoVisit /\ c # w
    <3>1. box' # w
      BY <2>3 DEF StartBox, SetBox
    <3> QED
      BY <1>a, <1>b, <1>c, <2>0, <3>1, PaidForStays DEF screenVars
  <2>4. CASE c = NoVisit
    BY <1>9, <2>0, <2>4 DEF EndBox, SetBox
  <2> QED
    BY <2>2, <2>3, <2>4
<1>13. ASSUME NEW v \in Visit, LoginFails(v) PROVE PaidFor(w)'
  <2>1. UNCHANGED <<live, login, out, screen, box, landing>>
    BY <1>13 DEF LoginFails, boxVars
  <2> QED
    BY <1>a, <1>b, <1>c, <2>1, PaidForStays
<1>14. ASSUME NEW v \in Visit, LoginUnseen(v) PROVE PaidFor(w)'
  <2>1. /\ w # v /\ login' = [login EXCEPT ![v] = "done"] /\ UNCHANGED <<live, out, screen, box, landing>>
    BY <1>a, <1>14 DEF LoginUnseen, OneAtATime, boxVars
  <2>2. login'[w] = login[w]
    BY <2>1 DEF ScreenTyped
  <2> QED
    BY <1>a, <1>b, <1>c, <2>1, <2>2, PaidForStays
<1>15. ASSUME PageLoad PROVE PaidFor(w)'
  <2>1. UNCHANGED <<live, login, box, landing>> /\ (screen = w => out[w] # NoRequest)
    BY <1>c, <1>15 DEF PageLoad, boxVars
  <2>3. out'[w].backend = out[w].backend /\ out'[w].bridge = out[w].bridge
    BY <1>15, PageLoads
  <2>4. Gone(w)' => Gone(w)
    BY <1>c, <2>1, <2>3 DEF OneAtATime
  <2> QED
    BY <1>a, <1>b, <2>1, <2>3, <2>4, PaidForStays
<1> QED
  BY <1>1, <1>2, <1>3, <1>4, <1>5, <1>6, <1>7, <1>8, <1>10, <1>11, <1>12, <1>13, <1>14, <1>15 DEF KioskNext, Screen, Logout

\* The notes' places and the records of them are typed.
LEMMA NoteStep ==
  ASSUME ScreenTyped, BoxTyped, NoteTyped, KioskNext
  PROVE  NoteTyped'
<1> USE DEF NoteTyped
<1>1. ASSUME UNCHANGED <<where, tok, row, owner>>, \E v : SetBox(v) PROVE NoteTyped'
  BY <1>1 DEF SetBox
<1>2. ASSUME UNCHANGED <<where, tok, row, owner, swapped>> PROVE NoteTyped'
  BY <1>2
<1>3. ASSUME NEW v \in Visit, Screen(v) PROVE NoteTyped'
  <2>1. ASSUME TellBridge(v) PROVE NoteTyped'
    BY <1>1, <1>2, <2>1 DEF TellBridge, StartBox, KeepBox
  <2>2. ASSUME StartLogin(v) \/ ShowAccount(v) \/ LoginFails(v) \/ LoginUnseen(v) \/ AskLogout(v) \/ SessionExpires(v)
        PROVE  NoteTyped'
    BY <1>2, <2>2 DEF StartLogin, ShowAccount, LoginFails, LoginUnseen, AskLogout, SessionExpires, noteVars
  <2> QED
    BY <1>3, <2>1, <2>2 DEF Screen
<1>4. ASSUME Poll \/ BoxExpires \/ Land \/ PageLoad PROVE NoteTyped'
  BY <1>1, <1>2, <1>4 DEF Poll, BoxExpires, Land, PageLoad, StartBox, EndBox, noteVars
<1>11. ASSUME NEW v \in Slot, Logout(v) PROVE NoteTyped'
  BY <1>1, <1>2, <1>11 DEF Logout, LogoutAtBackend, LogoutAtBridge, LoggedOut, EndBox, KeepBox, noteVars
<1>5. ASSUME Restart PROVE NoteTyped'
  <2>1. where' \in [Note -> Where]
    BY <1>5 DEF Restart, Where
  <2>2. swapped' \in [Note -> BOOLEAN]
    BY <1>5 DEF Restart, EndBox, SetBox
  <2> QED
    BY <1>5, <2>1, <2>2 DEF Restart
<1>6. ASSUME NEW n \in Note, InsertNote(n) PROVE NoteTyped'
  BY <1>6 DEF InsertNote, Where, boxVars
<1>7. ASSUME NEW n \in Note, Stack(n) PROVE NoteTyped'
  <2>1. AtTerminal \in SUBSET Visit
    BY DEF AtTerminal
  <2> QED
    BY <1>7, <2>1 DEF Stack, Where
<1>8. ASSUME NEW n \in Note, TakeUp(n) PROVE NoteTyped'
  BY <1>8 DEF TakeUp, Where, BoxTyped
<1>9. ASSUME NEW n \in Note, PostNote(n) PROVE NoteTyped'
  BY <1>9 DEF PostNote, Where, Captured
<1>10. ASSUME NEW n \in Note, SigningFails(n) \/ Answer(n) \/ AnswerLost(n) PROVE NoteTyped'
  BY <1>10 DEF SigningFails, Answer, AnswerLost, Where
<1> QED
  BY <1>3, <1>4, <1>5, <1>6, <1>7, <1>8, <1>9, <1>10, <1>11 DEF KioskNext, Report

\* The flags and the feed are typed.
LEMMA SignStep ==
  ASSUME SignTyped, KioskNext
  PROVE  SignTyped'
<1> USE DEF SignTyped
<1>1. ASSUME UNCHANGED polled, StartBox(box') \/ EndBox PROVE SignTyped'
  BY <1>1 DEF StartBox, EndBox, SetBox
<1>2. ASSUME UNCHANGED <<fresh, polled, feed>> PROVE SignTyped'
  BY <1>2
<1>3. ASSUME NEW v \in Visit, Screen(v) PROVE SignTyped'
  <2>1. ASSUME TellBridge(v) PROVE SignTyped'
    BY <1>1, <1>2, <2>1 DEF TellBridge, StartBox, SetBox, KeepBox
  <2>2. ASSUME StartLogin(v) \/ ShowAccount(v) \/ LoginFails(v) \/ LoginUnseen(v) \/ AskLogout(v) \/ SessionExpires(v)
        PROVE  SignTyped'
    BY <1>2, <2>2 DEF StartLogin, ShowAccount, LoginFails, LoginUnseen, AskLogout, SessionExpires, noteVars, boxVars
  <2> QED
    BY <1>3, <2>1, <2>2 DEF Screen
<1>11. ASSUME NEW v \in Slot, Logout(v) PROVE SignTyped'
  BY <1>1, <1>2, <1>11 DEF Logout, LogoutAtBackend, LogoutAtBridge, LoggedOut, KeepBox, noteVars, boxVars
<1>12. ASSUME PageLoad PROVE SignTyped'
  BY <1>2, <1>12 DEF PageLoad, noteVars, boxVars
<1>4. ASSUME Land PROVE SignTyped'
  BY <1>1, <1>4 DEF Land, StartBox, SetBox
<1>5. ASSUME Restart PROVE SignTyped'
  BY <1>1, <1>5 DEF Restart
<1>6. ASSUME Poll PROVE SignTyped'
  BY <1>6 DEF Poll, SessionActive, noteVars
<1>7. ASSUME BoxExpires PROVE SignTyped'
  BY <1>7 DEF BoxExpires, noteVars
<1>8. ASSUME NEW n \in Note, InsertNote(n) \/ Stack(n) \/ TakeUp(n) \/ SigningFails(n) PROVE SignTyped'
  BY <1>2, <1>8 DEF InsertNote, Stack, TakeUp, SigningFails, boxVars
<1>9. ASSUME NEW n \in Note, PostNote(n) \/ AnswerLost(n) PROVE SignTyped'
  BY <1>9 DEF PostNote, AnswerLost, ToldFailed, boxVars
<1>10. ASSUME NEW n \in Note, Answer(n) PROVE SignTyped'
  BY <1>10 DEF Answer
<1> QED
  BY <1>3, <1>4, <1>5, <1>6, <1>7, <1>8, <1>9, <1>10, <1>11, <1>12 DEF KioskNext, Report

-----------------------------------------------------------------------------

\* So whoever a note may go to may have it later, as far as the note's owner stays.
LEMMA RightsLast ==
  ASSUME FaultTyped, FaultTyped', BoundAssumption, Lasts, NEW n \in Note, NEW v \in Visit, owner'[n] = owner[n], Rightful(n, v)
  PROVE  Rightful(n, v)'
  BY DEF Lasts, Rightful, FaultTyped, BoundAssumption

\* What KioskInv says of one note.
Kept(n) ==
  /\ where[n] \in {"out", "held"} => row[n] = NoVisit
  /\ where[n] = "stacked" /\ box # NoVisit => Rightful(n, box)
  /\ where[n] = "taken" /\ tok[n] # NoVisit => Rightful(n, tok[n])
  /\ row[n] # NoVisit => row[n] \in owner[n] \cup orphan \/ swapped[n] \/ faults > 1

\* A note that nothing is done to keeps it, unless the bridge's session changes
\* hands over it, which swaps it.
LEMMA KeptStays ==
  ASSUME BoundAssumption, FaultTyped, FaultTyped', BoxTyped, NoteTyped, Lasts, NEW n \in Note, Kept(n),
         owner'[n] = owner[n], row'[n] = row[n], tok'[n] = tok[n],
         where'[n] \in {"out", "held", "stacked", "taken"} => where'[n] = where[n],
         where'[n] = "stacked" /\ box' # NoVisit => box' = box \/ swapped'[n]
  PROVE  Kept(n)'
<1>1. faults \in Nat /\ faults' \in Nat /\ faults <= faults' /\ orphan \subseteq orphan' /\ (swapped[n] => swapped'[n])
  BY DEF Lasts, FaultTyped, BoundAssumption
<1>2. where'[n] \in {"out", "held"} => row'[n] = NoVisit
  BY DEF Kept
<1>3. where'[n] = "stacked" /\ box' # NoVisit => Rightful(n, box)'
  <2>1. CASE box' = box
    BY <2>1, RightsLast DEF Kept, BoxTyped
  <2>2. CASE swapped'[n]
    BY <2>2 DEF Rightful
  <2> QED
    BY <2>1, <2>2
<1>4. where'[n] = "taken" /\ tok'[n] # NoVisit => Rightful(n, tok[n])'
  BY RightsLast DEF Kept, NoteTyped
<1>5. row'[n] # NoVisit => row'[n] \in owner'[n] \cup orphan' \/ swapped'[n] \/ faults' > 1
  BY <1>1 DEF Kept
<1> QED
  BY <1>2, <1>3, <1>4, <1>5 DEF Kept

\* A note goes to whom it may, whoever's session the bridge has by then.
LEMMA KeptStep ==
  ASSUME KioskAssumption, BoundAssumption, ScreenTyped, BoxTyped, NoteTyped, FaultTyped, OneAtATime, LeftOpenIsPaid,
         NEW m \in Note, Kept(m), KioskNext
  PROVE  Kept(m)'
<1>a. FaultTyped' /\ Lasts /\ faults \in Nat
  BY FaultStep, EverLasts
<1>1. ASSUME UNCHANGED <<where, tok, row, owner>>, \/ UNCHANGED <<box, swapped>>
                                                    \/ \E v \in Visit \cup {NoVisit} : SetBox(v)
      PROVE  Kept(m)'
  <2>1. where'[m] = "stacked" /\ box' # NoVisit => box' = box \/ swapped'[m]
    BY <1>1 DEF SetBox, InTransit
  <2> QED
    BY <1>a, <1>1, <2>1, KeptStays
<1>2. ASSUME NEW v \in Visit, Screen(v) PROVE Kept(m)'
  <2>1. ASSUME TellBridge(v) PROVE Kept(m)'
    BY <1>1, <2>1 DEF TellBridge, StartBox, KeepBox
  <2>2. ASSUME StartLogin(v) \/ ShowAccount(v) \/ LoginFails(v) \/ LoginUnseen(v) \/ AskLogout(v) \/ SessionExpires(v)
        PROVE  Kept(m)'
    BY <1>1, <2>2 DEF StartLogin, ShowAccount, LoginFails, LoginUnseen, AskLogout, SessionExpires, noteVars, boxVars
  <2> QED
    BY <1>2, <2>1, <2>2 DEF Screen
<1>3. ASSUME Poll \/ BoxExpires \/ PageLoad PROVE Kept(m)'
  BY <1>1, <1>3 DEF Poll, BoxExpires, PageLoad, noteVars, boxVars
<1>12. ASSUME NEW v \in Slot, Logout(v) PROVE Kept(m)'
  BY <1>1, <1>12 DEF Logout, LogoutAtBackend, LogoutAtBridge, LoggedOut, EndBox, KeepBox, noteVars, boxVars
<1>4. ASSUME Land PROVE Kept(m)'
  <2> PICK c \in landing : IF c = NoVisit THEN EndBox ELSE StartBox(c)
    BY <1>4 DEF Land
  <2>1. c \in Visit \cup {NoVisit}
    BY DEF BoxTyped, Slot
  <2>2. UNCHANGED <<where, tok, row, owner>>
    BY <1>4 DEF Land
  <2> QED
    BY <1>1, <2>1, <2>2 DEF StartBox, EndBox
<1>5. ASSUME Restart PROVE Kept(m)'
  <2>1. box' = NoVisit /\ UNCHANGED <<tok, row, owner>>
    BY <1>5 DEF Restart, EndBox, SetBox
  <2>2. where'[m] \in {"out", "held", "stacked", "taken"} => where'[m] = where[m]
    BY <1>5 DEF Restart
  <2> QED
    BY <1>a, <2>1, <2>2, KeptStays
<1>6. ASSUME NEW n \in Note, InsertNote(n) \/ Stack(n) \/ Report(n) \/ AnswerLost(n), m # n PROVE Kept(m)'
  <2>1. where'[m] = where[m] /\ tok'[m] = tok[m] /\ row'[m] = row[m] /\ owner'[m] = owner[m] /\ box' = box
    BY <1>6 DEF InsertNote, Stack, Report, TakeUp, SigningFails, PostNote, Answer, AnswerLost, boxVars, NoteTyped
  <2> QED
    BY <1>a, <2>1, KeptStays
<1>7. ASSUME InsertNote(m) PROVE Kept(m)'
  <2>1. where[m] = "out" /\ where'[m] \in {"held", "back"} /\ UNCHANGED row
    BY <1>7 DEF InsertNote, NoteTyped
  <2> QED
    BY <2>1 DEF Kept
<1>8. ASSUME Stack(m) PROVE Kept(m)'
  <2>1. /\ where[m] = "held" /\ where'[m] = "stacked" /\ owner'[m] = AtTerminal
        /\ UNCHANGED <<live, screenVars, box, row, swapped, faults>>
    BY <1>8 DEF Stack, NoteTyped, boxVars
  <2>2. ASSUME box # NoVisit PROVE Rightful(m, box)'
    <3>1. box \in Visit /\ login[box] # "none" /\ login[box] \in Login
      BY <2>2 DEF BoxTyped, OneAtATime, ScreenTyped
    <3>2. CASE box \in AtTerminal
      BY <2>1, <3>2 DEF Rightful
    <3>4. CASE box \notin AtTerminal /\ box \notin orphan
      <4>1. Gone(box)
        BY <3>1, <3>4 DEF AtTerminal, Gone, Login, OneAtATime
      <4>2. box \in live => faults > 1
        BY <3>1, <3>4, <4>1 DEF LeftOpenIsPaid, PaidFor, PastBackend, PastBridge
      <4> QED
        BY <2>1, <4>1, <4>2 DEF Rightful, Gone, screenVars
    <3>3. CASE box \in orphan
      BY <2>1, <3>3 DEF Rightful, screenVars
    <3> QED
      BY <3>2, <3>3, <3>4
  <2>3. row'[m] = NoVisit
    BY <2>1 DEF Kept
  <2> QED
    BY <2>1, <2>2, <2>3 DEF Kept
<1>9. ASSUME TakeUp(m) PROVE Kept(m)'
  <2>1. /\ where[m] = "stacked" /\ where'[m] \in {"taken", "lost"}
        /\ UNCHANGED <<live, screenVars, box, row, owner, swapped, faults>>
        /\ where'[m] = "taken" => tok'[m] = box /\ box # NoVisit
    BY <1>9 DEF TakeUp, SessionActive, NoteTyped, boxVars
  <2>2. where'[m] = "taken" => Rightful(m, box)'
    BY <2>1 DEF Kept, Rightful, screenVars
  <2>3. row'[m] # NoVisit => row'[m] \in owner'[m] \cup orphan' \/ swapped'[m] \/ faults' > 1
    BY <2>1 DEF Kept, screenVars
  <2>4. where'[m] = "taken" => Rightful(m, tok[m])'
    BY <2>1, <2>2
  <2> QED
    BY <2>1, <2>3, <2>4 DEF Kept
<1>10. ASSUME PostNote(m) PROVE Kept(m)'
  <2>1. /\ where[m] = "taken" /\ where'[m] \in {"stored", "done"}
        /\ UNCHANGED <<live, screenVars, owner, swapped, faults>>
        /\ row'[m] = row[m] \/ (row'[m] = tok[m] /\ tok[m] \in live)
    BY <1>10 DEF PostNote, Captured, NoteTyped
  <2>2. CASE row'[m] = row[m]
    BY <2>1, <2>2 DEF Kept, screenVars
  <2>3. CASE row'[m] = tok[m] /\ tok[m] \in live
    BY <2>1, <2>3 DEF Kept, Rightful, screenVars
  <2> QED
    BY <2>1, <2>2, <2>3
<1>11. ASSUME SigningFails(m) \/ Answer(m) \/ AnswerLost(m) PROVE Kept(m)'
  <2>1. where'[m] \in {"done", "lost"} /\ UNCHANGED <<row, owner, tok, box>>
    BY <1>11 DEF SigningFails, Answer, AnswerLost, NoteTyped, boxVars
  <2> QED
    BY <1>a, <2>1, KeptStays
<1> QED
  BY <1>2, <1>3, <1>4, <1>5, <1>6, <1>7, <1>8, <1>9, <1>10, <1>11, <1>12 DEF KioskNext, Report

-----------------------------------------------------------------------------

\* The invariant holds at the start.
LEMMA KioskStarts ==
  ASSUME KioskAssumption, BoundAssumption, KioskInit
  PROVE  KioskInv
<1> USE DEF KioskInit
<1>1. ScreenTyped
  <2>1. NoRequest \in LogoutRequest
    BY DEF NoRequest, LogoutRequest, Leg
  <2> QED
    BY <2>1 DEF ScreenTyped, Login
<1>2. BoxTyped /\ SignTyped
  BY DEF BoxTyped, SignTyped
<1>3. NoteTyped
  BY DEF NoteTyped, Where
<1>4. FaultTyped
  BY DEF FaultTyped, BoundAssumption
<1>5. OneAtATime
  BY DEF OneAtATime, KioskAssumption, NoRequest, Slot
<1>6. LeftOpenIsPaid
  BY DEF LeftOpenIsPaid, PaidFor, MayStart, KioskAssumption
<1>7. RowIsLate /\ NotesRightful /\ RightCustomer
  BY DEF RowIsLate, NotesRightful, RightCustomer
<1> QED
  BY <1>1, <1>2, <1>3, <1>4, <1>5, <1>6, <1>7 DEF KioskInv

\* Every step keeps it.
LEMMA KioskSteps ==
  ASSUME KioskAssumption, BoundAssumption, KioskInv, [KioskNext]_terminalVars
  PROVE  KioskInv'
<1> USE DEF KioskInv
<1>1. CASE KioskNext
  <2>1. ScreenTyped' /\ BoxTyped' /\ NoteTyped' /\ FaultTyped' /\ SignTyped'
    BY <1>1, ScreenStep, BoxStep, NoteStep, FaultStep, SignStep
  <2>2. OneAtATime' /\ LeftOpenIsPaid'
    BY <1>1, OneAtATimeStep, PaidStep
  <2>3. \A n \in Note : Kept(n)
    BY DEF RowIsLate, NotesRightful, RightCustomer, Kept
  <2>4. \A n \in Note : Kept(n)'
    BY <1>1, <2>3, KeptStep
  <2>5. RowIsLate' /\ NotesRightful' /\ RightCustomer'
    BY <2>4 DEF RowIsLate, NotesRightful, RightCustomer, Kept
  <2> QED
    BY <2>1, <2>2, <2>5
<1>2. CASE UNCHANGED terminalVars
  <2> USE <1>2 DEF terminalVars, screenVars, boxVars, noteVars
  <2>1. ScreenTyped' /\ BoxTyped' /\ FaultTyped' /\ SignTyped' /\ NoteTyped'
    BY DEF ScreenTyped, BoxTyped, FaultTyped, SignTyped, NoteTyped
  <2>2. NoRequest' = NoRequest
    BY DEF NoRequest
  <2>3. OneAtATime'
    BY <2>2 DEF OneAtATime
  <2>4. LeftOpenIsPaid'
    BY <2>2 DEF LeftOpenIsPaid, PaidFor, PastBackend, PastBridge, Gone, MayStart
  <2>5. RowIsLate' /\ NotesRightful' /\ RightCustomer'
    BY DEF RowIsLate, NotesRightful, Rightful, RightCustomer
  <2> QED
    BY <2>1, <2>3, <2>4, <2>5
<1> QED
  BY <1>1, <1>2

\* The inductive invariant of the terminal.
THEOREM KioskInvariant == KioskSpec => []KioskInv
<1>1. KioskInit => KioskInv
  BY KioskStarts, KioskAssumption, BoundAssumption
<1>2. KioskInv /\ [KioskNext]_terminalVars => KioskInv'
  BY KioskSteps, KioskAssumption, BoundAssumption
<1> QED
  BY <1>1, <1>2, PTL DEF KioskSpec

\* Every variable of the terminal has its type.
THEOREM KioskTypes == KioskSpec => []KioskTypeOK
<1>1. KioskInv => KioskTypeOK
  BY DEF KioskInv, ScreenTyped, BoxTyped, NoteTyped, FaultTyped, SignTyped, KioskTypeOK
<1> QED
  BY <1>1, KioskInvariant, PTL

\* A note is credited to a visit that was at the terminal when the slot swallowed
\* it, unless the bridge's session changed hands under it, the page had let go of
\* the visit without a logout of its own, or two calls failed
\* (device-agent/server.js, handlePulseDeposit).
THEOREM RightCustomerHolds == KioskSpec => []RightCustomer
<1>1. KioskInv => RightCustomer
  BY DEF KioskInv
<1> QED
  BY <1>1, KioskInvariant, PTL
=============================================================================
