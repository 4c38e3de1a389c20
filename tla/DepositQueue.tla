---------------------------- MODULE DepositQueue ----------------------------
(***************************************************************************)
(* The cash-to-chain pipeline of the backend: the POST /deposit handler    *)
(* that records a stacked note, the BullMQ job that carries it, the worker *)
(* that sends depositFor and waits for it, the "failed" event handler, and *)
(* the background tkCASH mint (backend/src/routes/deposit.ts,              *)
(* depositQueue.ts, accounts.ts, cashReceipt.ts).                          *)
(*                                                                         *)
(* One backend process runs everything: a crash loses its memory (the      *)
(* request being served, the job being processed, the event handler, the   *)
(* mint) and keeps Postgres (status, txHash, tkHash), Redis (job, made)    *)
(* and the chain (tx, mints).  A transaction of note d is named by its     *)
(* position in tx[d]; NoHash stands for the null column.                   *)
(***************************************************************************)
EXTENDS Integers, Sequences

CONSTANTS Deposit,      \* the notes the kiosks take
          NoDeposit,    \* the worker is on no job
          MaxAttempts,  \* DEPOSIT_ATTEMPTS
          MaxCrashes    \* bound: how often the backend dies

ASSUME DepositAssumption == NoDeposit \notin Deposit
ASSUME BoundsAssumption == MaxAttempts \in Nat \ {0} /\ MaxCrashes \in Nat

VARIABLES status,   \* deposits.status, "none" before the insert
          txHash,   \* deposits.tx_hash
          tkHash,   \* deposits.tkcash_tx_hash is stored
          http,     \* where the POST /deposit request of the note is
          late,     \* a queue.add the handler gave up on may still land
          job,      \* the BullMQ job of the note
          made,     \* job.attemptsMade
          wpc, wid, whash,  \* the worker: step, job and `hash` of processDeposit
          handler,  \* a final "failed" event is being handled
          tx,       \* the depositFor transactions broadcast for the note
          mintPc,   \* the background recordCashIn of the note
          mints,    \* tkCASH mints executed for the note
          crashes

rowVars == <<status, txHash, tkHash>>
httpVars == <<http, late>>
jobVars == <<job, made>>
workerVars == <<wpc, wid, whash>>
mintVars == <<mintPc, mints>>
vars == <<rowVars, httpVars, jobVars, workerVars, handler, tx, mintVars, crashes>>

NoHash == 0

Status == {"none", "queued", "sending", "confirmed", "failed"}
HttpPc == {"idle", "stored", "added", "refused", "done", "dead"}
JobState == {"none", "waiting", "active", "completed", "failed"}
\* The steps of processDeposit at which it may throw.
Processing == {"read", "send", "store", "wait", "confirm", "publish"}
WorkerPc == Processing \cup {"idle", "return"}
MintPc == {"none", "check", "send", "store"}
TxStatus == {"pending", "success", "reverted"}

TypeOK ==
  /\ status \in [Deposit -> Status]
  /\ txHash \in [Deposit -> Nat]
  /\ tkHash \in [Deposit -> BOOLEAN]
  /\ http \in [Deposit -> HttpPc]
  /\ late \in [Deposit -> BOOLEAN]
  /\ job \in [Deposit -> JobState]
  /\ made \in [Deposit -> 0..MaxAttempts]
  /\ wpc \in WorkerPc
  /\ wid \in Deposit \cup {NoDeposit}
  /\ whash \in Nat
  /\ handler \in [Deposit -> BOOLEAN]
  /\ tx \in [Deposit -> Seq(TxStatus)]
  /\ mintPc \in [Deposit -> MintPc]
  /\ mints \in [Deposit -> Nat]
  /\ crashes \in 0..MaxCrashes

Init ==
  /\ status = [d \in Deposit |-> "none"]
  /\ txHash = [d \in Deposit |-> NoHash]
  /\ tkHash = [d \in Deposit |-> FALSE]
  /\ http = [d \in Deposit |-> "idle"]
  /\ late = [d \in Deposit |-> FALSE]
  /\ job = [d \in Deposit |-> "none"]
  /\ made = [d \in Deposit |-> 0]
  /\ wpc = "idle" /\ wid = NoDeposit /\ whash = NoHash
  /\ handler = [d \in Deposit |-> FALSE]
  /\ tx = [d \in Deposit |-> <<>>]
  /\ mintPc = [d \in Deposit |-> "none"]
  /\ mints = [d \in Deposit |-> 0]
  /\ crashes = 0

-----------------------------------------------------------------------------
\* POST /deposit

\* createQueuedDeposit: the note is on record before anything else happens.
AcceptNote(d) ==
  /\ http[d] = "idle"
  /\ status' = [status EXCEPT ![d] = "queued"]
  /\ http' = [http EXCEPT ![d] = "stored"]
  /\ UNCHANGED <<txHash, tkHash, late, jobVars, workerVars, handler, tx, mintVars, crashes>>

\* queue.add with jobId = depositId: a second job of the note is never made.
Enqueued(d) == [job EXCEPT ![d] = IF @ = "none" THEN "waiting" ELSE @]

AddJob(d) ==
  /\ http[d] = "stored"
  /\ job' = Enqueued(d)
  /\ http' = [http EXCEPT ![d] = "added"]
  /\ UNCHANGED <<rowVars, late, made, workerVars, handler, tx, mintVars, crashes>>

\* The 3s timer or an error of Redis wins the race; the connection retries for
\* ever, so the add it was racing may still land.
AddTimesOut(d) ==
  /\ http[d] = "stored"
  /\ http' = [http EXCEPT ![d] = "refused"]
  /\ \E b \in BOOLEAN : late' = [late EXCEPT ![d] = b]
  /\ UNCHANGED <<rowVars, jobVars, workerVars, handler, tx, mintVars, crashes>>

LateAdd(d) ==
  /\ late[d]
  /\ job' = Enqueued(d)
  /\ late' = [late EXCEPT ![d] = FALSE]
  /\ UNCHANGED <<rowVars, http, made, workerVars, handler, tx, mintVars, crashes>>

\* markDepositFailed(.., final = true) in the handler's catch.
MarkUnavailable(d) ==
  /\ http[d] = "refused"
  /\ status' = [status EXCEPT ![d] = "failed"]
  /\ http' = [http EXCEPT ![d] = "done"]
  /\ UNCHANGED <<txHash, tkHash, late, jobVars, workerVars, handler, tx, mintVars, crashes>>

\* That update fails as well: the request ends in an error, the row stays queued.
UnavailableThrows(d) ==
  /\ http[d] = "refused"
  /\ http' = [http EXCEPT ![d] = "dead"]
  /\ UNCHANGED <<rowVars, late, jobVars, workerVars, handler, tx, mintVars, crashes>>

-----------------------------------------------------------------------------
\* The worker: one job at a time (concurrency 1), processDeposit step by step.

Fetch(d) ==
  /\ wpc = "idle"
  /\ job[d] = "waiting"
  /\ job' = [job EXCEPT ![d] = "active"]
  /\ wpc' = "read" /\ wid' = d /\ whash' = NoHash
  /\ UNCHANGED <<rowVars, httpVars, made, handler, tx, mintVars, crashes>>

\* The rows processDeposit leaves alone.
SettledOnlyIfFailed(d) == status[d] \in {"none", "failed"}
NothingLeftToDo(d) == status[d] \in {"none", "confirmed", "failed"}

\* A stored hash means "already sent: only wait".
AlwaysSend(d) == "send"
AfterRead(d) == IF txHash[d] = NoHash THEN "send" ELSE "wait"

ReadRow ==
  /\ wpc = "read"
  /\ IF NothingLeftToDo(wid)
       THEN wpc' = "return" /\ whash' = whash
       ELSE wpc' = AfterRead(wid) /\ whash' = txHash[wid]
  /\ UNCHANGED <<rowVars, httpVars, jobVars, wid, handler, tx, mintVars, crashes>>

Broadcast(d) == [tx EXCEPT ![d] = Append(@, "pending")]

SendTx ==
  /\ wpc = "send"
  /\ tx' = Broadcast(wid)
  /\ whash' = Len(tx'[wid])
  /\ wpc' = "store"
  /\ UNCHANGED <<rowVars, httpVars, jobVars, wid, handler, mintVars, crashes>>

\* markDepositSending, whatever the row's status is by now.
StoreHash ==
  /\ wpc = "store"
  /\ status' = [status EXCEPT ![wid] = "sending"]
  /\ txHash' = [txHash EXCEPT ![wid] = whash]
  /\ wpc' = "wait"
  /\ UNCHANGED <<tkHash, httpVars, jobVars, wid, whash, handler, tx, mintVars, crashes>>

\* waitForDepositTx returns only on a successful receipt; a reverted or
\* unanswered one is WorkerThrows.
AnyReceiptAccepted(st) == st \in {"success", "reverted"}
ReceiptAccepted(st) == st = "success"

WaitReceipt ==
  /\ wpc = "wait"
  /\ ReceiptAccepted(tx[wid][whash])
  /\ wpc' = "confirm"
  /\ UNCHANGED <<rowVars, httpVars, jobVars, wid, whash, handler, tx, mintVars, crashes>>

\* markDepositConfirmed.
MarkConfirmed ==
  /\ wpc = "confirm"
  /\ status' = [status EXCEPT ![wid] = "confirmed"]
  /\ wpc' = "publish"
  /\ UNCHANGED <<txHash, tkHash, httpVars, jobVars, wid, whash, handler, tx, mintVars, crashes>>

\* The event goes out and the mint starts in the background.
Publish ==
  /\ wpc = "publish"
  /\ mintPc' = [mintPc EXCEPT ![wid] = "check"]
  /\ wpc' = "return"
  /\ UNCHANGED <<rowVars, httpVars, jobVars, wid, whash, handler, tx, mints, crashes>>

Return ==
  /\ wpc = "return"
  /\ job' = [job EXCEPT ![wid] = "completed"]
  /\ wpc' = "idle" /\ wid' = NoDeposit /\ whash' = NoHash
  /\ UNCHANGED <<rowVars, httpVars, made, handler, tx, mintVars, crashes>>

\* BullMQ's side of a job that threw: back off and retry, or give up after the
\* last attempt; and what the "failed" handler will take for final.
LastAttempt(d) == made[d] + 1 >= MaxAttempts
FinalOnlyAfterLast(d) == made[d] + 1 > MaxAttempts
FinalEvent(d) == made[d] + 1 >= MaxAttempts

JobThrows ==
  /\ made' = [made EXCEPT ![wid] = @ + 1]
  /\ job' = [job EXCEPT ![wid] = IF LastAttempt(wid) THEN "failed" ELSE "waiting"]
  /\ handler' = [handler EXCEPT ![wid] = FinalEvent(wid)]
  /\ wpc' = "idle" /\ wid' = NoDeposit /\ whash' = NoHash

\* Postgres, the RPC node or Redis fails the step, or the receipt says reverted.
WorkerThrows ==
  /\ wpc \in Processing
  /\ JobThrows
  /\ UNCHANGED <<rowVars, httpVars, tx, mintVars, crashes>>

\* The transaction was broadcast and the node's answer lost.
SendLosesReply ==
  /\ wpc = "send"
  /\ tx' = Broadcast(wid)
  /\ JobThrows
  /\ UNCHANGED <<rowVars, httpVars, mintVars, crashes>>

\* worker.on("failed") after the last attempt: markDepositFailed, final.  (A
\* "failed" event with attempts left only writes the error text.)
OnFailed(d) ==
  /\ handler[d]
  /\ status' = [status EXCEPT ![d] = "failed"]
  /\ handler' = [handler EXCEPT ![d] = FALSE]
  /\ UNCHANGED <<txHash, tkHash, httpVars, jobVars, workerVars, tx, mintVars, crashes>>

-----------------------------------------------------------------------------
\* recordCashIn, detached from the job.

MintCheck(d) ==
  /\ mintPc[d] = "check"
  /\ mintPc' = [mintPc EXCEPT ![d] = IF tkHash[d] THEN "none" ELSE "send"]
  /\ UNCHANGED <<rowVars, httpVars, jobVars, workerVars, handler, tx, mints, crashes>>

\* The mint executes; its hash comes back or is lost with the connection.
MintSend(d) ==
  /\ mintPc[d] = "send"
  /\ mints' = [mints EXCEPT ![d] = @ + 1]
  /\ \E pc \in {"store", "none"} : mintPc' = [mintPc EXCEPT ![d] = pc]
  /\ UNCHANGED <<rowVars, httpVars, jobVars, workerVars, handler, tx, crashes>>

MintStore(d) ==
  /\ mintPc[d] = "store"
  /\ tkHash' = [tkHash EXCEPT ![d] = TRUE]
  /\ mintPc' = [mintPc EXCEPT ![d] = "none"]
  /\ UNCHANGED <<status, txHash, httpVars, jobVars, workerVars, handler, tx, mints, crashes>>

\* A step of it throws; the error is logged and nothing retries it.
MintFails(d) ==
  /\ mintPc[d] # "none"
  /\ mintPc' = [mintPc EXCEPT ![d] = "none"]
  /\ UNCHANGED <<rowVars, httpVars, jobVars, workerVars, handler, tx, mints, crashes>>

Mint(d) == MintCheck(d) \/ MintSend(d) \/ MintStore(d) \/ MintFails(d)

-----------------------------------------------------------------------------
\* The environment

Mine(d) ==
  /\ \E i \in DOMAIN tx[d], st \in {"success", "reverted"} :
       tx[d][i] = "pending" /\ tx' = [tx EXCEPT ![d][i] = st]
  /\ UNCHANGED <<rowVars, httpVars, jobVars, workerVars, handler, mintVars, crashes>>

\* BullMQ's stalled-job check hands the active job to a worker again, with no
\* attempt counted.
Recovered(j) == IF j = "active" THEN "waiting" ELSE j

\* The backend dies and is started again.
Crash ==
  /\ crashes < MaxCrashes
  /\ crashes' = crashes + 1
  /\ http' = [d \in Deposit |-> IF http[d] \in {"stored", "refused"} THEN "dead" ELSE http[d]]
  /\ late' = [d \in Deposit |-> FALSE]
  /\ job' = [d \in Deposit |-> Recovered(job[d])]
  /\ wpc' = "idle" /\ wid' = NoDeposit /\ whash' = NoHash
  /\ handler' = [d \in Deposit |-> FALSE]
  /\ mintPc' = [d \in Deposit |-> "none"]
  /\ UNCHANGED <<rowVars, made, tx, mints>>

Http(d) ==
  \/ AcceptNote(d) \/ AddJob(d) \/ AddTimesOut(d) \/ LateAdd(d)
  \/ MarkUnavailable(d) \/ UnavailableThrows(d)

Worker ==
  \/ \E d \in Deposit : Fetch(d)
  \/ ReadRow \/ SendTx \/ StoreHash \/ WaitReceipt \/ MarkConfirmed \/ Publish \/ Return
  \/ WorkerThrows \/ SendLosesReply

Next ==
  \/ \E d \in Deposit : Http(d) \/ OnFailed(d) \/ Mint(d) \/ Mine(d)
  \/ Worker
  \/ Crash

Spec == Init /\ [][Next]_vars

\* The event loop serves every request, job and handler that is ready; a wait
\* for a receipt ends (viem's own timeout), so the worker never blocks.  No
\* fairness for new notes, for the chain, or for crashes.
Fairness ==
  /\ WF_vars(Worker)
  /\ \A d \in Deposit :
       /\ WF_vars(AddJob(d) \/ AddTimesOut(d) \/ MarkUnavailable(d) \/ UnavailableThrows(d))
       /\ WF_vars(OnFailed(d))
       /\ WF_vars(Mint(d))

FairSpec == Spec /\ Fairness

-----------------------------------------------------------------------------
\* Properties

\* A confirmed note has a stored transaction, and it is one that succeeded:
\* across retries and crashes the worker never confirms on a receipt of
\* another send or on a reverted one.
ConfirmedIsPaid ==
  \A d \in Deposit : status[d] = "confirmed" =>
    /\ txHash[d] \in DOMAIN tx[d]
    /\ tx[d][txHash[d]] = "success"

\* A note's tkCASH is minted at most once, and only when the note's credit is
\* on chain, although recordCashIn checks and stores its hash in separate steps
\* and the mint's own answer may be lost.
MintedOnceAndBacked ==
  \A d \in Deposit : mints[d] > 0 =>
    /\ mints[d] = 1
    /\ \E i \in DOMAIN tx[d] : tx[d][i] = "success"

\* A job BullMQ considers completed never leaves its note unsettled: nothing
\* would ever pick such a note up again.
CompletedIsSettled ==
  \A d \in Deposit : job[d] = "completed" => status[d] \in {"confirmed", "failed"}

\* Once a hash is stored, no retry and no restart ever sends again for that
\* note or replaces the hash.
NeverResent ==
  [][\A d \in Deposit : txHash[d] # NoHash =>
       txHash'[d] = txHash[d] /\ Len(tx'[d]) = Len(tx[d])]_vars

\* Unless the backend dies, every note on record is confirmed or failed in the
\* end, the ones whose queue.add timed out included; a request that recorded a
\* note and could not write again is the only other way out.
NoteSettles ==
  \A d \in Deposit :
    status[d] = "queued" ~> \/ status[d] \in {"confirmed", "failed"}
                           \/ http[d] = "dead"
                           \/ crashes > 0

\* Documented: no retry can pay twice (depositQueue.ts, the header).
NoDoublePay ==
  \A d \in Deposit : \A i, j \in DOMAIN tx[d] :
    tx[d][i] = "success" /\ tx[d][j] = "success" => i = j

\* The queue is done with the note: confirmed, or failed for another reason than
\* that it could not be queued.
SettledByQueue(d) ==
  \/ status[d] = "confirmed"
  \/ status[d] = "failed" /\ (http[d] # "done" \/ job[d] = "failed")

\* A note the queue has settled is never under way again, neither by a retry or a
\* restart nor by a worker that read its row before; the receipt that follows it
\* (Visits) rests on this.  One answered 503 may yet be taken up.
SettledForGood ==
  \A d \in Deposit : [](SettledByQueue(d) => [](status[d] \in {"confirmed", "failed"}))

-----------------------------------------------------------------------------
\* The inductive invariant behind them (CashIn_proofs).

\* The note's stored transaction is on chain and succeeded.
Paid(d) == txHash[d] \in DOMAIN tx[d] /\ tx[d][txHash[d]] = "success"

\* Exactly the job the worker holds is active.
OneJobInHand ==
  /\ wpc = "idle" <=> wid = NoDeposit
  /\ \A d \in Deposit : job[d] = "active" <=> wid = d

\* A job that may still run has an attempt left.
AttemptsLeft ==
  \A d \in Deposit : job[d] \in {"none", "waiting", "active"} => made[d] < MaxAttempts

\* Nothing exists for a note before its row does.
RowFirst ==
  \A d \in Deposit :
    /\ http[d] = "idle" => ~late[d] /\ ~handler[d] /\ job[d] = "none"
    /\ status[d] = "none" <=> http[d] = "idle"

StoredHashIsSent ==
  \A d \in Deposit : txHash[d] # NoHash => txHash[d] \in DOMAIN tx[d]

\* What processDeposit knows at each of its steps, after its read of the row.
WorkerKnows ==
  /\ wpc \in {"send", "store"} => txHash[wid] = NoHash
  /\ wpc \in {"store", "wait", "confirm", "publish"} => whash \in DOMAIN tx[wid]
  /\ wpc \in {"wait", "confirm", "publish"} => txHash[wid] = whash
  /\ wpc \in {"confirm", "publish"} => tx[wid][whash] = "success"
  /\ wpc \in {"publish", "return"} => status[wid] \in {"confirmed", "failed"}

\* A mint has started: the note is settled and paid for good, and the worker
\* is not going to reach the mint again.
MintStarted(d) == mintPc[d] # "none" \/ mints[d] > 0

MintIsLast ==
  \A d \in Deposit :
    /\ MintStarted(d) =>
         /\ status[d] \in {"confirmed", "failed"}
         /\ Paid(d)
         /\ wid = d => wpc \in {"read", "return"}
    /\ mintPc[d] \in {"check", "send"} => mints[d] = 0
    /\ mints[d] <= 1

\* Who marks a note as failed has been refused the queue, or comes after the last attempt.
FailedLast ==
  \A d \in Deposit :
    /\ handler[d] => job[d] = "failed"
    /\ status[d] = "failed" /\ http[d] # "done" => job[d] = "failed"

IndInv ==
  /\ TypeOK
  /\ OneJobInHand
  /\ AttemptsLeft
  /\ RowFirst
  /\ StoredHashIsSent
  /\ WorkerKnows
  /\ MintIsLast
  /\ ConfirmedIsPaid
  /\ CompletedIsSettled
=============================================================================
