----------------------------- MODULE AquaClose -----------------------------
(***************************************************************************)
(* Closing an Aqua yield position (backend/src/aqua.ts closePosition,      *)
(* dockRemaining and payOut, closeFlow.ts, yieldPositions.ts): fix the     *)
(* payout and claim the position, dock its strategies, pay the recorded    *)
(* value into the customer's vault, mark it closed.  Any number of requests*)
(* (POST /yield/close, POST /withdraw) may be closing the same position,   *)
(* each on the copy of the row it read, and any of them may stop at any    *)
(* step; closing again resumes.                                            *)
(*                                                                         *)
(* A payout transaction is named by its position in pay[p]; NotSent and    *)
(* Claimed are the null and "pending" values of close_tx.                  *)
(***************************************************************************)
EXTENDS Integers, Sequences

CONSTANTS Position,    \* rows of aqua_positions
          Strategy,    \* the strategies each of them shipped
          Request,     \* the requests in flight
          Value,       \* what a position may be worth, in micro-dollars
          MaxPayouts   \* bound: payout transactions of one position

ASSUME ValueAssumption == Value \subseteq Nat
ASSUME BoundAssumption == MaxPayouts \in Nat

VARIABLES status,      \* aqua_positions.status
          closeValue,  \* .close_value, NoValue for null
          closeTx,     \* .close_tx
          shipped,     \* strategies that still hold balances in Aqua
          pay,         \* the payout transactions broadcast
          req          \* the requests: pc, position, copy of status, value, hash, strategies to dock

vars == <<status, closeValue, closeTx, shipped, pay, req>>

NotSent == 0
Claimed == -1
NoValue == -1
TxStatus == {"pending", "success", "reverted"}
Pc == {"idle", "value", "claim", "read", "dock", "step", "verify", "clear", "payclaim", "send",
       "release", "store", "wait", "finish"}

TypeOK ==
  /\ status \in [Position -> {"open", "closing", "closed"}]
  /\ closeValue \in [Position -> Value \cup {NoValue}]
  /\ closeTx \in [Position -> Nat \cup {Claimed}]
  /\ shipped \in [Position -> SUBSET Strategy]
  /\ pay \in [Position -> Seq([status : TxStatus, amount : Value])]
  /\ req \in [Request -> [pc : Pc, pos : Position, value : Value \cup {NoValue}, hash : Nat, todo : SUBSET Strategy]]

Idle(p) == [pc |-> "idle", pos |-> p, value |-> NoValue, hash |-> NotSent, todo |-> {}]

\* Positions are open with every strategy shipped (openPosition).
Init ==
  /\ status = [p \in Position |-> "open"]
  /\ closeValue = [p \in Position |-> NoValue]
  /\ closeTx = [p \in Position |-> NotSent]
  /\ shipped = [p \in Position |-> Strategy]
  /\ pay = [p \in Position |-> <<>>]
  /\ req \in [Request -> {Idle(p) : p \in Position}]

-----------------------------------------------------------------------------
\* A request is at pc of closing position p; it goes on with the record q, or
\* throws (the next request starts from the row again).
At(r, pc, p) == req[r].pc = pc /\ req[r].pos = p
GoOn(r, q) == req' = [req EXCEPT ![r] = q]
Goto(r, pc) == GoOn(r, [req[r] EXCEPT !.pc = pc])
Stops(r) == GoOn(r, Idle(req[r].pos))

\* The route reads the row; a closing position resumes with its recorded payout,
\* from the docking on.
ResumeAtPayout == "step"
ResumeAt == "read"

Begin(r, p) ==
  /\ req[r].pc = "idle"
  /\ \/ status[p] = "open" /\ GoOn(r, [Idle(p) EXCEPT !.pc = "value"])
     \/ status[p] = "closing" /\ closeValue[p] # NoValue
        /\ GoOn(r, [Idle(p) EXCEPT !.pc = ResumeAt, !.value = closeValue[p]])
  /\ UNCHANGED <<status, closeValue, closeTx, shipped, pay>>

\* liveValueStrict: what Aqua says now, refused when every balance reads zero.
TakeValue(r, p) ==
  /\ At(r, "value", p)
  /\ shipped[p] # {}
  /\ \E v \in Value : GoOn(r, [req[r] EXCEPT !.pc = "claim", !.value = v])
  /\ UNCHANGED <<status, closeValue, closeTx, shipped, pay>>

\* update .. where status = 'open': one request fixes the payout.
MayClaim(p) == status[p] = "open"

ClaimPosition(r, p) ==
  /\ At(r, "claim", p)
  /\ MayClaim(p)
  /\ status' = [status EXCEPT ![p] = "closing"]
  /\ closeValue' = [closeValue EXCEPT ![p] = req[r].value]
  /\ Goto(r, "read")
  /\ UNCHANGED <<closeTx, shipped, pay>>

\* dockRemaining: the strategies that still hold balances, and perhaps some that
\* the node that answers has not seen docked yet ...
ReadShipped(r, p) ==
  /\ At(r, "read", p)
  /\ \E behind \in SUBSET Strategy :
       GoOn(r, [req[r] EXCEPT !.pc = "dock", !.todo = shipped[p] \cup behind])
  /\ UNCHANGED <<status, closeValue, closeTx, shipped, pay>>

\* ... are docked, every one of them, before the payout is looked at.
AfterDock(r) == IF req[r].value = 0 THEN "finish" ELSE "step"

DockRemaining(r, p) ==
  /\ At(r, "dock", p)
  /\ req[r].todo \subseteq shipped[p]
  /\ shipped' = [shipped EXCEPT ![p] = @ \ req[r].todo]
  /\ Goto(r, AfterDock(r))
  /\ UNCHANGED <<status, closeValue, closeTx, pay>>

\* Some docks go through and one fails, as one docked by another request does.
DockFails(r, p) ==
  /\ At(r, "dock", p)
  /\ \E done \in SUBSET req[r].todo : shipped' = [shipped EXCEPT ![p] = @ \ done]
  /\ Stops(r)
  /\ UNCHANGED <<status, closeValue, closeTx, pay>>

-----------------------------------------------------------------------------
\* payOut

\* payoutStep: nothing recorded is sent, a hash is verified, Claimed is refused.
ClaimedIsSendable(p) == closeTx[p] \in {NotSent, Claimed}
Sendable(p) == closeTx[p] = NotSent

PayoutStep(r, p) ==
  /\ At(r, "step", p)
  /\ \/ Sendable(p) /\ Goto(r, "payclaim")
     \/ closeTx[p] \notin {NotSent, Claimed} /\ GoOn(r, [req[r] EXCEPT !.pc = "verify", !.hash = closeTx[p]])
  /\ UNCHANGED <<status, closeValue, closeTx, shipped, pay>>

\* The receipt of the recorded payout: still to wait for, paid, or reverted.
AfterReceipt(st) ==
  CASE st = "pending" -> "wait" [] st = "success" -> "finish" [] st = "reverted" -> "clear"

\* A receipt that cannot be read counts as one to wait for.
Verify(r, p) ==
  /\ At(r, "verify", p)
  /\ Goto(r, "wait") \/ Goto(r, AfterReceipt(pay[p][req[r].hash].status))
  /\ UNCHANGED <<status, closeValue, closeTx, shipped, pay>>

\* update .. set close_tx = null where close_tx = hash.
ClearsAny(r, p) == TRUE
ClearsOwn(r, p) == closeTx[p] = req[r].hash

ClearReverted(r, p) ==
  /\ At(r, "clear", p)
  /\ closeTx' = IF ClearsOwn(r, p) THEN [closeTx EXCEPT ![p] = NotSent] ELSE closeTx
  /\ Goto(r, "payclaim")
  /\ UNCHANGED <<status, closeValue, shipped, pay>>

\* update .. set close_tx = 'pending' where close_tx is null.
ClaimPayout(r, p) ==
  /\ At(r, "payclaim", p)
  /\ Sendable(p)
  /\ closeTx' = [closeTx EXCEPT ![p] = Claimed]
  /\ Goto(r, "send")
  /\ UNCHANGED <<status, closeValue, shipped, pay>>

Broadcast(r, p) ==
  /\ At(r, "send", p)
  /\ Len(pay[p]) < MaxPayouts
  /\ pay' = [pay EXCEPT ![p] = Append(@, [status |-> "pending", amount |-> req[r].value])]
  /\ UNCHANGED <<status, closeValue, closeTx, shipped>>

SendPayout(r, p) ==
  /\ Broadcast(r, p)
  /\ GoOn(r, [req[r] EXCEPT !.pc = "store", !.hash = Len(pay[p]) + 1])

\* The transaction is out and its answer lost: the claim stays.
SendLosesReply(r, p) == Broadcast(r, p) /\ Stops(r)

\* The estimate reverted: nothing was broadcast, so the claim is released.
EstimateReverts(r, p) ==
  /\ At(r, "send", p)
  /\ Goto(r, "release")
  /\ UNCHANGED <<status, closeValue, closeTx, shipped, pay>>

ReleaseClaim(r, p) ==
  /\ At(r, "release", p)
  /\ closeTx' = IF closeTx[p] = Claimed THEN [closeTx EXCEPT ![p] = NotSent] ELSE closeTx
  /\ Stops(r)
  /\ UNCHANGED <<status, closeValue, shipped, pay>>

StoreHash(r, p) ==
  /\ At(r, "store", p)
  /\ closeTx' = [closeTx EXCEPT ![p] = req[r].hash]
  /\ Goto(r, "wait")
  /\ UNCHANGED <<status, closeValue, shipped, pay>>

WaitPayout(r, p) ==
  /\ At(r, "wait", p)
  /\ pay[p][req[r].hash].status = "success"
  /\ Goto(r, "finish")
  /\ UNCHANGED <<status, closeValue, closeTx, shipped, pay>>

\* Back in closePosition: closed, whoever else is still on it.
Finish(r, p) ==
  /\ At(r, "finish", p)
  /\ status' = [status EXCEPT ![p] = "closed"]
  /\ closeTx' = [closeTx EXCEPT ![p] = req[r].hash]
  /\ Stops(r)
  /\ UNCHANGED <<closeValue, shipped, pay>>

-----------------------------------------------------------------------------
\* Any step may fail, and the process may die under every request.
Throws(r) ==
  /\ req[r].pc # "idle"
  /\ Stops(r)
  /\ UNCHANGED <<status, closeValue, closeTx, shipped, pay>>

Mine(p) ==
  /\ \E i \in DOMAIN pay[p], st \in {"success", "reverted"} :
       pay[p][i].status = "pending" /\ pay' = [pay EXCEPT ![p][i].status = st]
  /\ UNCHANGED <<status, closeValue, closeTx, shipped, req>>

PayOut(r, p) ==
  \/ PayoutStep(r, p) \/ Verify(r, p) \/ ClearReverted(r, p) \/ ClaimPayout(r, p)
  \/ SendPayout(r, p) \/ SendLosesReply(r, p) \/ EstimateReverts(r, p) \/ ReleaseClaim(r, p)
  \/ StoreHash(r, p) \/ WaitPayout(r, p)

ClosePosition(r, p) ==
  \/ Begin(r, p) \/ TakeValue(r, p) \/ ClaimPosition(r, p)
  \/ ReadShipped(r, p) \/ DockRemaining(r, p) \/ DockFails(r, p)
  \/ PayOut(r, p) \/ Finish(r, p)

Next ==
  \/ \E r \in Request : Throws(r) \/ \E p \in Position : ClosePosition(r, p)
  \/ \E p \in Position : Mine(p)

Spec == Init /\ [][Next]_vars

-----------------------------------------------------------------------------
\* Properties

\* The payout is sent exactly once: at any time at most one transaction that is
\* not known to have reverted is out for a position, over every interleaving of
\* requests, lost answers and restarts.
PaidAtMostOnce ==
  \A p \in Position : \A i, j \in DOMAIN pay[p] :
    pay[p][i].status # "reverted" /\ pay[p][j].status # "reverted" => i = j

\* A closed position was paid what it was claimed for: the recorded payout
\* succeeded with the recorded value, or the value was zero and nothing went out.
ClosedIsPaid ==
  \A p \in Position : status[p] = "closed" =>
    IF closeValue[p] = 0 THEN pay[p] = <<>>
    ELSE /\ closeTx[p] \in DOMAIN pay[p]
         /\ pay[p][closeTx[p]] = [status |-> "success", amount |-> closeValue[p]]

\* Nothing is paid out while a strategy of the position could still be swapped
\* against: its tokens would be paid twice.
DockedBeforePaid ==
  \A p \in Position : pay[p] # <<>> => shipped[p] = {}

\* Once claimed, the recorded payout never changes, and a closed position never
\* opens again.
PayoutFixed ==
  [][\A p \in Position : status[p] # "open" =>
       /\ closeValue'[p] = closeValue[p]
       /\ status'[p] # "open"
       /\ status[p] = "closed" => status'[p] = "closed"]_vars
\* The abstract promise: phase and payout of a position as its customer sees them.
Received(p) == {<<i, pay[p][i].amount>> : i \in {j \in DOMAIN pay[p] : pay[p][j].status = "success"}}
Phase(p) ==
  IF status[p] # "closing" THEN status[p] ELSE IF Received(p) # {} THEN "paid" ELSE "fixed"

Promise == INSTANCE PayoutPromise WITH
  phase <- [p \in Position |-> Phase(p)],
  owed <- closeValue,
  received <- [p \in Position |-> Received(p)],
  Transaction <- 1..MaxPayouts

\* Every step of every request is a step of the promise or changes nothing of it.
KeepsPromise == Promise!Spec

-----------------------------------------------------------------------------
\* The inductive invariant behind them (Customer_proofs).

Live(p, i) == pay[p][i].status # "reverted"
NoneLive(p) == \A i \in DOMAIN pay[p] : ~Live(p, i)
OnlyLive(p, h) == h \in DOMAIN pay[p] /\ \A i \in DOMAIN pay[p] : Live(p, i) => i = h

\* The steps before payOut, those at which a request holds the payout claim, and
\* those of payOut.
Hashless == {"value", "claim", "read", "dock"}
Sending == {"send", "release", "store"}
Paying == Sending \cup {"step", "verify", "clear", "payclaim", "wait"}

\* close_tx says what is out: nothing, at most one, or exactly the recorded one.
RecordKnows ==
  \A p \in Position :
    /\ closeTx[p] = NotSent => NoneLive(p)
    /\ closeTx[p] \notin {NotSent, Claimed} => OnlyLive(p, closeTx[p])

\* One request holds the claim, and knows what it sent.
ClaimHeld ==
  \A r \in Request : req[r].pc \in Sending =>
    /\ closeTx[req[r].pos] = Claimed
    /\ \A q \in Request : req[q].pc \in Sending /\ req[q].pos = req[r].pos => q = r
    /\ IF req[r].pc = "store" THEN OnlyLive(req[r].pos, req[r].hash) ELSE NoneLive(req[r].pos)

\* A hash a request goes by is the recorded one, unless it reverted.
HashKnown ==
  \A r \in Request :
    /\ req[r].pc \in {"verify", "wait", "clear"} \/ (req[r].pc = "finish" /\ req[r].value # 0) =>
         /\ req[r].hash \in DOMAIN pay[req[r].pos]
         /\ Live(req[r].pos, req[r].hash) => closeTx[req[r].pos] = req[r].hash
    /\ req[r].pc = "clear" => ~Live(req[r].pos, req[r].hash)
    /\ req[r].pc = "finish" /\ req[r].value # 0 => pay[req[r].pos][req[r].hash].status = "success"
    /\ req[r].pc \in Hashless \/ (req[r].pc = "finish" /\ req[r].value = 0) => req[r].hash = NotSent

\* The payout is the recorded value, for the requests and on chain.
ValueKnown ==
  /\ \A p \in Position :
       /\ status[p] = "open" <=> closeValue[p] = NoValue
       /\ closeValue[p] \in {NoValue, 0} => pay[p] = <<>> /\ closeTx[p] = NotSent
       /\ \A i \in DOMAIN pay[p] : pay[p][i].amount = closeValue[p]
  /\ \A r \in Request :
       /\ req[r].pc = "claim" => req[r].value # NoValue
       /\ req[r].pc \notin {"idle", "value", "claim"} =>
            closeValue[req[r].pos] = req[r].value /\ req[r].value # NoValue
       /\ req[r].pc \in Paying => req[r].value # 0

\* The docking is over before payOut is entered.
DockingOver ==
  \A r \in Request :
    /\ req[r].pc = "dock" => shipped[req[r].pos] \subseteq req[r].todo
    /\ req[r].pc \in Paying \cup {"finish"} => shipped[req[r].pos] = {}

IndInv ==
  /\ TypeOK
  /\ RecordKnows
  /\ ClaimHeld
  /\ HashKnown
  /\ ValueKnown
  /\ DockingOver
  /\ PaidAtMostOnce
  /\ ClosedIsPaid
  /\ DockedBeforePaid
=============================================================================
