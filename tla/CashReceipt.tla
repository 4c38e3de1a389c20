----------------------------- MODULE CashReceipt -----------------------------
(***************************************************************************)
(* tkCASH, the receipt token for the cash in the kiosks' boxes: the        *)
(* contract (contracts/src/TakarabakoCashReceipt.sol), one action per      *)
(* external function, atomic as a transaction is, and the backend's        *)
(* redeemAll (backend/src/cashReceipt.ts) with the POST /withdraw leg that *)
(* records what it burned: several reads and transactions, while everything*)
(* else goes on.  A call that reverts changes nothing and is no action,    *)
(* except the redeem in which a redeemAll fails.                           *)
(***************************************************************************)
EXTENDS Integers, FiniteSets, FiniteSetsExt

CONSTANTS Kiosks,     \* how many kiosk ids the backend has in knownKioskIds
          Boxes,      \* how many kiosks there are: a note is recorded against the kiosk
                      \* it was taken by, whether its id is among those or not
          Holder,     \* addresses that may hold tkCASH
          Run,        \* POST /withdraw requests at their tkCASH leg
          Amount,     \* values of notes and transfers
          Limit,      \* values of dailyTransferLimit, 0 for none
          MaxSupply,  \* bound: how much is minted altogether
          MaxDays     \* bound: how often a day ends

ASSUME ReceiptAssumption ==
  /\ Kiosks \in Nat /\ Boxes \in Nat /\ Kiosks <= Boxes
  /\ IsFiniteSet(Holder) /\ IsFiniteSet(Run)
  /\ Amount \subseteq Nat \ {0} /\ Limit \subseteq Nat
  /\ MaxSupply \in Nat /\ MaxDays \in Nat

VARIABLES kiosk,         \* kiosks: active, frozen, reserve
          totalReserve,
          totalSupply, balanceOf,
          allowlist, dailyTransferLimit, spentToday, spentDay, paused,
          day,           \* block.timestamp / 1 days
          run,           \* the redeemAll runs
          minted,        \* history: how much was minted altogether
          unrecorded,    \* history: burned of a holder by redeem, less what its
                         \* withdrawals recorded as burned (tkcash_burned)
          sent,          \* history: what a holder sent today under a limit
          highest        \* history: the highest limit of today

kioskVars == <<kiosk, totalReserve>>
tokenVars == <<totalSupply, balanceOf>>
ruleVars == <<allowlist, dailyTransferLimit, paused>>
spentVars == <<spentToday, spentDay, sent>>
receiptVars == <<kioskVars, tokenVars, ruleVars, spentVars, day, run, minted, unrecorded, highest>>

\* Kiosks, those the backend knows first, in the order redeemAll drains them.
Kiosk == 1..Boxes
Unknown == (Kiosks + 1)..Boxes
Pc == {"idle", "kiosk", "redeem", "record", "done"}

ReceiptTypeOK ==
  /\ kiosk \in [Kiosk -> [active : BOOLEAN, frozen : BOOLEAN, reserve : Nat]]
  /\ totalReserve \in Nat /\ totalSupply \in Nat
  /\ balanceOf \in [Holder -> Nat]
  /\ allowlist \in [Holder -> BOOLEAN]
  /\ dailyTransferLimit \in Limit \cup {0}
  /\ spentToday \in [Holder -> Nat] /\ spentDay \in [Holder -> Nat]
  /\ paused \in BOOLEAN
  /\ day \in Nat
  /\ run \in [Run -> [pc : Pc, user : Holder, k : Nat, left : Nat, amount : Nat, burned : Nat, alone : BOOLEAN]]
  /\ minted \in 0..MaxSupply /\ unrecorded \in [Holder -> Int]
  /\ sent \in [Holder -> Nat] /\ highest \in Nat

OffRun(h) == [pc |-> "idle", user |-> h, k |-> 0, left |-> 0, amount |-> 0, burned |-> 0, alone |-> TRUE]

ReceiptInit ==
  /\ kiosk = [k \in Kiosk |-> [active |-> FALSE, frozen |-> FALSE, reserve |-> 0]]
  /\ totalReserve = 0 /\ totalSupply = 0
  /\ balanceOf = [h \in Holder |-> 0]
  /\ allowlist = [h \in Holder |-> FALSE]
  /\ dailyTransferLimit = 0
  /\ spentToday = [h \in Holder |-> 0] /\ spentDay = [h \in Holder |-> 0]
  /\ paused = FALSE
  /\ day = 1
  /\ run \in [Run -> {OffRun(h) : h \in Holder}]
  /\ minted = 0 /\ unrecorded = [h \in Holder |-> 0]
  /\ sent = [h \in Holder |-> 0] /\ highest = 0

\* Someone else's transaction moves tokens or reserves: the reads of a redeemAll
\* may be stale from now on.
OthersStale == run' = [r \in Run |-> [run[r] EXCEPT !.alone = FALSE]]

-----------------------------------------------------------------------------
\* Kiosks and cash (onlyOwner: the treasury)

SetKiosk(k, active) ==
  /\ kiosk' = [kiosk EXCEPT ![k].active = active]
  /\ UNCHANGED <<totalReserve, tokenVars, ruleVars, spentVars, day, run, minted, unrecorded, highest>>

\* The reserve of a kiosk after a note of value a.
OnlyLastNote(k, a) == a
ReserveWith(k, a) == kiosk[k].reserve + a

RecordCashIn(k, h, a) ==
  /\ ~paused /\ kiosk[k].active /\ ~kiosk[k].frozen
  /\ minted + a <= MaxSupply /\ minted' = minted + a
  /\ kiosk' = [kiosk EXCEPT ![k].reserve = ReserveWith(k, a)]
  /\ totalReserve' = totalReserve + a
  /\ totalSupply' = totalSupply + a
  /\ balanceOf' = [balanceOf EXCEPT ![h] = @ + a]
  /\ OthersStale
  /\ UNCHANGED <<ruleVars, spentVars, day, unrecorded, highest>>

\* redeem, which only a redeemAll calls.
InReserve(k, a) == kiosk[k].reserve >= a

Redeem(k, h, a) ==
  /\ InReserve(k, a) /\ balanceOf[h] >= a
  /\ kiosk' = [kiosk EXCEPT ![k].reserve = @ - a]
  /\ totalReserve' = totalReserve - a
  /\ totalSupply' = totalSupply - a
  /\ balanceOf' = [balanceOf EXCEPT ![h] = @ - a]
  /\ unrecorded' = [unrecorded EXCEPT ![h] = @ + a]

\* A count that differs freezes the kiosk; one that agrees does not thaw it.
AttestReserve(k, count) ==
  /\ kiosk' = [kiosk EXCEPT ![k].frozen = @ \/ count # kiosk[k].reserve]
  /\ UNCHANGED <<totalReserve, tokenVars, ruleVars, spentVars, day, run, minted, unrecorded, highest>>

UnfreezeKiosk(k) ==
  /\ kiosk' = [kiosk EXCEPT ![k].frozen = FALSE]
  /\ UNCHANGED <<totalReserve, tokenVars, ruleVars, spentVars, day, run, minted, unrecorded, highest>>

-----------------------------------------------------------------------------
\* Transfer controls

SetAllowlisted(h, allowed) ==
  /\ allowlist' = [allowlist EXCEPT ![h] = allowed]
  /\ UNCHANGED <<kioskVars, tokenVars, dailyTransferLimit, paused, spentVars, day, run, minted, unrecorded, highest>>

SetDailyTransferLimit(limit) ==
  /\ dailyTransferLimit' = limit
  /\ highest' = IF limit > highest THEN limit ELSE highest
  /\ UNCHANGED <<kioskVars, tokenVars, allowlist, paused, spentVars, day, run, minted, unrecorded>>

Pause(b) ==
  /\ paused' = b
  /\ paused # b
  /\ UNCHANGED <<kioskVars, tokenVars, allowlist, dailyTransferLimit, spentVars, day, run, minted, unrecorded, highest>>

\* What counts as spent today: nothing that was spent on another day.
SpentThatDay(h) == IF spentDay[h] + 1 >= day THEN 0 ELSE spentToday[h]
SpentSoFar(h) == IF spentDay[h] = day THEN spentToday[h] ELSE 0

\* _update between two holders.
Spend(from, a) ==
  IF dailyTransferLimit = 0
    THEN UNCHANGED spentVars
    ELSE /\ SpentSoFar(from) + a <= dailyTransferLimit
         /\ spentToday' = [spentToday EXCEPT ![from] = SpentSoFar(from) + a]
         /\ spentDay' = [spentDay EXCEPT ![from] = day]
         /\ sent' = [sent EXCEPT ![from] = @ + a]

Transfer(from, to, a) ==
  /\ ~paused
  /\ allowlist[from] /\ allowlist[to]
  /\ Spend(from, a)
  /\ balanceOf[from] >= a
  /\ balanceOf' = [[balanceOf EXCEPT ![from] = @ - a] EXCEPT ![to] = @ + a]
  /\ OthersStale
  /\ UNCHANGED <<kioskVars, totalSupply, ruleVars, day, minted, unrecorded, highest>>

NextDay ==
  /\ day <= MaxDays
  /\ day' = day + 1
  /\ sent' = [h \in Holder |-> 0]
  /\ highest' = dailyTransferLimit
  /\ UNCHANGED <<kioskVars, tokenVars, ruleVars, spentToday, spentDay, run, minted, unrecorded>>

-----------------------------------------------------------------------------
\* redeemAll

GoOn(r, q) == run' = [run EXCEPT ![r] = q]
At(r, pc) == run[r].pc = pc
Min2(a, b) == IF a < b THEN a ELSE b

\* The next kiosk to look at, or the end of the loop.
OnlyTheFirst(q) == IF q.left = 0 \/ q.k = 1 THEN [q EXCEPT !.pc = "record"] ELSE [q EXCEPT !.pc = "kiosk", !.k = @ + 1]
Looks(q) == IF q.left = 0 \/ q.k = Kiosks THEN [q EXCEPT !.pc = "record"] ELSE [q EXCEPT !.pc = "kiosk", !.k = @ + 1]

ReadBalance(r) ==
  /\ At(r, "idle")
  /\ GoOn(r, Looks([run[r] EXCEPT !.left = balanceOf[run[r].user], !.alone = TRUE]))
  /\ UNCHANGED <<kioskVars, tokenVars, ruleVars, spentVars, day, minted, unrecorded, highest>>

\* kioskState, and how much of the balance its reserve covers.
ReadKiosk(r) ==
  /\ At(r, "kiosk")
  /\ LET a == Min2(run[r].left, kiosk[run[r].k].reserve) IN
     GoOn(r, IF a = 0 THEN Looks(run[r]) ELSE [run[r] EXCEPT !.pc = "redeem", !.amount = a])
  /\ UNCHANGED <<kioskVars, tokenVars, ruleVars, spentVars, day, minted, unrecorded, highest>>

CountsTwice(q) == q.burned + q.left
BurnedAfter(q) == q.burned + q.amount

RedeemSucceeds(r) ==
  /\ At(r, "redeem")
  /\ Redeem(run[r].k, run[r].user, run[r].amount)
  /\ run' = [s \in Run |->
       IF s = r THEN Looks([run[r] EXCEPT !.left = @ - run[r].amount, !.burned = BurnedAfter(run[r]), !.amount = 0])
       ELSE [run[s] EXCEPT !.alone = FALSE]]
  /\ UNCHANGED <<ruleVars, spentVars, day, minted, highest>>

\* It reverts, because the reserve or the balance is not what was read, or it
\* is mined and its receipt does not come: the leg goes on with nothing burned.
RedeemFails(r) ==
  /\ At(r, "redeem")
  /\ GoOn(r, [run[r] EXCEPT !.pc = "record", !.burned = 0, !.amount = 0, !.alone = FALSE])
  /\ UNCHANGED <<kioskVars, tokenVars, ruleVars, spentVars, day, minted, unrecorded, highest>>

RedeemLosesReply(r) ==
  /\ At(r, "redeem")
  /\ Redeem(run[r].k, run[r].user, run[r].amount)
  /\ run' = [s \in Run |->
       IF s = r THEN [run[r] EXCEPT !.pc = "record", !.burned = 0, !.amount = 0, !.alone = FALSE]
       ELSE [run[s] EXCEPT !.alone = FALSE]]
  /\ UNCHANGED <<ruleVars, spentVars, day, minted, highest>>

\* recordWithdrawal.
RecordBurned(r) ==
  /\ At(r, "record")
  /\ unrecorded' = [unrecorded EXCEPT ![run[r].user] = @ - run[r].burned]
  /\ GoOn(r, [run[r] EXCEPT !.pc = "done", !.k = 0])
  /\ UNCHANGED <<kioskVars, tokenVars, ruleVars, spentVars, day, minted, highest>>

\* A read or the insert fails, the process dies, or the customer asks again.
RunEnds(r) ==
  /\ run[r].pc # "idle"
  /\ GoOn(r, OffRun(run[r].user))
  /\ UNCHANGED <<kioskVars, tokenVars, ruleVars, spentVars, day, minted, unrecorded, highest>>

RedeemAll(r) ==
  \/ ReadBalance(r) \/ ReadKiosk(r)
  \/ RedeemSucceeds(r) \/ RedeemFails(r) \/ RedeemLosesReply(r)
  \/ RecordBurned(r) \/ RunEnds(r)

ReceiptNext ==
  \/ \E k \in Kiosk :
       \/ \E b \in BOOLEAN : SetKiosk(k, b)
       \/ \E h \in Holder, a \in Amount : RecordCashIn(k, h, a)
       \/ \E count \in 0..MaxSupply : AttestReserve(k, count)
       \/ UnfreezeKiosk(k)
  \/ \E h \in Holder :
       \/ \E b \in BOOLEAN : SetAllowlisted(h, b)
       \/ \E to \in Holder, a \in Amount : Transfer(h, to, a)
  \/ \E l \in Limit : SetDailyTransferLimit(l)
  \/ \E b \in BOOLEAN : Pause(b)
  \/ \E r \in Run : RedeemAll(r)
  \/ NextDay

ReceiptSpec == ReceiptInit /\ [][ReceiptNext]_receiptVars

-----------------------------------------------------------------------------
\* Properties

Reserves == [k \in Kiosk |-> kiosk[k].reserve]

\* Every token is backed: the supply is what the holders have, and what the
\* reserves of the kiosks add up to, whoever burns against which kiosk.
SupplyIsReserve ==
  /\ totalSupply = totalReserve
  /\ totalSupply = SumFunction(balanceOf)
  /\ totalReserve = SumFunction(Reserves)

\* What a holder sends in a day while a limit is in force stays within the
\* highest limit of that day, over midnights, changes of the limit and times
\* without one.
WithinDailyLimit == \A h \in Holder : sent[h] <= highest

\* A redeemAll that nobody disturbed leaves its customer at most what the kiosks
\* hold that the backend does not know: however the cash is spread over the
\* boxes, the tokens it leaves are backed by those, and by nothing else.  With
\* all cash in known kiosks that is no token at all.
RedeemedInFull ==
  \A r \in Run : run[r].pc = "done" /\ run[r].alone =>
    balanceOf[run[r].user] <= SumFunctionOnSet(Reserves, Unknown)

\* The withdrawals on record never claim more burned tokens than were burned,
\* whatever reverted, was lost or ran at the same time.
RecordedWasBurned == \A h \in Holder : unrecorded[h] >= 0
=============================================================================
