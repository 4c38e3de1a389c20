---------------------------- MODULE Withdrawals ----------------------------
(***************************************************************************)
(* Money leaving a box (backend/src/chain.ts withdrawAllOnChain and        *)
(* sendWithdrawUsdTx, routes/withdraw.ts, transfers.ts sendBalance), on the*)
(* vault of one chain, beside deposits, the reserve's top-ups and changes  *)
(* of the interest rate.  A call is one request: "all" takes out           *)
(* everything, "send" moves an amount into another customer's box.  It     *)
(* reads the chain, sends a transaction built on what it read, waits, and  *)
(* records.  The treasury signs everything, so that transactions are mined *)
(* in the order they were sent.                                            *)
(*                                                                         *)
(* The daily limit may refuse a call before it starts; the closing of      *)
(* positions before a withdrawal is AquaClose, a deposit for this module,  *)
(* and the burning of tkCASH after it is CashReceipt.                      *)
(***************************************************************************)
EXTENDS Vault, Sequences

CONSTANTS Call,    \* the requests
          MaxTime, \* bound on time
          MaxIn    \* bound on what is deposited and given to the reserve

VARIABLES call,     \* each one's step, its customer, what it read and sent
          mempool   \* the calls whose transaction is out, in the order of nonces

vars == <<vaultVars, call, mempool>>

NotRead == -1
TxStatus == {"none", "pending", "success", "reverted"}
Pc == {"new", "read", "send", "wait", "credit", "waitcredit", "record", "done", "stopped"}

CallType ==
  [pc : Pc, kind : {"all", "send"}, u : User, to : User,
   wanted : Usdc \cup {0},           \* the amount of a send
   shares : Nat \cup {NotRead},     \* sharesOf, then the shares to burn
   value : Nat \cup {NotRead},      \* previewValue
   rate : Nat,                      \* history: the rate behind it
   mixed : BOOLEAN,                 \* history: the box changed between the two reads
   debit : TxStatus, credit : TxStatus,
   paid : Nat]                      \* history: what the vault paid out to the debit

TypeOK ==
  /\ VaultTypeOK
  /\ call \in [Call -> CallType]
  /\ mempool \in Seq(Call)

NewCalls(kind, amounts) ==
  {[pc |-> "new", kind |-> kind, u |-> u, to |-> to, wanted |-> a, shares |-> NotRead, value |-> NotRead,
    rate |-> 0, mixed |-> FALSE, debit |-> "none", credit |-> "none", paid |-> 0] :
     u \in User, to \in User, a \in amounts}

\* sendBalance refuses a send to oneself; an amount is positive.
Init ==
  /\ VaultInit
  /\ call \in [Call -> {q \in NewCalls("all", {0}) : q.to = q.u}
                       \cup {q \in NewCalls("send", Usdc \ {0}) : q.to # q.u}]
  /\ mempool = <<>>

-----------------------------------------------------------------------------
\* A call c at step pc goes on with the record q.
At(c, pc) == call[c].pc = pc
GoOn(c, q) == call' = [call EXCEPT ![c] = q]
Goto(c, pc) == GoOn(c, [call[c] EXCEPT !.pc = pc])

\* The calls between their reads of u's box have now read two states of it.
HalfRead(q) == q.pc = "read" /\ (q.shares # NotRead \/ q.value # NotRead)
Mixing(u) == [c \in Call |-> IF call[c].u = u /\ HalfRead(call[c]) THEN [call[c] EXCEPT !.mixed = TRUE] ELSE call[c]]

Start(c) ==
  /\ At(c, "new")
  /\ Goto(c, "read")
  /\ UNCHANGED <<vaultVars, mempool>>

\* An empty box ends a withdrawal here.
ReadShares(c) ==
  /\ At(c, "read") /\ call[c].shares = NotRead
  /\ LET next == IF call[c].kind = "all" /\ shares[call[c].u] = 0 THEN "done"
                 ELSE IF call[c].value = NotRead THEN "read" ELSE "send"
     IN GoOn(c, [call[c] EXCEPT !.shares = shares[call[c].u], !.pc = next])
  /\ UNCHANGED <<vaultVars, mempool>>

\* withdrawAllOnChain reads the value after the shares, sendWithdrawUsdTx both
\* at once.
ReadValue(c) ==
  /\ At(c, "read") /\ call[c].value = NotRead
  /\ call[c].kind = "all" => call[c].shares # NotRead
  /\ GoOn(c, [call[c] EXCEPT !.value = PreviewValue(call[c].u), !.rate = ProjectedExchangeRate,
                             !.pc = IF call[c].shares = NotRead THEN "read" ELSE "send"])
  /\ UNCHANGED <<vaultVars, mempool>>

\* The share of the box that is burned.
UnitsAsShares(q) == IF q.kind = "all" THEN q.shares ELSE q.wanted
Burn(q) ==
  IF q.kind = "all" \/ q.wanted = q.value THEN q.shares ELSE (q.shares * q.wanted) \div q.value

\* The gas estimate runs the transaction: one that would revert is not sent.
\* Without an answer the call ends, and the transaction is out.
SendDebit(c) ==
  /\ At(c, "send")
  /\ call[c].kind = "send" => call[c].wanted <= call[c].value
  /\ CanWithdraw(call[c].u, Burn(call[c]))
  /\ \E pc \in {"wait", "stopped"} :
       GoOn(c, [call[c] EXCEPT !.pc = pc, !.shares = Burn(call[c]), !.debit = "pending"])
  /\ mempool' = Append(mempool, c)
  /\ UNCHANGED vaultVars

\* withdrawAllOnChain takes any receipt, waitForTx a successful one.
Accepts(q) == q.kind = "all" \/ q.debit = "success"

WaitDebit(c) ==
  /\ At(c, "wait") /\ call[c].debit # "pending"
  /\ Goto(c, CASE ~Accepts(call[c]) -> "stopped"
               [] call[c].kind = "all" -> "record"
               [] OTHER -> "credit")
  /\ UNCHANGED <<vaultVars, mempool>>

\* depositOnChain, of the amount that was asked for.
SendCredit(c) ==
  /\ At(c, "credit")
  /\ \E pc \in {"waitcredit", "stopped"} : GoOn(c, [call[c] EXCEPT !.pc = pc, !.credit = "pending"])
  /\ mempool' = Append(mempool, c)
  /\ UNCHANGED vaultVars

WaitCredit(c) ==
  /\ At(c, "waitcredit") /\ call[c].credit # "pending"
  /\ Goto(c, IF call[c].credit = "success" THEN "record" ELSE "stopped")
  /\ UNCHANGED <<vaultVars, mempool>>

\* recordWithdrawal, of the value that was read, and transfers' record.
Record(c) ==
  /\ At(c, "record")
  /\ Goto(c, "done")
  /\ UNCHANGED <<vaultVars, mempool>>

\* A check, a read, a send, a wait or Postgres fails, or the process dies; what
\* the call has read is gone, and what it has sent is not.
Stops(c) ==
  /\ call[c].pc \notin {"new", "done", "stopped"}
  /\ IF call[c].debit = "none"
       THEN GoOn(c, [call[c] EXCEPT !.pc = "stopped", !.shares = NotRead, !.value = NotRead, !.rate = 0, !.mixed = FALSE])
       ELSE Goto(c, "stopped")
  /\ UNCHANGED <<vaultVars, mempool>>

-----------------------------------------------------------------------------
\* The chain

MineDebit(c, u) ==
  /\ call[c].debit = "pending" /\ call[c].u = u
  /\ \/ /\ WithdrawTo(u, call[c].shares)
        /\ call' = [Mixing(u) EXCEPT ![c] = [@ EXCEPT !.debit = "success", !.paid = ValueOf(call[c].shares)]]
     \/ GoOn(c, [call[c] EXCEPT !.debit = "reverted"]) /\ UNCHANGED vaultVars

MineCredit(c, u) ==
  /\ call[c].credit = "pending" /\ call[c].to = u
  /\ \/ DepositFor(u, call[c].wanted) /\ call' = [Mixing(u) EXCEPT ![c] = [@ EXCEPT !.credit = "success"]]
     \/ GoOn(c, [call[c] EXCEPT !.credit = "reverted"]) /\ UNCHANGED vaultVars

Mine ==
  /\ mempool # <<>>
  /\ \E u \in User : MineDebit(Head(mempool), u) \/ MineCredit(Head(mempool), u)
  /\ mempool' = Tail(mempool)

AllIn == SumFunction(paidIn) + funded

\* Notes are deposited, and the treasury acts on the vault.
Deposit(u) ==
  /\ \E amount \in Usdc : AllIn + amount <= MaxIn /\ DepositFor(u, amount)
  /\ call' = Mixing(u)
  /\ UNCHANGED mempool

Treasury ==
  /\ \/ \E amount \in Usdc : AllIn + amount <= MaxIn /\ FundYieldReserve(amount)
     \/ \E bps \in Apy : SetApyBps(bps)
     \/ now < MaxTime /\ Tick
  /\ UNCHANGED <<call, mempool>>

Step(c) ==
  \/ Start(c) \/ ReadShares(c) \/ ReadValue(c) \/ SendDebit(c) \/ WaitDebit(c)
  \/ SendCredit(c) \/ WaitCredit(c) \/ Record(c) \/ Stops(c)

Next == (\E c \in Call : Step(c)) \/ Mine \/ (\E u \in User : Deposit(u)) \/ Treasury

Spec == Init /\ [][Next]_vars

-----------------------------------------------------------------------------
\* Properties

\* Nothing is put into the other customer's box, or recorded as sent, before the
\* sender's box has paid, and they get the amount recorded.
CreditIsBacked ==
  \A c \in Call : call[c].kind = "send" =>
    /\ call[c].credit # "none" => call[c].debit = "success"
    /\ call[c].pc = "done" => call[c].credit = "success"

\* What the sender's box pays is what the other one gets, but for rounding (one
\* share and one unit) and what the shares gain after they were read, unless the
\* box changed between the reads.
Covered(q) ==
  /\ (q.wanted - q.paid - 1) * Ray < ProjectedExchangeRate
  /\ q.shares * q.rate <= (q.wanted + 1) * Ray
CreditIsCovered ==
  \A c \in Call : call[c].kind = "send" /\ call[c].debit = "success" /\ ~call[c].mixed => Covered(call[c])

\* A withdrawal whose transaction succeeded was paid at least what is recorded
\* and handed out, although time has passed since the value was read, unless the
\* box changed between the reads.
RecordedWasPaid ==
  \A c \in Call : call[c].kind = "all" /\ call[c].debit = "success" /\ ~call[c].mixed =>
    call[c].paid >= call[c].value

-----------------------------------------------------------------------------
\* The inductive invariant behind them (Withdrawals_proofs), of each call q.

\* A debit is not sent before its step, nor anything later before it succeeded.
Ordered(q) ==
  /\ q.pc \in {"new", "read", "send"} => q.debit = "none"
  /\ q.kind = "send" =>
       /\ q.credit # "none" \/ q.pc \in {"credit", "waitcredit", "record", "done"} => q.debit = "success"
       /\ q.pc \in {"record", "done"} => q.credit = "success"

\* The value read is that of s shares, at a rate of the past.
Quoted(q, s) == q.value = (s * q.rate) \div Ray /\ q.rate > 0
PastRate(q) == q.rate <= ProjectedExchangeRate

\* What a call has read is still true of its box,
Informed(q) ==
  /\ q.pc = "new" => q.shares = NotRead /\ q.value = NotRead
  /\ q.pc = "read" /\ ~q.mixed =>
       /\ q.shares # NotRead => q.shares = shares[q.u]
       /\ q.value # NotRead => q.kind = "send" /\ Quoted(q, shares[q.u])

\* was read of one state of it,
Prepared(q) == q.pc = "send" /\ ~q.mixed => q.shares # NotRead /\ Quoted(q, q.shares)

\* is burned accordingly,
Proportionate(q) == q.wanted * Ray < (q.shares + 1) * q.rate /\ q.shares * q.rate <= (q.wanted + 1) * Ray
Sent(q) ==
  q.debit = "pending" /\ ~q.mixed => IF q.kind = "all" THEN Quoted(q, q.shares) ELSE Proportionate(q)

\* and is paid.
Paid(q) ==
  q.debit = "success" /\ ~q.mixed => IF q.kind = "all" THEN q.paid >= q.value ELSE Covered(q)

Sound(q) == Ordered(q) /\ PastRate(q) /\ Informed(q) /\ Prepared(q) /\ Sent(q) /\ Paid(q)
IndInv == TypeOK /\ FairShare /\ \A c \in Call : Sound(call[c])
=============================================================================
