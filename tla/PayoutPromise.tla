--------------------------- MODULE PayoutPromise ---------------------------
(***************************************************************************)
(* What closing a position promises its customer, whatever happens inside: *)
(* a payout is fixed once, paid at most once and with the fixed value, and *)
(* the position is closed only then.                                       *)
(***************************************************************************)
EXTENDS Integers

CONSTANTS Position, Value, NoValue, Transaction

VARIABLES phase, owed,
          received  \* the payments made, each with the name of its transaction

Init ==
  /\ phase = [p \in Position |-> "open"]
  /\ owed = [p \in Position |-> NoValue]
  /\ received = [p \in Position |-> {}]

Fix(p) ==
  /\ phase[p] = "open"
  /\ phase' = [phase EXCEPT ![p] = "fixed"]
  /\ \E v \in Value : owed' = [owed EXCEPT ![p] = v]
  /\ UNCHANGED received

Pay(p) ==
  /\ phase[p] = "fixed" /\ owed[p] # 0
  /\ phase' = [phase EXCEPT ![p] = "paid"]
  /\ \E i \in Transaction : received' = [received EXCEPT ![p] = {<<i, owed[p]>>}]
  /\ UNCHANGED owed

Close(p) ==
  /\ phase[p] = "paid" \/ (phase[p] = "fixed" /\ owed[p] = 0)
  /\ phase' = [phase EXCEPT ![p] = "closed"]
  /\ UNCHANGED <<owed, received>>

Next == \E p \in Position : Fix(p) \/ Pay(p) \/ Close(p)

Spec == Init /\ [][Next]_<<phase, owed, received>>
=============================================================================
