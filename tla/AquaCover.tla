----------------------------- MODULE AquaCover -----------------------------
(***************************************************************************)
(* What keeps the strategies on Aqua payable (backend aqua.ts assertBacked,*)
(* ensureApprovals and its keeper, allowances.ts, guards.ts): Aqua pulls   *)
(* the token a swap pays out from the treasury's wallet, so the wallet     *)
(* must hold it and Aqua's allowance must let it.  Both are sized from the *)
(* aqua_positions rows, which an opening writes only when everything else  *)
(* is done; CustomerMoney has the openings.                                *)
(*                                                                         *)
(* One pair token stands for the two: ETH, as no USDC from the box comes in*)
(* to back it.  What a position is worth is what it could pay out of it.   *)
(* Swaps are left out.                                                     *)
(***************************************************************************)
EXTENDS Integers

CONSTANTS Reserve,         \* the token in the treasury's wallet
          Keeper, Nobody   \* (model values) the timer's run, and no run

ASSUME ReserveAssumption == Reserve \in Nat

VARIABLES allowance,  \* what Aqua may pull
          holder,     \* whose run of ensureApprovals has approvalLock
          need,       \* owed and extra, as that run has read them
          complete,   \* it could read every balance
          blind,      \* (ghost) it could not, or something was on its way to a row
          undercut,   \* (ghost) the last run was blind
          unchecked   \* (ghost) a backing check did not see all there was

coverVars == <<allowance, holder, need, complete, blind, undercut, unchecked>>
lockVars == <<allowance, holder, need, complete, blind, undercut>>

CoverTypeOK(runs) ==
  /\ allowance \in Nat /\ need \in Nat
  /\ holder \in runs \cup {Keeper, Nobody}
  /\ {complete, blind, undercut, unchecked} \subseteq BOOLEAN

CoverInit(owed) ==
  /\ allowance = owed
  /\ holder = Nobody /\ need = 0 /\ complete = TRUE
  /\ blind = FALSE /\ undercut = FALSE /\ unchecked = FALSE

\* allowanceAction: raised below 3/2 of the need, lowered above 8 of it when all
\* of the need could be read; either way to twice the need.
Raise(now, n) == now < (n * 3) \div 2
Lower(now, n, all) == all /\ now > n * 8
AllowanceFor(now, n, all) == IF Raise(now, n) \/ Lower(now, n, all) THEN n * 2 ELSE now

\* assertBacked, which is skipped when a balance could not be read.
Backed(owed, extra, all) == ~all \/ owed + extra <= Reserve

SeeCover(all, onTheWay) == unchecked' = (unchecked \/ ~all \/ onTheWay)

\* What the open rows owe and what is about to be shipped.
NeedOfNew(owed, extra) == extra
NeedOf(owed, extra) == owed + extra

\* A run of ensureApprovals gets the lock and reads the rows and their balances.
ReadNeed(who, owed, extra, onTheWay) ==
  /\ holder = Nobody
  /\ holder' = who
  /\ need' = NeedOf(owed, extra) /\ complete' = TRUE
  /\ blind' = onTheWay
  /\ UNCHANGED <<allowance, undercut, unchecked>>

\* The rows or their balances do not answer: what it adds up is less.
ReadPart(who, extra) ==
  /\ holder = Nobody
  /\ holder' = who
  /\ need' = extra /\ complete' = FALSE
  /\ blind' = TRUE
  /\ UNCHANGED <<allowance, undercut, unchecked>>

\* ensureAllowance: the approve, when one is called for, is mined.
SetAllowance(who) ==
  /\ holder = who
  /\ allowance' = AllowanceFor(allowance, need, complete)
  /\ undercut' = blind
  /\ holder' = Nobody /\ need' = 0 /\ complete' = TRUE /\ blind' = FALSE
  /\ UNCHANGED unchecked

\* The run throws or its process dies, with the approve mined or not.
LoseRun ==
  /\ \/ /\ holder # Nobody
        /\ allowance' = AllowanceFor(allowance, need, complete) /\ undercut' = (undercut \/ blind)
     \/ UNCHANGED <<allowance, undercut>>
  /\ holder' = Nobody /\ need' = 0 /\ complete' = TRUE /\ blind' = FALSE
  /\ UNCHANGED unchecked

\* What is on Aqua can be paid: the wallet has it, unless a check passed next to
\* another opening or could not be made; and Aqua may pull it, unless the last
\* run sized the allowance next to an opening whose row was not there yet.
Payable(onAqua) ==
  /\ onAqua <= Reserve \/ unchecked
  /\ onAqua <= allowance \/ undercut
=============================================================================
