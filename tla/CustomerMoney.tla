--------------------------- MODULE CustomerMoney ---------------------------
(***************************************************************************)
(* What one customer does with the money of their box, and the daily limit *)
(* all of it counts against: a send to another customer (transfers.ts), a  *)
(* position on Aqua (yieldPositions.ts, aqua.ts openPosition), a bridge    *)
(* transfer (routes/bridgeRoutes.ts), a tkCASH send signed in the wallet   *)
(* (routes/walletRoutes.ts) and a withdrawal of everything                 *)
(* (routes/withdraw.ts).  Every one asks limits.ts first and, the bridge   *)
(* apart, writes the row that the limit adds up when the money has moved.  *)
(*                                                                         *)
(* How each chain transaction is settled is the business of Withdrawals,   *)
(* AquaClose, Bridge and CashReceipt: here it works, fails with nothing    *)
(* done, or is done and reported as failed, and a bridge's may go twice.   *)
(***************************************************************************)
EXTENDS AquaCover, FiniteSets, Functions

CONSTANTS Chain,     \* chains with a box
          Primary,   \* the chain of the Aqua positions
          Errand,    \* requests the customer makes
          Start,     \* dollars in each box, in tkCASH and on Aqua at first
          Limit,     \* DAILY_LIMIT_USD
          MaxFaults, \* bound: failed calls, restarts, notes and midnights

          Unasked, Over \* (model values) a request not made yet, and one answered

ASSUME ChainAssumption == Primary \in Chain /\ IsFiniteSet(Chain) /\ IsFiniteSet(Errand)
\* What is on Aqua at first is backed.
ASSUME NumberAssumption ==
  /\ Start \in Nat /\ Limit \in Nat \ {0} /\ MaxFaults \in Nat
  /\ Start <= Reserve

VARIABLES box,      \* the customer's vault value on a chain
          position, \* dollars in open aqua_positions rows
          live,     \* dollars a request has on Aqua without a row
          wallet,   \* tkCASH in the customer's wallet
          cash,     \* deposits rows created today
          kind, from, amt, \* what a request asks for
          at,       \* where it stands
          todo,     \* chains its withdrawal has still to visit
          read,     \* vault value its current leg has read
          paid,     \* dollars it moved
          written,  \* dollars of the rows it wrote
          took,     \* (ghost) dollars that left today, a bridge's with its row
          rowed,    \* the part of written that counts today
          hold,     \* the customer's dollars the treasury holds for it
          raced,    \* (ghost) a check did not see all that moves
          failures, \* (ghost) failures of an opening's shipping and of its undo
          cut,      \* (ghost) requests cut off between two steps
          faults

moneyVars == <<box, position, live, wallet, cash>>
askVars == <<kind, from, amt>>
legVars == <<todo, read>>
tallyVars == <<paid, written, took, rowed>>
ghostVars == <<raced, failures, cut>>
customerVars == <<moneyVars, askVars, at, legVars, tallyVars, hold, ghostVars, coverVars, faults>>

Kind == {"send", "open", "bridge", "tk", "withdraw"}
Step == {"asked", "checked", "backed", "approving", "approved", "taken", "shipping",
         "shipped", "undo", "delivered", "moving", "signed", "legs", "paying", "noting"}
Opening == {"backed", "approving", "approved", "taken", "shipping", "shipped", "undo"}

ASSUME NameAssumption ==
  /\ Unasked # Over /\ {Unasked, Over} \cap Step = {}
  /\ Keeper # Nobody /\ {Keeper, Nobody} \cap Errand = {}

MoneyTypeOK ==
  /\ box \in [Chain -> Nat] /\ position \in Nat /\ wallet \in Nat /\ cash \in Nat
  /\ kind \in [Errand -> Kind] /\ from \in [Errand -> Chain] /\ amt \in [Errand -> Nat]
  /\ at \in [Errand -> Step \cup {Unasked, Over}]
  /\ todo \in [Errand -> SUBSET Chain] /\ read \in [Errand -> Nat]
  /\ \A tally \in {paid, written, took, rowed, hold, live, failures} : tally \in [Errand -> Nat]
  /\ raced \in BOOLEAN /\ cut \subseteq Errand
  /\ faults \in 0..MaxFaults
  /\ CoverTypeOK(Errand)

Zero == [r \in Errand |-> 0]

MoneyInit ==
  /\ box = [c \in Chain |-> Start] /\ position = Start /\ wallet = Start /\ cash = 0
  /\ kind = [r \in Errand |-> "send"] /\ from = [r \in Errand |-> Primary] /\ amt = Zero
  /\ at = [r \in Errand |-> Unasked]
  /\ todo = [r \in Errand |-> {}] /\ read = Zero
  /\ paid = Zero /\ written = Zero /\ took = Zero /\ rowed = Zero /\ hold = Zero
  /\ raced = FALSE /\ failures = Zero /\ cut = {}
  /\ live = Zero /\ CoverInit(Start)
  /\ faults = 0

-----------------------------------------------------------------------------
\* limits.ts

Total(f) == SumFunction(f)
NoBridgeUsed == cash + Total([r \in Errand |-> IF kind[r] = "bridge" THEN 0 ELSE rowed[r]])
Used == cash + Total(rowed)   \* usedToday
Left == IF Used < Limit THEN Limit - Used ELSE 0

\* Errand that passed the check and have not come to their row.
Active == {r \in Errand : at[r] \notin {Unasked, Over, "asked", "moving"}}

\* Errand that are over and moved more today than today's rows say.
Unrecorded == {r \in Errand : at[r] = Over /\ rowed[r] < took[r]}

-----------------------------------------------------------------------------
\* Steps of every request

Go(r, step) == at' = [at EXCEPT ![r] = step]
Moves(r, d) == paid' = [paid EXCEPT ![r] = @ + d] /\ took' = [took EXCEPT ![r] = @ + d]
Writes(r, d) == written' = [written EXCEPT ![r] = @ + d] /\ rowed' = [rowed EXCEPT ![r] = @ + d]
Fault == faults < MaxFaults /\ faults' = faults + 1
Failed(r) == Fault /\ failures' = [failures EXCEPT ![r] = @ + 1]
Cut(r) == Fault /\ cut' = cut \cup {r}

\* The request is read; a withdrawal asks for all there is in boxes and positions.
Ask(r, k, c, a) ==
  /\ at[r] = Unasked
  /\ kind' = [kind EXCEPT ![r] = k]
  /\ from' = [from EXCEPT ![r] = IF k = "open" THEN Primary ELSE c]
  /\ amt' = [amt EXCEPT ![r] = IF k = "withdraw" THEN Total(box) + position ELSE a]
  /\ Go(r, "asked")
  /\ UNCHANGED <<moneyVars, legVars, tallyVars, hold, ghostVars, faults>>

\* assertWithinLimit.
Check(r) ==
  /\ at[r] = "asked"
  /\ IF amt[r] <= Left
       THEN Go(r, "checked") /\ raced' = (raced \/ Active # {} \/ Unrecorded # {})
       ELSE Go(r, Over) /\ UNCHANGED raced
  /\ UNCHANGED <<moneyVars, askVars, legVars, tallyVars, hold, failures, cut, faults>>

\* withdrawUsdOnChain, the first act of a send and of an opening: refused when
\* the box holds less.
Ready(r) ==
  \/ kind[r] = "send" /\ at[r] = "checked"
  \/ kind[r] = "open" /\ at[r] = "approved"

Take(r) ==
  /\ Ready(r)
  /\ IF box[from[r]] < amt[r]
       THEN Go(r, Over) /\ UNCHANGED <<box, paid, took, hold>>
       ELSE /\ Go(r, "taken")
            /\ box' = [box EXCEPT ![from[r]] = @ - amt[r]]
            /\ Moves(r, amt[r]) /\ hold' = [hold EXCEPT ![r] = amt[r]]
  /\ UNCHANGED <<position, live, wallet, cash, askVars, legVars, written, rowed, ghostVars, faults>>

\* A chain call before or in the taking fails; the money may have left all the same.
TakeFails(r) ==
  /\ Ready(r)
  /\ Cut(r)
  /\ Go(r, Over)
  /\ \/ UNCHANGED <<box, paid, took, hold>>
     \/ /\ box[from[r]] >= amt[r]
        /\ box' = [box EXCEPT ![from[r]] = @ - amt[r]]
        /\ Moves(r, amt[r]) /\ hold' = [hold EXCEPT ![r] = amt[r]]
  /\ UNCHANGED <<position, live, wallet, cash, askVars, legVars, written, rowed, raced, failures>>

\* transfers, yield_events: the row of what has moved.  The opening reads the
\* price in between, so its row can fail with the feed as well as the database.
Record(r) ==
  /\ at[r] = "delivered"
  /\ Go(r, Over)
  /\ \/ Writes(r, amt[r]) /\ UNCHANGED faults
     \/ Fault /\ UNCHANGED <<written, rowed>>
  /\ UNCHANGED <<moneyVars, askVars, legVars, paid, took, hold, ghostVars>>

-----------------------------------------------------------------------------
\* sendBalance

\* depositOnChain into the other box: nothing is undone when it fails.
Give(r) ==
  /\ at[r] = "taken" /\ kind[r] = "send"
  /\ \/ Go(r, "delivered") /\ hold' = [hold EXCEPT ![r] = 0] /\ UNCHANGED faults
     \/ /\ Go(r, Over) /\ Fault
        /\ hold' \in {hold, [hold EXCEPT ![r] = 0]}
  /\ UNCHANGED <<moneyVars, askVars, legVars, tallyVars, ghostVars>>

-----------------------------------------------------------------------------
\* openPosition

\* Dollars on Aqua, and openings on their way to a row.
OnAqua == position + Total(live)
OnTheWay == {s \in Errand : kind[s] = "open" /\ (at[s] \in Opening \/ live[s] > 0)}

\* assertBacked, before any money leaves the box; without a price that two feeds
\* agree on (ethUsd) there is no opening.
Back(r) ==
  /\ at[r] = "checked" /\ kind[r] = "open"
  /\ \E all \in BOOLEAN :
       /\ IF all THEN UNCHANGED faults ELSE Fault
       /\ IF Backed(position, amt[r], all)
            THEN Go(r, "backed") /\ SeeCover(all, OnTheWay \ {r} # {})
            ELSE Go(r, Over) /\ UNCHANGED unchecked
  /\ UNCHANGED <<moneyVars, askVars, legVars, tallyVars, hold, ghostVars, lockVars>>

\* ensureApprovals with what this opening will ship.
AskApproval(r) ==
  /\ at[r] = "backed"
  /\ Go(r, "approving")
  /\ \/ ReadNeed(r, position, amt[r], OnTheWay \ {r} # {}) /\ UNCHANGED faults
     \/ ReadPart(r, amt[r]) /\ Fault
  /\ UNCHANGED <<moneyVars, askVars, legVars, tallyVars, hold, ghostVars>>

Approve(r) ==
  /\ at[r] = "approving"
  /\ \/ SetAllowance(r) /\ Go(r, "approved") /\ UNCHANGED faults
     \/ LoseRun /\ Go(r, Over) /\ Fault
  /\ UNCHANGED <<moneyVars, askVars, legVars, tallyVars, hold, ghostVars>>

\* startApprovalKeeper: the same with nothing extra, every five minutes.
KeeperReads ==
  /\ ReadNeed(Keeper, position, 0, OnTheWay # {})
  /\ UNCHANGED <<moneyVars, askVars, at, legVars, tallyVars, hold, ghostVars, faults>>

KeeperSets ==
  /\ SetAllowance(Keeper)
  /\ UNCHANGED <<moneyVars, askVars, at, legVars, tallyVars, hold, ghostVars, faults>>

\* The strategies are sent one by one, and waited for together.
Ship(r) ==
  /\ at[r] = "taken" /\ kind[r] = "open"
  /\ Go(r, "shipping") /\ live' = [live EXCEPT ![r] = amt[r]]
  /\ UNCHANGED <<box, position, wallet, cash, askVars, legVars, tallyVars, hold, ghostVars, faults>>

\* They are mined, or one is not.
Shipped(r) ==
  /\ at[r] = "shipping"
  /\ \/ Go(r, "shipped") /\ UNCHANGED <<live, faults, failures>>
     \/ Go(r, "undo") /\ Failed(r) /\ live' \in {live, [live EXCEPT ![r] = 0]}
  /\ UNCHANGED <<box, position, wallet, cash, askVars, legVars, tallyVars, hold, raced, cut>>

\* What was shipped is docked (failures are swallowed), and the money goes back
\* to the box; a refund that fails is logged.
KeepIt(r) == UNCHANGED <<box, paid, took, hold>>
Refund(r) ==
  /\ box' = [box EXCEPT ![from[r]] = @ + amt[r]]
  /\ paid' = [paid EXCEPT ![r] = 0] /\ took' = [took EXCEPT ![r] = 0]
  /\ hold' = [hold EXCEPT ![r] = 0]

DockShipped(r) ==
  /\ at[r] = "undo" /\ live[r] > 0
  /\ live' = [live EXCEPT ![r] = 0]
  /\ UNCHANGED <<box, position, wallet, cash, askVars, at, legVars, tallyVars, hold, ghostVars, faults>>

Undo(r) ==
  /\ at[r] = "undo"
  /\ Go(r, Over)
  /\ \/ live[r] = 0 /\ Refund(r) /\ UNCHANGED <<faults, failures>>
     \/ live[r] > 0 /\ Refund(r) /\ Fault /\ UNCHANGED failures
     \/ Failed(r) /\ UNCHANGED <<box, paid, took, hold>>
  /\ UNCHANGED <<position, live, wallet, cash, askVars, legVars, written, rowed, raced, cut>>

\* The aqua_positions row; nothing undoes the shipping when it is refused.
InsertRow(r) ==
  /\ at[r] = "shipped"
  /\ \/ /\ Go(r, "delivered")
        /\ position' = position + amt[r] /\ hold' = [hold EXCEPT ![r] = 0]
        /\ live' = [live EXCEPT ![r] = 0]
        /\ UNCHANGED <<faults, cut>>
     \/ Go(r, Over) /\ Cut(r) /\ UNCHANGED <<position, live, hold>>
  /\ UNCHANGED <<box, wallet, cash, askVars, legVars, tallyVars, raced, failures>>

-----------------------------------------------------------------------------
\* POST /bridge: the row comes first, the worker moves the money (Bridge)

CreateTransfer(r) ==
  /\ at[r] = "checked" /\ kind[r] = "bridge"
  /\ IF box[from[r]] >= amt[r]
       THEN /\ Go(r, "moving") /\ Writes(r, amt[r])
            /\ took' = [took EXCEPT ![r] = amt[r]]
       ELSE Go(r, Over) /\ UNCHANGED <<written, rowed, took>>
  /\ UNCHANGED <<moneyVars, askVars, legVars, paid, hold, ghostVars, faults>>

\* The box pays; a second time when a sent transaction was not stored, or the
\* request's own run and the worker's both send it.
BoxPays(r) ==
  /\ at[r] = "moving" /\ box[from[r]] >= amt[r]
  /\ box' = [box EXCEPT ![from[r]] = @ - amt[r]]
  /\ paid' = [paid EXCEPT ![r] = @ + amt[r]]
  /\ IF paid[r] = 0 THEN UNCHANGED <<took, faults>>
                    ELSE Fault /\ took' = [took EXCEPT ![r] = @ + amt[r]]
  /\ raced' = (raced \/ paid'[r] > amt[r])
  /\ UNCHANGED <<position, live, wallet, cash, askVars, at, legVars, written, rowed, hold, failures, cut>>

\* The transfer is over: it has paid, or it is marked failed and no longer
\* counts, which a lost answer to the sending can do to one that has paid.
Advance(r) ==
  /\ at[r] = "moving"
  /\ Go(r, Over)
  /\ \/ paid[r] > 0 /\ UNCHANGED <<written, rowed, took, faults>>
     \/ /\ written' = [written EXCEPT ![r] = 0]
        /\ rowed' = [rowed EXCEPT ![r] = 0]
        /\ IF paid[r] = 0 THEN took' = [took EXCEPT ![r] = 0] /\ UNCHANGED faults
                          ELSE Fault /\ UNCHANGED took
  /\ UNCHANGED <<moneyVars, askVars, legVars, paid, hold, ghostVars>>

-----------------------------------------------------------------------------
\* A tkCASH send: prepared, signed in the wallet, then confirmed

Sign(r) ==
  /\ at[r] = "checked" /\ kind[r] = "tk"
  /\ \/ wallet >= amt[r] /\ wallet' = wallet - amt[r] /\ Moves(r, amt[r]) /\ Go(r, "signed")
     \/ Go(r, Over) /\ UNCHANGED <<live, wallet, paid, took>>  \* the customer does not
  /\ UNCHANGED <<box, position, live, cash, askVars, legVars, written, rowed, hold, ghostVars, faults>>

\* confirmTkcashSend, as often as the page asks: "on conflict do nothing".
NewRow(r) == written[r] = 0

Confirm(r) ==
  /\ kind[r] = "tk" /\ paid[r] > 0 /\ at[r] \in {"signed", Over}
  /\ written[r] <= amt[r]
  /\ Go(r, Over)
  /\ IF NewRow(r) THEN Writes(r, amt[r]) ELSE UNCHANGED <<written, rowed>>
  /\ UNCHANGED <<moneyVars, askVars, legVars, paid, took, hold, ghostVars, faults>>

\* The page is closed before it.
NeverConfirmed(r) ==
  /\ at[r] = "signed"
  /\ Fault /\ Go(r, Over)
  /\ UNCHANGED <<moneyVars, askVars, legVars, tallyVars, hold, ghostVars>>

-----------------------------------------------------------------------------
\* POST /withdraw

\* closeAllForCustomer: the positions' value is in the box of the primary chain.
CloseAll(r) ==
  /\ at[r] = "checked" /\ kind[r] = "withdraw"
  /\ Go(r, "legs") /\ todo' = [todo EXCEPT ![r] = Chain]
  /\ box' = [box EXCEPT ![Primary] = @ + position] /\ position' = 0
  /\ UNCHANGED <<live, wallet, cash, askVars, read, tallyVars, hold, ghostVars, faults>>

\* withdrawAllOnChain reads the box of the next chain; an empty one is skipped.
ReadLeg(r) ==
  /\ at[r] = "legs"
  /\ \E c \in todo[r] :
       /\ from' = [from EXCEPT ![r] = c]
       /\ read' = [read EXCEPT ![r] = box[c]]
       /\ todo' = [todo EXCEPT ![r] = @ \ {c}]
       /\ Go(r, IF box[c] = 0 THEN "legs" ELSE "paying")
  /\ UNCHANGED <<moneyVars, kind, amt, tallyVars, hold, ghostVars, faults>>

\* Its transaction reverts when the shares are gone, which nobody looks at.
PayLeg(r) ==
  /\ at[r] = "paying"
  /\ \/ Go(r, "noting") /\ UNCHANGED faults
     \/ Go(r, Over) /\ Fault
  /\ IF box[from[r]] >= read[r]
       THEN box' = [box EXCEPT ![from[r]] = @ - read[r]] /\ Moves(r, read[r])
       ELSE UNCHANGED <<box, paid, took>>
  /\ raced' = (raced \/ paid'[r] > amt[r])
  /\ UNCHANGED <<position, live, wallet, cash, askVars, legVars, written, rowed, hold, failures, cut>>

\* recordWithdrawal, before the next chain is looked at.
NoNote(r) == UNCHANGED <<written, rowed>>
NoteIt(r) == Writes(r, read[r])

NoteLeg(r) ==
  /\ at[r] = "noting"
  /\ \/ NoteIt(r) /\ Go(r, "legs") /\ UNCHANGED faults
     \/ Fault /\ Go(r, Over) /\ UNCHANGED <<written, rowed>>
  /\ UNCHANGED <<moneyVars, askVars, legVars, paid, took, hold, ghostVars>>

LegsEnd(r) ==
  /\ at[r] = "legs"
  /\ \/ todo[r] = {} /\ UNCHANGED faults
     \/ Fault   \* a position or a chain answers with an error
  /\ Go(r, Over)
  /\ UNCHANGED <<moneyVars, askVars, legVars, tallyVars, hold, ghostVars>>

-----------------------------------------------------------------------------
\* The world

\* A note is confirmed: it counts against the limit but does not ask it.
DepositNote(c) ==
  /\ Fault
  /\ box' = [box EXCEPT ![c] = @ + 1] /\ cash' = cash + 1
  /\ UNCHANGED <<position, live, wallet, askVars, at, legVars, tallyVars, hold, ghostVars>>

\* Midnight in UTC.
Midnight ==
  /\ Fault
  /\ cash' = 0 /\ rowed' = Zero /\ took' = Zero
  /\ UNCHANGED <<box, position, live, wallet, askVars, at, legVars, paid, written, hold, ghostVars>>

\* The backend restarts: the requests it was at are gone, wallets and the
\* bridge's worker carry on.
Crash ==
  /\ Fault
  /\ at' = [r \in Errand |->
              IF at[r] \in {Unasked, "moving", "signed"} \/ (kind[r] = "tk" /\ at[r] = "checked")
                THEN at[r] ELSE Over]
  /\ cut' = cut \cup {r \in Errand : at'[r] # at[r]}
  /\ LoseRun
  /\ UNCHANGED <<moneyVars, askVars, legVars, tallyVars, hold, raced, failures>>

Cover ==
  \/ \E r \in Errand : Back(r) \/ AskApproval(r) \/ Approve(r)
  \/ KeeperReads \/ KeeperSets
  \/ Crash

Move ==
  \/ \E r \in Errand, k \in Kind, c \in Chain, a \in 1..Start : Ask(r, k, c, a)
  \/ \E r \in Errand :
       \/ Check(r) \/ Take(r) \/ TakeFails(r) \/ Record(r)
       \/ Give(r) \/ Ship(r) \/ Shipped(r) \/ DockShipped(r) \/ Undo(r) \/ InsertRow(r)
       \/ CreateTransfer(r) \/ BoxPays(r) \/ Advance(r)
       \/ Sign(r) \/ Confirm(r) \/ NeverConfirmed(r)
       \/ CloseAll(r) \/ ReadLeg(r) \/ PayLeg(r) \/ NoteLeg(r) \/ LegsEnd(r)
  \/ \E c \in Chain : DepositNote(c)
  \/ Midnight

MoneyNext == Cover \/ (Move /\ UNCHANGED coverVars)

MoneySpec == MoneyInit /\ [][MoneyNext]_customerVars

-----------------------------------------------------------------------------
\* Properties

\* The customer moves at most the daily limit in a day: every kind of request
\* counts what the others moved.  What can go over it is what no check saw: two
\* requests that pass their checks before either has written its row, a check
\* that passes when a dollar went without a row (a row that was lost, a transfer
\* marked failed that had paid), and a withdrawal or a bridge transfer that takes
\* more out of the boxes than it asked for.
LimitKept == Total(took) > Limit => raced

\* An opening that ends leaves none of the customer's dollars with the
\* treasury: they are back in the box or in a position's row.  It takes a
\* failure of the shipping and one of the refund, or a cut: a restart in between,
\* a withdrawal that is done but answered with an error, a row that is refused.
OpeningIsUndone ==
  \A r \in Errand :
    at[r] = Over /\ kind[r] = "open" /\ hold[r] > 0
      => failures[r] = 2 \/ r \in cut

\* One leg at most of a withdrawal is paid and not on record, wherever it
\* stops: a later chain that fails does not lose the rows of the earlier ones.
LegsOnRecord ==
  \A r \in Errand : kind[r] = "withdraw" => paid[r] <= written[r] + read[r]

\* Aqua can pull what the strategies it knows of may pay out, those of an opening
\* that is under way or was cut off included.
CanPayOut == Payable(OnAqua)
=============================================================================
