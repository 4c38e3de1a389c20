---------------------------- MODULE SelfCustody ----------------------------
(***************************************************************************)
(* Aqua positions a customer opens, closes and exits with their own wallet *)
(* (SelfCustodyPanel.tsx, routes/selfRoutes.ts, selfPositions.ts,          *)
(* selfCustody.ts, dashOut.ts, AquaPositionManager.sol): the backend       *)
(* prepares transactions and writes a row, the page has the wallet sign    *)
(* them one by one, the chain mines them when it likes, and the backend    *)
(* checks them on chain before the row moves on.                           *)
(*                                                                         *)
(* With a position manager one transaction opens all strategies and one    *)
(* closes them; without one the wallet ships and docks each by itself.     *)
(***************************************************************************)
EXTENDS Integers, FiniteSets

CONSTANTS Position,  \* self_positions rows
          Strategy,  \* the strategies of a position
          MaxBase,   \* bound: base token one position may hold
          MaxFaults  \* bound: refusals, reverts, lost calls and strange transfers

ASSUME StrategyAssumption == Strategy # {} /\ IsFiniteSet(Strategy) /\ IsFiniteSet(Position)
ASSUME BoundAssumption == MaxBase \in Nat /\ MaxFaults \in Nat

VARIABLES row,      \* self_positions.status ("none": no row)
          manager,  \* the position is held by the manager contract
          live,     \* strategies Aqua shows balances for
          shipped,  \* strategies whose opening transaction succeeded
          flying,   \* opening transactions that are sent and not mined
          opener,   \* the page that opens it
          signed,   \* strategies whose opening it has signed
          closer,   \* the page that closes it
          docks,    \* strategies it was given to dock
          undocked, \* those of them it has still to sign
          exiting,  \* it will sell what comes back
          base,     \* base token the position holds on Aqua
          held,     \* base token in the wallet
          before, expected, \* what closeAndSwap has read of the two
          back,     \* (ghost) base token the close gave back
          sold,     \* (ghost) base token it sold
          late,     \* (ghost) strategies that opened behind the check of a close
          strange,  \* (ghost) base token moved during an exit by others
          faults

rowVars == <<row, manager>>
aquaVars == <<live, shipped, flying, late>>
openVars == <<opener, signed>>
closeVars == <<closer, docks, undocked, exiting>>
baseVars == <<base, held, strange>>
exitVars == <<before, expected, back, sold>>
vars == <<rowVars, aquaVars, openVars, closeVars, baseVars, exitVars, faults>>

Opener == {"none", "signing", "sent", "writing", "unrecorded", "gone"}
Closer == {"none", "reading", "asking", "docking", "docked", "writing", "selling"}

TypeOK ==
  /\ row \in [Position -> {"none", "pending", "open", "closed"}]
  /\ manager \in [Position -> BOOLEAN]
  /\ \A f \in {live, shipped, flying, signed, docks, undocked, late} :
       f \in [Position -> SUBSET Strategy]
  /\ opener \in [Position -> Opener] /\ closer \in [Position -> Closer]
  /\ exiting \in [Position -> BOOLEAN]
  /\ \A f \in {base, before, expected, back, sold} : f \in [Position -> Nat]
  /\ held \in Nat /\ strange \in BOOLEAN
  /\ faults \in 0..MaxFaults

Empty == [p \in Position |-> {}]
Zero == [p \in Position |-> 0]

Init ==
  /\ row = [p \in Position |-> "none"] /\ manager \in [Position -> BOOLEAN]
  /\ live = Empty /\ shipped = Empty /\ flying = Empty /\ late = Empty
  /\ opener = [p \in Position |-> "none"] /\ signed = Empty
  /\ closer = [p \in Position |-> "none"] /\ docks = Empty /\ undocked = Empty
  /\ exiting = [p \in Position |-> FALSE]
  /\ base = Zero /\ held = 1 /\ strange = FALSE
  /\ before = Zero /\ expected = Zero /\ back = Zero /\ sold = Zero
  /\ faults = 0

Fault == faults < MaxFaults /\ faults' = faults + 1
Opens(p, state) == opener' = [opener EXCEPT ![p] = state]
Closes(p, state) == closer' = [closer EXCEPT ![p] = state]

-----------------------------------------------------------------------------
\* Opening

\* prepareOpen: the pending row, and the steps to sign.
PrepareOpen(p) ==
  /\ opener[p] = "none"
  /\ row' = [row EXCEPT ![p] = "pending"]
  /\ Opens(p, "signing")
  /\ UNCHANGED <<manager, aquaVars, signed, closeVars, baseVars, exitVars, faults>>

\* signAll: the wallet sends the next opening and does not wait for it.
Batches(p) == IF manager[p] THEN {Strategy} ELSE {{s} : s \in Strategy \ signed[p]}

SignOpen(p) ==
  /\ opener[p] = "signing"
  /\ \E batch \in Batches(p) :
       /\ signed' = [signed EXCEPT ![p] = @ \cup batch]
       /\ flying' = [flying EXCEPT ![p] = @ \cup batch]
       /\ Opens(p, IF signed'[p] = Strategy THEN "sent" ELSE "signing")
  /\ UNCHANGED <<rowVars, live, shipped, late, closeVars, baseVars, exitVars, faults>>

\* A signature is refused, or the page is left: its hashes are gone with it.
LeaveOpening(p) ==
  /\ opener[p] \in {"signing", "sent", "unrecorded"}
  /\ Fault
  /\ Opens(p, "gone")
  /\ UNCHANGED <<rowVars, aquaVars, signed, closeVars, baseVars, exitVars>>

\* The chain mines what is flying, one ship or the manager's open; it may revert.
\* Positions start in the quote token here: base token comes with trades.
Mine(p) ==
  /\ \E batch \in (IF manager[p] THEN {flying[p]} ELSE {{s} : s \in flying[p]}) \ {{}} :
       /\ flying' = [flying EXCEPT ![p] = @ \ batch]
       /\ \/ /\ live' = [live EXCEPT ![p] = @ \cup batch]
             /\ shipped' = [shipped EXCEPT ![p] = @ \cup batch]
             /\ late' = [late EXCEPT ![p] = IF row[p] = "closed" \/ closer[p] = "writing"
                                           THEN @ \cup batch ELSE @]
             /\ UNCHANGED faults
          \/ Fault /\ UNCHANGED <<live, shipped, late>>
  /\ UNCHANGED <<rowVars, openVars, closeVars, baseVars, exitVars>>

\* recordOpen: all steps are there and succeeded, and Aqua shows every strategy.
SomeSigned(p) == shipped[p] # {}
AllSigned(p) == signed[p] = Strategy /\ shipped[p] = Strategy

VerifyOpen(p) ==
  /\ opener[p] \in {"sent", "unrecorded"}
  /\ row[p] = "pending"
  /\ AllSigned(p)
  /\ live[p] = shipped[p]
  /\ Opens(p, "writing")
  /\ UNCHANGED <<rowVars, aquaVars, signed, closeVars, baseVars, exitVars, faults>>

\* ... and the update that finds the row pending still.
AnyRow(p) == TRUE
StillPending(p) == row[p] = "pending"

RecordOpen(p) ==
  /\ opener[p] = "writing"
  /\ row' = [row EXCEPT ![p] = IF StillPending(p) THEN "open" ELSE @]
  /\ Opens(p, "gone")
  /\ UNCHANGED <<manager, aquaVars, signed, closeVars, baseVars, exitVars, faults>>

\* The check fails, or its answer is lost: the page keeps what it needs to ask again.
RecordFails(p) ==
  /\ opener[p] \in {"sent", "writing"}
  /\ Fault
  /\ Opens(p, "unrecorded")
  /\ UNCHANGED <<rowVars, aquaVars, signed, closeVars, baseVars, exitVars>>

-----------------------------------------------------------------------------
\* Closing

Partial(p) == row[p] = "pending" /\ ~manager[p]

\* close(), or closeAndSwap, which first reads what the position holds, and the
\* wallet when a contract will pay it back.
StartClose(p, exit) ==
  /\ closer[p] = "none"
  /\ row[p] = "open" \/ Partial(p)
  /\ exit => row[p] = "open"
  /\ exiting' = [exiting EXCEPT ![p] = exit]
  /\ back' = [back EXCEPT ![p] = 0] /\ sold' = [sold EXCEPT ![p] = 0]
  /\ IF exit THEN expected' = [expected EXCEPT ![p] = base[p]] /\ Closes(p, "reading")
             ELSE Closes(p, "asking") /\ UNCHANGED expected
  /\ UNCHANGED <<rowVars, aquaVars, openVars, docks, undocked, baseVars, before, faults>>

ReadWallet(p) ==
  /\ closer[p] = "reading"
  /\ before' = [before EXCEPT ![p] = IF manager[p] THEN held ELSE 0]
  /\ Closes(p, "asking")
  /\ UNCHANGED <<rowVars, aquaVars, openVars, docks, undocked, exiting, baseVars, expected,
                 back, sold, faults>>

\* prepareClose: every strategy of an open position, those Aqua still shows of a
\* pending one; anything else is refused.
PrepareClose(p) ==
  /\ closer[p] = "asking"
  /\ LET todo == IF row[p] = "open" THEN Strategy ELSE IF Partial(p) THEN live[p] ELSE {}
     IN /\ docks' = [docks EXCEPT ![p] = todo] /\ undocked' = docks'
        /\ Closes(p, IF todo = {} THEN "none" ELSE "docking")
  /\ UNCHANGED <<rowVars, aquaVars, openVars, exiting, baseVars, exitVars, faults>>

\* A dock, or the manager's close, signed and mined.  With the last strategy the
\* base token is free; the manager's is back in the wallet.
SignDock(p) ==
  /\ closer[p] = "docking"
  /\ \E batch \in IF manager[p] THEN {Strategy} ELSE {{s} : s \in undocked[p]} :
       IF batch \subseteq live[p]
         THEN /\ live' = [live EXCEPT ![p] = @ \ batch]
              /\ undocked' = [undocked EXCEPT ![p] = @ \ batch]
              /\ Closes(p, IF undocked'[p] = {} THEN "docked" ELSE "docking")
              /\ IF live'[p] = {}
                   THEN /\ base' = [base EXCEPT ![p] = 0]
                        /\ back' = [back EXCEPT ![p] = base[p]]
                        /\ held' = IF manager[p] THEN held + base[p] ELSE held
                        /\ strange' = (strange \/ \E q \in Position \ {p} :
                                         manager[p] /\ exiting[q] /\ base[p] > 0)
                   ELSE UNCHANGED <<base, back, held, strange>>
         ELSE Closes(p, "none") /\ UNCHANGED <<live, undocked, base, back, held, strange>>
  /\ UNCHANGED <<rowVars, shipped, flying, late, openVars, docks, exiting, before, expected,
                 sold, faults>>

\* The page is left or a call fails: close() keeps no hashes to ask again with.
LeaveClosing(p) ==
  /\ closer[p] \in {"reading", "asking", "docking", "docked", "selling"}
  /\ Fault
  /\ Closes(p, "none") /\ exiting' = [exiting EXCEPT ![p] = FALSE]
  /\ UNCHANGED <<rowVars, aquaVars, openVars, docks, undocked, baseVars, exitVars>>

\* recordClose: the docks are rebuilt and compared, and no strategy shows a
\* balance.
SomeEmpty(p) == live[p] # Strategy
NoneLive(p) == live[p] = {}

VerifyClose(p) ==
  /\ closer[p] = "docked"
  /\ \/ row[p] = "open" /\ docks[p] = Strategy
     \/ Partial(p)
  /\ NoneLive(p)
  /\ Closes(p, "writing")
  /\ UNCHANGED <<rowVars, aquaVars, openVars, docks, undocked, exiting, baseVars, exitVars, faults>>

\* It opened in between and the docks do not match, or Aqua still shows balances:
\* nothing is written.
RefuseClose(p) ==
  /\ closer[p] = "docked"
  /\ (row[p] = "open" /\ docks[p] # Strategy) \/ ~NoneLive(p)
  /\ Closes(p, "none") /\ exiting' = [exiting EXCEPT ![p] = FALSE]
  /\ UNCHANGED <<rowVars, aquaVars, openVars, docks, undocked, baseVars, exitVars, faults>>

\* The update, where status is open or pending.
RecordClose(p) ==
  /\ closer[p] = "writing"
  /\ row' = [row EXCEPT ![p] = IF @ \in {"open", "pending"} THEN "closed" ELSE @]
  /\ Closes(p, IF exiting[p] THEN "selling" ELSE "none")
  /\ UNCHANGED <<manager, aquaVars, openVars, docks, undocked, exiting, baseVars, exitVars, faults>>

-----------------------------------------------------------------------------
\* Selling what came back (closeAndSwap, prepareDashOut)

Least(a, b) == IF a < b THEN a ELSE b

\* What the wallet gained, or, where it was the maker, what the position held.
AllHeld(p) == held
Returned(p) == IF manager[p] THEN held - before[p] ELSE expected[p]

\* At most the wallet's balance is quoted; the fills may take less of it.
Sell(p) ==
  /\ closer[p] = "selling"
  /\ \E amount \in 0..(IF Returned(p) > 0 THEN Least(Returned(p), held) ELSE 0) :
       /\ sold' = [sold EXCEPT ![p] = amount]
       /\ held' = held - amount
       /\ strange' = (strange \/ \E q \in Position \ {p} : exiting[q] /\ amount > 0)
  /\ Closes(p, "none") /\ exiting' = [exiting EXCEPT ![p] = FALSE]
  /\ UNCHANGED <<rowVars, aquaVars, openVars, docks, undocked, base, before, expected, back, faults>>

-----------------------------------------------------------------------------
\* The world: trades against a live position, base token sent to the wallet

\* Trades move the base token of a position (and of the wallet that is its maker).
Trade(p, d) ==
  /\ live[p] # {}
  /\ base[p] + d \in 0..MaxBase
  /\ ~manager[p] => held + d >= 0
  /\ base' = [base EXCEPT ![p] = @ + d]
  /\ held' = IF manager[p] THEN held ELSE held + d
  /\ strange' = (strange \/ \E q \in Position : exiting[q])
  /\ Fault
  /\ UNCHANGED <<rowVars, aquaVars, openVars, closeVars, exitVars>>

Receive ==
  /\ Fault
  /\ held' = held + 1
  /\ strange' = (strange \/ \E q \in Position : exiting[q])
  /\ UNCHANGED <<rowVars, aquaVars, openVars, closeVars, base, exitVars>>

Next ==
  \/ \E p \in Position :
       \/ PrepareOpen(p) \/ SignOpen(p) \/ LeaveOpening(p) \/ Mine(p)
       \/ VerifyOpen(p) \/ RecordOpen(p) \/ RecordFails(p)
       \/ ReadWallet(p) \/ PrepareClose(p) \/ SignDock(p) \/ LeaveClosing(p)
       \/ VerifyClose(p) \/ RefuseClose(p) \/ RecordClose(p) \/ Sell(p)
       \/ \E exit \in BOOLEAN : StartClose(p, exit)
       \/ \E d \in {-1, 1} : Trade(p, d)
  \/ Receive

Spec == Init /\ [][Next]_vars

-----------------------------------------------------------------------------
\* Properties

\* A row says open only of a position whose every strategy the wallet opened on
\* chain: a signing that stopped halfway stays pending.
OpenIsWhole == \A p \in Position : row[p] = "open" => shipped[p] = Strategy

\* A closed row leaves nothing on Aqua, which its page would no longer show and
\* no request would close, except for an opening that was mined behind the check.
ClosedIsEmpty == \A p \in Position : row[p] = "closed" => live[p] \subseteq late[p]

\* Closed is final, although the check of an opening may end after a close.
ClosedIsFinal == [][\A p \in Position : row[p] = "closed" => row'[p] = "closed"]_vars

\* "Only what this position returned is sold, never the rest of the wallet", as
\* long as no trade, transfer or other close moves base token in the meantime.
OnlyReturnedIsSold == strange \/ \A p \in Position : sold[p] <= back[p]
=============================================================================
