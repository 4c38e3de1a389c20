------------------------------- MODULE Bridge -------------------------------
(***************************************************************************)
(* CCTP transfers between the chains Takarabako runs on                    *)
(* (backend/src/bridge.ts, cctp.ts, routes/bridgeRoutes.ts).  A transfer is*)
(* a row of bridge_transfers driven by advanceTransfer, which reads the    *)
(* row once and then works on its own copy `t`.  Two runs of it may be on  *)
(* the same transfer: the one POST /bridge (or an operator's rebalance)    *)
(* starts, and the worker's, whose `advancing` flag guards only the worker *)
(* itself: a tick takes the oldest rows that are not finished, no more than*)
(* the limit of its query, and one after the other.                        *)
(*                                                                         *)
(* The four transactions of a transfer are its legs.  A transaction is     *)
(* named by its position among those of its leg; `of` is the burn whose    *)
(* CCTP message a mint relays.  Balances and amounts are left out: a       *)
(* treasury that holds too little is one of the ways a step throws.        *)
(***************************************************************************)
EXTENDS Integers, Sequences, FiniteSets

CONSTANTS Transfer,    \* ids of bridge_transfers
          Kinds,       \* the kinds that are created: customer, treasury
          BatchLimit,  \* how many transfers a tick of the worker selects
          MaxTx,       \* bound: transactions of one leg
          MaxFaults    \* bound: crashes, transactions that revert for reasons of their
                       \* own, and errors of Postgres, the nodes and Circle

ASSUME BridgeAssumption ==
  /\ Kinds \subseteq {"customer", "treasury"}
  /\ BatchLimit \in Nat \ {0}
  /\ MaxTx \in Nat /\ MaxFaults \in Nat

VARIABLES kind,     \* bridge_transfers.kind, "none" before the insert
          row,      \* its state, stored hashes and attested message
          run,      \* the advanceTransfer runs
          chain,    \* the transactions broadcast for each leg
          relayed,  \* the burns whose CCTP message somebody else has relayed
          older,    \* the transfers created before each, by created_at
          batch,    \* the transfers the worker's tick has still to take
          overlap,  \* history: two runs were on the transfer at once
          lost,     \* history: a broadcast hash never reached Postgres
          faults

queueVars == <<older, batch>>
vars == <<kind, row, run, chain, relayed, queueVars, overlap, lost, faults>>

Caller == {"starter", "worker"}
Leg == {"withdraw", "burn", "mint", "credit"}
State == {"created", "withdrawn", "burned", "attested", "minted", "credited", "failed"}
NoHash == 0
NoHashes == [g \in Leg |-> NoHash]
NewRow == [state |-> "created", hash |-> NoHashes, message |-> NoHash]
\* pc of a run; state, hash and message are its copy of the row, sent the hash
\* it has just been given.
OffRun == [pc |-> "off", state |-> "created", hash |-> NoHashes, message |-> NoHash, sent |-> NoHash]
Pc == {"off", "read", "reread", "send", "store", "wait", "save", "attest", "catch"}
TxStatus == {"pending", "success", "reverted"}
Tx == [status : TxStatus, of : Nat]

TypeOK ==
  /\ kind \in [Transfer -> {"none", "customer", "treasury"}]
  /\ row \in [Transfer -> [state : State, hash : [Leg -> Nat], message : Nat]]
  /\ run \in [Transfer -> [Caller -> [pc : Pc, state : State, hash : [Leg -> Nat], message : Nat, sent : Nat]]]
  /\ chain \in [Transfer -> [Leg -> Seq(Tx)]]
  /\ relayed \in [Transfer -> SUBSET Nat]
  /\ older \in [Transfer -> SUBSET Transfer] /\ batch \in SUBSET Transfer
  /\ overlap \in [Transfer -> BOOLEAN]
  /\ lost \in [Transfer -> BOOLEAN]
  /\ faults \in 0..MaxFaults

Init ==
  /\ kind = [x \in Transfer |-> "none"]
  /\ row = [x \in Transfer |-> NewRow]
  /\ run = [x \in Transfer |-> [c \in Caller |-> OffRun]]
  /\ chain = [x \in Transfer |-> [g \in Leg |-> <<>>]]
  /\ relayed = [x \in Transfer |-> {}]
  /\ older = [x \in Transfer |-> {}] /\ batch = {}
  /\ overlap = [x \in Transfer |-> FALSE]
  /\ lost = [x \in Transfer |-> FALSE]
  /\ faults = 0

-----------------------------------------------------------------------------
\* Where advanceTransfer is, given its copy of the state.

Stage(k, s) ==
  CASE s = "created"   -> IF k = "customer" THEN "withdraw" ELSE "burn"
    [] s = "withdrawn" -> "burn"
    [] s = "burned"    -> "attest"
    [] s = "attested"  -> "mint"
    [] s = "minted"    -> IF k = "customer" THEN "credit" ELSE "done"
    [] OTHER           -> "done"

StateAfter(g) ==
  CASE g = "withdraw" -> "withdrawn"
    [] g = "burn"     -> "burned"
    [] g = "attest"   -> "attested"
    [] g = "mint"     -> "minted"
    [] g = "credit"   -> "credited"

\* A leg is skipped to its wait when its hash is already stored.
AlwaysSend(g, h) == "send"
SendOrWait(g, h) == IF h[g] = NoHash THEN "send" ELSE "wait"

\* The hashes of its copy that a run in state s may still look at; the mint's
\* is read again, and a copy forgets the others.
Ahead(s) ==
  CASE s = "created"                -> {"withdraw", "burn", "credit"}
    [] s \in {"withdrawn", "burned"} -> {"burn", "credit"}
    [] OTHER                        -> {"credit"}

\* The run that goes on with copy r of the row: the mint reads its columns
\* again, a finished transfer returns.
Entering(k, r) ==
  LET g == Stage(k, r.state)
      h == [e \in Leg |-> IF e \in Ahead(r.state) THEN r.hash[e] ELSE NoHash]
      at(pc) == [r EXCEPT !.pc = pc, !.hash = h, !.message = NoHash]
  IN CASE g = "done"   -> OffRun
       [] g = "attest" -> at("attest")
       [] g = "mint"   -> at("reread")
       [] OTHER        -> at(SendOrWait(g, h))

LegOf(x, c) == Stage(kind[x], run[x][c].state)

Goto(x, c, r) == run' = [run EXCEPT ![x][c] = r]
Throws(x, c) == Goto(x, c, [run[x][c] EXCEPT !.pc = "catch"])
Fault == faults < MaxFaults /\ faults' = faults + 1

-----------------------------------------------------------------------------
\* Starting runs

\* createTransfer, and the run its caller starts at once.
Create(x, k) ==
  /\ kind[x] = "none"
  /\ kind' = [kind EXCEPT ![x] = k]
  /\ older' = [older EXCEPT ![x] = {y \in Transfer : kind[y] # "none"}]
  /\ Goto(x, "starter", [OffRun EXCEPT !.pc = "read"])
  /\ UNCHANGED <<row, chain, relayed, batch, overlap, lost, faults>>

Unfinished(x) ==
  /\ kind[x] # "none"
  /\ row[x].state \notin {"credited", "failed"}
  /\ ~(kind[x] = "treasury" /\ row[x].state = "minted")

\* The worker's query: order by created_at, limit 20. Mutant: the newest first.
Newest(S) == {x \in S : Cardinality({y \in S : x \in older[y]}) < BatchLimit}
Oldest(S) == {x \in S : Cardinality(older[x] \cap S) < BatchLimit}

WorkerIdle == \A x \in Transfer : run[x]["worker"].pc = "off"

Tick ==
  /\ WorkerIdle /\ batch = {}
  /\ \E x \in Transfer : Unfinished(x)
  /\ batch' = Oldest({x \in Transfer : Unfinished(x)})
  /\ UNCHANGED <<kind, row, run, chain, relayed, older, overlap, lost, faults>>

\* The tick takes its transfers one after the other, whoever else is on them.
WorkerTakes(x) ==
  /\ WorkerIdle
  /\ x \in batch /\ older[x] \cap batch = {}
  /\ batch' = batch \ {x}
  /\ Goto(x, "worker", [OffRun EXCEPT !.pc = "read"])
  /\ overlap' = [overlap EXCEPT ![x] = @ \/ run[x]["starter"].pc # "off"]
  /\ UNCHANGED <<kind, row, chain, relayed, older, lost, faults>>

-----------------------------------------------------------------------------
\* advanceTransfer

ReadRow(x, c) ==
  /\ run[x][c].pc = "read"
  /\ Goto(x, c, Entering(kind[x], [run[x][c] EXCEPT !.state = row[x].state, !.hash = row[x].hash]))
  /\ UNCHANGED <<kind, row, chain, relayed, queueVars, overlap, lost, faults>>

\* Step 4 reads message, attestation and mint_tx again.
RereadRow(x, c) ==
  /\ run[x][c].pc = "reread"
  /\ LET h == [run[x][c].hash EXCEPT !["mint"] = row[x].hash["mint"]] IN
     Goto(x, c, [run[x][c] EXCEPT !.pc = SendOrWait("mint", h), !.hash = h, !.message = row[x].message])
  /\ UNCHANGED <<kind, row, chain, relayed, queueVars, overlap, lost, faults>>

Received(x, m) ==
  \/ m \in relayed[x]
  \/ \E i \in DOMAIN chain[x]["mint"] :
       chain[x]["mint"][i].status = "success" /\ chain[x]["mint"][i].of = m

\* Gas estimation refuses to relay a message that was received.
MayBroadcast(x, c) == LegOf(x, c) = "mint" => ~Received(x, run[x][c].message)

Broadcast(x, c) ==
  /\ run[x][c].pc = "send"
  /\ MayBroadcast(x, c)
  /\ Len(chain[x][LegOf(x, c)]) < MaxTx
  /\ chain' = [chain EXCEPT ![x][LegOf(x, c)] = Append(@, [status |-> "pending", of |-> run[x][c].message])]

Send(x, c) ==
  /\ Broadcast(x, c)
  /\ Goto(x, c, [run[x][c] EXCEPT !.pc = "store", !.sent = Len(chain[x][LegOf(x, c)]) + 1])
  /\ UNCHANGED <<kind, row, relayed, queueVars, overlap, lost, faults>>

\* "nonce already used": the message was received, so the transfer is minted.
AlreadyReceived(x, c) ==
  /\ run[x][c].pc = "send"
  /\ ~MayBroadcast(x, c)
  /\ Goto(x, c, [run[x][c] EXCEPT !.pc = "save"])
  /\ UNCHANGED <<kind, row, chain, relayed, queueVars, overlap, lost, faults>>

\* save(id, { .._tx: hash }): stored before waiting.
StoreHash(x, c) ==
  /\ run[x][c].pc = "store"
  /\ LET g == LegOf(x, c) IN
     /\ row' = [row EXCEPT ![x].hash[g] = run[x][c].sent]
     /\ Goto(x, c, [run[x][c] EXCEPT !.pc = "wait", !.hash[g] = run[x][c].sent, !.sent = NoHash])
  /\ UNCHANGED <<kind, chain, relayed, queueVars, overlap, lost, faults>>

StatusOf(x, c) == chain[x][LegOf(x, c)][run[x][c].hash[LegOf(x, c)]].status

\* waitForTx returns on success and throws on a reverted receipt.
WaitEnds(x, c) ==
  /\ run[x][c].pc = "wait"
  /\ \/ StatusOf(x, c) = "success" /\ Goto(x, c, [run[x][c] EXCEPT !.pc = "save"])
     \/ StatusOf(x, c) = "reverted" /\ Throws(x, c)
  /\ UNCHANGED <<kind, row, chain, relayed, queueVars, overlap, lost, faults>>

\* save(id, { state }), whatever the row says by now, and on to the next step.
SaveState(x, c) ==
  /\ run[x][c].pc = "save"
  /\ LET s == StateAfter(LegOf(x, c)) IN
     /\ row' = [row EXCEPT ![x].state = s]
     /\ Goto(x, c, Entering(kind[x], [run[x][c] EXCEPT !.state = s]))
  /\ UNCHANGED <<kind, chain, relayed, queueVars, overlap, lost, faults>>

\* fetchAttestation of the burn the run knows: not ready yet, so return ...
NotAttested(x, c) ==
  /\ run[x][c].pc = "attest"
  /\ Fault
  /\ Goto(x, c, OffRun)
  /\ UNCHANGED <<kind, row, chain, relayed, queueVars, overlap, lost>>

\* ... or ready: message, attestation and state are saved together.
BurnNotChecked(x, h) == TRUE
BurnConfirmed(x, h) == chain[x]["burn"][h].status = "success"
Attested(x, c) ==
  /\ run[x][c].pc = "attest"
  /\ LET h == run[x][c].hash["burn"] IN
     /\ h # NoHash
     /\ BurnConfirmed(x, h)
     /\ row' = [row EXCEPT ![x].state = "attested", ![x].message = h]
  /\ Goto(x, c, Entering(kind[x], [run[x][c] EXCEPT !.state = "attested"]))
  /\ UNCHANGED <<kind, chain, relayed, queueVars, overlap, lost, faults>>

\* A step fails: nothing was sent, the answer to a broadcast or to the store of
\* its hash was lost, or a receipt did not come in time.
StepFails(x, c) ==
  /\ run[x][c].pc \in {"reread", "send", "store", "wait", "save", "attest"}
  /\ Fault
  /\ Throws(x, c)
  /\ lost' = [lost EXCEPT ![x] = @ \/ run[x][c].pc = "store"]
  /\ UNCHANGED <<kind, row, chain, relayed, queueVars, overlap>>

\* The read before the try, or the save in its catch, throws out of the run,
\* and out of the worker's tick if it is the worker's.
RunDies(x, c) ==
  /\ run[x][c].pc \in {"read", "catch"}
  /\ Fault
  /\ Goto(x, c, OffRun)
  /\ batch' = IF c = "worker" THEN {} ELSE batch
  /\ UNCHANGED <<kind, row, chain, relayed, older, overlap, lost>>

SendLosesReply(x, c) ==
  /\ Broadcast(x, c)
  /\ Fault
  /\ Throws(x, c)
  /\ lost' = [lost EXCEPT ![x] = TRUE]
  /\ UNCHANGED <<kind, row, relayed, queueVars, overlap>>

\* Give up only before anything left the customer's box, by the run's copy.
OnlyStateChecked(r) == r.state = "created"
SafeToGiveUp(r) == r.state = "created" /\ r.hash["withdraw"] = NoHash /\ r.hash["burn"] = NoHash

Catch(x, c) ==
  /\ run[x][c].pc = "catch"
  /\ row' = IF SafeToGiveUp(run[x][c]) THEN [row EXCEPT ![x].state = "failed"] ELSE row
  /\ Goto(x, c, OffRun)
  /\ UNCHANGED <<kind, chain, relayed, queueVars, overlap, lost, faults>>

-----------------------------------------------------------------------------
\* The chains and the process

Succeeded(x, g) == {i \in DOMAIN chain[x][g] : chain[x][g][i].status = "success"}
Pending(x, g, i) == i \in DOMAIN chain[x][g] /\ chain[x][g][i].status = "pending"
Decide(x, g, i, st) == chain' = [chain EXCEPT ![x][g][i].status = st]
Conflicts(x, g, i) == g = "mint" /\ Received(x, chain[x][g][i].of)

\* A second mint of a message reverts; anything else succeeds unless it is one
\* of the faults.
Mine(x, g, i) ==
  /\ Pending(x, g, i)
  /\ Decide(x, g, i, IF Conflicts(x, g, i) THEN "reverted" ELSE "success")
  /\ UNCHANGED <<kind, row, run, relayed, queueVars, overlap, lost, faults>>

Revert(x, g, i) ==
  /\ Pending(x, g, i) /\ ~Conflicts(x, g, i)
  /\ Fault
  /\ Decide(x, g, i, "reverted")
  /\ UNCHANGED <<kind, row, run, relayed, queueVars, overlap, lost>>

\* Anyone may relay a message that Circle has signed.
Relay(x, i) ==
  /\ i \in Succeeded(x, "burn") /\ ~Received(x, i)
  /\ relayed' = [relayed EXCEPT ![x] = @ \cup {i}]
  /\ UNCHANGED <<kind, row, run, chain, queueVars, overlap, lost, faults>>

Crash ==
  /\ Fault
  /\ run' = [x \in Transfer |-> [c \in Caller |-> OffRun]]
  /\ batch' = {}
  /\ lost' = [x \in Transfer |-> lost[x] \/ \E c \in Caller : run[x][c].pc = "store"]
  /\ UNCHANGED <<kind, row, chain, relayed, older, overlap>>

Advance(x, c) ==
  \/ ReadRow(x, c) \/ RereadRow(x, c) \/ Send(x, c) \/ AlreadyReceived(x, c) \/ StoreHash(x, c)
  \/ WaitEnds(x, c) \/ SaveState(x, c) \/ Attested(x, c) \/ Catch(x, c)

Failure(x, c) == NotAttested(x, c) \/ StepFails(x, c) \/ SendLosesReply(x, c) \/ RunDies(x, c)

Next ==
  \/ \E x \in Transfer :
       \/ \E k \in Kinds : Create(x, k)
       \/ WorkerTakes(x)
       \/ \E c \in Caller : Advance(x, c) \/ Failure(x, c)
       \/ \E g \in Leg, i \in 1..MaxTx : Mine(x, g, i) \/ Revert(x, g, i)
       \/ \E i \in 1..MaxTx : Relay(x, i)
  \/ Tick
  \/ Crash

Spec == Init /\ [][Next]_vars

\* The event loop serves every run, the worker's interval keeps firing and its
\* tick goes through the batch, and the chains decide every transaction.  Nothing
\* is fair about failures, reverts, relays by others or crashes.
Fairness ==
  /\ WF_vars(Tick)
  /\ WF_vars(\E x \in Transfer : WorkerTakes(x))
  /\ \A x \in Transfer :
       /\ \A c \in Caller : WF_vars(Advance(x, c))
       /\ WF_vars(\E g \in Leg, i \in 1..MaxTx : Mine(x, g, i))

FairSpec == Spec /\ Fairness

-----------------------------------------------------------------------------
\* Properties

\* The destination chain has minted, whoever relayed the message.
Minted(x) == Succeeded(x, "mint") # {} \/ relayed[x] # {}

\* Whatever overlaps, fails or crashes, no leg is even broadcast before the one
\* it depends on has succeeded, and no state is recorded before its leg has: a
\* box is never credited with money that did not leave the other one.
Backed ==
  \A x \in Transfer :
    /\ chain[x]["burn"] # <<>> /\ kind[x] = "customer" => Succeeded(x, "withdraw") # {}
    /\ \A i \in DOMAIN chain[x]["mint"] : chain[x]["mint"][i].of \in Succeeded(x, "burn")
    /\ chain[x]["credit"] # <<>> => Minted(x)
    /\ row[x].state = "credited" => Succeeded(x, "credit") # {}

\* Each leg is broadcast at most once, unless two runs overlapped or the hash
\* of a broadcast was lost before it was stored: those are the only causes, and
\* no other crash, error or retry repeats a leg.
OncePerLeg ==
  \A x \in Transfer : ~overlap[x] /\ ~lost[x] => \A g \in Leg : Len(chain[x][g]) <= 1

\* Likewise, a transfer is given up only if nothing was ever sent for it.
FailedIsUntouched ==
  \A x \in Transfer : ~overlap[x] /\ ~lost[x] /\ row[x].state = "failed" =>
    \A g \in Leg : chain[x][g] = <<>>

\* If none of its transactions reverts and no hash is lost, a transfer whose money
\* has left the box is finished in the end, whatever crashes or fails on the way:
\* credited, or minted for a rebalance.  What may keep it for ever is only the
\* worker's limit: so many older transfers that reverted, lost a hash or ran
\* twice and are never finished that a tick takes no other.
Finished(x) == row[x].state = "credited" \/ (kind[x] = "treasury" /\ row[x].state = "minted")
Reverted(x) == \E g \in Leg, i \in 1..MaxTx : i \in DOMAIN chain[x][g] /\ chain[x][g][i].status = "reverted"
Spoilt(x) == overlap[x] \/ lost[x] \/ Reverted(x)
Blocked(x) == Cardinality({y \in older[x] : Unfinished(y) /\ Spoilt(y)}) >= BatchLimit
Arrives ==
  \A x \in Transfer :
    \/ <>[]Blocked(x)
    \/ chain[x]["burn"] # <<>> ~> (Finished(x) \/ Spoilt(x))
=============================================================================
