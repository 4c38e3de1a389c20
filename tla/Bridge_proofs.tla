---------------------------- MODULE Bridge_proofs ----------------------------
(***************************************************************************)
(* That a bridge transfer never does a leg before the one it depends on    *)
(* (Backed), and, as long as one run at a time is on it and no hash is     *)
(* lost, none twice (OncePerLeg) and gives up untouched ones only          *)
(* (FailedIsUntouched), for any number of transfers, runs and faults.      *)
(*                                                                         *)
(* Every action is about one transfer, so the invariant is a predicate of  *)
(* one: Sound(x) says that rows and runs know only what the chains have    *)
(* done, Alone(x) that an undisturbed run knows what the row says.         *)
(***************************************************************************)
EXTENDS Bridge, TLAPS

RunRecord == [pc : Pc, state : State, hash : [Leg -> Nat], message : Nat, sent : Nat]
RowRecord == [state : State, hash : [Leg -> Nat], message : Nat]

\* The steps of a leg's transaction.
Working == {"send", "store", "wait", "save"}

\* What state s, of the row or of a run's copy, says of the chains.
SaysTrue(x, s) ==
  /\ kind[x] = "customer" /\ s \in {"withdrawn", "burned", "attested", "minted", "credited"}
       => Succeeded(x, "withdraw") # {}
  /\ s \in {"attested", "minted", "credited"} => row[x].message \in Succeeded(x, "burn")
  /\ s \in {"minted", "credited"} => Minted(x)
  /\ s = "credited" => Succeeded(x, "credit") # {}

\* A leg that has succeeded; a mint may be somebody else's.
Done(x, g) == Succeeded(x, g) # {} \/ (g = "mint" /\ relayed[x] # {})

\* A row's hashes are those of transactions, and its state is true.
RowSound(x) ==
  /\ \A g \in Leg : row[x].hash[g] <= Len(chain[x][g])
  /\ SaysTrue(x, row[x].state)

\* The same of a run's copy; it waits for a transaction, and saves the state of
\* a leg that has succeeded.
RunSound(x, c) ==
  /\ \A g \in Leg : run[x][c].hash[g] <= Len(chain[x][g])
  /\ SaysTrue(x, run[x][c].state)
  /\ run[x][c].pc \in Working => LegOf(x, c) \in Leg
  /\ run[x][c].pc = "reread" => run[x][c].state = "attested"
  /\ run[x][c].pc = "attest" => run[x][c].state = "burned"
  /\ run[x][c].pc = "wait" => run[x][c].hash[LegOf(x, c)] # NoHash
  /\ run[x][c].pc = "store" => run[x][c].sent \in 1..Len(chain[x][LegOf(x, c)])
  /\ run[x][c].pc = "save" => Done(x, LegOf(x, c))
  /\ run[x][c].pc \in Working /\ LegOf(x, c) = "mint" => run[x][c].message \in Succeeded(x, "burn")

\* No leg is broadcast before the one it depends on has succeeded.
ChainSound(x) ==
  /\ chain[x]["burn"] # <<>> /\ kind[x] = "customer" => Succeeded(x, "withdraw") # {}
  /\ \A i \in DOMAIN chain[x]["mint"] : chain[x]["mint"][i].of \in Succeeded(x, "burn")
  /\ chain[x]["credit"] # <<>> => Minted(x)
  /\ relayed[x] \subseteq Succeeded(x, "burn")

\* Of a transfer that is not there yet there is nothing.
Blank(x) ==
  kind[x] = "none" =>
    /\ row[x] = NewRow
    /\ \A g \in Leg : chain[x][g] = <<>>
    /\ \A c \in Caller : run[x][c] = OffRun
    /\ x \notin batch

Sound(x) == RowSound(x) /\ (\A c \in Caller : RunSound(x, c)) /\ ChainSound(x) /\ Blank(x)

\* A run past its read knows the state of the row and the hashes it may look at.
CopyTrue(x, c) ==
  run[x][c].pc \notin {"off", "read"} =>
    /\ run[x][c].state = row[x].state
    /\ \A g \in Ahead(run[x][c].state) : run[x][c].hash[g] = row[x].hash[g]
    /\ run[x][c].pc = "send" => row[x].hash[LegOf(x, c)] = NoHash

\* With one run at a time and no hash lost, what was broadcast is in the row or
\* in the hand of the run that stores it.
Known(x) ==
  \A g \in Leg : /\ Len(chain[x][g]) <= 1
                 /\ chain[x][g] # <<>> =>
                      \/ row[x].hash[g] # NoHash
                      \/ \E c \in Caller : run[x][c].pc = "store" /\ LegOf(x, c) = g

Undisturbed(x) == ~overlap[x] /\ ~lost[x]
Orderly(x) ==
  /\ run[x]["starter"].pc = "off" \/ run[x]["worker"].pc = "off"
  /\ \A c \in Caller : CopyTrue(x, c)
  /\ Known(x)
  /\ row[x].state = "failed" =>
       /\ \A c \in Caller : run[x][c].pc \in {"off", "read"}
       /\ \A g \in Leg : chain[x][g] = <<>>

Alone(x) == Undisturbed(x) => Orderly(x)

IndInv == TypeOK /\ \A x \in Transfer : Sound(x) /\ Alone(x)

-----------------------------------------------------------------------------
\* Operators

\* What a run that goes on is.
LEMMA EnteringIs ==
  ASSUME NEW k \in {"customer", "treasury"}, NEW r \in RunRecord
  PROVE  \/ Entering(k, r) = OffRun
         \/ /\ Entering(k, r) \in RunRecord
            /\ Entering(k, r).state = r.state
            /\ \A g \in Leg : Entering(k, r).hash[g] = IF g \in Ahead(r.state) THEN r.hash[g] ELSE NoHash
            /\ \/ Entering(k, r).pc = "attest" /\ r.state = "burned"
               \/ Entering(k, r).pc = "reread" /\ r.state = "attested"
               \/ /\ Stage(k, r.state) \in {"withdraw", "burn", "credit"}
                  /\ Entering(k, r).pc = SendOrWait(Stage(k, r.state), Entering(k, r).hash)
<1> DEFINE h == [e \in Leg |-> IF e \in Ahead(r.state) THEN r.hash[e] ELSE NoHash]
           at(pc) == [r EXCEPT !.pc = pc, !.hash = h, !.message = NoHash]
<1>1. h \in [Leg -> Nat]
  BY DEF RunRecord, NoHash
<1>2. ASSUME NEW pc \in Pc
      PROVE  /\ at(pc) \in RunRecord /\ at(pc).pc = pc /\ at(pc).state = r.state
             /\ at(pc).hash = h
  BY <1>1 DEF RunRecord, NoHash
<1>3. SendOrWait(Stage(k, r.state), h) \in Pc
  BY DEF SendOrWait, Pc
<1>4. Stage(k, r.state) \in {"withdraw", "burn", "attest", "mint", "credit", "done"}
      /\ (Stage(k, r.state) = "attest" => r.state = "burned")
      /\ (Stage(k, r.state) = "mint" => r.state = "attested")
  BY DEF Stage, RunRecord, State
<1> HIDE DEF h
<1>5. CASE Stage(k, r.state) = "done"
  BY <1>5 DEF Entering
<1>6. CASE Stage(k, r.state) = "attest"
  <2>1. Entering(k, r) = at("attest")
    BY <1>6 DEF Entering, h
  <2> QED
    BY <2>1, <1>2, <1>4, <1>6 DEF Pc, h
<1>7. CASE Stage(k, r.state) = "mint"
  <2>1. Entering(k, r) = at("reread")
    BY <1>7 DEF Entering, h
  <2> QED
    BY <2>1, <1>2, <1>4, <1>7 DEF Pc, h
<1>8. CASE Stage(k, r.state) \in {"withdraw", "burn", "credit"}
  <2>1. Entering(k, r) = at(SendOrWait(Stage(k, r.state), h))
    BY <1>8 DEF Entering, h
  <2>2. Entering(k, r).hash = h
    BY <2>1, <1>2, <1>3
  <2> QED
    BY <2>1, <2>2, <1>2, <1>3, <1>8 DEF h
<1> QED
  BY <1>4, <1>5, <1>6, <1>7, <1>8

\* A step of run c changes that run only.
LEMMA GotoIs ==
  ASSUME TypeOK, NEW x \in Transfer, NEW c \in Caller, NEW r \in RunRecord, Goto(x, c, r)
  PROVE  /\ run' \in [Transfer -> [Caller -> RunRecord]]
         /\ run'[x][c] = r
         /\ \A d \in Caller \ {c} : run'[x][d] = run[x][d]
         /\ \A y \in Transfer \ {x} : run'[y] = run[y]
  BY DEF Goto, TypeOK, RunRecord

\* A broadcast adds one pending transaction to the leg.
LEMMA BroadcastIs ==
  ASSUME TypeOK, NEW x \in Transfer, NEW c \in Caller, LegOf(x, c) \in Leg, Broadcast(x, c)
  PROVE  /\ chain' \in [Transfer -> [Leg -> Seq(Tx)]]
         /\ \A y \in Transfer \ {x} : chain'[y] = chain[y]
         /\ \A g \in Leg \ {LegOf(x, c)} : chain'[x][g] = chain[x][g]
         /\ chain'[x][LegOf(x, c)] =
              Append(chain[x][LegOf(x, c)], [status |-> "pending", of |-> run[x][c].message])
<1> DEFINE g == LegOf(x, c)
           t == [status |-> "pending", of |-> run[x][c].message]
<1>1. t \in Tx
  BY DEF Tx, TxStatus, TypeOK
<1>2. chain \in [Transfer -> [Leg -> Seq(Tx)]]
  BY DEF TypeOK
<1>3. chain' = [chain EXCEPT ![x][g] = Append(@, t)]
  BY DEF Broadcast
<1>4. Append(chain[x][g], t) \in Seq(Tx)
  BY <1>1, <1>2
<1> HIDE DEF t, g
<1>5. g \in Leg
  BY DEF g
<1> QED
  BY <1>2, <1>3, <1>4, <1>5 DEF g, t

\* A decision changes the status of one transaction.
LEMMA DecideIs ==
  ASSUME TypeOK, NEW x \in Transfer, NEW g \in Leg, NEW i \in 1..MaxTx, Pending(x, g, i),
         NEW st \in {"success", "reverted"}, Decide(x, g, i, st)
  PROVE  /\ chain' \in [Transfer -> [Leg -> Seq(Tx)]]
         /\ \A y \in Transfer \ {x} : chain'[y] = chain[y]
         /\ \A e \in Leg \ {g} : chain'[x][e] = chain[x][e]
         /\ chain'[x][g] = [chain[x][g] EXCEPT ![i].status = st]
<1>1. chain \in [Transfer -> [Leg -> Seq(Tx)]]
  BY DEF TypeOK
<1>2. chain' = [chain EXCEPT ![x][g] = [@ EXCEPT ![i].status = st]]
  BY DEF Decide
<1>3. [chain[x][g] EXCEPT ![i].status = st] \in Seq(Tx)
  <2>1. chain[x][g] \in Seq(Tx) /\ i \in 1..Len(chain[x][g])
    BY <1>1 DEF Pending
  <2> DEFINE s == chain[x][g]
  <2>2. s \in [1..Len(s) -> Tx] /\ Len(s) \in Nat
    BY <2>1
  <2>3. [s[i] EXCEPT !.status = st] \in Tx
    BY <2>1, <2>2 DEF Tx, TxStatus
  <2>4. [s EXCEPT ![i].status = st] \in [1..Len(s) -> Tx]
    BY <2>1, <2>2, <2>3
  <2> HIDE DEF s
  <2>5. [s EXCEPT ![i].status = st] \in Seq(Tx)
    BY <2>2, <2>4
  <2> QED
    BY <2>5 DEF s
<1> QED
  BY <1>1, <1>2, <1>3

-----------------------------------------------------------------------------
\* Types

\* The records a run goes on with.
LEMMA RunTypes ==
  ASSUME TypeOK, NEW x \in Transfer, NEW c \in Caller
  PROVE  /\ OffRun \in RunRecord
         /\ run[x][c] \in RunRecord /\ row[x] \in RowRecord
         /\ kind[x] \in {"none", "customer", "treasury"}
         /\ \A pc \in Pc : /\ [run[x][c] EXCEPT !.pc = pc] \in RunRecord
                           /\ [OffRun EXCEPT !.pc = pc] \in RunRecord
         /\ \A s \in State : [run[x][c] EXCEPT !.state = s] \in RunRecord
         /\ [run[x][c] EXCEPT !.state = row[x].state, !.hash = row[x].hash] \in RunRecord
<1>1. OffRun \in RunRecord
  BY DEF OffRun, NoHashes, NoHash, RunRecord, Pc, State
<1>2. run[x][c] \in RunRecord /\ row[x] \in RowRecord
  BY DEF TypeOK, RunRecord, RowRecord
<1>3. kind[x] \in {"none", "customer", "treasury"}
  BY DEF TypeOK
<1> QED
  BY <1>1, <1>2, <1>3 DEF RunRecord, RowRecord

\* Steps that leave rows, chains and faults alone but for one run.
LEMMA GotoType ==
  ASSUME TypeOK, NEW x \in Transfer, NEW c \in Caller, NEW r \in RunRecord, Goto(x, c, r),
         kind' \in [Transfer -> {"none", "customer", "treasury"}],
         row' \in [Transfer -> RowRecord], chain' \in [Transfer -> [Leg -> Seq(Tx)]],
         overlap' \in [Transfer -> BOOLEAN], lost' \in [Transfer -> BOOLEAN],
         UNCHANGED relayed, older' \in [Transfer -> SUBSET Transfer], batch' \in SUBSET Transfer,
         UNCHANGED faults \/ Fault
  PROVE  TypeOK'
<1>1. run' \in [Transfer -> [Caller -> RunRecord]]
  BY GotoIs
<1>2. faults' \in 0..MaxFaults
  BY BridgeAssumption DEF TypeOK, Fault
<1> QED
  BY <1>1, <1>2 DEF TypeOK, RunRecord, RowRecord

\* A row that is written is a row.
LEMMA RowWritten ==
  ASSUME NEW f \in [Transfer -> RowRecord], NEW x \in Transfer, NEW r \in RowRecord
  PROVE  [f EXCEPT ![x] = r] \in [Transfer -> RowRecord]
OBVIOUS

\* Every step keeps the types.
LEMMA TypeStep ==
  ASSUME TypeOK, \A x \in Transfer : Sound(x), [Next]_vars
  PROVE  TypeOK'
<1> USE DEF Pc, queueVars
<1>0. /\ kind \in [Transfer -> {"none", "customer", "treasury"}]
      /\ row \in [Transfer -> RowRecord] /\ chain \in [Transfer -> [Leg -> Seq(Tx)]]
      /\ overlap \in [Transfer -> BOOLEAN] /\ lost \in [Transfer -> BOOLEAN]
      /\ older \in [Transfer -> SUBSET Transfer] /\ batch \in SUBSET Transfer
  BY DEF TypeOK, RowRecord
<1>1. ASSUME NEW x \in Transfer, NEW k \in Kinds, Create(x, k) PROVE TypeOK'
  <2>1. [OffRun EXCEPT !.pc = "read"] \in RunRecord
    BY RunTypes DEF Caller
  <2>2. kind' \in [Transfer -> {"none", "customer", "treasury"}]
    BY <1>0, <1>1, BridgeAssumption DEF Create
  <2> QED
    BY <2>1, <2>2, <1>0, <1>1, GotoType DEF Create, Caller
<1>2. ASSUME NEW x \in Transfer, WorkerTakes(x) PROVE TypeOK'
  <2>1. [OffRun EXCEPT !.pc = "read"] \in RunRecord
    BY RunTypes DEF Caller
  <2>2. overlap' \in [Transfer -> BOOLEAN]
    BY <1>0, <1>2 DEF WorkerTakes
  <2> QED
    BY <2>1, <2>2, <1>0, <1>2, GotoType DEF WorkerTakes, Caller
<1>3. ASSUME NEW x \in Transfer, NEW c \in Caller, Advance(x, c) \/ Failure(x, c) PROVE TypeOK'
  <2>0. /\ run[x][c] \in RunRecord /\ row[x] \in RowRecord
        /\ kind[x] \in {"none", "customer", "treasury"}
    BY RunTypes
  <2>1. kind[x] \in {"customer", "treasury"}
    <3>1. run[x][c].pc # "off"
      BY <1>3 DEF Advance, Failure, ReadRow, RereadRow, Send, Broadcast, AlreadyReceived, StoreHash,
                  WaitEnds, SaveState, Attested, Catch, NotAttested, StepFails, SendLosesReply, RunDies
    <3> QED
      BY <3>1, <2>0 DEF Sound, Blank, OffRun
  <2>2. \A r \in RunRecord : Entering(kind[x], r) \in RunRecord
    BY <2>1, EnteringIs, RunTypes
  <2>3. RunSound(x, c)
    BY DEF Sound
  <2>4. CASE ReadRow(x, c)
    <3>1. Entering(kind[x], [run[x][c] EXCEPT !.state = row[x].state, !.hash = row[x].hash]) \in RunRecord
      BY <2>2, RunTypes
    <3> QED
      BY <3>1, <2>4, <1>0, GotoType DEF ReadRow
  <2>5. CASE RereadRow(x, c)
    <3> DEFINE h == [run[x][c].hash EXCEPT !["mint"] = row[x].hash["mint"]]
               r == [run[x][c] EXCEPT !.pc = SendOrWait("mint", h), !.hash = h, !.message = row[x].message]
    <3>1. h \in [Leg -> Nat]
      BY <2>0 DEF RunRecord, RowRecord, Leg
    <3>2. r \in RunRecord
      BY <3>1, <2>0 DEF RunRecord, RowRecord, SendOrWait
    <3> QED
      BY <3>2, <2>5, <1>0, GotoType DEF RereadRow
  <2>6. CASE Send(x, c)
    <3>1. LegOf(x, c) \in Leg
      BY <2>3, <2>6 DEF RunSound, Send, Broadcast, Working
    <3>2. chain' \in [Transfer -> [Leg -> Seq(Tx)]]
      BY <2>6, <3>1, BroadcastIs DEF Send
    <3>3. Len(chain[x][LegOf(x, c)]) + 1 \in Nat
      BY <1>0, <3>1
    <3>4. \A n \in Nat : [run[x][c] EXCEPT !.pc = "store", !.sent = n] \in RunRecord
      BY <2>0 DEF RunRecord
    <3>5. [run[x][c] EXCEPT !.pc = "store", !.sent = Len(chain[x][LegOf(x, c)]) + 1] \in RunRecord
      BY <3>3, <3>4
    <3> QED
      BY <3>2, <3>5, <2>6, <1>0, GotoType DEF Send
  <2>7. CASE AlreadyReceived(x, c)
    BY <2>7, <1>0, GotoType, RunTypes DEF AlreadyReceived
  <2>8. CASE StoreHash(x, c)
    <3>1. LegOf(x, c) \in Leg
      BY <2>3, <2>8 DEF RunSound, StoreHash, Working
    <3>2. run[x][c].sent \in Nat
      BY <2>0 DEF RunRecord
    <3>3. row' \in [Transfer -> RowRecord]
      BY <3>1, <3>2, <1>0, <2>8 DEF StoreHash, RowRecord
    <3>4. [run[x][c] EXCEPT !.pc = "wait", !.hash[LegOf(x, c)] = run[x][c].sent, !.sent = NoHash] \in RunRecord
      BY <3>1, <3>2, <2>0 DEF RunRecord, NoHash
    <3> QED
      BY <3>3, <3>4, <2>8, <1>0, GotoType DEF StoreHash
  <2>9. CASE WaitEnds(x, c)
    BY <2>9, <1>0, GotoType, RunTypes DEF WaitEnds, Throws
  <2>10. CASE SaveState(x, c)
    <3>1. LegOf(x, c) \in Leg
      BY <2>3, <2>10 DEF RunSound, SaveState, Working
    <3>2. StateAfter(LegOf(x, c)) \in State
      BY <3>1 DEF StateAfter, Leg, State
    <3>3. row' \in [Transfer -> RowRecord]
      <4>1. row' = [row EXCEPT ![x].state = StateAfter(LegOf(x, c))]
        BY <2>10 DEF SaveState
      <4>2. [row[x] EXCEPT !.state = StateAfter(LegOf(x, c))] \in RowRecord
        BY <3>2, <2>0 DEF RowRecord
      <4>3. row \in [Transfer -> RowRecord] /\ row' = [row EXCEPT ![x] = [row[x] EXCEPT !.state = StateAfter(LegOf(x, c))]]
        BY <1>0, <4>1
      <4> QED BY <4>2, <4>3, RowWritten
    <3>4. Entering(kind[x], [run[x][c] EXCEPT !.state = StateAfter(LegOf(x, c))]) \in RunRecord
      BY <3>2, <2>2, RunTypes
    <3> QED
      BY <3>3, <3>4, <2>10, <1>0, GotoType DEF SaveState
  <2>11. CASE Attested(x, c)
    <3>1. run[x][c].hash["burn"] \in Nat
      BY <2>0 DEF RunRecord, Leg
    <3>2. row' \in [Transfer -> RowRecord]
      <4> DEFINE q == [row[x] EXCEPT !.state = "attested", !.message = run[x][c].hash["burn"]]
      <4>1. q \in RowRecord
        BY <3>1, <2>0 DEF RowRecord, State
      <4>2. row \in [Transfer -> RowRecord] /\ row' = [row EXCEPT ![x] = q]
        BY <1>0, <2>11 DEF Attested, RowRecord
      <4> HIDE DEF q
      <4> QED BY <4>1, <4>2, RowWritten
    <3>3. Entering(kind[x], [run[x][c] EXCEPT !.state = "attested"]) \in RunRecord
      BY <2>2, RunTypes DEF State
    <3> QED
      BY <3>2, <3>3, <2>11, <1>0, GotoType DEF Attested
  <2>12. CASE Catch(x, c)
    <3>1. row' \in [Transfer -> RowRecord]
      BY <1>0, <2>12 DEF Catch, RowRecord, State
    <3> QED
      BY <3>1, <2>12, <1>0, GotoType, RunTypes DEF Catch
  <2>13. CASE NotAttested(x, c)
    BY <2>13, <1>0, GotoType, RunTypes DEF NotAttested
  <2>14. CASE StepFails(x, c)
    <3>1. lost' \in [Transfer -> BOOLEAN]
      BY <1>0, <2>14 DEF StepFails
    <3> QED
      BY <3>1, <2>14, <1>0, GotoType, RunTypes DEF StepFails, Throws
  <2>15. CASE SendLosesReply(x, c)
    <3>1. LegOf(x, c) \in Leg
      BY <2>3, <2>15 DEF RunSound, SendLosesReply, Broadcast, Working
    <3>2. chain' \in [Transfer -> [Leg -> Seq(Tx)]]
      BY <2>15, <3>1, BroadcastIs DEF SendLosesReply
    <3>3. lost' \in [Transfer -> BOOLEAN]
      BY <1>0, <2>15 DEF SendLosesReply
    <3> QED
      BY <3>2, <3>3, <2>15, <1>0, GotoType, RunTypes DEF SendLosesReply, Throws
  <2>16. CASE RunDies(x, c)
    BY <2>16, <1>0, GotoType, RunTypes DEF RunDies
  <2> QED
    BY <1>3, <2>4, <2>5, <2>6, <2>7, <2>8, <2>9, <2>10, <2>11, <2>12, <2>13, <2>14, <2>15, <2>16
       DEF Advance, Failure
<1>4. ASSUME NEW x \in Transfer, NEW g \in Leg, NEW i \in 1..MaxTx, Mine(x, g, i) \/ Revert(x, g, i)
      PROVE  TypeOK'
  <2>1. \E st \in {"success", "reverted"} : Decide(x, g, i, st) /\ Pending(x, g, i)
    BY <1>4 DEF Mine, Revert
  <2>2. chain' \in [Transfer -> [Leg -> Seq(Tx)]]
    BY <2>1, DecideIs
  <2> QED
    BY <1>4, <2>2, BridgeAssumption DEF TypeOK, Mine, Revert, Fault
<1>5. ASSUME Crash PROVE TypeOK'
  <2>1. \A x \in Transfer, c \in Caller : OffRun \in RunRecord
    BY RunTypes
  <2>2. run' \in [Transfer -> [Caller -> RunRecord]]
    BY <1>5, <2>1 DEF Crash
  <2> QED
    BY <1>5, <2>2, BridgeAssumption DEF TypeOK, Crash, Fault, RunRecord
<1>6. ASSUME NEW x \in Transfer, NEW i \in 1..MaxTx, Relay(x, i) PROVE TypeOK'
  <2>1. relayed' \in [Transfer -> SUBSET Nat]
    BY <1>6 DEF TypeOK, Relay
  <2> QED
    BY <1>6, <2>1 DEF TypeOK, Relay
<1>7. ASSUME Tick PROVE TypeOK'
  BY <1>7 DEF TypeOK, Tick, Oldest
<1>8. CASE UNCHANGED vars
  BY <1>8 DEF TypeOK, vars
<1> QED
  BY <1>1, <1>2, <1>3, <1>4, <1>5, <1>6, <1>7, <1>8 DEF Next

-----------------------------------------------------------------------------
\* What a step must not disturb

\* The chains only go forward.
Grows(x) ==
  /\ relayed[x] \subseteq relayed'[x]
  /\ \A g \in Leg : /\ Len(chain[x][g]) <= Len(chain'[x][g])
                    /\ Succeeded(x, g) \subseteq Succeeded(x, g)'

MessageKept(x) == row'[x].message = row[x].message \/ row'[x].message \in Succeeded(x, "burn")'

\* What a state says stays true.
LEMMA SaysKept ==
  ASSUME NEW x \in Transfer, NEW s \in State, kind'[x] = kind[x], Grows(x), MessageKept(x), SaysTrue(x, s)
  PROVE  SaysTrue(x, s)'
<1>1. \A g \in Leg : Succeeded(x, g) # {} => Succeeded(x, g)' # {}
  BY DEF Grows
<1>2. row[x].message \in Succeeded(x, "burn") => row'[x].message \in Succeeded(x, "burn")'
  BY DEF Grows, MessageKept, Leg
<1>3. Minted(x) => Minted(x)'
  BY <1>1 DEF Grows, Minted, Leg
<1> QED
  BY <1>1, <1>2, <1>3 DEF SaysTrue, Leg

\* A run that takes no part keeps what it knows.
LEMMA RunKept ==
  ASSUME TypeOK, TypeOK', NEW x \in Transfer, NEW c \in Caller,
         kind'[x] = kind[x], run'[x][c] = run[x][c], Grows(x), MessageKept(x), RunSound(x, c)
  PROVE  RunSound(x, c)'
<1>1. run[x][c] \in RunRecord
  BY RunTypes
<1>2. SaysTrue(x, run[x][c].state)'
  <2>1. SaysTrue(x, run[x][c].state) /\ run[x][c].state \in State
    BY <1>1 DEF RunSound, RunRecord
  <2> DEFINE s == run[x][c].state
  <2>2. SaysTrue(x, s)
    BY <2>1
  <2> QED
    BY <2>1, SaysKept DEF SaysTrue
<1>3. \A g \in Leg : /\ Len(chain[x][g]) \in Nat /\ Len(chain'[x][g]) \in Nat
                     /\ Len(chain[x][g]) <= Len(chain'[x][g])
  BY DEF TypeOK, Grows
<1>4. LegOf(x, c)' = LegOf(x, c)
  BY DEF LegOf
<1>5. \A g \in Leg : run'[x][c].hash[g] <= Len(chain'[x][g])
  <2>1. ASSUME NEW g \in Leg PROVE run[x][c].hash[g] <= Len(chain'[x][g])
    <3>1. run[x][c].hash[g] \in Nat
      BY <1>1 DEF RunRecord
    <3>2. run[x][c].hash[g] <= Len(chain[x][g])
      BY DEF RunSound
    <3> QED
      BY <3>1, <3>2, <1>3
  <2> QED
    BY <2>1
<1>6. run'[x][c].pc = "store" => run'[x][c].sent \in 1..Len(chain'[x][LegOf(x, c)])
  BY <1>1, <1>3 DEF RunSound, RunRecord, Working
<1>7. run'[x][c].pc = "save" => Done(x, LegOf(x, c))'
  <2>1. ASSUME NEW g \in Leg, Done(x, g) PROVE Done(x, g)'
    BY <2>1 DEF Grows, Done
  <2>2. ASSUME run[x][c].pc = "save", NEW g \in Leg, g = LegOf(x, c) PROVE Done(x, g)'
    BY <2>1, <2>2 DEF RunSound
  <2>3. run[x][c].pc = "save" => LegOf(x, c) \in Leg
    BY DEF RunSound, Working
  <2> QED
    BY <2>2, <2>3, <1>4
<1>8. run'[x][c].pc \in Working /\ LegOf(x, c)' = "mint" => run'[x][c].message \in Succeeded(x, "burn")'
  BY <1>4 DEF RunSound, Grows, Leg
<1> QED
  BY <1>2, <1>4, <1>5, <1>6, <1>7, <1>8 DEF RunSound

\* A run that goes on is sound when its copy is.
LEMMA EnteringSound ==
  ASSUME TypeOK', NEW x \in Transfer, NEW c \in Caller, NEW r \in RunRecord,
         kind'[x] \in {"customer", "treasury"}, run'[x][c] = Entering(kind'[x], r),
         \A s \in State : s = r.state => SaysTrue(x, s)',
         \A g \in Leg : r.hash[g] <= Len(chain'[x][g])
  PROVE  RunSound(x, c)'
<1>0. SaysTrue(x, r.state)'
  BY DEF RunRecord
<1>1. \A g \in Leg : Len(chain'[x][g]) \in Nat
  BY DEF TypeOK
<1>2. CASE run'[x][c] = OffRun
  BY <1>1, <1>2 DEF OffRun, NoHashes, NoHash, RunSound, SaysTrue, Working
<1>3. CASE run'[x][c] # OffRun
  <2>1. /\ run'[x][c].state = r.state
        /\ \A g \in Leg : run'[x][c].hash[g] = r.hash[g] \/ run'[x][c].hash[g] = NoHash
        /\ \/ run'[x][c].pc = "attest" /\ r.state = "burned"
           \/ run'[x][c].pc = "reread" /\ r.state = "attested"
           \/ /\ Stage(kind'[x], r.state) \in {"withdraw", "burn", "credit"}
              /\ run'[x][c].pc = SendOrWait(Stage(kind'[x], r.state), run'[x][c].hash)
    BY <1>3, EnteringIs
  <2>2. LegOf(x, c)' = Stage(kind'[x], r.state)
    BY <2>1 DEF LegOf
  <2>3. \A g \in Leg : run'[x][c].hash[g] <= Len(chain'[x][g])
    BY <2>1, <1>1 DEF NoHash
  <2>4. CASE run'[x][c].pc = "attest" /\ r.state = "burned"
    BY <1>0, <2>1, <2>3, <2>4 DEF RunSound, Working
  <2>5. CASE run'[x][c].pc = "reread" /\ r.state = "attested"
    BY <1>0, <2>1, <2>3, <2>5 DEF RunSound, Working
  <2>6. CASE /\ Stage(kind'[x], r.state) \in {"withdraw", "burn", "credit"}
             /\ run'[x][c].pc = SendOrWait(Stage(kind'[x], r.state), run'[x][c].hash)
    <3>1. /\ run'[x][c].pc \in {"send", "wait"} /\ LegOf(x, c)' \in Leg \ {"mint"}
          /\ run'[x][c].pc = "wait" => run'[x][c].hash[LegOf(x, c)'] # NoHash
      BY <2>6, <2>2 DEF SendOrWait, Leg
    <3> QED
      BY <1>0, <3>1, <2>1, <2>3 DEF RunSound
  <2> QED
    BY <2>1, <2>4, <2>5, <2>6
<1> QED
  BY <1>2, <1>3

\* A run that reads, catches or is over knows nothing but its copy.
LEMMA QuietSound ==
  ASSUME NEW x \in Transfer, NEW c \in Caller, run'[x][c].pc \in {"off", "read", "catch"},
         \A g \in Leg : run'[x][c].hash[g] <= Len(chain'[x][g]), SaysTrue(x, run[x][c].state)'
  PROVE  RunSound(x, c)'
BY DEF RunSound, Working

\* Steps of one run that leave row and chains alone.
LEMMA GotoSound ==
  ASSUME TypeOK, TypeOK', NEW x \in Transfer, NEW c \in Caller, Sound(x),
         kind'[x] = kind[x], kind[x] # "none", row'[x] = row[x], chain'[x] = chain[x],
         relayed'[x] = relayed[x],
         \A d \in Caller \ {c} : run'[x][d] = run[x][d], RunSound(x, c)'
  PROVE  Sound(x)'
<1>1. \A g \in Leg : Succeeded(x, g)' = Succeeded(x, g)
  BY DEF Succeeded
<1>2. Grows(x) /\ MessageKept(x)
  BY <1>1 DEF Grows, MessageKept, TypeOK
<1>3. \A d \in Caller : RunSound(x, d)'
  BY <1>2, RunKept DEF Sound
<1>4. RowSound(x)'
  <2>1. row[x].state \in State /\ SaysTrue(x, row[x].state)
    BY DEF TypeOK, Sound, RowSound
  <2>2. SaysTrue(x, row[x].state)'
    BY <2>1, <1>1, <1>2, SaysKept DEF SaysTrue, Leg
  <2> QED
    BY <2>2 DEF Sound, RowSound
<1>5. ChainSound(x)'
  BY <1>1 DEF Sound, ChainSound, Minted, Leg
<1> QED
  BY <1>3, <1>4, <1>5 DEF Sound, Blank

\* A transfer that a step does not touch.
LEMMA SoundElsewhere ==
  ASSUME NEW y \in Transfer, Sound(y), kind'[y] = kind[y], row'[y] = row[y], chain'[y] = chain[y],
         run'[y] = run[y], relayed'[y] = relayed[y], y \in batch' => y \in batch \/ kind[y] # "none"
  PROVE  Sound(y)'
BY DEF Sound, RowSound, RunSound, ChainSound, Blank, SaysTrue, Succeeded, Minted, Done, LegOf

-----------------------------------------------------------------------------
\* Rows and runs know what the chains have done

\* Only a transfer that was created has a run.
LEMMA RunsOfCreated ==
  ASSUME TypeOK, NEW x \in Transfer, NEW c \in Caller, Sound(x), run[x][c].pc # "off"
  PROVE  kind[x] \in {"customer", "treasury"}
<1>1. kind[x] \in {"none", "customer", "treasury"}
  BY RunTypes
<1> QED
  BY <1>1 DEF Sound, Blank, OffRun

\* A run's own steps that write nothing: it is enough that the run is sound.
LEMMA SoundGoto ==
  ASSUME TypeOK, TypeOK', NEW x \in Transfer, NEW c \in Caller, Sound(x),
         \/ ReadRow(x, c) \/ RereadRow(x, c) \/ AlreadyReceived(x, c) \/ WaitEnds(x, c)
         \/ NotAttested(x, c) \/ StepFails(x, c) \/ RunDies(x, c)
  PROVE  Sound(x)'
<1>1. run[x][c].pc # "off" /\ UNCHANGED <<kind, row, chain, relayed>>
  BY DEF ReadRow, RereadRow, AlreadyReceived, WaitEnds, NotAttested, StepFails, RunDies
<1>2. kind[x] \in {"customer", "treasury"}
  BY <1>1, RunsOfCreated
<1>3. run[x][c] \in RunRecord /\ row[x] \in RowRecord /\ OffRun \in RunRecord
  BY RunTypes
<1>4. RunSound(x, c) /\ RowSound(x)
  BY DEF Sound
<1>5. \A s \in State : SaysTrue(x, s) => SaysTrue(x, s)'
  <2>1. Grows(x) /\ MessageKept(x)
    BY <1>1 DEF Grows, MessageKept, TypeOK, Succeeded
  <2> QED
    BY <2>1, <1>1, SaysKept
<1>6. ASSUME NEW r \in RunRecord, Goto(x, c, r), run'[x][c] = r => RunSound(x, c)'
      PROVE  Sound(x)'
  <2>1. run'[x][c] = r /\ \A d \in Caller \ {c} : run'[x][d] = run[x][d]
    BY <1>6, GotoIs
  <2> QED
    BY <2>1, <1>1, <1>2, <1>6, GotoSound
<1>7. ASSUME NEW r \in RunRecord, Goto(x, c, r), r.pc \in {"off", "catch"},
             r = OffRun \/ (r.state = run[x][c].state /\ r.hash = run[x][c].hash)
      PROVE  Sound(x)'
  <2>1. \A g \in Leg : r.hash[g] <= Len(chain'[x][g])
    BY <1>7, <1>4, <1>1 DEF RunSound, OffRun, NoHashes, NoHash, TypeOK
  <2>2. r.state \in State /\ SaysTrue(x, r.state)
    BY <1>7, <1>4, <1>3 DEF RunSound, OffRun, SaysTrue, RunRecord
  <2>3. SaysTrue(x, r.state)'
    BY <2>2, <1>5
  <2>4. run'[x][c] = r => RunSound(x, c)'
    BY <2>1, <2>3, <1>7, QuietSound DEF SaysTrue
  <2> QED
    BY <2>4, <1>6, <1>7
<1>8. CASE ReadRow(x, c)
  <2> DEFINE r == [run[x][c] EXCEPT !.state = row[x].state, !.hash = row[x].hash]
  <2>1. r \in RunRecord /\ r.state = row[x].state /\ r.hash = row[x].hash
    BY <1>3 DEF RunRecord, RowRecord
  <2>2. Entering(kind[x], r) \in RunRecord
    BY <2>1, <1>2, <1>3, EnteringIs
  <2>3. SaysTrue(x, row[x].state) /\ row[x].state \in State
    BY <1>4, <1>3 DEF RowSound, RowRecord
  <2>4. \A g \in Leg : r.hash[g] <= Len(chain'[x][g])
    BY <2>1, <1>4, <1>1 DEF RowSound
  <2>5. Goto(x, c, Entering(kind[x], r))
    BY <1>8 DEF ReadRow
  <2> HIDE DEF r
  <2>6. \A s \in State : s = r.state => SaysTrue(x, s)'
    BY <2>1, <2>3, <1>5
  <2>7. run'[x][c] = Entering(kind[x], r) => RunSound(x, c)'
    BY <2>1, <2>4, <2>6, <1>1, <1>2, EnteringSound
  <2> QED
    BY <2>2, <2>5, <2>7, <1>6
<1>9. CASE RereadRow(x, c)
  <2> DEFINE h == [run[x][c].hash EXCEPT !["mint"] = row[x].hash["mint"]]
             r == [run[x][c] EXCEPT !.pc = SendOrWait("mint", h), !.hash = h, !.message = row[x].message]
  <2>1. h \in [Leg -> Nat] /\ h["mint"] = row[x].hash["mint"]
        /\ \A g \in Leg \ {"mint"} : h[g] = run[x][c].hash[g]
    BY <1>3 DEF RunRecord, RowRecord, Leg
  <2>2. \A g \in Leg : h[g] <= Len(chain'[x][g])
    BY <2>1, <1>1, <1>4 DEF RowSound, RunSound
  <2> HIDE DEF h
  <2>3. /\ r \in RunRecord /\ r.pc \in {"send", "wait"} /\ r.hash = h /\ r.message = row[x].message
        /\ r.state = "attested" /\ (r.pc = "wait" => h["mint"] # NoHash)
    BY <2>1, <1>3, <1>4, <1>9 DEF RunRecord, RowRecord, SendOrWait, Pc, RereadRow, RunSound
  <2>4. SaysTrue(x, "attested") /\ SaysTrue(x, "attested")'
    BY <1>4, <1>5, <1>9 DEF RunSound, RereadRow, State
  <2>5. row[x].message \in Succeeded(x, "burn")'
    BY <2>4, <1>1 DEF SaysTrue
  <2>6. Goto(x, c, r)
    BY <1>9 DEF RereadRow, h
  <2> HIDE DEF r
  <2>7. ASSUME run'[x][c] = r PROVE RunSound(x, c)'
    <3>1. LegOf(x, c)' = "mint"
      BY <2>7, <2>3 DEF LegOf, Stage
    <3> QED
      BY <3>1, <2>2, <2>3, <2>4, <2>5, <2>7 DEF RunSound, Working, Leg
  <2> QED
    BY <2>3, <2>6, <2>7, <1>6
<1>10. ASSUME run[x][c].pc \in Working, Goto(x, c, [run[x][c] EXCEPT !.pc = "save"]),
              Done(x, LegOf(x, c))
       PROVE  Sound(x)'
  <2> DEFINE r == [run[x][c] EXCEPT !.pc = "save"]
  <2>1. /\ r \in RunRecord /\ r.pc = "save" /\ r.state = run[x][c].state /\ r.hash = run[x][c].hash
        /\ r.message = run[x][c].message
    BY <1>3 DEF RunRecord, Pc
  <2> HIDE DEF r
  <2>2. ASSUME run'[x][c] = r PROVE RunSound(x, c)'
    <3>1. LegOf(x, c)' = LegOf(x, c) /\ LegOf(x, c) \in Leg
      BY <2>1, <2>2, <1>1, <1>4, <1>10 DEF LegOf, RunSound
    <3>2. run[x][c].state \in State
      BY <1>3 DEF RunRecord
    <3>3. \A s \in State : s = run[x][c].state => SaysTrue(x, s)'
      BY <3>2, <1>4, <1>5 DEF RunSound
    <3>7. SaysTrue(x, run[x][c].state)'
      BY <2>1, <2>2, <3>2, <3>3 DEF SaysTrue
    <3>4. \A g \in Leg : Succeeded(x, g)' = Succeeded(x, g)
      BY <1>1 DEF Succeeded
    <3>5. Done(x, LegOf(x, c))'
      BY <3>1, <3>4, <1>1, <1>10 DEF Done
    <3>6. LegOf(x, c) = "mint" => run[x][c].message \in Succeeded(x, "burn")'
      BY <3>4, <1>4, <1>10 DEF RunSound, Leg
    <3> QED
      BY <3>1, <3>5, <3>6, <3>7, <2>1, <2>2, <1>1, <1>4 DEF RunSound
  <2> QED
    BY <2>1, <2>2, <1>6, <1>10 DEF r
<1>11. CASE AlreadyReceived(x, c)
  <2>1. LegOf(x, c) = "mint" /\ Received(x, run[x][c].message)
    BY <1>11 DEF AlreadyReceived, MayBroadcast
  <2>2. Done(x, LegOf(x, c))
    BY <2>1 DEF Received, Succeeded, Done
  <2> QED
    BY <2>2, <1>10, <1>11 DEF AlreadyReceived, Working
<1>12. CASE WaitEnds(x, c)
  <2>1. CASE StatusOf(x, c) = "success" /\ Goto(x, c, [run[x][c] EXCEPT !.pc = "save"])
    <3> DEFINE g == LegOf(x, c)
    <3>1. g \in Leg /\ run[x][c].hash[g] # NoHash /\ run[x][c].pc = "wait"
      BY <1>4, <1>12 DEF RunSound, Working, WaitEnds
    <3>2. run[x][c].hash[g] \in Nat /\ run[x][c].hash[g] <= Len(chain[x][g]) /\ chain[x][g] \in Seq(Tx)
      BY <3>1, <1>3, <1>4 DEF RunRecord, RunSound, TypeOK
    <3>3. run[x][c].hash[g] \in DOMAIN chain[x][g]
      BY <3>1, <3>2 DEF NoHash
    <3>4. Done(x, LegOf(x, c))
      BY <3>3, <2>1 DEF StatusOf, Succeeded, Done
    <3> QED
      BY <3>1, <3>4, <2>1, <1>10 DEF Working
  <2>2. CASE Throws(x, c)
    <3>1. [run[x][c] EXCEPT !.pc = "catch"] \in RunRecord
      BY <1>3 DEF RunRecord, Pc
    <3> QED
      BY <3>1, <2>2, <1>3, <1>7 DEF Throws, RunRecord
  <2> QED
    BY <2>1, <2>2, <1>12 DEF WaitEnds
<1>13. CASE StepFails(x, c)
  <2>1. [run[x][c] EXCEPT !.pc = "catch"] \in RunRecord
    BY <1>3 DEF RunRecord, Pc
  <2> QED
    BY <2>1, <1>13, <1>3, <1>7 DEF StepFails, Throws, RunRecord
<1>14. CASE NotAttested(x, c) \/ RunDies(x, c)
  <2>1. OffRun.pc = "off" /\ Goto(x, c, OffRun)
    BY <1>14 DEF OffRun, NotAttested, RunDies
  <2> QED
    BY <2>1, <1>3, <1>7
<1> QED
  BY <1>8, <1>9, <1>11, <1>12, <1>13, <1>14

\* Steps of one run that write the row: it is enough that run and row are sound.
LEMMA WriteSound ==
  ASSUME TypeOK, TypeOK', NEW x \in Transfer, NEW c \in Caller, Sound(x),
         kind'[x] = kind[x], kind[x] # "none", chain'[x] = chain[x], relayed'[x] = relayed[x], MessageKept(x),
         \A d \in Caller \ {c} : run'[x][d] = run[x][d], RunSound(x, c)', RowSound(x)'
  PROVE  Sound(x)'
<1>1. \A g \in Leg : Succeeded(x, g)' = Succeeded(x, g)
  BY DEF Succeeded
<1>2. Grows(x)
  BY <1>1 DEF Grows, TypeOK
<1>3. \A d \in Caller : RunSound(x, d)'
  BY <1>2, RunKept DEF Sound
<1>4. ChainSound(x)'
  BY <1>1 DEF Sound, ChainSound, Minted, Leg
<1> QED
  BY <1>3, <1>4 DEF Sound, Blank

\* What a leg that has succeeded makes true.
LEMMA StateAfterTrue ==
  ASSUME TypeOK, NEW x \in Transfer, NEW c \in Caller, RunSound(x, c), run[x][c].pc = "save",
         kind[x] \in {"customer", "treasury"}
  PROVE  /\ StateAfter(LegOf(x, c)) \in State
         /\ SaysTrue(x, StateAfter(LegOf(x, c)))
<1>1. LegOf(x, c) \in Leg /\ Done(x, LegOf(x, c)) /\ SaysTrue(x, run[x][c].state)
  BY DEF RunSound, Working
<1>2. run[x][c].state \in State
  BY DEF TypeOK
<1>3. CASE LegOf(x, c) = "withdraw"
  BY <1>1, <1>3 DEF StateAfter, State, SaysTrue, Done, Minted
<1>4. CASE LegOf(x, c) = "burn"
  <2>1. kind[x] = "customer" => run[x][c].state = "withdrawn"
    BY <1>2, <1>4 DEF LegOf, Stage, State
  <2> QED
    BY <2>1, <1>1, <1>4 DEF StateAfter, State, SaysTrue, Done, Minted
<1>5. CASE LegOf(x, c) = "mint"
  <2>1. run[x][c].state = "attested"
    BY <1>2, <1>5 DEF LegOf, Stage, State
  <2> QED
    BY <2>1, <1>1, <1>5 DEF StateAfter, State, SaysTrue, Done, Minted
<1>6. CASE LegOf(x, c) = "credit"
  <2>1. run[x][c].state = "minted"
    BY <1>2, <1>6 DEF LegOf, Stage, State
  <2> QED
    BY <2>1, <1>1, <1>6 DEF StateAfter, State, SaysTrue, Done, Minted
<1> QED
  BY <1>1, <1>3, <1>4, <1>5, <1>6 DEF Leg

\* A run's own steps that write the row.
LEMMA SoundWrite ==
  ASSUME TypeOK, TypeOK', NEW x \in Transfer, NEW c \in Caller, Sound(x),
         StoreHash(x, c) \/ SaveState(x, c) \/ Attested(x, c) \/ Catch(x, c)
  PROVE  Sound(x)'
<1>1. run[x][c].pc # "off" /\ UNCHANGED <<kind, chain, relayed>>
  BY DEF StoreHash, SaveState, Attested, Catch
<1>2. kind[x] \in {"customer", "treasury"}
  BY <1>1, RunsOfCreated
<1>3. run[x][c] \in RunRecord /\ row[x] \in RowRecord /\ OffRun \in RunRecord
  BY RunTypes
<1>4. RunSound(x, c) /\ RowSound(x)
  BY DEF Sound
<1>5. ASSUME MessageKept(x) PROVE \A s \in State : SaysTrue(x, s) => SaysTrue(x, s)'
  <2>1. Grows(x)
    BY <1>1 DEF Grows, TypeOK, Succeeded
  <2> QED
    BY <2>1, <1>1, <1>5, SaysKept
<1>6. ASSUME NEW r \in RunRecord, Goto(x, c, r), run'[x][c] = r => RunSound(x, c)',
             RowSound(x)', MessageKept(x)
      PROVE  Sound(x)'
  <2>1. run'[x][c] = r /\ \A d \in Caller \ {c} : run'[x][d] = run[x][d]
    BY <1>6, GotoIs
  <2> QED
    BY <2>1, <1>1, <1>2, <1>6, WriteSound
<1>7. CASE StoreHash(x, c)
  <2> DEFINE g == LegOf(x, c)
             r == [run[x][c] EXCEPT !.pc = "wait", !.hash[g] = run[x][c].sent, !.sent = NoHash]
  <2>1. g \in Leg /\ run[x][c].sent \in 1..Len(chain[x][g]) /\ run[x][c].pc = "store"
    BY <1>4, <1>7 DEF RunSound, Working, StoreHash
  <2>2. /\ row'[x].state = row[x].state /\ row'[x].message = row[x].message
        /\ row'[x].hash = [row[x].hash EXCEPT ![g] = run[x][c].sent]
    BY <1>3, <1>7 DEF StoreHash, RowRecord, TypeOK
  <2>3. /\ r \in RunRecord /\ r.pc = "wait" /\ r.state = run[x][c].state
        /\ r.message = run[x][c].message
        /\ r.hash = [run[x][c].hash EXCEPT ![g] = run[x][c].sent]
    BY <1>3, <2>1 DEF RunRecord, Pc, NoHash
  <2>4. \A e \in Leg : /\ row'[x].hash[e] <= Len(chain'[x][e])
                       /\ r.hash[e] <= Len(chain'[x][e])
    <3> HIDE DEF g, r
    <3> SUFFICES ASSUME NEW e \in Leg
                 PROVE  row'[x].hash[e] <= Len(chain[x][e]) /\ r.hash[e] <= Len(chain[x][e])
      BY <1>1
    <3>1. row[x].hash \in [Leg -> Nat] /\ run[x][c].hash \in [Leg -> Nat]
      BY <1>3 DEF RowRecord, RunRecord
    <3>2. row[x].hash[e] <= Len(chain[x][e]) /\ run[x][c].hash[e] <= Len(chain[x][e])
      BY <1>1, <1>4 DEF RowSound, RunSound
    <3>3. CASE e = g
      BY <3>1, <3>3, <2>1, <2>2, <2>3
    <3>4. CASE e # g
      BY <3>1, <3>2, <3>4, <2>2, <2>3
    <3> QED
      BY <3>3, <3>4
  <2>5. r.hash[g] # NoHash
    BY <2>1, <2>3, <1>3 DEF NoHash, RunRecord
  <2>6. MessageKept(x)
    BY <2>2 DEF MessageKept
  <2>7. RowSound(x)'
    <3>1. \A s \in State : s = row[x].state => SaysTrue(x, s)'
      BY <2>6, <1>4, <1>5 DEF RowSound
    <3>2. SaysTrue(x, row[x].state)'
      BY <3>1, <2>2, <1>3 DEF SaysTrue, RowRecord
    <3> QED
      BY <3>2, <2>4 DEF RowSound
  <2>8. Goto(x, c, r)
    BY <1>7 DEF StoreHash
  <2> HIDE DEF r
  <2>9. ASSUME run'[x][c] = r PROVE RunSound(x, c)'
    <3>1. LegOf(x, c)' = LegOf(x, c)
      BY <2>3, <2>9, <1>1 DEF LegOf
    <3>2. \A s \in State : s = run[x][c].state => SaysTrue(x, s)'
      BY <2>6, <1>4, <1>5 DEF RunSound
    <3>3. SaysTrue(x, run[x][c].state)'
      BY <3>2, <2>3, <2>9, <1>3 DEF SaysTrue, RunRecord
    <3>4. Succeeded(x, "burn")' = Succeeded(x, "burn")
      BY <1>1 DEF Succeeded
    <3>5. LegOf(x, c) = "mint" => run[x][c].message \in Succeeded(x, "burn")'
      BY <3>4, <2>1, <1>4 DEF RunSound, Working
    <3> QED
      BY <3>1, <3>3, <3>5, <2>1, <2>3, <2>4, <2>5, <2>9 DEF RunSound, Working
  <2> QED
    BY <2>3, <2>6, <2>7, <2>8, <2>9, <1>6
<1>8. CASE SaveState(x, c)
  <2> DEFINE s0 == StateAfter(LegOf(x, c))
             r == [run[x][c] EXCEPT !.state = s0]
  <2>1. s0 \in State /\ SaysTrue(x, s0)
    BY <1>2, <1>4, <1>8, StateAfterTrue DEF SaveState
  <2> HIDE DEF s0
  <2>2. r \in RunRecord /\ r.state = s0 /\ r.hash = run[x][c].hash
    BY <2>1, <1>3 DEF RunRecord
  <2>3. row'[x].state = s0 /\ row'[x].message = row[x].message /\ row'[x].hash = row[x].hash
    BY <1>3, <1>8 DEF SaveState, RowRecord, TypeOK, s0
  <2>4. MessageKept(x)
    BY <2>3 DEF MessageKept
  <2>5. \A s \in State : s = s0 => SaysTrue(x, s)'
    BY <2>1, <2>4, <1>5
  <2>6. RowSound(x)'
    <3>1. SaysTrue(x, row[x].state)'
      BY <2>1, <2>3, <2>5 DEF SaysTrue
    <3> QED
      BY <3>1, <2>3, <1>1, <1>4 DEF RowSound
  <2>7. Entering(kind[x], r) \in RunRecord
    BY <2>2, <1>2, <1>3, EnteringIs
  <2>8. Goto(x, c, Entering(kind[x], r))
    BY <1>8 DEF SaveState, s0
  <2>9. \A g \in Leg : r.hash[g] <= Len(chain'[x][g])
    BY <2>2, <1>1, <1>4 DEF RunSound
  <2> HIDE DEF r
  <2>10. run'[x][c] = Entering(kind[x], r) => RunSound(x, c)'
    BY <2>2, <2>5, <2>9, <1>1, <1>2, EnteringSound
  <2> QED
    BY <2>4, <2>6, <2>7, <2>8, <2>10, <1>6
<1>9. CASE Attested(x, c)
  <2> DEFINE h == run[x][c].hash["burn"]
             r == [run[x][c] EXCEPT !.state = "attested"]
  <2>1. h \in Succeeded(x, "burn")
    <3>1. h \in Nat /\ h # NoHash /\ h <= Len(chain[x]["burn"]) /\ chain[x]["burn"] \in Seq(Tx)
      BY <1>3, <1>4, <1>9 DEF RunRecord, RunSound, Attested, Leg, TypeOK
    <3>2. h \in DOMAIN chain[x]["burn"]
      BY <3>1 DEF NoHash
    <3> QED
      BY <3>2, <1>9 DEF Attested, BurnConfirmed, Succeeded
  <2>2. r \in RunRecord /\ r.state = "attested" /\ r.hash = run[x][c].hash
    BY <1>3 DEF RunRecord, State
  <2>3. row'[x].state = "attested" /\ row'[x].message = h /\ row'[x].hash = row[x].hash
    BY <1>3, <1>9 DEF Attested, RowRecord, TypeOK
  <2>4. row'[x].message \in Succeeded(x, "burn")' /\ Succeeded(x, "withdraw")' = Succeeded(x, "withdraw")
    BY <2>1, <2>3, <1>1 DEF Succeeded
  <2>5. MessageKept(x)
    BY <2>4 DEF MessageKept
  <2>6. SaysTrue(x, "burned")
    BY <1>4, <1>9 DEF RunSound, Attested
  <2>7. SaysTrue(x, "attested")'
    BY <2>4, <2>6, <1>1 DEF SaysTrue
  <2>8. RowSound(x)'
    <3>1. SaysTrue(x, row[x].state)'
      BY <2>3, <2>7 DEF SaysTrue
    <3> QED
      BY <3>1, <2>3, <1>1, <1>4 DEF RowSound
  <2>9. Entering(kind[x], r) \in RunRecord
    BY <2>2, <1>2, <1>3, EnteringIs
  <2>10. Goto(x, c, Entering(kind[x], r))
    BY <1>9 DEF Attested
  <2>11. \A g \in Leg : r.hash[g] <= Len(chain'[x][g])
    BY <2>2, <1>1, <1>4 DEF RunSound
  <2> HIDE DEF r
  <2>12. run'[x][c] = Entering(kind[x], r) => RunSound(x, c)'
    BY <2>2, <2>7, <2>11, <1>1, <1>2, EnteringSound
  <2> QED
    BY <2>5, <2>8, <2>9, <2>10, <2>12, <1>6
<1>10. CASE Catch(x, c)
  <2>1. /\ row'[x].message = row[x].message /\ row'[x].hash = row[x].hash
        /\ row'[x].state \in {"failed", row[x].state}
    BY <1>3, <1>10 DEF Catch, RowRecord, TypeOK
  <2>2. MessageKept(x)
    BY <2>1 DEF MessageKept
  <2>3. \A s \in State : s = row[x].state => SaysTrue(x, s)'
    BY <2>2, <1>4, <1>5 DEF RowSound
  <2>4. RowSound(x)'
    <3>1. SaysTrue(x, row[x].state)'
      BY <2>1, <2>3, <1>3 DEF SaysTrue, RowRecord
    <3> QED
      BY <3>1, <2>1, <1>1, <1>4 DEF RowSound
  <2>5. Goto(x, c, OffRun)
    BY <1>10 DEF Catch
  <2>6. ASSUME run'[x][c] = OffRun PROVE RunSound(x, c)'
    <3>1. \A g \in Leg : Len(chain'[x][g]) \in Nat
      BY DEF TypeOK
    <3>2. /\ run'[x][c].pc = "off" /\ run'[x][c].state = "created"
          /\ \A g \in Leg : run'[x][c].hash[g] <= Len(chain'[x][g])
      BY <2>6, <3>1 DEF OffRun, NoHashes, NoHash
    <3>3. SaysTrue(x, run[x][c].state)'
      BY <3>2 DEF SaysTrue
    <3> QED
      BY <3>2, <3>3, QuietSound
  <2> QED
    BY <2>2, <2>4, <2>5, <2>6, <1>3, <1>6
<1> QED
  BY <1>7, <1>8, <1>9, <1>10

\* A broadcast leg is one whose turn it is.
LEMMA BroadcastSound ==
  ASSUME TypeOK, NEW x \in Transfer, NEW c \in Caller, Sound(x), Broadcast(x, c), kind'[x] = kind[x],
         relayed'[x] = relayed[x]
  PROVE  LegOf(x, c) \in Leg /\ Grows(x) /\ ChainSound(x)'
<1> DEFINE g == LegOf(x, c)
           t == [status |-> "pending", of |-> run[x][c].message]
<1>1. run[x][c].pc = "send" /\ RunSound(x, c) /\ ChainSound(x)
  BY DEF Broadcast, Sound
<1>2. g \in Leg
  BY <1>1 DEF RunSound, Working
<1>3. run[x][c].state \in State /\ kind[x] \in {"customer", "treasury"}
  BY <1>1, RunsOfCreated DEF TypeOK
<1>4. /\ \A e \in Leg \ {g} : chain'[x][e] = chain[x][e]
      /\ chain'[x][g] = Append(chain[x][g], t)
      /\ \A e \in Leg : chain[x][e] \in Seq(Tx)
  BY <1>2, BroadcastIs DEF TypeOK
<1>5. /\ Len(chain'[x][g]) = Len(chain[x][g]) + 1 /\ Len(chain[x][g]) \in Nat
      /\ \A i \in 1..Len(chain[x][g]) : chain'[x][g][i] = chain[x][g][i]
      /\ chain'[x][g][Len(chain[x][g]) + 1] = t
      /\ DOMAIN chain'[x][g] = 1..(Len(chain[x][g]) + 1) /\ DOMAIN chain[x][g] = 1..Len(chain[x][g])
  BY <1>2, <1>4
<1>6. Grows(x)
  <2>1. ASSUME NEW e \in Leg, e = g
        PROVE  Len(chain[x][e]) <= Len(chain'[x][e]) /\ Succeeded(x, e) \subseteq Succeeded(x, e)'
    <3>1. /\ Len(chain'[x][e]) = Len(chain[x][e]) + 1 /\ Len(chain[x][e]) \in Nat
          /\ \A i \in DOMAIN chain[x][e] : i \in DOMAIN chain'[x][e] /\ chain'[x][e][i] = chain[x][e][i]
      BY <2>1, <1>5
    <3> QED
      BY <3>1 DEF Succeeded
  <2>2. ASSUME NEW e \in Leg, e # g
        PROVE  Len(chain[x][e]) <= Len(chain'[x][e]) /\ Succeeded(x, e) \subseteq Succeeded(x, e)'
    BY <2>2, <1>4 DEF Succeeded
  <2> QED
    BY <2>1, <2>2 DEF Grows
<1>7. \A e \in Leg : Succeeded(x, e) # {} => Succeeded(x, e)' # {}
  BY <1>6 DEF Grows
<1>8. chain'[x]["burn"] # <<>> /\ kind'[x] = "customer" => Succeeded(x, "withdraw")' # {}
  <2>1. CASE g = "burn"
    <3>1. kind[x] = "customer" => run[x][c].state = "withdrawn"
      BY <2>1, <1>3 DEF LegOf, Stage, State
    <3> QED
      BY <3>1, <1>1, <1>7 DEF RunSound, SaysTrue, Leg
  <2>2. CASE g # "burn"
    BY <2>2, <1>1, <1>4, <1>7 DEF ChainSound, Leg
  <2> QED
    BY <2>1, <2>2
<1>9. \A i \in DOMAIN chain'[x]["mint"] : chain'[x]["mint"][i].of \in Succeeded(x, "burn")'
  <2>1. Succeeded(x, "burn") \subseteq Succeeded(x, "burn")'
    BY <1>6 DEF Grows, Leg
  <2>2. CASE g = "mint"
    <3> SUFFICES ASSUME NEW i \in DOMAIN chain'[x]["mint"]
                 PROVE  chain'[x]["mint"][i].of \in Succeeded(x, "burn")'
        OBVIOUS
    <3>1. CASE i \in 1..Len(chain[x]["mint"])
      BY <3>1, <2>1, <2>2, <1>1, <1>5 DEF ChainSound
    <3>2. CASE i = Len(chain[x]["mint"]) + 1
      <4>1. run[x][c].message \in Succeeded(x, "burn")
        BY <2>2, <1>1 DEF RunSound, Working
      <4> QED
        BY <4>1, <3>2, <2>1, <2>2, <1>5
    <3> QED
      BY <3>1, <3>2, <2>2, <1>5
  <2>3. CASE g # "mint"
    BY <2>1, <2>3, <1>1, <1>4 DEF ChainSound, Leg
  <2> QED
    BY <2>2, <2>3
<1>11. Minted(x) => Minted(x)'
  BY <1>7 DEF Minted, Leg
<1>12. relayed'[x] \subseteq Succeeded(x, "burn")'
  BY <1>1, <1>6 DEF ChainSound, Grows, Leg
<1>10. chain'[x]["credit"] # <<>> => Minted(x)'
  <2>1. CASE g = "credit"
    <3>1. run[x][c].state = "minted"
      BY <2>1, <1>3 DEF LegOf, Stage, State
    <3> QED
      BY <3>1, <1>1, <1>11 DEF RunSound, SaysTrue, Leg
  <2>2. CASE g # "credit"
    BY <2>2, <1>1, <1>4, <1>11 DEF ChainSound, Leg
  <2> QED
    BY <2>1, <2>2
<1> QED
  BY <1>2, <1>6, <1>8, <1>9, <1>10, <1>12 DEF ChainSound

\* A decided transaction was pending: what has succeeded stays.
LEMMA DecideSound ==
  ASSUME TypeOK, NEW x \in Transfer, Sound(x), kind'[x] = kind[x], relayed'[x] = relayed[x],
         NEW g \in Leg, NEW i \in 1..MaxTx, Pending(x, g, i),
         NEW st \in {"success", "reverted"}, Decide(x, g, i, st)
  PROVE  Grows(x) /\ ChainSound(x)' /\ (\A e \in Leg : Len(chain'[x][e]) = Len(chain[x][e]))
<1>0. /\ chain' \in [Transfer -> [Leg -> Seq(Tx)]]
      /\ \A e \in Leg \ {g} : chain'[x][e] = chain[x][e]
      /\ chain'[x][g] = [chain[x][g] EXCEPT ![i].status = st]
  <2>1. chain' \in [Transfer -> [Leg -> Seq(Tx)]]
    BY DecideIs
  <2>2. chain \in [Transfer -> [Leg -> Seq(Tx)]]
    BY DEF TypeOK
  <2>3. chain' = [chain EXCEPT ![x][g] = [@ EXCEPT ![i].status = st]]
    BY DEF Decide
  <2> QED
    BY <2>1, <2>2, <2>3
<1>1. /\ \A e \in Leg \ {g} : chain'[x][e] = chain[x][e]
      /\ chain'[x][g] = [chain[x][g] EXCEPT ![i].status = st]
      /\ \A e \in Leg : chain[x][e] \in Seq(Tx) /\ chain'[x][e] \in Seq(Tx)
  BY <1>0 DEF TypeOK
<1>2. /\ i \in DOMAIN chain[x][g] /\ chain[x][g][i].status = "pending"
      /\ DOMAIN chain'[x][g] = DOMAIN chain[x][g]
      /\ \A j \in DOMAIN chain[x][g] : j # i => chain'[x][g][j] = chain[x][g][j]
  BY <1>1 DEF Pending
<1>3. \A j \in DOMAIN chain[x][g] : chain'[x][g][j].of = chain[x][g][j].of
  <2>1. chain[x][g][i] \in Tx
    BY <1>1, <1>2
  <2> QED
    BY <2>1, <1>1, <1>2 DEF Tx
<1>4. \A e \in Leg : /\ Len(chain'[x][e]) = Len(chain[x][e]) /\ Len(chain[x][e]) \in Nat
                     /\ DOMAIN chain'[x][e] = DOMAIN chain[x][e]
  BY <1>1, <1>2
<1>5. \A e \in Leg : Succeeded(x, e) \subseteq Succeeded(x, e)'
  <2>1. Succeeded(x, g) \subseteq Succeeded(x, g)'
    BY <1>2 DEF Succeeded
  <2> QED
    BY <2>1, <1>1 DEF Succeeded
<1>6. Grows(x)
  BY <1>4, <1>5 DEF Grows
<1>7. \A e \in Leg : /\ Succeeded(x, e) # {} => Succeeded(x, e)' # {}
                     /\ chain'[x][e] # <<>> => chain[x][e] # <<>>
  BY <1>1, <1>4, <1>5
<1>8. ChainSound(x)
  BY DEF Sound
<1>9. \A j \in DOMAIN chain'[x]["mint"] : chain'[x]["mint"][j].of \in Succeeded(x, "burn")'
  BY <1>1, <1>3, <1>4, <1>5, <1>8 DEF ChainSound, Leg
<1>10. (Minted(x) => Minted(x)') /\ relayed'[x] \subseteq Succeeded(x, "burn")'
  BY <1>5, <1>7, <1>8 DEF ChainSound, Minted, Leg
<1> QED
  BY <1>4, <1>6, <1>7, <1>8, <1>9, <1>10 DEF ChainSound, Leg

\* With the chains gone forward, runs and row that are as before are sound.
LEMMA ForwardSound ==
  ASSUME TypeOK, TypeOK', NEW x \in Transfer, Sound(x), Grows(x), ChainSound(x)',
         kind'[x] = kind[x], kind[x] # "none", row'[x] = row[x],
         \A c \in Caller : run'[x][c] = run[x][c] \/ RunSound(x, c)'
  PROVE  Sound(x)'
<1>1. MessageKept(x)
  BY DEF MessageKept
<1>2. \A c \in Caller : RunSound(x, c)'
  BY <1>1, RunKept DEF Sound
<1>3. RowSound(x)'
  <2>1. row[x].state \in State /\ SaysTrue(x, row[x].state) /\ row[x] \in RowRecord
    BY DEF TypeOK, Sound, RowSound, RowRecord
  <2>2. \A s \in State : s = row[x].state => SaysTrue(x, s)'
    BY <2>1, <1>1, SaysKept
  <2>3. SaysTrue(x, row[x].state)'
    BY <2>1, <2>2 DEF SaysTrue
  <2>4. ASSUME NEW g \in Leg PROVE row'[x].hash[g] <= Len(chain'[x][g])
    <3>1. row[x].hash[g] \in Nat /\ Len(chain[x][g]) \in Nat /\ Len(chain'[x][g]) \in Nat
      BY <2>1 DEF RowRecord, TypeOK
    <3>2. row[x].hash[g] <= Len(chain[x][g]) /\ Len(chain[x][g]) <= Len(chain'[x][g])
      BY DEF Sound, RowSound, Grows
    <3> QED
      BY <3>1, <3>2
  <2> QED
    BY <2>3, <2>4 DEF RowSound
<1> QED
  BY <1>2, <1>3 DEF Sound, Blank

\* A run's own steps that broadcast.
LEMMA SoundSend ==
  ASSUME TypeOK, TypeOK', NEW x \in Transfer, NEW c \in Caller, Sound(x),
         Send(x, c) \/ SendLosesReply(x, c)
  PROVE  Sound(x)'
<1>1. run[x][c].pc = "send" /\ UNCHANGED <<kind, row, relayed>> /\ Broadcast(x, c)
  BY DEF Send, SendLosesReply, Broadcast
<1>2. kind[x] \in {"customer", "treasury"} /\ RunSound(x, c)
  BY <1>1, RunsOfCreated DEF Sound
<1>3. run[x][c] \in RunRecord
  BY RunTypes
<1>4. LegOf(x, c) \in Leg /\ Grows(x) /\ ChainSound(x)'
  BY <1>1, BroadcastSound
<1> DEFINE g == LegOf(x, c)
<1>5. chain'[x][g] = Append(chain[x][g], [status |-> "pending", of |-> run[x][c].message])
      /\ chain[x][g] \in Seq(Tx)
  BY <1>1, <1>4, BroadcastIs DEF TypeOK
<1>6. SaysTrue(x, run[x][c].state) /\ run[x][c].state \in State
  BY <1>2, <1>3 DEF RunSound, RunRecord
<1>7. MessageKept(x)
  BY <1>1 DEF MessageKept
<1>8. \A s \in State : s = run[x][c].state => SaysTrue(x, s)'
  BY <1>1, <1>4, <1>6, <1>7, SaysKept
<1>9. ASSUME NEW e \in Leg PROVE run[x][c].hash[e] <= Len(chain'[x][e])
  <2>1. run[x][c].hash[e] \in Nat /\ Len(chain[x][e]) \in Nat /\ Len(chain'[x][e]) \in Nat
    BY <1>3 DEF RunRecord, TypeOK
  <2>2. run[x][c].hash[e] <= Len(chain[x][e]) /\ Len(chain[x][e]) <= Len(chain'[x][e])
    BY <1>2, <1>4 DEF RunSound, Grows
  <2> QED
    BY <2>1, <2>2
<1>10. ASSUME NEW r \in RunRecord, Goto(x, c, r), run'[x][c] = r => RunSound(x, c)'
       PROVE  Sound(x)'
  <2>1. run'[x][c] = r /\ \A d \in Caller \ {c} : run'[x][d] = run[x][d]
    BY <1>10, GotoIs
  <2> QED
    BY <2>1, <1>1, <1>2, <1>4, <1>10, ForwardSound
<1>11. CASE Send(x, c)
  <2> DEFINE n == Len(chain[x][g]) + 1
             r == [run[x][c] EXCEPT !.pc = "store", !.sent = n]
  <2>1. n \in Nat /\ n \in 1..Len(chain'[x][g])
    BY <1>5
  <2> HIDE DEF n
  <2>2. /\ r \in RunRecord /\ r.pc = "store" /\ r.sent = n /\ r.state = run[x][c].state
        /\ r.hash = run[x][c].hash /\ r.message = run[x][c].message
    BY <2>1, <1>3 DEF RunRecord, Pc
  <2>3. Goto(x, c, r)
    BY <1>11 DEF Send, n
  <2> HIDE DEF r
  <2>4. ASSUME run'[x][c] = r PROVE RunSound(x, c)'
    <3>1. LegOf(x, c)' = LegOf(x, c)
      BY <2>2, <2>4, <1>1 DEF LegOf
    <3>2. SaysTrue(x, run[x][c].state)'
      BY <2>2, <2>4, <1>6, <1>8 DEF SaysTrue
    <3>3. LegOf(x, c) = "mint" => run[x][c].message \in Succeeded(x, "burn")'
      BY <1>1, <1>2, <1>4 DEF RunSound, Working, Grows, Leg
    <3> QED
      BY <3>1, <3>2, <3>3, <2>1, <2>2, <2>4, <1>4, <1>9 DEF RunSound
  <2> QED
    BY <2>2, <2>3, <2>4, <1>10
<1>12. CASE SendLosesReply(x, c)
  <2> DEFINE r == [run[x][c] EXCEPT !.pc = "catch"]
  <2>1. r \in RunRecord /\ r.pc = "catch" /\ r.state = run[x][c].state /\ r.hash = run[x][c].hash
    BY <1>3 DEF RunRecord, Pc
  <2>2. Goto(x, c, r)
    BY <1>12 DEF SendLosesReply, Throws
  <2> HIDE DEF r
  <2>3. ASSUME run'[x][c] = r PROVE RunSound(x, c)'
    <3>1. SaysTrue(x, run[x][c].state)'
      BY <2>1, <2>3, <1>6, <1>8 DEF SaysTrue
    <3> QED
      BY <3>1, <2>1, <2>3, <1>9, QuietSound
  <2> QED
    BY <2>1, <2>2, <2>3, <1>10
<1> QED
  BY <1>11, <1>12

\* The chains' own steps.
LEMMA SoundMine ==
  ASSUME TypeOK, TypeOK', NEW x \in Transfer, Sound(x), NEW g \in Leg, NEW i \in 1..MaxTx,
         Mine(x, g, i) \/ Revert(x, g, i)
  PROVE  Sound(x)'
<1>1. UNCHANGED <<kind, row, run, relayed>> /\ Pending(x, g, i)
      /\ \E st \in {"success", "reverted"} : Decide(x, g, i, st)
  BY DEF Mine, Revert
<1>2. Grows(x) /\ ChainSound(x)'
  BY <1>1, DecideSound
<1>3. kind[x] # "none"
  <2>1. chain[x][g] # <<>>
    BY <1>1 DEF Pending
  <2> QED
    BY <2>1 DEF Sound, Blank
<1> QED
  BY <1>1, <1>2, <1>3, ForwardSound

\* Somebody else relays.
LEMMA SoundRelay ==
  ASSUME TypeOK, TypeOK', NEW x \in Transfer, Sound(x), NEW i \in 1..MaxTx, Relay(x, i)
  PROVE  Sound(x)'
<1>1. UNCHANGED <<kind, row, run, chain>> /\ relayed'[x] = relayed[x] \cup {i} /\ i \in Succeeded(x, "burn")
  BY DEF Relay, TypeOK
<1>2. \A g \in Leg : Succeeded(x, g)' = Succeeded(x, g)
  BY <1>1 DEF Succeeded
<1>3. Grows(x)
  BY <1>1, <1>2 DEF Grows, TypeOK
<1>4. ChainSound(x)'
  BY <1>1, <1>2 DEF Sound, ChainSound, Minted, Leg
<1>5. kind[x] # "none"
  <2>1. chain[x]["burn"] # <<>>
    BY <1>1 DEF Succeeded
  <2> QED
    BY <2>1 DEF Sound, Blank, Leg
<1> QED
  BY <1>1, <1>3, <1>4, <1>5, ForwardSound

\* A run starts.
LEMMA SoundStart ==
  ASSUME TypeOK, TypeOK', NEW x \in Transfer, Sound(x),
         (\E k \in Kinds : Create(x, k)) \/ WorkerTakes(x)
  PROVE  Sound(x)'
<1> DEFINE r == [OffRun EXCEPT !.pc = "read"]
<1>1. r \in RunRecord /\ r.pc = "read" /\ r.state = "created" /\ r.hash = NoHashes
  BY DEF OffRun, RunRecord, Pc, State, NoHashes, NoHash
<1>2. UNCHANGED <<row, chain, relayed>> /\ \E c \in Caller : Goto(x, c, r)
  BY DEF Create, WorkerTakes, Caller
<1> HIDE DEF r
<1>3. PICK c \in Caller : Goto(x, c, r)
  BY <1>2
<1>4. run'[x][c] = r /\ \A d \in Caller \ {c} : run'[x][d] = run[x][d]
  BY <1>1, <1>3, GotoIs
<1>5. RunSound(x, c)'
  <2>1. \A g \in Leg : run'[x][c].hash[g] <= Len(chain'[x][g])
    BY <1>1, <1>4 DEF NoHashes, NoHash, TypeOK
  <2>2. SaysTrue(x, run[x][c].state)'
    BY <1>1, <1>4 DEF SaysTrue
  <2> QED
    BY <2>1, <2>2, <1>1, <1>4, QuietSound
<1>6. CASE WorkerTakes(x)
  <2>1. kind'[x] = kind[x] /\ kind[x] # "none"
    BY <1>6 DEF WorkerTakes, Sound, Blank
  <2> QED
    BY <2>1, <1>2, <1>4, <1>5, GotoSound
<1>7. ASSUME NEW k \in Kinds, Create(x, k) PROVE Sound(x)'
  <2>1. /\ row'[x] = NewRow /\ (\A g \in Leg : chain'[x][g] = <<>>)
        /\ \A d \in Caller \ {c} : run'[x][d] = OffRun
    BY <1>2, <1>4, <1>7 DEF Create, Sound, Blank
  <2>2. ASSUME NEW d \in Caller, d # c PROVE RunSound(x, d)'
    <3>1. run'[x][d].state = "created" /\ run'[x][d].pc = "off" /\ run'[x][d].hash = NoHashes
      BY <2>1, <2>2 DEF OffRun
    <3>2. \A g \in Leg : run'[x][d].hash[g] <= Len(chain'[x][g])
      BY <3>1 DEF NoHashes, NoHash, TypeOK
    <3>3. SaysTrue(x, run[x][d].state)'
      BY <3>1 DEF SaysTrue
    <3> QED
      BY <3>1, <3>2, <3>3, QuietSound
  <2>3. RowSound(x)'
    BY <2>1 DEF RowSound, NewRow, NoHashes, NoHash, SaysTrue
  <2>4. ChainSound(x)'
    <3>1. ChainSound(x) /\ Succeeded(x, "burn")' = Succeeded(x, "burn") /\ relayed'[x] = relayed[x]
      BY <1>2 DEF Sound, Succeeded
    <3> QED
      BY <2>1, <3>1 DEF ChainSound, Leg
  <2>5. kind'[x] # "none"
    BY <1>7, BridgeAssumption DEF Create, TypeOK
  <2> QED
    BY <1>5, <2>2, <2>3, <2>4, <2>5 DEF Sound, Blank
<1> QED
  BY <1>6, <1>7

\* A restart ends all runs.
LEMMA SoundCrash ==
  ASSUME TypeOK, TypeOK', NEW x \in Transfer, Sound(x), Crash
  PROVE  Sound(x)'
<1>1. UNCHANGED <<kind, row, chain, relayed>> /\ batch' = {} /\ \A c \in Caller : run'[x][c] = OffRun
  BY DEF Crash
<1>2. ASSUME NEW c \in Caller PROVE RunSound(x, c)'
  <2>1. run'[x][c].state = "created" /\ run'[x][c].pc = "off" /\ run'[x][c].hash = NoHashes
    BY <1>1 DEF OffRun
  <2>2. \A g \in Leg : run'[x][c].hash[g] <= Len(chain'[x][g])
    BY <2>1 DEF NoHashes, NoHash, TypeOK
  <2>3. SaysTrue(x, run[x][c].state)'
    BY <2>1 DEF SaysTrue
  <2> QED
    BY <2>1, <2>2, <2>3, QuietSound
<1>3. \A g \in Leg : Succeeded(x, g)' = Succeeded(x, g)
  BY <1>1 DEF Succeeded
<1> QED
  BY <1>1, <1>2, <1>3 DEF Sound, RowSound, SaysTrue, ChainSound, Minted, Blank, Leg

-----------------------------------------------------------------------------
\* Every step is about one transfer, but for a tick and a restart

ActsOn(x) ==
  \/ \E k \in Kinds : Create(x, k)
  \/ WorkerTakes(x)
  \/ \E c \in Caller : Advance(x, c) \/ Failure(x, c)
  \/ \E g \in Leg, i \in 1..MaxTx : Mine(x, g, i) \/ Revert(x, g, i)
  \/ \E i \in 1..MaxTx : Relay(x, i)

\* The others stay as they are.
LEMMA OthersKept ==
  ASSUME TypeOK, NEW x \in Transfer, Sound(x), ActsOn(x), NEW y \in Transfer, y # x
  PROVE  /\ kind'[y] = kind[y] /\ row'[y] = row[y] /\ run'[y] = run[y] /\ chain'[y] = chain[y]
         /\ overlap'[y] = overlap[y] /\ lost'[y] = lost[y]
         /\ relayed'[y] = relayed[y] /\ batch' \subseteq batch
<1>1. ASSUME NEW c \in Caller, NEW r, Goto(x, c, r) PROVE run'[y] = run[y]
  BY <1>1 DEF Goto, TypeOK
<1>2. CASE \E k \in Kinds : Create(x, k)
  BY <1>1, <1>2 DEF Create, TypeOK, Caller
<1>3. CASE WorkerTakes(x)
  BY <1>1, <1>3 DEF WorkerTakes, TypeOK, Caller
<1>4. CASE \E c \in Caller : Advance(x, c) \/ Failure(x, c)
  <2>0. PICK c \in Caller : Advance(x, c) \/ Failure(x, c)
    BY <1>4
  <2>1. \E r : Goto(x, c, r)
    BY <2>0 DEF Advance, Failure, ReadRow, RereadRow, Send, AlreadyReceived, StoreHash,
                WaitEnds, SaveState, Attested, Catch, NotAttested, StepFails, SendLosesReply, RunDies, Throws
  <2>2. run'[y] = run[y]
    BY <2>1, <1>1
  <2>3. chain'[y] = chain[y]
    <3>1. CASE Broadcast(x, c)
      BY <3>1 DEF Broadcast, TypeOK
    <3>2. CASE UNCHANGED chain
      BY <3>2
    <3> QED
      BY <2>0, <3>1, <3>2
         DEF Advance, Failure, ReadRow, RereadRow, Send, AlreadyReceived, StoreHash, WaitEnds, SaveState,
             Attested, Catch, NotAttested, StepFails, SendLosesReply, RunDies
  <2>4. kind'[y] = kind[y] /\ row'[y] = row[y] /\ overlap'[y] = overlap[y] /\ lost'[y] = lost[y]
    BY <2>0 DEF TypeOK, Advance, Failure, ReadRow, RereadRow, Send, AlreadyReceived, StoreHash, WaitEnds,
                SaveState, Attested, Catch, NotAttested, StepFails, SendLosesReply, RunDies
  <2>5. relayed' = relayed /\ batch' \subseteq batch
    BY <2>0 DEF queueVars, Advance, Failure, ReadRow, RereadRow, Send, AlreadyReceived, StoreHash, WaitEnds,
                SaveState, Attested, Catch, NotAttested, StepFails, SendLosesReply, RunDies
  <2> QED
    BY <2>2, <2>3, <2>4, <2>5
<1>5. CASE \E g \in Leg, i \in 1..MaxTx : Mine(x, g, i) \/ Revert(x, g, i)
  BY <1>5 DEF Mine, Revert, Decide, TypeOK, queueVars
<1>6. CASE \E i \in 1..MaxTx : Relay(x, i)
  BY <1>6 DEF Relay, TypeOK, queueVars
<1> QED
  BY <1>2, <1>3, <1>4, <1>5, <1>6 DEF ActsOn

\* A tick only fills the batch, with transfers that exist.
LEMMA TickIs ==
  ASSUME Tick
  PROVE  /\ UNCHANGED <<kind, row, run, chain, relayed, overlap, lost>>
         /\ \A y \in batch' : kind[y] # "none"
BY DEF Tick, Oldest, Unfinished

\* Rows and runs know only what the chains have done, after every step.
LEMMA SoundStep ==
  ASSUME TypeOK, TypeOK', \A x \in Transfer : Sound(x), [Next]_vars, NEW y \in Transfer
  PROVE  Sound(y)'
<1>1. ASSUME NEW x \in Transfer, ActsOn(x) PROVE Sound(y)'
  <2>1. CASE x # y
    BY <1>1, <2>1, OthersKept, SoundElsewhere
  <2>2. CASE x = y
    <3>1. ASSUME NEW c \in Caller, Advance(y, c) \/ Failure(y, c) PROVE Sound(y)'
      BY <3>1, SoundGoto, SoundWrite, SoundSend DEF Advance, Failure
    <3>2. ASSUME NEW g \in Leg, NEW i \in 1..MaxTx, Mine(y, g, i) \/ Revert(y, g, i) PROVE Sound(y)'
      BY <3>2, SoundMine
    <3>3. ASSUME NEW i \in 1..MaxTx, Relay(y, i) PROVE Sound(y)'
      BY <3>3, SoundRelay
    <3> QED
      BY <1>1, <2>2, <3>1, <3>2, <3>3, SoundStart DEF ActsOn
  <2> QED
    BY <2>1, <2>2
<1>2. CASE Crash
  BY <1>2, SoundCrash
<1>3. CASE Tick
  BY <1>3, TickIs, SoundElsewhere
<1>4. CASE UNCHANGED vars
  BY <1>4, SoundElsewhere DEF vars, queueVars
<1> QED
  BY <1>1, <1>2, <1>3, <1>4 DEF Next, ActsOn

-----------------------------------------------------------------------------
\* An undisturbed run knows what the row says

\* What an undisturbed run that stores nothing can rely on.
LEMMA Relies ==
  ASSUME NEW x \in Transfer, NEW c \in Caller, Orderly(x), run[x][c].pc # "off"
  PROVE  /\ \A d \in Caller \ {c} : run[x][d].pc = "off"
         /\ row[x].state = "failed" => run[x][c].pc = "read" /\ \A g \in Leg : chain[x][g] = <<>>
         /\ \A g \in Leg : chain[x][g] # <<>> =>
              row[x].hash[g] # NoHash \/ (run[x][c].pc = "store" /\ LegOf(x, c) = g)
<1>1. \A d \in Caller \ {c} : run[x][d].pc = "off"
  BY DEF Orderly, Caller
<1> QED
  BY <1>1 DEF Orderly, Known

\* What its step must leave behind.
LEMMA StaysOrderly ==
  ASSUME NEW x \in Transfer, NEW c \in Caller, Orderly(x), run[x][c].pc # "off",
         \A d \in Caller \ {c} : run'[x][d] = run[x][d],
         CopyTrue(x, c)',
         row'[x].state = "failed" => run'[x][c].pc \in {"off", "read"} /\ \A g \in Leg : chain'[x][g] = <<>>,
         \A g \in Leg : /\ Len(chain'[x][g]) <= 1
                        /\ chain'[x][g] # <<>> =>
                             row'[x].hash[g] # NoHash \/ (run'[x][c].pc = "store" /\ LegOf(x, c)' = g)
  PROVE  Orderly(x)'
<1>1. \A d \in Caller \ {c} : run'[x][d].pc = "off"
  BY Relies
<1>2. \A d \in Caller : CopyTrue(x, d)'
  BY <1>1 DEF CopyTrue
<1>3. run'[x]["starter"].pc = "off" \/ run'[x]["worker"].pc = "off"
  BY <1>1 DEF Caller
<1>4. Known(x)'
  BY DEF Known
<1>5. row'[x].state = "failed" => \A d \in Caller : run'[x][d].pc \in {"off", "read"}
  BY <1>1
<1> QED
  BY <1>2, <1>3, <1>4, <1>5 DEF Orderly

\* Steps that write neither row nor chains and hold no hash in hand.
LEMMA OrderlyGoto ==
  ASSUME NEW x \in Transfer, NEW c \in Caller, Orderly(x), run[x][c].pc \notin {"off", "store"},
         \A d \in Caller \ {c} : run'[x][d] = run[x][d],
         CopyTrue(x, c)', row'[x] = row[x], chain'[x] = chain[x],
         run[x][c].pc = "read" /\ row[x].state = "failed" => run'[x][c].pc = "off"
  PROVE  Orderly(x)'
<1>1. /\ row[x].state = "failed" => run[x][c].pc = "read" /\ \A g \in Leg : chain[x][g] = <<>>
      /\ \A g \in Leg : chain[x][g] # <<>> => row[x].hash[g] # NoHash
  BY Relies
<1>2. \A g \in Leg : Len(chain[x][g]) <= 1
  BY DEF Orderly, Known
<1> QED
  BY <1>1, <1>2, StaysOrderly

\* A run that goes on with a true copy keeps one.
LEMMA EnteringTrue ==
  ASSUME NEW x \in Transfer, NEW c \in Caller, NEW r \in RunRecord,
         kind'[x] \in {"customer", "treasury"}, run'[x][c] = Entering(kind'[x], r),
         row'[x].state = r.state, \A g \in Ahead(r.state) : r.hash[g] = row'[x].hash[g]
  PROVE  CopyTrue(x, c)'
<1>0. \A s \in State : Ahead(s) \subseteq Leg
  BY DEF Ahead, Leg, State
<1>1. CASE run'[x][c] = OffRun
  BY <1>1 DEF CopyTrue, OffRun
<1>2. CASE run'[x][c] # OffRun
  <2>1. /\ run'[x][c].state = r.state
        /\ \A g \in Leg : run'[x][c].hash[g] = IF g \in Ahead(r.state) THEN r.hash[g] ELSE NoHash
        /\ \/ run'[x][c].pc = "attest" /\ r.state = "burned"
           \/ run'[x][c].pc = "reread" /\ r.state = "attested"
           \/ /\ Stage(kind'[x], r.state) \in {"withdraw", "burn", "credit"}
              /\ run'[x][c].pc = SendOrWait(Stage(kind'[x], r.state), run'[x][c].hash)
    BY <1>2, EnteringIs
  <2>2. r.state \in State
    BY DEF RunRecord
  <2>3. \A g \in Ahead(r.state) : run'[x][c].hash[g] = row'[x].hash[g]
    BY <2>1, <2>2, <1>0
  <2>4. ASSUME run'[x][c].pc = "send" PROVE row'[x].hash[Stage(kind'[x], r.state)] = NoHash
    <3>1. /\ Stage(kind'[x], r.state) \in {"withdraw", "burn", "credit"}
          /\ run'[x][c].hash[Stage(kind'[x], r.state)] = NoHash
      BY <2>1, <2>4 DEF SendOrWait
    <3>2. Stage(kind'[x], r.state) \in Ahead(r.state)
      BY <3>1, <2>2 DEF Stage, Ahead, State
    <3> QED
      BY <3>1, <3>2, <2>3
  <2>5. LegOf(x, c)' = Stage(kind'[x], r.state)
    BY <2>1 DEF LegOf
  <2> QED
    BY <2>1, <2>3, <2>4, <2>5 DEF CopyTrue
<1> QED
  BY <1>1, <1>2

\* The run's own steps that write nothing.
LEMMA OrderlyRead ==
  ASSUME TypeOK, NEW x \in Transfer, NEW c \in Caller, Sound(x), Alone(x), Undisturbed(x)',
         \/ ReadRow(x, c) \/ RereadRow(x, c) \/ AlreadyReceived(x, c) \/ WaitEnds(x, c)
         \/ NotAttested(x, c) \/ StepFails(x, c) \/ RunDies(x, c)
  PROVE  Orderly(x)'
<1>1. UNCHANGED <<kind, row, chain, overlap>>
  BY DEF ReadRow, RereadRow, AlreadyReceived, WaitEnds, NotAttested, StepFails, RunDies
<1>2. Orderly(x) /\ run[x][c].pc \notin {"off", "store"}
  <2>0. CASE StepFails(x, c)
    <3>1. lost' = [lost EXCEPT ![x] = lost[x] \/ run[x][c].pc = "store"]
      BY <2>0 DEF StepFails
    <3>2. ~lost'[x] /\ lost \in [Transfer -> BOOLEAN]
      BY DEF Undisturbed, TypeOK
    <3>3. lost'[x] = (lost[x] \/ run[x][c].pc = "store")
      BY <3>1, <3>2
    <3>4. ~lost[x] /\ run[x][c].pc # "store"
      BY <3>2, <3>3
    <3> QED
      BY <3>4, <2>0, <1>1 DEF StepFails, Undisturbed, Alone
  <2>1. CASE ~StepFails(x, c)
    <3>1. Undisturbed(x)
      BY <2>1, <1>1 DEF ReadRow, RereadRow, AlreadyReceived, WaitEnds, NotAttested, RunDies, Undisturbed
    <3>2. run[x][c].pc \notin {"off", "store"}
      BY <2>1 DEF ReadRow, RereadRow, AlreadyReceived, WaitEnds, NotAttested, RunDies
    <3> QED
      BY <3>1, <3>2 DEF Alone
  <2> QED
    BY <2>0, <2>1
<1>3. kind[x] \in {"customer", "treasury"}
  BY <1>2, RunsOfCreated
<1>4. run[x][c] \in RunRecord /\ row[x] \in RowRecord /\ OffRun \in RunRecord
  BY RunTypes
<1>5. CopyTrue(x, c)
  BY <1>2 DEF Orderly
<1>6. ASSUME NEW r \in RunRecord, Goto(x, c, r), run'[x][c] = r => CopyTrue(x, c)',
             run[x][c].pc = "read" /\ row[x].state = "failed" => r.pc = "off"
      PROVE  Orderly(x)'
  <2>1. run'[x][c] = r /\ \A d \in Caller \ {c} : run'[x][d] = run[x][d]
    BY <1>6, GotoIs
  <2> QED
    BY <2>1, <1>1, <1>2, <1>6, OrderlyGoto
<1>7. ASSUME NEW pc \in {"catch", "save"}, Goto(x, c, [run[x][c] EXCEPT !.pc = pc]), run[x][c].pc # "read"
      PROVE  Orderly(x)'
  <2> DEFINE r == [run[x][c] EXCEPT !.pc = pc]
  <2>1. r \in RunRecord /\ r.pc = pc /\ r.state = run[x][c].state /\ r.hash = run[x][c].hash
    BY <1>4 DEF RunRecord, Pc
  <2> HIDE DEF r
  <2>2. run'[x][c] = r => CopyTrue(x, c)'
    BY <2>1, <1>1, <1>2, <1>5, <1>7 DEF CopyTrue
  <2> QED
    BY <2>1, <2>2, <1>6, <1>7 DEF r
<1>8. CASE ReadRow(x, c)
  <2> DEFINE r == [run[x][c] EXCEPT !.state = row[x].state, !.hash = row[x].hash]
  <2>1. r \in RunRecord /\ r.state = row[x].state /\ r.hash = row[x].hash
    BY <1>4 DEF RunRecord, RowRecord
  <2>2. Entering(kind[x], r) \in RunRecord
    BY <2>1, <1>3, <1>4, EnteringIs
  <2>3. Goto(x, c, Entering(kind[x], r))
    BY <1>8 DEF ReadRow
  <2> HIDE DEF r
  <2>4. run'[x][c] = Entering(kind[x], r) => CopyTrue(x, c)'
    BY <2>1, <1>1, <1>3, EnteringTrue
  <2>5. row[x].state = "failed" => Entering(kind[x], r).pc = "off"
    BY <2>1 DEF Entering, Stage, OffRun
  <2> QED
    BY <2>2, <2>3, <2>4, <2>5, <1>6
<1>9. CASE RereadRow(x, c)
  <2> DEFINE h == [run[x][c].hash EXCEPT !["mint"] = row[x].hash["mint"]]
             r == [run[x][c] EXCEPT !.pc = SendOrWait("mint", h), !.hash = h, !.message = row[x].message]
  <2>1. h \in [Leg -> Nat] /\ h["mint"] = row[x].hash["mint"] /\ h["credit"] = run[x][c].hash["credit"]
    BY <1>4 DEF RunRecord, RowRecord, Leg
  <2>2. run[x][c].state = "attested" /\ run[x][c].pc = "reread"
    BY <1>9 DEF RereadRow, Sound, RunSound
  <2> HIDE DEF h
  <2>3. /\ r \in RunRecord /\ r.pc \in {"send", "wait"} /\ r.hash = h /\ r.state = "attested"
        /\ (r.pc = "send" => h["mint"] = NoHash)
    BY <2>1, <2>2, <1>4 DEF RunRecord, RowRecord, SendOrWait, Pc
  <2>4. Goto(x, c, r)
    BY <1>9 DEF RereadRow, h
  <2>5. Ahead("attested") = {"credit"}
    BY DEF Ahead
  <2>6. row[x].state = "attested" /\ row[x].hash["credit"] = run[x][c].hash["credit"]
    BY <2>2, <2>5, <1>5 DEF CopyTrue
  <2> HIDE DEF r
  <2>7. ASSUME run'[x][c] = r PROVE CopyTrue(x, c)'
    <3>1. LegOf(x, c)' = "mint"
      BY <2>3, <2>7 DEF LegOf, Stage
    <3> QED
      BY <3>1, <2>1, <2>3, <2>5, <2>6, <2>7, <1>1 DEF CopyTrue
  <2> QED
    BY <2>2, <2>3, <2>4, <2>7, <1>6
<1>10. CASE AlreadyReceived(x, c) \/ WaitEnds(x, c) \/ StepFails(x, c)
  <2>1. /\ run[x][c].pc # "read"
        /\ \E pc \in {"catch", "save"} : Goto(x, c, [run[x][c] EXCEPT !.pc = pc])
    BY <1>10 DEF AlreadyReceived, WaitEnds, StepFails, Throws
  <2> QED
    BY <2>1, <1>7
<1>11. CASE NotAttested(x, c) \/ RunDies(x, c)
  <2>1. Goto(x, c, OffRun)
    BY <1>11 DEF NotAttested, RunDies
  <2>2. (run'[x][c] = OffRun => CopyTrue(x, c)') /\ OffRun.pc = "off"
    BY DEF CopyTrue, OffRun
  <2> QED
    BY <2>1, <2>2, <1>4, <1>6
<1> QED
  BY <1>8, <1>9, <1>10, <1>11

\* Nothing is ahead of the state a leg leads to that was not ahead of the leg.
LEMMA AheadAfter ==
  ASSUME NEW k \in {"customer", "treasury"}, NEW s \in State, Stage(k, s) \in Leg
  PROVE  /\ StateAfter(Stage(k, s)) \in State \ {"failed"}
         /\ Ahead(StateAfter(Stage(k, s))) \subseteq Ahead(s)
         /\ Ahead(StateAfter(Stage(k, s))) \subseteq Leg
BY DEF Stage, StateAfter, Ahead, Leg, State

\* The run's own steps that write the row.
LEMMA OrderlyWrite ==
  ASSUME TypeOK, TypeOK', NEW x \in Transfer, NEW c \in Caller, Sound(x), Alone(x), Undisturbed(x)',
         StoreHash(x, c) \/ SaveState(x, c) \/ Attested(x, c) \/ Catch(x, c)
  PROVE  Orderly(x)'
<1>1. UNCHANGED <<kind, chain, overlap, lost>> /\ run[x][c].pc \notin {"off", "read"}
  BY DEF StoreHash, SaveState, Attested, Catch
<1>2. Orderly(x)
  BY <1>1 DEF Undisturbed, Alone
<1>3. kind[x] \in {"customer", "treasury"}
  BY <1>1, RunsOfCreated
<1>4. run[x][c] \in RunRecord /\ row[x] \in RowRecord /\ OffRun \in RunRecord
  BY RunTypes
<1>5. /\ run[x][c].state = row[x].state
      /\ \A g \in Ahead(run[x][c].state) : run[x][c].hash[g] = row[x].hash[g]
  BY <1>1, <1>2 DEF Orderly, CopyTrue
<1>6. /\ row[x].state # "failed"
      /\ \A g \in Leg : /\ Len(chain'[x][g]) <= 1
                        /\ chain'[x][g] # <<>> =>
                             row[x].hash[g] # NoHash \/ (run[x][c].pc = "store" /\ LegOf(x, c) = g)
  BY <1>1, <1>2, Relies DEF Orderly, Known
<1>7. RunSound(x, c)
  BY DEF Sound
<1>8. ASSUME NEW r \in RunRecord, Goto(x, c, r), run'[x][c] = r => CopyTrue(x, c)',
             row'[x].state # "failed", \A g \in Leg : chain'[x][g] # <<>> => row'[x].hash[g] # NoHash
      PROVE  Orderly(x)'
  <2>1. run'[x][c] = r /\ \A d \in Caller \ {c} : run'[x][d] = run[x][d]
    BY <1>8, GotoIs
  <2> QED
    BY <2>1, <1>1, <1>2, <1>6, <1>8, StaysOrderly
<1>9. CASE StoreHash(x, c)
  <2> DEFINE g == LegOf(x, c)
             r == [run[x][c] EXCEPT !.pc = "wait", !.hash[g] = run[x][c].sent, !.sent = NoHash]
  <2>1. g \in Leg /\ run[x][c].sent \in Nat /\ run[x][c].sent # NoHash
    <3>1. g \in Leg /\ run[x][c].sent \in 1..Len(chain[x][g])
      BY <1>7, <1>9 DEF RunSound, Working, StoreHash
    <3> QED
      BY <3>1, <1>4 DEF NoHash, RunRecord
  <2>2. row'[x].state = row[x].state /\ row'[x].hash = [row[x].hash EXCEPT ![g] = run[x][c].sent]
    BY <1>4, <1>9 DEF StoreHash, RowRecord, TypeOK
  <2>3. /\ r \in RunRecord /\ r.pc = "wait" /\ r.state = run[x][c].state
        /\ r.hash = [run[x][c].hash EXCEPT ![g] = run[x][c].sent]
    BY <1>4, <2>1 DEF RunRecord, Pc, NoHash
  <2>4. ASSUME NEW e \in Leg, chain'[x][e] # <<>> PROVE row'[x].hash[e] # NoHash
    BY <2>1, <2>2, <2>4, <1>4, <1>6 DEF RowRecord
  <2>5. Goto(x, c, r)
    BY <1>9 DEF StoreHash
  <2>6. Ahead(run[x][c].state) \subseteq Leg
    BY <1>4 DEF RunRecord, State, Ahead, Leg
  <2>7. \A e \in Ahead(run[x][c].state) : r.hash[e] = row'[x].hash[e]
    BY <2>2, <2>3, <2>6, <1>4, <1>5 DEF RunRecord, RowRecord
  <2> HIDE DEF r
  <2>8. run'[x][c] = r => CopyTrue(x, c)'
    BY <2>2, <2>3, <2>7, <1>5 DEF CopyTrue
  <2> QED
    BY <2>2, <2>3, <2>4, <2>5, <2>8, <1>6, <1>8
<1>10. CASE SaveState(x, c)
  <2> DEFINE s0 == StateAfter(LegOf(x, c))
             r == [run[x][c] EXCEPT !.state = s0]
  <2>1. s0 \in State \ {"failed"} /\ Ahead(s0) \subseteq Ahead(run[x][c].state)
    <3>1. LegOf(x, c) \in Leg
      BY <1>7, <1>10 DEF RunSound, Working, SaveState
    <3> QED
      BY <3>1, <1>3, <1>4, AheadAfter DEF LegOf, RunRecord
  <2>2. row'[x].state = s0 /\ row'[x].hash = row[x].hash
    BY <1>4, <1>10 DEF SaveState, RowRecord, TypeOK
  <2>3. Goto(x, c, Entering(kind[x], r))
    BY <1>10 DEF SaveState
  <2> HIDE DEF s0
  <2>4. r \in RunRecord /\ r.state = s0 /\ r.hash = run[x][c].hash
    BY <2>1, <1>4 DEF RunRecord
  <2> HIDE DEF r
  <2>5. \A g \in Ahead(r.state) : r.hash[g] = row'[x].hash[g]
    BY <2>1, <2>2, <2>4, <1>5
  <2>6. Entering(kind[x], r) \in RunRecord
    BY <2>4, <1>3, <1>4, EnteringIs
  <2>7. run'[x][c] = Entering(kind[x], r) => CopyTrue(x, c)'
    BY <2>2, <2>4, <2>5, <1>1, <1>3, EnteringTrue
  <2> QED
    BY <2>1, <2>2, <2>3, <2>6, <2>7, <1>6, <1>8, <1>10 DEF SaveState
<1>11. CASE Attested(x, c)
  <2> DEFINE r == [run[x][c] EXCEPT !.state = "attested"]
  <2>1. row'[x].state = "attested" /\ row'[x].hash = row[x].hash
    BY <1>4, <1>11 DEF Attested, RowRecord, TypeOK
  <2>2. run[x][c].state = "burned" /\ Ahead("attested") \subseteq Ahead("burned")
    BY <1>7, <1>11 DEF RunSound, Attested, Ahead
  <2>3. r \in RunRecord /\ r.state = "attested" /\ r.hash = run[x][c].hash
    BY <1>4 DEF RunRecord, State
  <2>4. Goto(x, c, Entering(kind[x], r))
    BY <1>11 DEF Attested
  <2> HIDE DEF r
  <2>5. \A g \in Ahead(r.state) : r.hash[g] = row'[x].hash[g]
    BY <2>1, <2>2, <2>3, <1>5
  <2>6. Entering(kind[x], r) \in RunRecord
    BY <2>3, <1>3, <1>4, EnteringIs
  <2>7. run'[x][c] = Entering(kind[x], r) => CopyTrue(x, c)'
    BY <2>1, <2>3, <2>5, <1>1, <1>3, EnteringTrue
  <2> QED
    BY <2>1, <2>4, <2>6, <2>7, <1>6, <1>8, <1>11 DEF Attested
<1>12. CASE Catch(x, c)
  <2>1. Goto(x, c, OffRun)
    BY <1>12 DEF Catch
  <2>2. run'[x][c] = OffRun /\ \A d \in Caller \ {c} : run'[x][d] = run[x][d]
    BY <2>1, <1>4, GotoIs
  <2>3. \A d \in Caller : run'[x][d].pc = "off"
    BY <2>2, <1>1, <1>2, Relies DEF OffRun
  <2>4. row'[x].hash = row[x].hash
    BY <1>4, <1>12 DEF Catch, RowRecord, TypeOK
  <2>5. \A g \in Leg : chain'[x][g] # <<>> => row[x].hash[g] # NoHash
    BY <1>6, <1>12 DEF Catch
  <2>6. ASSUME row'[x].state = "failed" PROVE \A g \in Leg : chain'[x][g] = <<>>
    <3>1. SafeToGiveUp(run[x][c])
      BY <2>6, <1>6, <1>12 DEF Catch
    <3>2. /\ run[x][c].state = "created"
          /\ run[x][c].hash["withdraw"] = NoHash /\ run[x][c].hash["burn"] = NoHash
      BY <3>1 DEF SafeToGiveUp
    <3>3. "withdraw" \in Ahead("created") /\ "burn" \in Ahead("created")
      BY DEF Ahead
    <3>4. row[x].hash["withdraw"] = NoHash /\ row[x].hash["burn"] = NoHash
      BY <3>2, <3>3, <1>5
    <3>5. chain[x]["withdraw"] = <<>> /\ chain[x]["burn"] = <<>>
      BY <3>4, <2>5, <1>1 DEF Leg
    <3>6. Succeeded(x, "burn") = {}
      BY <3>5 DEF Succeeded
    <3>7. \A i \in DOMAIN chain[x]["mint"] : FALSE
      BY <3>6 DEF Sound, ChainSound
    <3>8. chain[x]["mint"] = <<>>
      <4>1. chain[x]["mint"] \in Seq(Tx)
        BY DEF TypeOK, Leg
      <4>2. Len(chain[x]["mint"]) = 0
        <5>1. Len(chain[x]["mint"]) \in Nat /\ DOMAIN chain[x]["mint"] = 1..Len(chain[x]["mint"])
          BY <4>1
        <5>2. 1 \notin DOMAIN chain[x]["mint"]
          BY <3>7
        <5> QED
          BY <5>1, <5>2
      <4> QED
        BY <4>1, <4>2
    <3>9. Succeeded(x, "mint") = {} /\ relayed[x] = {}
      BY <3>6, <3>8 DEF Succeeded, Sound, ChainSound
    <3>10. chain[x]["credit"] = <<>>
      BY <3>9 DEF Sound, ChainSound, Minted
    <3> QED
      BY <3>5, <3>8, <3>10, <1>1 DEF Leg
  <2>7. \A d \in Caller : CopyTrue(x, d)'
    BY <2>3 DEF CopyTrue
  <2>8. Known(x)'
    BY <2>4, <2>5, <1>6 DEF Known
  <2> QED
    BY <2>3, <2>6, <2>7, <2>8 DEF Orderly, Caller
<1> QED
  BY <1>9, <1>10, <1>11, <1>12

\* A broadcast by an undisturbed run is the first of its leg.
LEMMA OrderlySend ==
  ASSUME TypeOK, TypeOK', NEW x \in Transfer, NEW c \in Caller, Sound(x), Alone(x), Undisturbed(x)',
         Send(x, c) \/ SendLosesReply(x, c)
  PROVE  Orderly(x)'
<1>1. Send(x, c)
  BY DEF SendLosesReply, Undisturbed, TypeOK
<1>2. Orderly(x) /\ run[x][c].pc = "send" /\ Broadcast(x, c) /\ UNCHANGED <<kind, row, relayed>>
  BY <1>1 DEF Send, Broadcast, Undisturbed, Alone
<1>3. run[x][c] \in RunRecord /\ row[x] \in RowRecord
  BY RunTypes
<1>4. LegOf(x, c) \in Leg
  BY <1>2, BroadcastSound
<1> DEFINE g == LegOf(x, c)
           n == Len(chain[x][g]) + 1
           r == [run[x][c] EXCEPT !.pc = "store", !.sent = n]
<1>5. /\ \A e \in Leg \ {g} : chain'[x][e] = chain[x][e]
      /\ chain'[x][g] = Append(chain[x][g], [status |-> "pending", of |-> run[x][c].message])
      /\ chain[x][g] \in Seq(Tx)
  BY <1>2, <1>4, BroadcastIs DEF TypeOK
<1>6. CopyTrue(x, c) /\ row[x].state # "failed" /\ \A e \in Leg : Len(chain[x][e]) <= 1
  BY <1>2, Relies DEF Orderly, Known
<1>7. \A e \in Leg : chain[x][e] # <<>> => row[x].hash[e] # NoHash
  BY <1>2, Relies
<1>8. chain[x][g] = <<>>
  BY <1>2, <1>4, <1>6, <1>7 DEF CopyTrue
<1>9. Len(chain'[x][g]) <= 1
  BY <1>5, <1>8
<1>10. n \in Nat
  BY <1>5
<1>11. Goto(x, c, r)
  BY <1>1 DEF Send
<1> HIDE DEF n
<1>12. r \in RunRecord /\ r.pc = "store" /\ r.state = run[x][c].state /\ r.hash = run[x][c].hash
  BY <1>3, <1>10 DEF RunRecord, Pc
<1> HIDE DEF r
<1>13. run'[x][c] = r /\ \A d \in Caller \ {c} : run'[x][d] = run[x][d]
  BY <1>11, <1>12, GotoIs
<1>14. LegOf(x, c)' = LegOf(x, c)
  BY <1>2, <1>12, <1>13 DEF LegOf
<1>15. CopyTrue(x, c)'
  BY <1>2, <1>6, <1>12, <1>13 DEF CopyTrue
<1>16. \A e \in Leg : /\ Len(chain'[x][e]) <= 1
                      /\ chain'[x][e] # <<>> =>
                           row'[x].hash[e] # NoHash \/ (run'[x][c].pc = "store" /\ LegOf(x, c)' = e)
  BY <1>2, <1>5, <1>6, <1>7, <1>9, <1>12, <1>13, <1>14
<1> QED
  BY <1>2, <1>6, <1>13, <1>15, <1>16, StaysOrderly

\* A run starts on a transfer that nothing else is on.
LEMMA OrderlyStart ==
  ASSUME TypeOK, TypeOK', NEW x \in Transfer, Sound(x), Alone(x), Undisturbed(x)',
         (\E k \in Kinds : Create(x, k)) \/ WorkerTakes(x)
  PROVE  Orderly(x)'
<1> DEFINE r == [OffRun EXCEPT !.pc = "read"]
<1>1. r \in RunRecord /\ r.pc = "read"
  BY DEF OffRun, RunRecord, Pc, State, NoHashes, NoHash
<1>2. /\ UNCHANGED <<row, chain>>
      /\ (\A c \in Caller : run[x][c].pc = "off")
      /\ row[x].state = "failed" => \A g \in Leg : chain[x][g] = <<>>
      /\ \A g \in Leg : Len(chain[x][g]) <= 1 /\ (chain[x][g] # <<>> => row[x].hash[g] # NoHash)
  <2>1. CASE \E k \in Kinds : Create(x, k)
    <3>1. UNCHANGED <<row, chain>> /\ row[x] = NewRow /\ (\A g \in Leg : chain[x][g] = <<>>)
          /\ \A c \in Caller : run[x][c] = OffRun
      BY <2>1 DEF Create, Sound, Blank
    <3>2. NewRow.state = "created" /\ OffRun.pc = "off"
      BY DEF NewRow, OffRun
    <3> QED
      BY <3>1, <3>2
  <2>2. CASE WorkerTakes(x)
    <3>1. overlap' = [overlap EXCEPT ![x] = overlap[x] \/ run[x]["starter"].pc # "off"]
      BY <2>2 DEF WorkerTakes
    <3>2. ~overlap'[x] /\ ~lost[x] /\ overlap \in [Transfer -> BOOLEAN]
      BY <2>2 DEF WorkerTakes, Undisturbed, TypeOK
    <3>3. overlap'[x] = (overlap[x] \/ run[x]["starter"].pc # "off")
      BY <3>1, <3>2
    <3>4. ~overlap[x] /\ run[x]["starter"].pc = "off"
      BY <3>2, <3>3
    <3>5. Orderly(x)
      BY <3>2, <3>4 DEF Undisturbed, Alone
    <3>6. \A c \in Caller : run[x][c].pc = "off"
      BY <3>4, <2>2 DEF WorkerTakes, WorkerIdle, Caller
    <3> QED
      BY <3>5, <3>6, <2>2 DEF WorkerTakes, Orderly, Known
  <2> QED
    BY <2>1, <2>2
<1>3. \E c \in Caller : Goto(x, c, r)
  BY DEF Create, WorkerTakes, Caller
<1> HIDE DEF r
<1>4. PICK c \in Caller : Goto(x, c, r)
  BY <1>3
<1>5. run'[x][c].pc = "read" /\ \A d \in Caller \ {c} : run'[x][d].pc = "off"
  BY <1>1, <1>2, <1>4, GotoIs
<1>6. \A d \in Caller : CopyTrue(x, d)'
  BY <1>5 DEF CopyTrue
<1>7. run'[x]["starter"].pc = "off" \/ run'[x]["worker"].pc = "off"
  BY <1>5 DEF Caller
<1>8. Known(x)'
  BY <1>2 DEF Known
<1>9. \A d \in Caller : run'[x][d].pc \in {"off", "read"}
  BY <1>5
<1> QED
  BY <1>2, <1>6, <1>7, <1>8, <1>9 DEF Orderly

\* The chains' own steps, which broadcast nothing.
LEMMA OrderlyMine ==
  ASSUME TypeOK, TypeOK', NEW x \in Transfer, Sound(x), Alone(x), Undisturbed(x)',
         NEW g \in Leg, NEW i \in 1..MaxTx, Mine(x, g, i) \/ Revert(x, g, i)
  PROVE  Orderly(x)'
<1>1. UNCHANGED <<kind, row, run, relayed, overlap, lost>> /\ Pending(x, g, i)
      /\ \E st \in {"success", "reverted"} : Decide(x, g, i, st)
  BY DEF Mine, Revert
<1>2. Orderly(x)
  BY <1>1 DEF Undisturbed, Alone
<1>3. \A e \in Leg : Len(chain'[x][e]) = Len(chain[x][e])
  BY <1>1, DecideSound
<1>4. \A e \in Leg : chain'[x][e] # <<>> => chain[x][e] # <<>>
  <2>1. \A e \in Leg : chain[x][e] \in Seq(Tx) /\ chain'[x][e] \in Seq(Tx)
    BY DEF TypeOK
  <2> QED
    BY <2>1, <1>3
<1>5. row[x].state # "failed"
  BY <1>1, <1>2 DEF Pending, Orderly
<1>6. \A c \in Caller : CopyTrue(x, c)'
  BY <1>1, <1>2 DEF Orderly, CopyTrue, LegOf
<1>7. Known(x)'
  BY <1>1, <1>2, <1>3, <1>4 DEF Orderly, Known, LegOf
<1> QED
  BY <1>1, <1>2, <1>5, <1>6, <1>7 DEF Orderly

\* A restart that loses no hash.
LEMMA OrderlyCrash ==
  ASSUME TypeOK, NEW x \in Transfer, Alone(x), Undisturbed(x)', Crash
  PROVE  Orderly(x)'
<1>1. UNCHANGED <<row, chain, overlap>> /\ \A c \in Caller : run'[x][c].pc = "off"
  BY DEF Crash, OffRun
<1>2. lost'[x] = (lost[x] \/ \E c \in Caller : run[x][c].pc = "store")
  BY DEF Crash
<1>3. ~lost'[x] /\ ~overlap[x]
  BY <1>1 DEF Undisturbed
<1>4. ~lost[x] /\ \A c \in Caller : run[x][c].pc # "store"
  BY <1>2, <1>3
<1>5. Orderly(x)
  BY <1>3, <1>4 DEF Undisturbed, Alone
<1>6. \A c \in Caller : CopyTrue(x, c)'
  BY <1>1 DEF CopyTrue
<1>7. Known(x)'
  BY <1>1, <1>4, <1>5 DEF Orderly, Known
<1> QED
  BY <1>1, <1>5, <1>6, <1>7 DEF Orderly, Caller

\* A transfer that a step does not touch.
LEMMA AloneElsewhere ==
  ASSUME NEW y \in Transfer, Alone(y), kind'[y] = kind[y], row'[y] = row[y], chain'[y] = chain[y],
         run'[y] = run[y], overlap'[y] = overlap[y], lost'[y] = lost[y]
  PROVE  Alone(y)'
BY DEF Alone, Undisturbed, Orderly, Known, CopyTrue, LegOf

\* Every step leaves an undisturbed transfer orderly.
LEMMA AloneStep ==
  ASSUME TypeOK, TypeOK', \A x \in Transfer : Sound(x) /\ Alone(x), [Next]_vars, NEW y \in Transfer
  PROVE  Alone(y)'
<1>1. ASSUME NEW x \in Transfer, ActsOn(x) PROVE Alone(y)'
  <2>1. CASE x # y
    BY <1>1, <2>1, OthersKept, AloneElsewhere
  <2>2. ASSUME x = y, Undisturbed(y)' PROVE Orderly(y)'
    <3>1. ASSUME NEW c \in Caller, Advance(y, c) \/ Failure(y, c) PROVE Orderly(y)'
      BY <2>2, <3>1, OrderlyRead, OrderlyWrite, OrderlySend DEF Advance, Failure
    <3>2. ASSUME NEW g \in Leg, NEW i \in 1..MaxTx, Mine(y, g, i) \/ Revert(y, g, i) PROVE Orderly(y)'
      BY <2>2, <3>2, OrderlyMine
    <3>3. ASSUME NEW i \in 1..MaxTx, Relay(y, i) PROVE Orderly(y)'
      BY <2>2, <3>3, AloneElsewhere DEF Relay, Alone
    <3> QED
      BY <1>1, <2>2, <3>1, <3>2, <3>3, OrderlyStart DEF ActsOn
  <2> QED
    BY <2>1, <2>2 DEF Alone
<1>2. CASE Crash
  BY <1>2, OrderlyCrash DEF Alone
<1>3. CASE Tick
  BY <1>3, TickIs, AloneElsewhere
<1>4. CASE UNCHANGED vars
  BY <1>4, AloneElsewhere DEF vars
<1> QED
  BY <1>1, <1>2, <1>3, <1>4 DEF Next, ActsOn

-----------------------------------------------------------------------------
\* Theorems

\* At first there is no transfer.
LEMMA InitInv == Init => IndInv
<1> SUFFICES ASSUME Init PROVE IndInv
  OBVIOUS
<1>1. OffRun \in RunRecord /\ NewRow \in RowRecord
  BY DEF OffRun, NewRow, NoHashes, NoHash, RunRecord, RowRecord, Pc, State
<1>2. TypeOK
  <2>1. [g \in Leg |-> <<>>] \in [Leg -> Seq(Tx)]
    OBVIOUS
  <2> QED
    BY <1>1, <2>1, BridgeAssumption DEF Init, TypeOK, RunRecord, RowRecord
<1>3. ASSUME NEW x \in Transfer PROVE Sound(x) /\ Alone(x)
  <2>1. /\ kind[x] = "none" /\ row[x] = NewRow /\ (\A g \in Leg : chain[x][g] = <<>>)
        /\ \A c \in Caller : run[x][c] = OffRun
    BY DEF Init
  <2>2. /\ row[x].state = "created" /\ row[x].hash = NoHashes
        /\ \A c \in Caller : run[x][c].state = "created" /\ run[x][c].pc = "off" /\ run[x][c].hash = NoHashes
    BY <2>1 DEF NewRow, OffRun
  <2>3. \A g \in Leg : NoHashes[g] = 0 /\ Len(chain[x][g]) = 0
    BY <2>1 DEF NoHashes, NoHash
  <2>4. RowSound(x)
    BY <2>2, <2>3 DEF RowSound, SaysTrue
  <2>5. \A c \in Caller : RunSound(x, c)
    BY <2>2, <2>3 DEF RunSound, SaysTrue, Working
  <2>6. ChainSound(x) /\ Blank(x)
    BY <2>1 DEF ChainSound, Blank, Leg, Init
  <2>7. Orderly(x)
    BY <2>1, <2>2, <2>3 DEF Orderly, CopyTrue, Known, Caller
  <2> QED
    BY <2>4, <2>5, <2>6, <2>7 DEF Sound, Alone
<1> QED
  BY <1>2, <1>3 DEF IndInv

\* The invariant holds in every reachable state.
LEMMA Invariant == Spec => []IndInv
<1>1. IndInv /\ [Next]_vars => IndInv'
  <2> SUFFICES ASSUME IndInv, [Next]_vars PROVE IndInv'
    OBVIOUS
  <2>1. TypeOK /\ \A x \in Transfer : Sound(x) /\ Alone(x)
    BY DEF IndInv
  <2>2. TypeOK'
    BY <2>1, TypeStep
  <2>3. \A y \in Transfer : Sound(y)' /\ Alone(y)'
    BY <2>1, <2>2, SoundStep, AloneStep
  <2> QED
    BY <2>2, <2>3 DEF IndInv
<1> QED
  BY <1>1, InitInv, PTL DEF Spec

\* Rows, runs and transactions stay what their types say.
THEOREM TypeCorrect == Spec => []TypeOK
<1>1. IndInv => TypeOK
  BY DEF IndInv
<1> QED
  BY <1>1, Invariant, PTL

\* No leg of a transfer is broadcast, and no state recorded, before the leg it
\* depends on has succeeded: no box is credited with money that did not leave
\* the other one, whatever overlaps, fails or restarts.
THEOREM BackedHolds == Spec => []Backed
<1>1. IndInv => Backed
  BY DEF IndInv, Sound, RowSound, ChainSound, SaysTrue, Backed
<1> QED
  BY <1>1, Invariant, PTL

\* Unless two runs overlap or a hash is lost, no leg is broadcast twice.
THEOREM OncePerLegHolds == Spec => []OncePerLeg
<1>1. IndInv => OncePerLeg
  BY DEF IndInv, Alone, Undisturbed, Orderly, Known, OncePerLeg
<1> QED
  BY <1>1, Invariant, PTL

\* Unless two runs overlap or a hash is lost, a transfer that is given up is one
\* for which nothing was ever sent.
THEOREM FailedIsUntouchedHolds == Spec => []FailedIsUntouched
<1>1. IndInv => FailedIsUntouched
  BY DEF IndInv, Alone, Undisturbed, Orderly, FailedIsUntouched
<1> QED
  BY <1>1, Invariant, PTL

=============================================================================
