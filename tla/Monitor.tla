------------------------------- MODULE Monitor -------------------------------
(***************************************************************************)
(* How a tkCASH mint becomes an alarm: the CashIn event is read off the    *)
(* chain by the log indexer or pushed by MultiBaas, stored in chain_events *)
(* once, handed to the ops monitor, and the monitor's integrity check      *)
(* holds the kiosk's mints against the notes its machine signed            *)
(* (logIndexer.ts, routes/webhooks.ts, chainEvents.ts, opsMonitor.ts, the  *)
(* mint rule of integrity.ts, and the hash recordCashIn writes).           *)
(*                                                                         *)
(* The home of one kiosk is an indexed chain, of another the chain that    *)
(* MultiBaas serves; its mints are against either.  All are of the same    *)
(* amount, so a finding's wording is their number.  The other rules of     *)
(* reconcile are left out.                                                 *)
(***************************************************************************)
EXTENDS Integers, Sequences, SequencesExt, FiniteSets

CONSTANTS Note,      \* mints that a machine-signed note stands behind
          Rogue,     \* mints that none does
          Pushed,    \* the mints on the chain MultiBaas serves
          Stray,     \* those against the kiosk whose home is the other chain
          Request,   \* webhook requests that may be in progress at once
          Batch,     \* network.logBatchBlocks
          None,
          MaxPushes, \* bound: webhook requests
          MaxFaults  \* bound: restarts, failed writes, short RPC answers

Mint == Note \cup Rogue

ASSUME MintAssumption ==
  /\ IsFiniteSet(Mint) /\ Note \cap Rogue = {} /\ None \notin Mint
  /\ Pushed \subseteq Mint /\ Stray \subseteq Mint
  /\ "indexer" \notin Request
ASSUME BoundAssumption == Batch \in Nat \ {0} /\ MaxPushes \in Nat /\ MaxFaults \in Nat

VARIABLES mined,   \* the indexed chain's CashIn events, a block each
          others,  \* those of the chain MultiBaas serves
          hashed,  \* notes whose row holds tkcash_tx_hash
          cursor,  \* indexer_cursors.last_block
          left,    \* what a reader has yet to store of what it fetched
          telling, \* the event it has stored and not yet emitted
          to,      \* the last block of the indexer's batch
          running, \* the indexer's `running`
          stored,  \* chain_events
          told,    \* times an event reached the listeners
          check,   \* checkIntegrityAfter of an event
          signed,  \* the notes with a mint hash it read
          mints,   \* the mints it read
          seen,    \* seenFindings: the last wording per kiosk
          alerts,  \* ops_alerts: <<kiosk, the unbacked mints it counts>>
          unsaid,  \* (ghost) the same of alerts that were not written
          faded,   \* notes whose row is older than the window
          old,     \* mints whose event is
          missed,  \* (ghost) mints an RPC node left out of its answer
          pushes, faults

readerVars == <<cursor, left, telling, to, running, stored>>
checkVars == <<check, signed, mints>>
listenerVars == <<told, checkVars, seen, alerts, unsaid>>
windowVars == <<faded, old>>
boundVars == <<missed, pushes, faults>>
monitorVars == <<mined, others, hashed, readerVars, listenerVars, windowVars, boundVars>>

\* The indexer has one pass at a time, a webhook request is one each.
Reader == Request \cup {"indexer"}

\* The kiosk a mint is against, called by its home chain.
Kiosk(m) == IF m \in Pushed <=> m \in Stray THEN "indexed" ELSE "pushed"
Mined == ToSet(mined) \cup others

MonitorTypeOK ==
  /\ mined \in Seq(Mint \ Pushed) /\ others \subseteq Pushed /\ hashed \subseteq Note /\ stored \subseteq Mined
  /\ cursor \in 0..Len(mined) /\ to \in 0..Len(mined) /\ running \in BOOLEAN
  /\ left \in [Reader -> Seq(Mint)] /\ telling \in [Reader -> Mint \cup {None}]
  /\ told \in [Mint -> Nat]
  /\ check \in [Mint -> {"none", "reads", "found", "ended", "cut"}]
  /\ signed \in [Mint -> (SUBSET Note) \cup {{None}}]
  /\ mints \in [Mint -> (SUBSET Mint) \cup {{None}}]
  /\ seen \in [{"pushed", "indexed"} -> Nat]
  /\ alerts \cup unsaid \subseteq {"pushed", "indexed"} \X SUBSET Mint
  /\ faded \subseteq Note /\ old \subseteq Mined
  /\ missed \subseteq Mint /\ pushes \in 0..MaxPushes /\ faults \in 0..MaxFaults

MonitorInit ==
  /\ mined = <<>> /\ others = {} /\ hashed = {} /\ stored = {}
  /\ cursor = 0 /\ to = 0 /\ running = FALSE
  /\ left = [h \in Reader |-> <<>>]
  /\ telling = [h \in Reader |-> None]
  /\ told = [m \in Mint |-> 0]
  /\ check = [m \in Mint |-> "none"]
  /\ signed = [m \in Mint |-> {None}]
  /\ mints = [m \in Mint |-> {None}]
  /\ seen = [k \in {"pushed", "indexed"} |-> 0]
  /\ alerts = {} /\ unsaid = {} /\ faded = {} /\ old = {} /\ missed = {} /\ pushes = 0 /\ faults = 0

-----------------------------------------------------------------------------
(* The chains and the note's row *)

\* recordCashIn's transaction is mined, or one nobody's note asked for.
MintOnChain(m) ==
  /\ m \notin Mined
  /\ IF m \in Pushed
       THEN others' = others \cup {m} /\ UNCHANGED mined
       ELSE mined' = Append(mined, m) /\ UNCHANGED others
  /\ UNCHANGED <<hashed, readerVars, listenerVars, windowVars, boundVars>>

\* recordCashIn stores the hash after it waited for the receipt: the event may
\* be stored, and checked, before.
StoreHash(n) ==
  /\ n \in Mined \ hashed
  /\ hashed' = hashed \cup {n}
  /\ UNCHANGED <<mined, others, readerVars, listenerVars, windowVars, boundVars>>

\* Seven days pass since a note was taken, and since a mint was mined; a chain's
\* mints grow old in their order.  Both queries of a check ask since one moment.
NoCheckIsBetween == \A m \in Mint : signed[m] = {None} <=> mints[m] = {None}

RowAges(n) ==
  /\ n \notin faded /\ NoCheckIsBetween
  /\ faded' = faded \cup {n}
  /\ UNCHANGED <<mined, others, hashed, readerVars, listenerVars, old, boundVars>>

MintAges(m) ==
  /\ m \in Mined \ old /\ (m \in Note => m \in faded) /\ NoCheckIsBetween
  /\ \A i, j \in DOMAIN mined : i < j /\ mined[j] = m => mined[i] \in old
  /\ old' = old \cup {m}
  /\ UNCHANGED <<mined, others, hashed, readerVars, listenerVars, faded, boundVars>>

-----------------------------------------------------------------------------
(* The two ways an event comes in *)

\* The logs of a batch, and all of them, unless the RPC node that answers
\* getLogs is behind the one that answered getBlockNumber.
Logs(a, b) == SubSeq(mined, a, b)
BatchEnd == IF cursor + Batch <= Len(mined) THEN cursor + Batch ELSE Len(mined)

ReadLogs ==
  /\ ~running /\ cursor < Len(mined)
  /\ running' = TRUE
  /\ to' = BatchEnd
  /\ \/ /\ left' = [left EXCEPT !["indexer"] = Logs(cursor + 1, to')]
        /\ UNCHANGED <<missed, faults>>
     \/ /\ faults < MaxFaults /\ faults' = faults + 1
        /\ \E behind \in cursor..(to' - 1) :
             /\ left' = [left EXCEPT !["indexer"] = Logs(cursor + 1, behind)]
             /\ missed' = missed \cup ToSet(Logs(behind + 1, to'))
  /\ UNCHANGED <<mined, others, hashed, cursor, telling, stored, listenerVars, windowVars, pushes>>

\* MultiBaas posts some events, in any order and as often as it sees fit: it
\* repeats what was not answered in time, while the first is still at work.
Deliver(q, batch) ==
  /\ left[q] = <<>> /\ telling[q] = None
  /\ pushes < MaxPushes /\ pushes' = pushes + 1
  /\ left' = [left EXCEPT ![q] = batch]
  /\ UNCHANGED <<mined, others, hashed, cursor, telling, to, running, stored, listenerVars, windowVars, missed, faults>>

Batches == {<<m>> : m \in others} \cup {<<p[1], p[2]>> : p \in {r \in others \X others : r[1] # r[2]}}

\* saveEvent: on conflict (id) do nothing. Only a row it inserts is emitted.
\* Mutant: an upsert.
AlwaysNew(m) == TRUE
IsNew(m) == m \notin stored

Save(h) ==
  /\ left[h] # <<>> /\ telling[h] = None
  /\ LET m == Head(left[h]) IN
       /\ stored' = stored \cup {m}
       /\ telling' = [telling EXCEPT ![h] = IF IsNew(m) THEN m ELSE None]
  /\ left' = [left EXCEPT ![h] = Tail(@)]
  /\ UNCHANGED <<mined, others, hashed, cursor, to, running, listenerVars, windowVars, boundVars>>

\* emitChainEvent: the monitor's listener starts the check in the background.
Tell(h) ==
  /\ telling[h] # None
  /\ told' = [told EXCEPT ![telling[h]] = @ + 1]
  /\ check' = [check EXCEPT ![telling[h]] = "reads"]
  /\ telling' = [telling EXCEPT ![h] = None]
  /\ UNCHANGED <<mined, others, hashed, cursor, left, to, running, stored, signed, mints, seen, alerts, unsaid, windowVars, boundVars>>

\* Every log of the batch is handled: setCursor. Mutant: before it is stored.
EndBatchEarly ==
  /\ running /\ cursor < to
  /\ cursor' = to /\ running' = (left["indexer"] # <<>>)
  /\ UNCHANGED <<mined, others, hashed, left, telling, to, stored, listenerVars, windowVars, boundVars>>

EndBatch ==
  /\ running /\ left["indexer"] = <<>> /\ telling["indexer"] = None
  /\ cursor' = to /\ running' = FALSE
  /\ UNCHANGED <<mined, others, hashed, left, telling, to, stored, listenerVars, windowVars, boundVars>>

\* A query throws: tick logs it and the next pass reads the same batch again
\* from the cursor; a webhook answers 500 and MultiBaas may post again.
PassFails(h) ==
  /\ left[h] # <<>> /\ telling[h] = None
  /\ faults < MaxFaults /\ faults' = faults + 1
  /\ running' = (running /\ h # "indexer")
  /\ left' = [left EXCEPT ![h] = <<>>]
  /\ UNCHANGED <<mined, others, hashed, cursor, telling, to, stored, listenerVars, windowVars, missed, pushes>>

-----------------------------------------------------------------------------
(* The integrity check of a kiosk *)

\* checkKiosk asks for the notes and the mints at once: the two answers may be
\* of different moments.
ReadNotes(m) ==
  /\ check[m] = "reads" /\ signed[m] = {None}
  /\ signed' = [signed EXCEPT ![m] = {n \in hashed \ faded : Kiosk(n) = Kiosk(m)}]
  /\ UNCHANGED <<mined, others, hashed, readerVars, told, check, mints, seen, alerts, unsaid, windowVars, boundVars>>

\* The events of the kiosk's home chain only.
ReadMints(m) ==
  /\ check[m] = "reads" /\ mints[m] = {None}
  /\ mints' = [mints EXCEPT ![m] = {e \in stored \ (old \cup Stray) : Kiosk(e) = Kiosk(m)}]
  /\ UNCHANGED <<mined, others, hashed, readerVars, told, check, signed, seen, alerts, unsaid, windowVars, boundVars>>

\* reconcile's rule "2 vs 1", and the sum its wording gives.
Unbacked(m) == mints[m] \ signed[m]
Wording(m) == Cardinality(Unbacked(m))

\* A finding is raised again only when its wording changes; it is marked as
\* seen before the alert is written, and never forgotten.
\* Mutant: once per kiosk.
FreshOnce(m) == Unbacked(m) # {} /\ seen[Kiosk(m)] = 0
Fresh(m) == Unbacked(m) # {} /\ seen[Kiosk(m)] # Wording(m)

Ended(m) ==
  /\ check' = [check EXCEPT ![m] = "ended"]
  /\ signed' = [signed EXCEPT ![m] = {None}]
  /\ mints' = [mints EXCEPT ![m] = {None}]

Judge(m) ==
  /\ check[m] = "reads" /\ signed[m] # {None} /\ mints[m] # {None}
  /\ IF Fresh(m)
     THEN /\ seen' = [seen EXCEPT ![Kiosk(m)] = Wording(m)]
          /\ check' = [check EXCEPT ![m] = "found"]
          /\ UNCHANGED <<signed, mints>>
     ELSE Ended(m) /\ UNCHANGED seen
  /\ UNCHANGED <<mined, others, hashed, readerVars, told, alerts, unsaid, windowVars, boundVars>>

\* raiseAlert. The agent's look at a critical finding changes nothing here: what
\* it may do is in Proposals.
Raise(m) ==
  /\ check[m] = "found"
  /\ alerts' = alerts \cup {<<Kiosk(m), Unbacked(m)>>}
  /\ Ended(m)
  /\ UNCHANGED <<mined, others, hashed, readerVars, told, seen, unsaid, windowVars, boundVars>>

\* The insert of the alert fails: the error is logged.
RaiseFails(m) ==
  /\ check[m] = "found"
  /\ faults < MaxFaults /\ faults' = faults + 1
  /\ unsaid' = unsaid \cup {<<Kiosk(m), Unbacked(m)>>}
  /\ Ended(m)
  /\ UNCHANGED <<mined, others, hashed, readerVars, told, seen, alerts, windowVars, missed, pushes>>

\* Alerts that are about to be written.
Held == {<<Kiosk(m), Unbacked(m)>> : m \in {e \in Mint : check[e] = "found"}}

\* The backend restarts: the tables and the chains are what is left.
Restart ==
  /\ faults < MaxFaults /\ faults' = faults + 1
  /\ running' = FALSE
  /\ left' = [h \in Reader |-> <<>>]
  /\ telling' = [h \in Reader |-> None]
  /\ check' = [m \in Mint |-> IF check[m] \in {"reads", "found"} THEN "cut" ELSE check[m]]
  /\ seen' = [k \in {"pushed", "indexed"} |-> 0]
  /\ signed' = [m \in Mint |-> {None}] /\ mints' = [m \in Mint |-> {None}]
  /\ unsaid' = unsaid \cup Held
  /\ UNCHANGED <<mined, others, hashed, cursor, to, stored, told, alerts, windowVars, missed, pushes>>

-----------------------------------------------------------------------------

MonitorNext ==
  \/ \E m \in Mint : MintOnChain(m)
  \/ \E n \in Note : StoreHash(n) \/ RowAges(n)
  \/ \E m \in Mint : MintAges(m)
  \/ ReadLogs \/ EndBatch \/ Restart
  \/ \E q \in Request, b \in Batches : Deliver(q, b)
  \/ \E h \in Reader : Save(h) \/ Tell(h) \/ PassFails(h)
  \/ \E m \in Mint : ReadNotes(m) \/ ReadMints(m) \/ Judge(m) \/ Raise(m) \/ RaiseFails(m)

MonitorSpec == MonitorInit /\ [][MonitorNext]_monitorVars

-----------------------------------------------------------------------------
(* Properties *)

\* However often an event is delivered, by requests that overlap, by a batch
\* read again after a failure or a restart, the listeners hear of it at most
\* once, and only of what is in the table (saveEvent's insert decides).
HeardOnce == \A m \in Mint : told[m] <= (IF m \in stored THEN 1 ELSE 0)

\* The indexer's cursor has passed only blocks whose events it stored, but for
\* those an RPC node kept from it.
NothingSkipped ==
  \A i \in 1..cursor : mined[i] \in stored \cup missed

\* What the operators have been told of, are about to be, or were to be.
Claims == alerts \cup unsaid \cup Held

\* The mints of a kiosk that no signed note stands behind and whose check has
\* ended, as far as a check can still see them.
CheckedRogues(k) == {m \in Rogue \ (old \cup Stray) : Kiosk(m) = k /\ check[m] = "ended"}

\* An alert is out of date when it counts a mint that has got its note's hash
\* since, or has left the window.
OutOfDate(mm) == mm \cap (hashed \cup old) # {}

\* One alert of the kiosk counts all of them, however late its checks read and
\* whatever else was being checked at the time.  What can leave one out is an
\* older alert of at least the same sum that is out of date: its wording silences
\* the next finding that has it.  (An alert whose insert failed, or that the
\* backend died over, silences too: unsaid holds those.)
RoguesAreReported ==
  \A k \in {"pushed", "indexed"} :
    \/ CheckedRogues(k) = {}
    \/ \E a \in Claims :
         /\ a[1] = k
         /\ \/ CheckedRogues(k) \subseteq a[2]
            \/ OutOfDate(a[2]) /\ Cardinality(CheckedRogues(k)) <= Cardinality(a[2])
=============================================================================
