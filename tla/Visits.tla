------------------------------- MODULE Visits -------------------------------
(***************************************************************************)
(* One customer's visits to the cash slot: a note signed by the Pi, what   *)
(* POST /deposit checks and reads before the note is on record in the      *)
(* visit that is open, the end of the visit, and the one receipt email     *)
(* that the end of a visit and every note that settles race for            *)
(* (device-agent/machine.js, backend machine.ts, routes/deposit.ts,        *)
(* routes/depositSessions.ts, history.ts, receiptEmail.ts, and the calls   *)
(* to it in depositQueue.ts).                                              *)
(*                                                                         *)
(* How a recorded note settles is DepositQueue's business: here it is      *)
(* confirmed or failed in one step, which the receipt then follows.        *)
(***************************************************************************)
EXTENDS Integers, FiniteSets

CONSTANTS Visit,      \* rows of deposit_sessions, all of one customer
          NoVisit,    \* session_id is null
          Note,       \* notes the kiosk takes
          Required,   \* MACHINE_SIGNATURE = required
          MaxCrashes  \* bound: restarts of the backend or of the Pi's bridge

ASSUME VisitAssumption == NoVisit \notin Visit /\ NoVisit \notin Note /\ Visit \cap Note = {}
ASSUME ModeAssumption == Required \in BOOLEAN /\ MaxCrashes \in Nat

VARIABLES nonce, file, \* the device nonce in memory and in the key file
          known,      \* the device's key is the registered one
          where,      \* where a note is
          num,        \* the nonce signed for it
          verified,   \* checkMachine's answer
          joins,      \* the visit its row names
          status,     \* deposits.status: confirmed and failed are settled
          visit,      \* deposit_sessions.status
          claimed,    \* receipt_emailed_at is set
          sent,       \* receipts that went out for the visit
          try,        \* the maybeSendReceipt of a finish or of a settled note
          of,         \* the visit it looks at
          replaced,   \* (ghost) visits closed by opening the next one
          crashes

deviceVars == <<nonce, file, known>>
noteVars == <<where, num, verified, joins, status>>
visitVars == <<visit, claimed, sent, replaced>>
tryVars == <<try, of>>
vars == <<deviceVars, noteVars, visitVars, tryVars, crashes>>

\* Who may call maybeSendReceipt: the finish of a visit, a note that settled.
Caller == Visit \cup Note

Where == {"out", "writing", "signed", "checked", "opened", "stored", "over"}
Status == {"none", "queued", "confirmed", "failed", "unqueued"}
VisitStatus == {"none", "opening", "open", "finished"}
Try == {"idle", "session", "notes", "claim", "send"}

TypeOK ==
  /\ nonce \in Nat /\ file \in Nat /\ known \in BOOLEAN
  /\ where \in [Note -> Where]
  /\ num \in [Note -> Nat]
  /\ verified \in [Note -> BOOLEAN]
  /\ joins \in [Note -> Visit \cup {NoVisit}]
  /\ status \in [Note -> Status]
  /\ visit \in [Visit -> VisitStatus]
  /\ claimed \in [Visit -> BOOLEAN]
  /\ sent \in [Visit -> Nat]
  /\ replaced \subseteq Visit
  /\ try \in [Caller -> Try]
  /\ of \in [Caller -> Visit \cup {NoVisit}]
  /\ crashes \in 0..MaxCrashes

Init ==
  /\ nonce = 0 /\ file = 0 /\ known = TRUE
  /\ where = [n \in Note |-> "out"] /\ num = [n \in Note |-> 0]
  /\ verified = [n \in Note |-> FALSE]
  /\ joins = [n \in Note |-> NoVisit] /\ status = [n \in Note |-> "none"]
  /\ visit = [v \in Visit |-> "none"]
  /\ claimed = [v \in Visit |-> FALSE] /\ sent = [v \in Visit |-> 0]
  /\ replaced = {}
  /\ try = [c \in Caller |-> "idle"] /\ of = [c \in Caller |-> NoVisit]
  /\ crashes = 0

-----------------------------------------------------------------------------
\* signNote on the Pi

\* The nonce goes up and the key file is being written.
TakeNote(n) ==
  /\ where[n] = "out"
  /\ where' = [where EXCEPT ![n] = "writing"]
  /\ nonce' = nonce + 1
  /\ num' = [num EXCEPT ![n] = nonce']
  /\ UNCHANGED <<file, known, verified, joins, status, visitVars, tryVars, crashes>>

\* The file has the nonce of this note; the one signed is the one in memory by
\* now, which a second note may have raised.
SignNote(n) ==
  /\ where[n] = "writing"
  /\ where' = [where EXCEPT ![n] = "signed"]
  /\ file' = num[n]
  /\ num' = [num EXCEPT ![n] = nonce]
  /\ UNCHANGED <<nonce, known, verified, joins, status, visitVars, tryVars, crashes>>

\* The bridge restarts: the notes it was signing are never reported, and a key
\* file cut off in the middle is replaced by a new key that nobody registered.
RestartPi ==
  /\ crashes < MaxCrashes
  /\ crashes' = crashes + 1
  /\ where' = [n \in Note |-> IF where[n] = "writing" THEN "over" ELSE where[n]]
  /\ \/ nonce' = file /\ UNCHANGED <<file, known>>
     \/ /\ \E n \in Note : where[n] = "writing"
        /\ nonce' = 0 /\ file' = 0 /\ known' = FALSE
  /\ UNCHANGED <<num, verified, joins, status, visitVars, tryVars>>

-----------------------------------------------------------------------------
\* POST /deposit

\* The nonces on record with a verified machine.
Used == {num[n] : n \in {m \in Note : status[m] # "none" /\ verified[m]}}

\* checkMachine; unverified notes are credited too, unless signatures are required.
CheckMachine(n) ==
  /\ where[n] = "signed"
  /\ LET ok == known /\ num[n] \notin Used
     IN /\ verified' = [verified EXCEPT ![n] = ok]
        /\ where' = [where EXCEPT ![n] = IF ok \/ ~Required THEN "checked" ELSE "over"]
  /\ UNCHANGED <<deviceVars, num, joins, status, visitVars, tryVars, crashes>>

\* currentOpenSession: the newest open visit, or none.
OpenVisits == {v \in Visit : visit[v] = "open"}

ReadOpen(n) ==
  /\ where[n] = "checked"
  /\ \E v \in IF OpenVisits = {} THEN {NoVisit} ELSE OpenVisits :
       joins' = [joins EXCEPT ![n] = v]
  /\ where' = [where EXCEPT ![n] = "opened"]
  /\ UNCHANGED <<deviceVars, num, verified, status, visitVars, tryVars, crashes>>

\* createQueuedDeposit, under the unique index on (machine_name, machine_nonce);
\* the insert it refuses ends the request in an error.
NoIndex(n) == TRUE
IndexAllows(n) == verified[n] => num[n] \notin Used

StoreNote(n) ==
  /\ where[n] = "opened"
  /\ IF IndexAllows(n)
       THEN status' = [status EXCEPT ![n] = "queued"] /\ where' = [where EXCEPT ![n] = "stored"]
       ELSE status' = status /\ where' = [where EXCEPT ![n] = "over"]
  /\ UNCHANGED <<deviceVars, num, verified, joins, visitVars, tryVars, crashes>>

\* enqueueDeposit: into the queue, or 503 and failed with no look at the receipt.
\* An add that lands after its 3s may have let the note settle before that.
Enqueue(n) ==
  /\ where[n] = "stored"
  /\ where' = [where EXCEPT ![n] = "over"]
  /\ \E st \in {status[n], IF status[n] = "queued" THEN "unqueued" ELSE "failed"} :
       status' = [status EXCEPT ![n] = st]
  /\ UNCHANGED <<deviceVars, num, verified, joins, visitVars, tryVars, crashes>>

-----------------------------------------------------------------------------
\* maybeSendReceipt

Settled(n) == status[n] \in {"confirmed", "failed", "unqueued"}
NotesOf(v) == {n \in Note : joins[n] = v /\ status[n] # "none"}

Begin(c, v) == try' = [try EXCEPT ![c] = "session"] /\ of' = [of EXCEPT ![c] = v]
Advance(c, step) ==
  /\ try' = [try EXCEPT ![c] = step]
  /\ of' = [of EXCEPT ![c] = IF step = "idle" THEN NoVisit ELSE @]

\* getReceipt, first query: the session row.
ReadSession(c) ==
  /\ try[c] = "session"
  /\ Advance(c, IF visit[of[c]] = "finished" THEN "notes" ELSE "idle")
  /\ UNCHANGED <<deviceVars, noteVars, visitVars, crashes>>

\* Second query: its notes.
ReadNotes(c) ==
  /\ try[c] = "notes"
  /\ LET notes == NotesOf(of[c])
     IN Advance(c, IF notes # {} /\ \A n \in notes : Settled(n) THEN "claim" ELSE "idle")
  /\ UNCHANGED <<deviceVars, noteVars, visitVars, crashes>>

\* markReceiptEmailed: the update counts only where receipt_emailed_at is null.
AnyClaim(v) == TRUE
MayClaim(v) == ~claimed[v]

Claim(c) ==
  /\ try[c] = "claim"
  /\ claimed' = [claimed EXCEPT ![of[c]] = TRUE]
  /\ Advance(c, IF MayClaim(of[c]) THEN "send" ELSE "idle")
  /\ UNCHANGED <<deviceVars, noteVars, visit, sent, replaced, crashes>>

\* The mail goes out, or fails; nothing takes the claim back.
Send(c) ==
  /\ try[c] = "send"
  /\ \E k \in {0, 1} : sent' = [sent EXCEPT ![of[c]] = @ + k]
  /\ Advance(c, "idle")
  /\ UNCHANGED <<deviceVars, noteVars, visit, claimed, replaced, crashes>>

\* Any query of it throws, or the event that goes out before it does: logged, and
\* not tried again.
TryFails(c) ==
  /\ try[c] \in {"session", "notes", "claim"}
  /\ crashes < MaxCrashes
  /\ crashes' = crashes + 1
  /\ Advance(c, "idle")
  /\ UNCHANGED <<deviceVars, noteVars, visitVars>>

MaybeSend(c) == ReadSession(c) \/ ReadNotes(c) \/ Claim(c) \/ Send(c) \/ TryFails(c)

-----------------------------------------------------------------------------
\* The queue's verdict on a note, and the look at the receipt it is followed by

NoTryAfter(n) == UNCHANGED tryVars
TryAfter(n) == IF joins[n] = NoVisit THEN UNCHANGED tryVars ELSE Begin(n, joins[n])

Settle(n) ==
  /\ status[n] \in {"queued", "unqueued"}
  /\ where[n] \in {"stored", "over"}
  /\ \E st \in {"confirmed", "failed"} : status' = [status EXCEPT ![n] = st]
  /\ TryAfter(n)
  /\ UNCHANGED <<deviceVars, where, num, verified, joins, visitVars, crashes>>

\* markDepositSending of a worker that read the row before it was marked as not
\* queued: the note is on its way after all.
Requeue(n) ==
  /\ status[n] = "unqueued"
  /\ status' = [status EXCEPT ![n] = "queued"]
  /\ UNCHANGED <<deviceVars, where, num, verified, joins, visitVars, tryVars, crashes>>

-----------------------------------------------------------------------------
\* deposit_sessions

\* openDepositSession closes what is open, without a look at its receipt ...
CloseOpen(v) ==
  /\ visit[v] = "none"
  /\ visit' = [w \in Visit |-> IF w = v THEN "opening"
                               ELSE IF visit[w] = "open" THEN "finished" ELSE visit[w]]
  /\ replaced' = replaced \cup OpenVisits
  /\ UNCHANGED <<deviceVars, noteVars, claimed, sent, tryVars, crashes>>

\* ... and inserts the new one.
InsertVisit(v) ==
  /\ visit[v] = "opening"
  /\ visit' = [visit EXCEPT ![v] = "open"]
  /\ UNCHANGED <<deviceVars, noteVars, claimed, sent, replaced, tryVars, crashes>>

\* POST /deposit-sessions/:id/finish: the row first, then the receipt.  The
\* customer may tap again.
FinishVisit(v) ==
  /\ visit[v] \in {"open", "finished"}
  /\ try[v] = "idle"
  /\ visit' = [visit EXCEPT ![v] = "finished"]
  /\ Begin(v, v)
  /\ UNCHANGED <<deviceVars, noteVars, claimed, sent, replaced, crashes>>

\* The backend dies: requests and looks at receipts are gone.  A job that had
\* confirmed its note finishes at once when it runs again.
Crash ==
  /\ crashes < MaxCrashes
  /\ crashes' = crashes + 1
  /\ try' = [c \in Caller |-> "idle"] /\ of' = [c \in Caller |-> NoVisit]
  /\ where' = [n \in Note |-> IF where[n] \in {"checked", "opened", "stored"} THEN "over" ELSE where[n]]
  /\ visit' = [v \in Visit |-> IF visit[v] = "opening" THEN "none" ELSE visit[v]]
  /\ UNCHANGED <<deviceVars, num, verified, joins, status, claimed, sent, replaced>>

-----------------------------------------------------------------------------
Deposit(n) == CheckMachine(n) \/ ReadOpen(n) \/ StoreNote(n) \/ Enqueue(n)

Next ==
  \/ \E n \in Note : TakeNote(n) \/ SignNote(n) \/ Deposit(n) \/ Settle(n) \/ Requeue(n)
  \/ \E v \in Visit : CloseOpen(v) \/ InsertVisit(v) \/ FinishVisit(v)
  \/ \E c \in Caller : MaybeSend(c)
  \/ RestartPi \/ Crash

Spec == Init /\ [][Next]_vars

-----------------------------------------------------------------------------
\* Properties

\* One device nonce stands on record as verified once, although two notes that
\* are signed together carry the same nonce, a restart of the Pi may count from
\* an older one, and checkMachine looks before the row is there.
VerifiedOnce ==
  \A m, n \in Note :
    /\ status[m] # "none" /\ verified[m]
    /\ status[n] # "none" /\ verified[n]
    /\ num[m] = num[n]
    => m = n

\* The receipt of a visit goes out by itself once at most, however many notes
\* settle while the customer finishes.
ReceiptOnce == \A v \in Visit : sent[v] <= 1

\* Nobody is still going to look at the receipt of v.
Quiet(v) ==
  /\ \A c \in Caller : of[c] # v
  /\ \A n \in Note : joins[n] = v => where[n] = "over" /\ status[n] # "queued"

\* A finished visit whose notes have all settled is not forgotten: whoever came
\* last, the finish or a note, has claimed its receipt.  The exceptions are a
\* visit closed by the next one, a note answered 503, and a restart or error.
ReceiptNotForgotten ==
  \A v \in Visit :
    /\ visit[v] = "finished" /\ Quiet(v) /\ NotesOf(v) # {}
    => \/ claimed[v]
       \/ v \in replaced
       \/ \E n \in NotesOf(v) : status[n] = "unqueued"
       \/ crashes > 0
=============================================================================
