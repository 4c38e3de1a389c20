------------------------------- MODULE Kiosk -------------------------------
(***************************************************************************)
(* The cash terminal: the screen that logs customers in and out, the web   *)
(* app's server that tells the Pi and the backend, the bridge on the Pi    *)
(* that holds the one active session and reports notes, and the serial     *)
(* listener in front of the bill acceptor (frontend/app/kiosk/KioskApp.tsx *)
(* lib/kiosk.ts, api/kiosk/logout, device-agent/server.js,                 *)
(* serial/bill_acceptor_serial.py, backend sessions.ts).                   *)
(*                                                                         *)
(* A login is a Visit, which also names its session token.  Three copies   *)
(* of "who is logged in" drift apart: the backend's (live), the bridge's   *)
(* (box, fresh) and the listener's (polled), and a call that fails or      *)
(* times out may still land later.                                         *)
(***************************************************************************)
EXTENDS Integers, FiniteSets

CONSTANTS Visit,      \* logins at this terminal
          NoVisit,    \* nobody, or a null token
          Note,       \* the notes people insert
          MaxFaults   \* bound: calls that fail or time out, restarts of the Pi

ASSUME KioskAssumption == NoVisit \notin Visit
ASSUME BoundAssumption == MaxFaults \in Nat

VARIABLES live,       \* the session tokens the backend honours
          login,      \* how far the login of a visit is at the web app's server
          out,        \* a visit's logout request, and (NoVisit) a page load's own
          screen,     \* the visit the screen shows
          waiting,    \* the visit whose login the page waits for
          cookie,     \* the kiosk cookie
          box, fresh, \* the bridge's session and whether it is before expiresAt
          landing,    \* sessions, or (NoVisit) their end, that calls given up on may still set
          polled,     \* the listener's session_active
          where,      \* where a note is
          tok,        \* the token its report goes with
          feed,       \* its entry in the bridge's event feed
          row,        \* the account a note is on record for
          owner,      \* (ghost) who may have stood there when it was stacked
          swapped,    \* (ghost) the bridge's session changed under the note
          orphan,     \* (ghost) visits let go of without a logout of their own
          faults

screenVars == <<login, out, screen, waiting, cookie, orphan>>
boxVars == <<box, fresh, landing, polled>>
noteVars == <<where, tok, feed, row, owner, swapped>>
terminalVars == <<live, screenVars, boxVars, noteVars, faults>>

Login == {"none", "created", "bridged", "done"}
Leg == {"none", "todo", "over"}
Slot == Visit \cup {NoVisit}
LogoutRequest == [backend : Leg, bridge : Leg, token : Visit \cup {NoVisit}, awaited : BOOLEAN]
NoRequest == [backend |-> "none", bridge |-> "none", token |-> NoVisit, awaited |-> FALSE]
Where == {"out", "held", "stacked", "taken", "stored", "done", "back", "lost"}

KioskTypeOK ==
  /\ live \subseteq Visit
  /\ login \in [Visit -> Login]
  /\ out \in [Slot -> LogoutRequest]
  /\ screen \in Visit \cup {NoVisit} /\ waiting \in Visit \cup {NoVisit} /\ cookie \in Visit \cup {NoVisit}
  /\ box \in Visit \cup {NoVisit} /\ fresh \in BOOLEAN
  /\ landing \subseteq Slot
  /\ polled \in BOOLEAN
  /\ where \in [Note -> Where]
  /\ tok \in [Note -> Visit \cup {NoVisit}]
  /\ feed \in [Note -> {"none", "pending", "failed"}]
  /\ row \in [Note -> Visit \cup {NoVisit}]
  /\ owner \in [Note -> SUBSET Visit] /\ orphan \subseteq Visit
  /\ swapped \in [Note -> BOOLEAN]
  /\ faults \in 0..MaxFaults

KioskInit ==
  /\ live = {}
  /\ login = [v \in Visit |-> "none"] /\ out = [v \in Slot |-> NoRequest]
  /\ screen = NoVisit /\ waiting = NoVisit /\ cookie = NoVisit
  /\ box = NoVisit /\ fresh = FALSE /\ landing = {} /\ polled = FALSE
  /\ where = [n \in Note |-> "out"] /\ tok = [n \in Note |-> NoVisit]
  /\ feed = [n \in Note |-> "none"]
  /\ owner = [n \in Note |-> {}] /\ swapped = [n \in Note |-> FALSE]
  /\ row = [n \in Note |-> NoVisit]
  /\ orphan = {}
  /\ faults = 0

Fault == faults < MaxFaults /\ faults' = faults + 1

-----------------------------------------------------------------------------
\* The bridge's one session

\* The notes between the acceptor's slot and the bridge.
InTransit == {n \in Note : where[n] \in {"held", "stacked"}}

SetBox(v) ==
  /\ box' = v
  /\ feed' = [n \in Note |-> "none"]
  /\ swapped' = [n \in Note |-> swapped[n] \/ (n \in InTransit /\ v # box /\ v # NoVisit)]

\* handleSessionStart and handleSessionEnd: events = [], the stream follows.
StartBox(v) == SetBox(v) /\ fresh' = TRUE
EndBox == SetBox(NoVisit) /\ fresh' = FALSE
KeepBox == UNCHANGED <<box, fresh, feed, swapped>>

\* Past expiresAt a session no longer counts.
EverActive == box # NoVisit
SessionActive == box # NoVisit /\ fresh

\* A bridge call that was given up on lands after all.
Land ==
  /\ \E u \in landing :
       /\ landing' = landing \ {u}
       /\ IF u = NoVisit THEN EndBox ELSE StartBox(u)
  /\ UNCHANGED <<live, screenVars, polled, where, tok, row, owner, faults>>

\* The bridge's clock passes expiresAt.
BoxExpires ==
  /\ SessionActive
  /\ fresh' = FALSE
  /\ UNCHANGED <<live, screenVars, box, landing, polled, noteVars, faults>>

-----------------------------------------------------------------------------
\* The screen

\* A QR or an email logs the customer in: the backend makes a session.
StartLogin(v) ==
  /\ screen = NoVisit /\ waiting = NoVisit
  /\ login[v] = "none"
  /\ login' = [login EXCEPT ![v] = "created"]
  /\ waiting' = v
  /\ live' = live \cup {v}
  /\ UNCHANGED <<out, screen, cookie, orphan, boxVars, noteVars, faults>>

\* kioskLoginResponse: the Pi learns the session, unless today's limit is used
\* up ("skipped") or the call fails or takes longer than 3s.
TellBridge(v) ==
  /\ login[v] = "created"
  /\ login' = [login EXCEPT ![v] = "bridged"]
  /\ \/ StartBox(v) /\ UNCHANGED <<landing, faults>>
     \/ KeepBox /\ UNCHANGED <<landing, faults>>
     \/ /\ Fault /\ KeepBox
        /\ landing' \in {landing, landing \cup {v}}
  /\ UNCHANGED <<live, out, screen, waiting, cookie, orphan, polled, where, tok, row, owner>>

\* The answer sets the cookie and the screen shows the account.
ShowAccount(v) ==
  /\ login[v] = "bridged" /\ waiting = v
  /\ login' = [login EXCEPT ![v] = "done"]
  /\ cookie' = v /\ screen' = v /\ waiting' = NoVisit
  /\ UNCHANGED <<live, out, orphan, boxVars, noteVars, faults>>

\* The catch of the login: the page is back at the start and waits no more,
\* wherever the server is.
LoginFails(v) ==
  /\ waiting = v
  /\ Fault
  /\ waiting' = NoVisit
  /\ orphan' = orphan \cup {v}
  /\ UNCHANGED <<live, login, out, screen, cookie, boxVars, noteVars>>

\* The server is done with a login the page no longer waits for: its answer
\* may still set the cookie, and shows nothing.
LoginUnseen(v) ==
  /\ login[v] = "bridged" /\ waiting # v
  /\ login' = [login EXCEPT ![v] = "done"]
  /\ cookie' \in {cookie, v}
  /\ UNCHANGED <<live, out, screen, waiting, orphan, boxVars, noteVars, faults>>

NewRequest(awaited) == [backend |-> "todo", bridge |-> "todo", token |-> cookie, awaited |-> awaited]

\* Done, the timeout and a 401 await the logout, a fresh page load does not; a
\* request that does not reach the server ends nothing, and the screen goes on.
AskLogout(v) ==
  /\ screen = v
  /\ out[v] = NoRequest
  /\ \/ \E awaited \in BOOLEAN :
          /\ out' = [out EXCEPT ![v] = NewRequest(awaited)]
          /\ screen' = IF awaited THEN screen ELSE NoVisit
          /\ orphan' = IF cookie = v THEN orphan ELSE orphan \cup {v}
          /\ UNCHANGED faults
     \/ /\ Fault
        /\ out' = out /\ screen' = NoVisit /\ orphan' = orphan \cup {v}
  /\ UNCHANGED <<live, login, waiting, cookie, boxVars, noteVars>>

\* A page is loaded with no account on the screen, or with one on its way out:
\* what the old page waited for is forgotten, and it posts a logout as well.
NobodyWaits == [u \in Slot |-> [out[u] EXCEPT !.awaited = FALSE]]

PageLoad ==
  /\ screen = NoVisit \/ out[screen] # NoRequest
  /\ out[NoVisit] = NoRequest
  /\ \/ out' = [NobodyWaits EXCEPT ![NoVisit] = NewRequest(FALSE)] /\ UNCHANGED faults
     \/ out' = NobodyWaits /\ Fault
  /\ screen' = NoVisit /\ waiting' = NoVisit
  /\ orphan' = orphan \cup ({waiting} \ {NoVisit})
  /\ UNCHANGED <<live, login, cookie, boxVars, noteVars>>

\* POST /logout at the backend; without a cookie it is not even called.
Ended(t) == live \ {t}

LogoutAtBackend(v) ==
  /\ out[v].backend = "todo"
  /\ out' = [out EXCEPT ![v].backend = "over"]
  /\ \/ live' = Ended(out[v].token) /\ UNCHANGED faults
     \/ out[v].token # NoVisit /\ Fault /\ UNCHANGED live
  /\ UNCHANGED <<login, screen, waiting, cookie, orphan, boxVars, noteVars>>

LogoutAtBridge(v) ==
  /\ out[v].bridge = "todo"
  /\ out' = [out EXCEPT ![v].bridge = "over"]
  /\ \/ EndBox /\ UNCHANGED <<landing, faults>>
     \/ /\ Fault /\ KeepBox
        /\ landing' \in {landing, landing \cup {NoVisit}}
  /\ UNCHANGED <<live, login, screen, waiting, cookie, orphan, polled, where, tok, row, owner>>

\* The answer clears the cookie, whoever's it is by now, unless it is lost.
LoggedOut(v) ==
  /\ out[v].backend = "over" /\ out[v].bridge = "over"
  /\ out' = [out EXCEPT ![v] = NoRequest]
  /\ \/ cookie' = NoVisit /\ UNCHANGED faults
     \/ cookie' = cookie /\ Fault
  /\ screen' = IF out[v].awaited THEN NoVisit ELSE screen
  /\ UNCHANGED <<live, login, waiting, orphan, boxVars, noteVars>>

\* The backend's expiry, slid by every request, is never before the bridge's copy.
SessionExpires(v) ==
  /\ v \in live
  /\ login[v] = "done"
  /\ ~(box = v /\ fresh)
  /\ live' = live \ {v}
  /\ UNCHANGED <<screenVars, boxVars, noteVars, faults>>

-----------------------------------------------------------------------------
\* The acceptor's listener

\* Once a second; a bridge that is down counts as nobody logged in.
Poll ==
  /\ polled # SessionActive
  /\ polled' = SessionActive
  /\ UNCHANGED <<live, screenVars, box, fresh, landing, noteVars, faults>>

\* Escrow: the cached answer decides at once, a second note waits its turn.
InsertNote(n) ==
  /\ where[n] = "out"
  /\ \A m \in Note : where[m] # "held"
  /\ where' = [where EXCEPT ![n] = IF polled THEN "held" ELSE "back"]
  /\ UNCHANGED <<live, screenVars, boxVars, tok, feed, row, owner, swapped, faults>>

\* Who may be standing there: the screen's visit, and those on the way in or out.
AtTerminal == {v \in Visit : v \in {screen, waiting} \/ out[v] # NoRequest}

\* A thread of its own reports the note.
Stack(n) ==
  /\ where[n] = "held"
  /\ where' = [where EXCEPT ![n] = "stacked"]
  /\ owner' = [owner EXCEPT ![n] = AtTerminal]
  /\ UNCHANGED <<live, screenVars, boxVars, tok, feed, row, swapped, faults>>

-----------------------------------------------------------------------------
\* handlePulseDeposit on the Pi

\* With a session its token is kept for the report, which waits for signNote;
\* without one the answer is 409 and the feed hears nothing of the note.
TakeUp(n) ==
  /\ where[n] = "stacked"
  /\ IF SessionActive
       THEN where' = [where EXCEPT ![n] = "taken"] /\ tok' = [tok EXCEPT ![n] = box]
       ELSE where' = [where EXCEPT ![n] = "lost"] /\ tok' = tok
  /\ UNCHANGED <<live, screenVars, boxVars, feed, row, owner, swapped, faults>>

\* signNote cannot write the key file: it throws outside the handler's try, so
\* the outer catch answers 502 and the feed hears nothing.
SigningFails(n) ==
  /\ where[n] = "taken"
  /\ where' = [where EXCEPT ![n] = "lost"]
  /\ UNCHANGED <<live, screenVars, boxVars, tok, feed, row, owner, swapped, faults>>

\* The token the note is posted with: the one kept before the awaits.
TokenByNow(n) == box
Captured(n) == tok[n]

\* The catch of the handler: the feed tells the customer, the listener logs it.
SilentFailure(n) == feed
ToldFailed(n) == [feed EXCEPT ![n] = "failed"]

\* POST /deposit: the note is on record for a live session, or refused.
PostNote(n) ==
  /\ where[n] = "taken"
  /\ \/ /\ Captured(n) \in live
        /\ row' = [row EXCEPT ![n] = Captured(n)]
        /\ where' = [where EXCEPT ![n] = "stored"]
        /\ feed' = feed
     \/ /\ where' = [where EXCEPT ![n] = "done"]
        /\ feed' = ToldFailed(n)
        /\ row' = row
  /\ UNCHANGED <<live, screenVars, boxVars, tok, owner, swapped, faults>>

\* The 202 reaches the bridge: it slides its copy of that session and lists the
\* note, which the stream may have listed already.
Answer(n) ==
  /\ where[n] = "stored"
  /\ where' = [where EXCEPT ![n] = "done"]
  /\ feed' = [feed EXCEPT ![n] = "pending"]
  /\ fresh' = (fresh \/ box = tok[n])
  /\ UNCHANGED <<live, screenVars, box, landing, polled, tok, row, owner, swapped, faults>>

\* The answer is lost, with the note on record.
AnswerLost(n) ==
  /\ where[n] = "stored"
  /\ Fault
  /\ where' = [where EXCEPT ![n] = "done"]
  /\ feed' = ToldFailed(n)
  /\ UNCHANGED <<live, screenVars, boxVars, tok, row, owner, swapped>>

\* The bridge process dies and is started again: its session, its feed and the
\* reports it was making are gone.
Restart ==
  /\ Fault
  /\ EndBox
  /\ where' = [n \in Note |-> CASE where[n] \in {"stacked", "taken"} -> "lost"
                              [] where[n] = "stored" -> "done"
                              [] OTHER -> where[n]]
  /\ UNCHANGED <<live, screenVars, landing, polled, tok, row, owner>>

-----------------------------------------------------------------------------
Logout(u) == LogoutAtBackend(u) \/ LogoutAtBridge(u) \/ LoggedOut(u)

Screen(v) ==
  \/ StartLogin(v) \/ TellBridge(v) \/ ShowAccount(v) \/ LoginFails(v) \/ LoginUnseen(v)
  \/ AskLogout(v) \/ SessionExpires(v)

Report(n) == TakeUp(n) \/ SigningFails(n) \/ PostNote(n) \/ Answer(n)

KioskNext ==
  \/ \E v \in Visit : Screen(v)
  \/ \E u \in Slot : Logout(u)
  \/ PageLoad
  \/ \E n \in Note : InsertNote(n) \/ Stack(n) \/ Report(n) \/ AnswerLost(n)
  \/ Poll \/ Land \/ BoxExpires \/ Restart

KioskSpec == KioskInit /\ [][KioskNext]_terminalVars

\* The listener polls for ever, clocks advance, and each process serves what it
\* has started.  Nobody has to log in, log out or insert a note.
KioskFairness ==
  /\ WF_terminalVars(Poll) /\ WF_terminalVars(BoxExpires)
  /\ \A n \in Note : WF_terminalVars(Report(n))

KioskFairSpec == KioskSpec /\ KioskFairness

-----------------------------------------------------------------------------
\* Properties

\* Whoever the money goes to stood at the terminal when the note was stacked.
\* One leg of a logout that fails, or one restart, is not enough to break that.
\* Two kinds of case are left: a note already in the slot while the bridge's
\* session changes hands, and a visit the page let go of without a logout of its
\* own: its login failed or was cut off by a page load when the bridge had it or
\* was yet to get it, its logout never reached the server, or it came with
\* another's cookie or with none.
RightCustomer ==
  \A n \in Note : row[n] # NoVisit => row[n] \in owner[n] \cup orphan \/ swapped[n] \/ faults > 1

\* With nobody at the terminal the acceptor stops taking notes in the end,
\* whichever logout call was lost.
SlotCloses == screen = NoVisit ~> (~polled \/ screen # NoVisit)

\* A note the bridge has taken up gets on record or the feed says it failed,
\* unless the bridge is restarted or its key file cannot be written: then the
\* note is lost, and only the listener's log has it.
NoteIsKnown ==
  \A n \in Note : where[n] = "taken" ~> row[n] # NoVisit \/ feed[n] = "failed" \/ where[n] = "lost"
=============================================================================
