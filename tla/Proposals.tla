------------------------------ MODULE Proposals ------------------------------
(***************************************************************************)
(* The treasury agent's proposals (backend/src/proposals.ts, policy.ts,    *)
(* mandate.ts): filed if the policy's daily cap allows, carried out at once*)
(* when they fit the agent's own daily limit, otherwise when an operator   *)
(* approves.  A call is one run of createProposal or approveProposal; the  *)
(* agent starts several at once (the tool calls of one turn run together)  *)
(* and operators may click at the same time.  Between two statements of a  *)
(* call any other call may run.                                            *)
(*                                                                         *)
(* The daily totals are kept per action and the actions alike, so one      *)
(* capped action is modelled; the checks that look at a proposal's         *)
(* arguments alone are left out.                                           *)
(***************************************************************************)
EXTENDS Integers, FiniteSets, Functions

CONSTANTS Proposal,   \* rows of ops_proposals
          NoProposal,
          Caller,     \* the calls in flight
          Amount,     \* what a proposal may ask for
          Cap,        \* POLICY: the action's cap per day
          OwnLimit    \* MANDATE: what the agent may do on its own per day

ASSUME ProposalAssumption ==
  /\ NoProposal \notin Proposal /\ IsFiniteSet(Proposal)
  /\ Amount \subseteq Nat \ {0}
  /\ Cap \in Nat /\ OwnLimit \in Nat

VARIABLES status,   \* ops_proposals.status, "none" before the insert
          amount,   \* args.amount
          auto,     \* .autonomous
          today,    \* .decided_at is today
          call,     \* the calls: step, proposal, amount, made by the agent
          carried,  \* how often the action was carried out on chain
          ownDeed,  \* history: the agent carried it out by itself
          turned,   \* history: an operator was told it is rejected
          overlap,  \* history: the stages two calls were in at once
          lost      \* history: an action was carried out and not recorded so

rowVars == <<status, amount, auto, today>>
histVars == <<ownDeed, turned, lost>>
vars == <<rowVars, call, carried, histVars, overlap>>

Status == {"none", "pending", "approved", "rejected", "executed", "failed"}
Pc == {"idle", "file", "mandate", "mark", "get", "policy", "refuse", "claim", "execute", "record", "fail"}
Stage == {"filing", "acting", "deciding"}

TypeOK ==
  /\ status \in [Proposal -> Status]
  /\ amount \in [Proposal -> Nat]
  /\ auto \in [Proposal -> BOOLEAN]
  /\ today \in [Proposal -> BOOLEAN]
  /\ call \in [Caller -> [pc : Pc, p : Proposal \cup {NoProposal}, amount : Nat, agent : BOOLEAN]]
  /\ \A c \in Caller : call[c].pc \notin {"idle", "file"} => call[c].p \in Proposal
  /\ carried \in [Proposal -> Nat]
  /\ ownDeed \in [Proposal -> BOOLEAN]
  /\ turned \in [Proposal -> BOOLEAN]
  /\ overlap \in SUBSET Stage
  /\ lost \in BOOLEAN

Idle == [pc |-> "idle", p |-> NoProposal, amount |-> 0, agent |-> FALSE]

Init ==
  /\ status = [p \in Proposal |-> "none"]
  /\ amount = [p \in Proposal |-> 0]
  /\ auto = [p \in Proposal |-> FALSE]
  /\ today = [p \in Proposal |-> FALSE]
  /\ call = [c \in Caller |-> Idle]
  /\ carried = [p \in Proposal |-> 0]
  /\ ownDeed = [p \in Proposal |-> FALSE]
  /\ turned = [p \in Proposal |-> FALSE]
  /\ overlap = {} /\ lost = FALSE

-----------------------------------------------------------------------------
\* Totals of the day, by the rows (policyContext, mandateUsage).

Total(S) == SumFunctionOnSet(amount, S)

ExecutedToday == {p \in Proposal : status[p] = "executed" /\ today[p]}
Pending == {p \in Proposal : status[p] = "pending"}

Committed == ExecutedToday \cup Pending
FitsWhenFiled(a) == Total(Committed) + a <= Cap

AlwaysFits(a) == a <= Cap
FitsWhenDecided(a) == Total(ExecutedToday) + a <= Cap

EachAlone(a) == a <= OwnLimit
WithinMandate(a) == Total({p \in ExecutedToday : auto[p]}) + a <= OwnLimit

-----------------------------------------------------------------------------
\* The stages whose checks another call may outdate: from the policy check to
\* the insert (or while an approved proposal, which that check does not count,
\* is carried out); from the mandate check, and from the start of
\* approveProposal, to the end.
InStage(k, q) ==
  CASE k = "filing"   -> q.pc \in {"file", "execute", "record"}
    [] k = "acting"   -> q.agent /\ q.pc \notin {"idle", "file", "mandate"}
    [] k = "deciding" -> q.pc \notin {"idle", "file", "mandate", "mark"}

GoOn(c, q) ==
  /\ call' = [call EXCEPT ![c] = q]
  /\ overlap' = overlap \cup {k \in Stage : InStage(k, q) /\ \E d \in Caller \ {c} : InStage(k, call[d])}
Goto(c, pc) == GoOn(c, [call[c] EXCEPT !.pc = pc])
Ends(c) == GoOn(c, Idle)
At(c, pc, p) == call[c].pc = pc /\ call[c].p = p

-----------------------------------------------------------------------------
\* createProposal, run by the agent

\* A proposal that breaks the policy is not filed.
Propose(c, a) ==
  /\ call[c].pc = "idle"
  /\ FitsWhenFiled(a)
  /\ GoOn(c, [Idle EXCEPT !.pc = "file", !.amount = a, !.agent = TRUE])
  /\ UNCHANGED <<rowVars, carried, histVars>>

Insert(c, p) ==
  /\ call[c].pc = "file"
  /\ status[p] = "none"
  /\ status' = [status EXCEPT ![p] = "pending"]
  /\ amount' = [amount EXCEPT ![p] = call[c].amount]
  /\ GoOn(c, [call[c] EXCEPT !.pc = "mandate", !.p = p])
  /\ UNCHANGED <<auto, today, carried, histVars>>

\* Outside its mandate the proposal waits for a human.
CheckMandate(c, p) ==
  /\ At(c, "mandate", p)
  /\ IF WithinMandate(amount[p]) THEN Goto(c, "mark") ELSE Ends(c)
  /\ UNCHANGED <<rowVars, carried, histVars>>

MarkAutonomous(c, p) ==
  /\ At(c, "mark", p)
  /\ auto' = [auto EXCEPT ![p] = TRUE]
  /\ Goto(c, "get")
  /\ UNCHANGED <<status, amount, today, carried, histVars>>

-----------------------------------------------------------------------------
\* approveProposal, run by an operator's click or at the end of createProposal

Approve(c, p) ==
  /\ call[c].pc = "idle"
  /\ status[p] # "none"
  /\ GoOn(c, [Idle EXCEPT !.pc = "get", !.p = p])
  /\ UNCHANGED <<rowVars, carried, histVars>>

GetProposal(c, p) ==
  /\ At(c, "get", p)
  /\ IF status[p] = "pending" THEN Goto(c, "policy") ELSE Ends(c)
  /\ UNCHANGED <<rowVars, carried, histVars>>

CheckPolicy(c, p) ==
  /\ At(c, "policy", p)
  /\ Goto(c, IF FitsWhenDecided(amount[p]) THEN "claim" ELSE "refuse")
  /\ UNCHANGED <<rowVars, carried, histVars>>

\* update .. set status = 'rejected', whatever the row says by now.
RefusedStatus == "rejected"

Refuse(c, p) ==
  /\ At(c, "refuse", p)
  /\ status' = [status EXCEPT ![p] = RefusedStatus]
  /\ today' = [today EXCEPT ![p] = TRUE]
  /\ Ends(c)
  /\ UNCHANGED <<amount, auto, carried, histVars>>

\* update .. set status = 'approved' where status = 'pending': two clicks cannot
\* both get past it.
NotRejected(p) == status[p] \notin {"none", "rejected"}
MayClaim(p) == status[p] = "pending"

Claim(c, p) ==
  /\ At(c, "claim", p)
  /\ IF MayClaim(p)
       THEN /\ status' = [status EXCEPT ![p] = "approved"]
            /\ today' = [today EXCEPT ![p] = TRUE]
            /\ Goto(c, "execute")
       ELSE Ends(c) /\ UNCHANGED <<status, today>>
  /\ UNCHANGED <<amount, auto, carried, histVars>>

CarriedOut(c, p) ==
  /\ carried' = [carried EXCEPT ![p] = @ + 1]
  /\ ownDeed' = [ownDeed EXCEPT ![p] = call[c].agent]

Execute(c, p) ==
  /\ At(c, "execute", p)
  /\ CarriedOut(c, p)
  /\ Goto(c, "record")
  /\ UNCHANGED <<rowVars, turned, lost>>

\* The executor throws: nothing happened, ...
ExecuteFails(c, p) ==
  /\ At(c, "execute", p)
  /\ Goto(c, "fail")
  /\ UNCHANGED <<rowVars, carried, histVars>>

\* ... or it did, and the answer or the receipt did not come.
ExecuteLosesReply(c, p) ==
  /\ At(c, "execute", p)
  /\ CarriedOut(c, p)
  /\ lost' = TRUE
  /\ Goto(c, "fail")
  /\ UNCHANGED <<rowVars, turned>>

RecordExecuted(c, p) ==
  /\ At(c, "record", p)
  /\ status' = [status EXCEPT ![p] = "executed"]
  /\ Ends(c)
  /\ UNCHANGED <<amount, auto, today, carried, histVars>>

\* The update is inside the try: its failure is taken for the action's.
RecordFails(c, p) ==
  /\ At(c, "record", p)
  /\ lost' = TRUE
  /\ Goto(c, "fail")
  /\ UNCHANGED <<rowVars, carried, ownDeed, turned>>

MarkFailed(c, p) ==
  /\ At(c, "fail", p)
  /\ status' = [status EXCEPT ![p] = "failed"]
  /\ Ends(c)
  /\ UNCHANGED <<amount, auto, today, carried, histVars>>

\* Postgres fails a statement outside the try: the call ends there.
Throws(c) ==
  /\ call[c].pc \notin {"idle", "execute", "record"}
  /\ Ends(c)
  /\ UNCHANGED <<rowVars, carried, histVars>>

-----------------------------------------------------------------------------
\* rejectProposal: one conditional update.
NotCarriedOut(p) == status[p] \in {"pending", "approved"}
MayReject(p) == status[p] = "pending"

Reject(p) ==
  /\ MayReject(p)
  /\ status' = [status EXCEPT ![p] = "rejected"]
  /\ today' = [today EXCEPT ![p] = TRUE]
  /\ turned' = [turned EXCEPT ![p] = TRUE]
  /\ UNCHANGED <<amount, auto, call, carried, ownDeed, overlap, lost>>

Midnight ==
  /\ today' = [p \in Proposal |-> FALSE]
  /\ UNCHANGED <<status, amount, auto, call, carried, histVars, overlap>>

Crash ==
  /\ call' = [c \in Caller |-> Idle]
  /\ lost' = (lost \/ \E c \in Caller : call[c].pc = "record")
  /\ UNCHANGED <<rowVars, carried, ownDeed, turned, overlap>>

Create(c, p) == Insert(c, p) \/ CheckMandate(c, p) \/ MarkAutonomous(c, p)

Decide(c, p) ==
  \/ Approve(c, p) \/ GetProposal(c, p) \/ CheckPolicy(c, p) \/ Refuse(c, p) \/ Claim(c, p)
  \/ Execute(c, p) \/ ExecuteFails(c, p) \/ ExecuteLosesReply(c, p)
  \/ RecordExecuted(c, p) \/ RecordFails(c, p) \/ MarkFailed(c, p)

Next ==
  \/ \E c \in Caller :
       \/ \E a \in Amount : Propose(c, a)
       \/ \E p \in Proposal : Create(c, p) \/ Decide(c, p)
       \/ Throws(c)
  \/ \E p \in Proposal : Reject(p)
  \/ Midnight \/ Crash

Spec == Init /\ [][Next]_vars

-----------------------------------------------------------------------------
\* Properties

\* However many operators click, and whatever the agent does at the same time,
\* a proposal is carried out at most once, and never after an operator was told
\* that it is rejected.
CarriedOutOnce ==
  \A p \in Proposal : carried[p] <= 1 /\ (turned[p] => carried[p] = 0)

\* The row tells what happened: executed means carried out, and, unless two
\* decisions overlapped, a rejected proposal was not.
RowTellsTruth ==
  \A p \in Proposal :
    /\ status[p] = "executed" => carried[p] = 1
    /\ status[p] = "rejected" /\ "deciding" \notin overlap => carried[p] = 0

\* The daily limits, by what was really carried out: within the cap, however
\* proposals were filed, unless two decisions overlapped or an outcome was not
\* recorded; of what the agent did by itself within its own limit, unless two of
\* its actions overlapped too; and what waits and was executed fits the cap
\* together, unless a filing ran beside another one or beside an execution.
WithinLimits ==
  /\ "deciding" \notin overlap /\ ~lost =>
       /\ Total({p \in Proposal : carried[p] > 0 /\ today[p]}) <= Cap
       /\ "acting" \notin overlap => Total({p \in Proposal : ownDeed[p] /\ today[p]}) <= OwnLimit
  /\ "filing" \notin overlap => Total(Committed) <= Cap

-----------------------------------------------------------------------------
\* The inductive invariant behind the first two (Ops_proofs).

\* The steps at which a call has claimed its proposal, and those at which it
\* has found it pending.
Claimed == {"execute", "record", "fail"}
FoundPending == {"policy", "refuse", "claim"}
HasClaimed(c, p) == call[c].pc \in Claimed /\ call[c].p = p

\* A proposal that was not decided was not carried out, nor turned down.
UndecidedIsUntouched ==
  \A p \in Proposal : status[p] \in {"none", "pending"} => carried[p] = 0 /\ ~turned[p]

\* One call holds the claim, nobody was told otherwise, and the call knows
\* whether it has carried the proposal out.
ClaimHeld ==
  \A c \in Caller : \A p \in Proposal : HasClaimed(c, p) =>
    /\ status[p] \notin {"none", "pending"}
    /\ ~turned[p]
    /\ \A d \in Caller : HasClaimed(d, p) => d = c
    /\ call[c].pc = "execute" => carried[p] = 0
    /\ call[c].pc = "record" => carried[p] = 1

\* Without an overlap one call decides at a time, what it found pending is still
\* so, or rejected by a click, and a rejected proposal is claimed by nobody.
OneDecides ==
  "deciding" \notin overlap =>
    /\ \A c, d \in Caller : InStage("deciding", call[c]) /\ InStage("deciding", call[d]) => c = d
    /\ \A c \in Caller : call[c].pc \in FoundPending =>
         status[call[c].p] \in {"pending", "rejected"} /\ carried[call[c].p] = 0
    /\ \A p \in Proposal : status[p] = "rejected" => \A c \in Caller : ~HasClaimed(c, p)

IndInv ==
  /\ TypeOK
  /\ UndecidedIsUntouched
  /\ ClaimHeld
  /\ OneDecides
  /\ CarriedOutOnce
  /\ RowTellsTruth
=============================================================================
