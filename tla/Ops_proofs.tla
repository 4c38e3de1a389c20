----------------------------- MODULE Ops_proofs -----------------------------
(***************************************************************************)
(* What the operators are told, and what they and the agent may set off.   *)
(*                                                                         *)
(* Proposals, for any number of rows, calls, midnights and crashes: IndInv *)
(* is inductive, and it implies TypeOK, CarriedOutOnce and RowTellsTruth;  *)
(* with it LimitsInv is, and implies WithinLimits.                         *)
(*                                                                         *)
(* Monitor, for any number of mints, webhook requests and failures:        *)
(* MonitorInv is inductive, and it implies HeardOnce, NothingSkipped and   *)
(* RoguesAreReported.                                                      *)
(***************************************************************************)
EXTENDS Proposals, Monitor, Sums, SequenceTheorems, FiniteSetTheorems, TLAPS

-----------------------------------------------------------------------------
(* Proposals *)

\* What a call in flight knows.
Call == [pc : Pc, p : Proposal \cup {NoProposal}, amount : Nat, agent : BOOLEAN]
WellFormed(q) == q \in Call /\ (q.pc \notin {"idle", "file"} => q.p \in Proposal)

\* The types of what IndInv says nothing else of.
OtherTypes ==
  /\ amount \in [Proposal -> Nat]
  /\ auto \in [Proposal -> BOOLEAN]
  /\ today \in [Proposal -> BOOLEAN]
  /\ ownDeed \in [Proposal -> BOOLEAN]
  /\ lost \in BOOLEAN

LEMMA TypeParts ==
  TypeOK <=>
    /\ status \in [Proposal -> Status] /\ carried \in [Proposal -> Nat] /\ turned \in [Proposal -> BOOLEAN]
    /\ call \in [Caller -> Call] /\ \A c \in Caller : WellFormed(call[c])
    /\ overlap \in SUBSET Stage
    /\ OtherTypes
<1>1. ASSUME call \in [Caller -> Call]
      PROVE  \A c \in Caller : call[c] \in Call
  BY <1>1
<1> QED
  BY <1>1 DEF TypeOK, OtherTypes, WellFormed, Call

LEMMA Deciding ==
  ASSUME NEW q
  PROVE  InStage("deciding", q) <=> q.pc \notin {"idle", "file", "mandate", "mark"}
BY DEF InStage

\* The idle call decides nothing.
LEMMA IdleCall == WellFormed(Idle) /\ Idle.pc = "idle" /\ ~InStage("deciding", Idle)
BY Deciding DEF Idle, WellFormed, Call, Pc

\* A call that goes on leaves the other calls alone; if it decides while
\* another one does, that is remembered.
LEMMA GoOnMoves ==
  ASSUME TypeOK, NEW c \in Caller, NEW q, WellFormed(q), GoOn(c, q)
  PROVE  /\ call' \in [Caller -> Call] /\ \A d \in Caller : WellFormed(call'[d])
         /\ call'[c] = q
         /\ \A d \in Caller \ {c} : call'[d] = call[d]
         /\ overlap' \in SUBSET Stage /\ overlap \subseteq overlap'
         /\ \A d \in Caller \ {c} :
              InStage("deciding", q) /\ InStage("deciding", call[d]) => "deciding" \in overlap'
<1>1. q \in Call /\ call \in [Caller -> Call] /\ \A d \in Caller : WellFormed(call[d])
  BY TypeParts DEF WellFormed
<1>2. call' = [call EXCEPT ![c] = q]
  BY DEF GoOn
<1>3. call' \in [Caller -> Call] /\ call'[c] = q /\ \A d \in Caller \ {c} : call'[d] = call[d]
  BY <1>1, <1>2
<1>4. \A d \in Caller : WellFormed(call'[d])
  BY <1>1, <1>3
<1>5. overlap' \in SUBSET Stage /\ overlap \subseteq overlap'
  BY TypeParts DEF GoOn
<1>6. ASSUME NEW d \in Caller \ {c}, InStage("deciding", q), InStage("deciding", call[d])
      PROVE  "deciding" \in overlap'
  BY <1>6 DEF GoOn, Stage
<1> QED
  BY <1>3, <1>4, <1>5, <1>6

\* Hence, while no two calls overlapped, at most one decides.
LEMMA GoOnAlone ==
  ASSUME IndInv, NEW c \in Caller, NEW q, WellFormed(q), GoOn(c, q), "deciding" \notin overlap'
  PROVE  /\ "deciding" \notin overlap
         /\ \A d, e \in Caller : InStage("deciding", call'[d]) /\ InStage("deciding", call'[e]) => d = e
<1>1. /\ call'[c] = q /\ \A d \in Caller \ {c} : call'[d] = call[d]
      /\ overlap \subseteq overlap'
      /\ \A d \in Caller \ {c} :
           InStage("deciding", q) /\ InStage("deciding", call[d]) => "deciding" \in overlap'
  BY GoOnMoves DEF IndInv
<1>2. \A d, e \in Caller : InStage("deciding", call[d]) /\ InStage("deciding", call[e]) => d = e
  BY <1>1 DEF IndInv, OneDecides
<1>3. ASSUME NEW d \in Caller, NEW e \in Caller,
             InStage("deciding", call'[d]), InStage("deciding", call'[e])
      PROVE  d = e
  <2>1. CASE d # c /\ e # c
    BY <1>1, <1>2, <1>3, <2>1
  <2>2. CASE d = c /\ e # c
    BY <1>1, <1>3, <2>2
  <2>3. CASE d # c /\ e = c
    BY <1>1, <1>3, <2>3
  <2> QED
    BY <2>1, <2>2, <2>3
<1> QED
  BY <1>1, <1>3

-----------------------------------------------------------------------------
\* The steps

LEMMA InitIndInv == Init => IndInv
<1> SUFFICES ASSUME Init PROVE IndInv
  OBVIOUS
<1> USE DEF Init
<1>1. TypeOK
  <2>1. call \in [Caller -> Call] /\ \A c \in Caller : WellFormed(call[c])
    BY IdleCall DEF WellFormed
  <2> QED
    BY <2>1, TypeParts DEF OtherTypes, Status
<1>2. \A c \in Caller : call[c].pc = "idle" /\ ~InStage("deciding", call[c])
  BY IdleCall
<1>3. UndecidedIsUntouched /\ CarriedOutOnce /\ RowTellsTruth
  BY DEF UndecidedIsUntouched, CarriedOutOnce, RowTellsTruth
<1>4. ClaimHeld /\ OneDecides
  BY <1>2 DEF ClaimHeld, OneDecides, HasClaimed, Claimed, FoundPending
<1> QED
  BY <1>1, <1>3, <1>4 DEF IndInv

\* A step that moves one call and leaves the rows and the chain alone.
LEMMA MoveStep ==
  ASSUME IndInv, NEW c \in Caller, NEW q, WellFormed(q), GoOn(c, q), OtherTypes',
         UNCHANGED <<status, carried, turned>>,
         q.pc \in Claimed => q.pc = "fail" /\ HasClaimed(c, q.p),
         q.pc \in FoundPending => \/ status[q.p] = "pending"
                                  \/ call[c].pc \in FoundPending /\ call[c].p = q.p
  PROVE  IndInv'
<1>1. /\ call' \in [Caller -> Call] /\ \A d \in Caller : WellFormed(call'[d])
      /\ call'[c] = q /\ \A d \in Caller \ {c} : call'[d] = call[d]
      /\ overlap' \in SUBSET Stage
  BY GoOnMoves DEF IndInv
<1>2. TypeOK'
  <2>1. status' \in [Proposal -> Status] /\ carried' \in [Proposal -> Nat] /\ turned' \in [Proposal -> BOOLEAN]
    BY TypeParts DEF IndInv
  <2> QED
    BY <1>1, <2>1 DEF TypeOK, OtherTypes, WellFormed, Call
<1>3. \A d \in Caller, p \in Proposal : HasClaimed(d, p)' => HasClaimed(d, p)
  BY <1>1 DEF HasClaimed, Claimed
<1>4. UndecidedIsUntouched' /\ CarriedOutOnce'
  BY DEF IndInv, UndecidedIsUntouched, CarriedOutOnce
<1>5. ClaimHeld'
  BY <1>1, <1>3 DEF IndInv, ClaimHeld, HasClaimed
<1>6. OneDecides'
  <2> SUFFICES ASSUME "deciding" \notin overlap' PROVE OneDecides'
    BY DEF OneDecides
  <2>1. /\ "deciding" \notin overlap
        /\ \A d, e \in Caller : InStage("deciding", call'[d]) /\ InStage("deciding", call'[e]) => d = e
    BY GoOnAlone
  <2>2. ASSUME NEW d \in Caller, call'[d].pc \in FoundPending
        PROVE  status'[call'[d].p] \in {"pending", "rejected"} /\ carried'[call'[d].p] = 0
    <3>1. CASE d # c
      BY <1>1, <2>1, <2>2, <3>1 DEF IndInv, OneDecides
    <3>2. CASE d = c
      <4>1. q.p \in Proposal
        BY <1>1, <2>2, <3>2 DEF WellFormed, FoundPending
      <4> QED
        BY <1>1, <2>1, <2>2, <3>2, <4>1 DEF IndInv, OneDecides, UndecidedIsUntouched
    <3> QED
      BY <3>1, <3>2
  <2>3. \A p \in Proposal : status'[p] = "rejected" => \A d \in Caller : ~HasClaimed(d, p)'
    BY <1>3, <2>1 DEF IndInv, OneDecides
  <2> QED
    BY <2>1, <2>2, <2>3 DEF OneDecides, InStage
<1>7. RowTellsTruth'
  <2>1. "deciding" \in overlap => "deciding" \in overlap'
    BY GoOnMoves DEF IndInv
  <2> QED
    BY <2>1 DEF IndInv, RowTellsTruth
<1> QED
  BY <1>2, <1>4, <1>5, <1>6, <1>7 DEF IndInv

\* The call at proposal p that goes on to another step of it.
LEMMA NextPc ==
  ASSUME TypeOK, NEW c \in Caller, NEW p \in Proposal, call[c].p = p, NEW pc \in Pc
  PROVE  LET q == [call[c] EXCEPT !.pc = pc] IN WellFormed(q) /\ q.pc = pc /\ q.p = p
<1>1. call[c] \in Call
  BY TypeParts
<1> QED
  BY <1>1 DEF Call, WellFormed

\* The steps that move a call only.
LEMMA MovesOnly ==
  ASSUME IndInv, NEW c \in Caller, NEW p \in Proposal,
         \/ CheckMandate(c, p) \/ MarkAutonomous(c, p) \/ Approve(c, p) \/ GetProposal(c, p)
         \/ CheckPolicy(c, p) \/ ExecuteFails(c, p) \/ RecordFails(c, p)
  PROVE  IndInv'
<1> DEFINE q(pc) == [call[c] EXCEPT !.pc = pc]
<1>1. ASSUME call[c].p = p, NEW pc \in Pc
      PROVE  WellFormed(q(pc)) /\ q(pc).pc = pc /\ q(pc).p = p
  BY <1>1, NextPc DEF IndInv
<1>2. \A pc : Goto(c, pc) <=> GoOn(c, q(pc))
  BY DEF Goto
<1>3. Ends(c) <=> GoOn(c, Idle)
  BY DEF Ends
<1>4. OtherTypes
  BY TypeParts DEF IndInv
<1>5. OtherTypes' /\ UNCHANGED <<status, carried, turned>>
  BY <1>4 DEF OtherTypes, CheckMandate, MarkAutonomous, Approve, GetProposal, CheckPolicy,
       ExecuteFails, RecordFails, rowVars, histVars
<1> HIDE DEF q
<1>6. ASSUME Ends(c) PROVE IndInv'
  BY <1>3, <1>5, <1>6, IdleCall, MoveStep DEF Claimed, FoundPending
<1>7. ASSUME call[c].p = p, NEW pc \in Pc, GoOn(c, q(pc)),
             pc \in Claimed => pc = "fail" /\ call[c].pc \in Claimed,
             pc \in FoundPending => status[p] = "pending" \/ call[c].pc \in FoundPending
      PROVE  IndInv'
  <2>1. WellFormed(q(pc)) /\ q(pc).pc = pc /\ q(pc).p = p
    BY <1>1, <1>7
  <2>2. q(pc).pc \in Claimed => q(pc).pc = "fail" /\ HasClaimed(c, q(pc).p)
    BY <1>7, <2>1 DEF HasClaimed
  <2>3. q(pc).pc \in FoundPending =>
          \/ status[q(pc).p] = "pending"
          \/ call[c].pc \in FoundPending /\ call[c].p = q(pc).p
    BY <1>7, <2>1
  <2> QED
    BY <1>5, <1>7, <2>1, <2>2, <2>3, MoveStep
<1>8. CASE CheckMandate(c, p)
  <2>1. call[c].p = p /\ (GoOn(c, q("mark")) \/ Ends(c))
    BY <1>2, <1>8 DEF CheckMandate, At
  <2> QED
    BY <1>6, <1>7, <2>1 DEF Pc, Claimed, FoundPending
<1>9. CASE MarkAutonomous(c, p)
  <2>1. call[c].p = p /\ GoOn(c, q("get"))
    BY <1>2, <1>9 DEF MarkAutonomous, At
  <2> QED
    BY <1>7, <2>1 DEF Pc, Claimed, FoundPending
<1>10. CASE Approve(c, p)
  <2> DEFINE r == [Idle EXCEPT !.pc = "get", !.p = p]
  <2>1. WellFormed(r) /\ r.pc = "get"
    BY DEF WellFormed, Call, Pc, Idle
  <2>2. GoOn(c, r)
    BY <1>10 DEF Approve
  <2> HIDE DEF r
  <2> QED
    BY <1>5, <2>1, <2>2, MoveStep DEF Claimed, FoundPending
<1>11. CASE GetProposal(c, p)
  <2>1. call[c].p = p /\ (Ends(c) \/ (status[p] = "pending" /\ GoOn(c, q("policy"))))
    BY <1>2, <1>11 DEF GetProposal, At
  <2> QED
    BY <1>6, <1>7, <2>1 DEF Pc, Claimed
<1>12. CASE CheckPolicy(c, p)
  <2>1. call[c].p = p /\ call[c].pc = "policy" /\ (GoOn(c, q("claim")) \/ GoOn(c, q("refuse")))
    BY <1>2, <1>12 DEF CheckPolicy, At
  <2> QED
    BY <1>7, <2>1 DEF Pc, Claimed, FoundPending
<1>13. CASE ExecuteFails(c, p) \/ RecordFails(c, p)
  <2>1. call[c].p = p /\ call[c].pc \in {"execute", "record"} /\ GoOn(c, q("fail"))
    BY <1>2, <1>13 DEF ExecuteFails, RecordFails, At
  <2> QED
    BY <1>7, <2>1 DEF Pc, Claimed, FoundPending
<1> QED
  BY <1>8, <1>9, <1>10, <1>11, <1>12, <1>13

\* The steps of a call that is on no proposal, or ends with an error.
LEMMA FreeMoves ==
  ASSUME IndInv, NEW c \in Caller, Throws(c) \/ \E a \in Amount : Propose(c, a)
  PROVE  IndInv'
<1>1. OtherTypes
  BY TypeParts DEF IndInv
<1>2. OtherTypes' /\ UNCHANGED <<status, carried, turned>>
  BY <1>1 DEF OtherTypes, Throws, Propose, rowVars, histVars
<1>3. CASE Throws(c)
  BY <1>2, <1>3, IdleCall, MoveStep DEF Throws, Ends, Claimed, FoundPending
<1>4. ASSUME NEW a \in Amount, Propose(c, a) PROVE IndInv'
  <2> DEFINE q == [Idle EXCEPT !.pc = "file", !.amount = a, !.agent = TRUE]
  <2>1. WellFormed(q) /\ q.pc = "file"
    BY ProposalAssumption DEF WellFormed, Call, Pc, Idle
  <2>2. GoOn(c, q)
    BY <1>4 DEF Propose
  <2> HIDE DEF q
  <2> QED
    BY <1>2, <2>1, <2>2, MoveStep DEF Claimed, FoundPending
<1> QED
  BY <1>3, <1>4

\* The same for a step that changes the row of one proposal as well.
LEMMA TypeStep ==
  ASSUME IndInv, NEW c \in Caller, NEW q, WellFormed(q), GoOn(c, q), OtherTypes',
         status' \in [Proposal -> Status], carried' \in [Proposal -> Nat], UNCHANGED turned
  PROVE  TypeOK'
<1>1. /\ call' \in [Caller -> Call] /\ \A d \in Caller : WellFormed(call'[d])
      /\ overlap' \in SUBSET Stage
  BY GoOnMoves DEF IndInv
<1>2. turned' \in [Proposal -> BOOLEAN]
  BY TypeParts DEF IndInv
<1> QED
  BY <1>1, <1>2 DEF TypeOK, OtherTypes, WellFormed, Call

\* A new row: nothing was claimed of it.
LEMMA InsertStep ==
  ASSUME IndInv, NEW c \in Caller, NEW p \in Proposal, Insert(c, p)
  PROVE  IndInv'
<1> DEFINE q == [call[c] EXCEPT !.pc = "mandate", !.p = p]
<1>0. TypeOK /\ status[p] = "none" /\ status' = [status EXCEPT ![p] = "pending"] /\ UNCHANGED <<carried, turned>>
  BY DEF IndInv, Insert, histVars
<1>1. call[c] \in Call /\ call[c].pc = "file" /\ OtherTypes /\ status \in [Proposal -> Status] /\ carried \in [Proposal -> Nat]
  BY <1>0, TypeParts DEF Insert
<1>2. WellFormed(q) /\ q.pc = "mandate"
  BY <1>1 DEF Call, WellFormed, Pc
<1>3. GoOn(c, q)
  BY DEF Insert
<1> HIDE DEF q
<1>4. OtherTypes'
  <2>1. amount' \in [Proposal -> Nat]
    BY <1>1 DEF Insert, OtherTypes, Call
  <2> QED
    BY <1>1, <2>1 DEF Insert, OtherTypes, histVars
<1>5. /\ call'[c] = q /\ \A d \in Caller \ {c} : call'[d] = call[d]
      /\ overlap \subseteq overlap'
  BY <1>0, <1>2, <1>3, GoOnMoves
<1>6. TypeOK'
  <2>1. status' \in [Proposal -> Status] /\ carried' \in [Proposal -> Nat]
    BY <1>0, <1>1 DEF Status
  <2> QED
    BY <1>0, <1>2, <1>3, <1>4, <2>1, TypeStep
<1>7. \A d \in Caller, r \in Proposal : HasClaimed(d, r)' => HasClaimed(d, r)
  BY <1>2, <1>5 DEF HasClaimed, Claimed
<1>8. \A r \in Proposal : status'[r] = IF r = p THEN "pending" ELSE status[r]
  BY <1>0, <1>1
<1>9. UndecidedIsUntouched' /\ CarriedOutOnce'
  BY <1>0, <1>8 DEF IndInv, UndecidedIsUntouched, CarriedOutOnce
<1>10. ClaimHeld'
  BY <1>0, <1>2, <1>5, <1>7, <1>8 DEF IndInv, ClaimHeld, HasClaimed, Claimed
<1>11. OneDecides'
  <2> SUFFICES ASSUME "deciding" \notin overlap' PROVE OneDecides'
    BY DEF OneDecides
  <2>1. /\ "deciding" \notin overlap
        /\ \A d, e \in Caller : InStage("deciding", call'[d]) /\ InStage("deciding", call'[e]) => d = e
    BY <1>2, <1>3, GoOnAlone
  <2>2. ASSUME NEW d \in Caller, call'[d].pc \in FoundPending
        PROVE  status'[call'[d].p] \in {"pending", "rejected"} /\ carried'[call'[d].p] = 0
    <3>1. d # c /\ call'[d] = call[d]
      BY <1>2, <1>5, <2>2 DEF FoundPending
    <3>2. call[d].p \in Proposal
      BY <1>0, <2>2, <3>1, TypeParts DEF WellFormed, FoundPending
    <3> QED
      BY <1>0, <1>8, <2>1, <2>2, <3>1, <3>2 DEF IndInv, OneDecides
  <2>3. \A r \in Proposal : status'[r] = "rejected" => \A d \in Caller : ~HasClaimed(d, r)'
    BY <1>7, <1>8, <2>1 DEF IndInv, OneDecides
  <2> QED
    BY <2>1, <2>2, <2>3 DEF OneDecides, InStage
<1>12. RowTellsTruth'
  BY <1>0, <1>5, <1>8 DEF IndInv, RowTellsTruth
<1> QED
  BY <1>6, <1>9, <1>10, <1>11, <1>12 DEF IndInv

\* The rejection by policy: its stale verdict falls on a proposal somebody has
\* claimed only if two calls decided at once.
LEMMA RefuseStep ==
  ASSUME IndInv, NEW c \in Caller, NEW p \in Proposal, Refuse(c, p)
  PROVE  IndInv'
<1>0. /\ TypeOK /\ call[c].pc = "refuse" /\ call[c].p = p
      /\ status' = [status EXCEPT ![p] = "rejected"] /\ UNCHANGED <<carried, turned>>
      /\ GoOn(c, Idle)
  BY DEF IndInv, Refuse, histVars, At, Ends, RefusedStatus
<1>1. status \in [Proposal -> Status] /\ carried \in [Proposal -> Nat] /\ OtherTypes
  BY <1>0, TypeParts
<1>2. /\ call'[c] = Idle /\ \A d \in Caller \ {c} : call'[d] = call[d]
      /\ overlap \subseteq overlap'
  BY <1>0, IdleCall, GoOnMoves
<1>3. TypeOK'
  <2>1. status' \in [Proposal -> Status] /\ carried' \in [Proposal -> Nat]
    BY <1>0, <1>1 DEF Status
  <2>2. OtherTypes'
    BY <1>1 DEF Refuse, OtherTypes, histVars
  <2> QED
    BY <1>0, <2>1, <2>2, IdleCall, TypeStep
<1>4. \A d \in Caller, r \in Proposal : HasClaimed(d, r)' => d # c /\ HasClaimed(d, r)
  BY <1>2, IdleCall DEF HasClaimed, Claimed
<1>5. \A r \in Proposal : status'[r] = IF r = p THEN "rejected" ELSE status[r]
  BY <1>0, <1>1
<1>6. UndecidedIsUntouched' /\ CarriedOutOnce'
  BY <1>0, <1>5 DEF IndInv, UndecidedIsUntouched, CarriedOutOnce
<1>7. ClaimHeld'
  BY <1>0, <1>2, <1>4, <1>5 DEF IndInv, ClaimHeld, HasClaimed
<1>8. "deciding" \notin overlap' =>
        /\ "deciding" \notin overlap
        /\ carried[p] = 0
        /\ \A d \in Caller \ {c} : ~InStage("deciding", call[d])
  BY <1>0, <1>2, Deciding DEF IndInv, OneDecides, FoundPending
<1>9. OneDecides'
  <2> SUFFICES ASSUME "deciding" \notin overlap' PROVE OneDecides'
    BY DEF OneDecides
  <2>1. \A d \in Caller : call'[d].pc \notin FoundPending \cup Claimed
    BY <1>2, <1>8, IdleCall, Deciding DEF FoundPending, Claimed
  <2>2. \A d, e \in Caller : InStage("deciding", call'[d]) /\ InStage("deciding", call'[e]) => d = e
    BY <1>0, IdleCall, GoOnAlone
  <2> QED
    BY <2>1, <2>2 DEF OneDecides, HasClaimed, InStage
<1>10. RowTellsTruth'
  BY <1>0, <1>5, <1>8, <1>2 DEF IndInv, RowTellsTruth
<1> QED
  BY <1>3, <1>6, <1>7, <1>9, <1>10 DEF IndInv

\* The claim: a row that is still pending was claimed by nobody before.
LEMMA ClaimStep ==
  ASSUME IndInv, NEW c \in Caller, NEW p \in Proposal, Claim(c, p)
  PROVE  IndInv'
<1>1. CASE ~MayClaim(p)
  <2>1. OtherTypes
    BY TypeParts DEF IndInv
  <2>2. GoOn(c, Idle) /\ UNCHANGED <<status, carried, turned>> /\ OtherTypes'
    BY <1>1, <2>1 DEF Claim, Ends, OtherTypes, histVars
  <2> QED
    BY <2>2, IdleCall, MoveStep DEF Claimed, FoundPending
<1>2. CASE MayClaim(p)
  <2> DEFINE q == [call[c] EXCEPT !.pc = "execute"]
  <2>0. /\ TypeOK /\ call[c].pc = "claim" /\ call[c].p = p /\ status[p] = "pending"
        /\ status' = [status EXCEPT ![p] = "approved"] /\ UNCHANGED <<carried, turned>>
        /\ GoOn(c, q)
    BY <1>2 DEF IndInv, Claim, MayClaim, histVars, At, Goto
  <2>1. status \in [Proposal -> Status] /\ carried \in [Proposal -> Nat] /\ OtherTypes
    BY <2>0, TypeParts
  <2>2. WellFormed(q) /\ q.pc = "execute" /\ q.p = p
    BY <2>0, NextPc DEF Pc
  <2> HIDE DEF q
  <2>3. /\ call'[c] = q /\ \A d \in Caller \ {c} : call'[d] = call[d]
        /\ overlap \subseteq overlap'
    BY <2>0, <2>2, GoOnMoves
  <2>4. TypeOK'
    <3>1. status' \in [Proposal -> Status] /\ carried' \in [Proposal -> Nat]
      BY <2>0, <2>1 DEF Status
    <3>2. OtherTypes'
      BY <1>2, <2>1 DEF Claim, OtherTypes, histVars
    <3> QED
      BY <2>0, <2>2, <3>1, <3>2, TypeStep
  <2>5. \A d \in Caller, r \in Proposal : HasClaimed(d, r)' <=>
          (d = c /\ r = p) \/ (d # c /\ HasClaimed(d, r))
    BY <2>2, <2>3 DEF HasClaimed, Claimed
  <2>6. \A r \in Proposal : status'[r] = IF r = p THEN "approved" ELSE status[r]
    BY <2>0, <2>1
  <2>7. /\ carried[p] = 0 /\ ~turned[p]
        /\ \A d \in Caller : ~HasClaimed(d, p)
    BY <2>0 DEF IndInv, UndecidedIsUntouched, ClaimHeld
  <2>8. UndecidedIsUntouched' /\ CarriedOutOnce'
    BY <2>0, <2>6 DEF IndInv, UndecidedIsUntouched, CarriedOutOnce
  <2>9. ClaimHeld'
    BY <2>0, <2>2, <2>3, <2>5, <2>6, <2>7 DEF IndInv, ClaimHeld
  <2>10. OneDecides'
    <3> SUFFICES ASSUME "deciding" \notin overlap' PROVE OneDecides'
      BY DEF OneDecides
    <3>1. /\ "deciding" \notin overlap
          /\ \A d, e \in Caller : InStage("deciding", call'[d]) /\ InStage("deciding", call'[e]) => d = e
      BY <2>0, <2>2, GoOnAlone
    <3>2. \A d \in Caller : call'[d].pc \notin FoundPending
      <4>1. \A d \in Caller \ {c} : ~InStage("deciding", call'[d])
        BY <2>2, <2>3, <3>1, Deciding
      <4> QED
        BY <2>2, <2>3, <4>1, Deciding DEF FoundPending
    <3>3. \A r \in Proposal : status'[r] = "rejected" => \A d \in Caller : ~HasClaimed(d, r)'
      BY <2>5, <2>6, <3>1 DEF IndInv, OneDecides
    <3> QED
      BY <3>1, <3>2, <3>3 DEF OneDecides, InStage
  <2>11. RowTellsTruth'
    BY <2>0, <2>3, <2>6 DEF IndInv, RowTellsTruth
  <2> QED
    BY <2>4, <2>8, <2>9, <2>10, <2>11 DEF IndInv
<1> QED
  BY <1>1, <1>2

\* The action on chain, with or without its answer: the call that holds the
\* claim has not carried it out yet.
LEMMA ExecuteStep ==
  ASSUME IndInv, NEW c \in Caller, NEW p \in Proposal, Execute(c, p) \/ ExecuteLosesReply(c, p)
  PROVE  IndInv'
<1>0. PICK pc \in {"record", "fail"} : Goto(c, pc)
  BY DEF Execute, ExecuteLosesReply
<1> DEFINE q == [call[c] EXCEPT !.pc = pc]
<1>1. /\ TypeOK /\ call[c].pc = "execute" /\ call[c].p = p
      /\ carried' = [carried EXCEPT ![p] = @ + 1] /\ UNCHANGED <<status, turned>>
      /\ GoOn(c, q)
  BY <1>0 DEF IndInv, Execute, ExecuteLosesReply, CarriedOut, rowVars, At, Goto
<1>2. status \in [Proposal -> Status] /\ carried \in [Proposal -> Nat] /\ OtherTypes /\ call[c] \in Call
  BY <1>1, TypeParts
<1>3. WellFormed(q) /\ q.pc = pc /\ q.p = p
  <2>1. pc \in Pc
    BY DEF Pc
  <2> QED
    BY <1>1, <2>1, NextPc
<1> HIDE DEF q
<1>4. /\ call'[c] = q /\ \A d \in Caller \ {c} : call'[d] = call[d]
      /\ overlap \subseteq overlap'
  BY <1>1, <1>3, GoOnMoves
<1>5. \A r \in Proposal : carried'[r] = IF r = p THEN carried[r] + 1 ELSE carried[r]
  BY <1>1, <1>2
<1>6. TypeOK'
  <2>1. status' \in [Proposal -> Status] /\ carried' \in [Proposal -> Nat]
    BY <1>1, <1>2
  <2>2. OtherTypes'
    <3>1. ownDeed' = [ownDeed EXCEPT ![p] = call[c].agent] /\ call[c].agent \in BOOLEAN
      BY <1>2 DEF Execute, ExecuteLosesReply, CarriedOut, Call
    <3>2. ownDeed' \in [Proposal -> BOOLEAN]
      BY <1>2, <3>1 DEF OtherTypes
    <3> QED
      BY <1>2, <3>2 DEF Execute, ExecuteLosesReply, OtherTypes, rowVars
  <2> QED
    BY <1>1, <1>3, <2>1, <2>2, TypeStep
<1>7. HasClaimed(c, p)
  BY <1>1 DEF HasClaimed, Claimed
<1>8. /\ status[p] \notin {"none", "pending", "executed"} /\ carried[p] = 0 /\ ~turned[p]
      /\ \A d \in Caller : HasClaimed(d, p) => d = c
  BY <1>1, <1>7 DEF IndInv, ClaimHeld, RowTellsTruth
<1>9. \A d \in Caller, r \in Proposal : HasClaimed(d, r)' <=> HasClaimed(d, r)
  BY <1>1, <1>3, <1>4 DEF HasClaimed, Claimed
<1>10. UndecidedIsUntouched' /\ CarriedOutOnce'
  BY <1>1, <1>5, <1>8 DEF IndInv, UndecidedIsUntouched, CarriedOutOnce
<1>11. ClaimHeld'
  <2> SUFFICES ASSUME NEW d \in Caller, NEW r \in Proposal, HasClaimed(d, r)'
               PROVE  /\ status'[r] \notin {"none", "pending"} /\ ~turned'[r]
                      /\ \A e \in Caller : HasClaimed(e, r)' => e = d
                      /\ call'[d].pc = "execute" => carried'[r] = 0
                      /\ call'[d].pc = "record" => carried'[r] = 1
    BY DEF ClaimHeld
  <2>1. HasClaimed(d, r)
    BY <1>9
  <2>2. CASE d = c
    <3>1. r = p
      BY <1>1, <2>1, <2>2 DEF HasClaimed
    <3> QED
      BY <1>1, <1>3, <1>4, <1>5, <1>8, <1>9, <2>2, <3>1
  <2>3. CASE d # c
    <3>1. r # p
      BY <1>8, <2>1, <2>3
    <3> QED
      BY <1>1, <1>4, <1>5, <1>9, <2>1, <2>3, <3>1 DEF IndInv, ClaimHeld
  <2> QED
    BY <2>2, <2>3
<1>12. OneDecides'
  <2> SUFFICES ASSUME "deciding" \notin overlap' PROVE OneDecides'
    BY DEF OneDecides
  <2>1. /\ "deciding" \notin overlap
        /\ \A d, e \in Caller : InStage("deciding", call'[d]) /\ InStage("deciding", call'[e]) => d = e
    BY <1>1, <1>3, GoOnAlone
  <2>2. \A d \in Caller : call'[d].pc \notin FoundPending
    <3>1. \A d \in Caller \ {c} : ~InStage("deciding", call'[d])
      BY <1>3, <1>4, <2>1, Deciding
    <3> QED
      BY <1>3, <1>4, <3>1, Deciding DEF FoundPending
  <2>3. \A r \in Proposal : status'[r] = "rejected" => \A d \in Caller : ~HasClaimed(d, r)'
    BY <1>1, <1>9, <2>1 DEF IndInv, OneDecides
  <2> QED
    BY <2>1, <2>2, <2>3 DEF OneDecides, InStage
<1>13. RowTellsTruth'
  <2>1. "deciding" \notin overlap => status[p] # "rejected"
    BY <1>7 DEF IndInv, OneDecides
  <2> QED
    BY <1>1, <1>4, <1>5, <1>8, <2>1 DEF IndInv, RowTellsTruth
<1> QED
  BY <1>6, <1>10, <1>11, <1>12, <1>13 DEF IndInv

\* The two records of an outcome, by the call that holds the claim.
LEMMA RecordStep ==
  ASSUME IndInv, NEW c \in Caller, NEW p \in Proposal, RecordExecuted(c, p) \/ MarkFailed(c, p)
  PROVE  IndInv'
<1>0. PICK s \in {"executed", "failed"} :
        /\ status' = [status EXCEPT ![p] = s]
        /\ s = "executed" => call[c].pc = "record"
  BY DEF RecordExecuted, MarkFailed, At
<1>1. /\ TypeOK /\ call[c].pc \in {"record", "fail"} /\ call[c].p = p
      /\ UNCHANGED <<carried, turned>>
      /\ GoOn(c, Idle)
  BY DEF IndInv, RecordExecuted, MarkFailed, histVars, At, Ends
<1>2. status \in [Proposal -> Status] /\ carried \in [Proposal -> Nat] /\ OtherTypes
  BY <1>1, TypeParts
<1>3. /\ call'[c] = Idle /\ \A d \in Caller \ {c} : call'[d] = call[d]
      /\ overlap \subseteq overlap'
  BY <1>1, IdleCall, GoOnMoves
<1>4. TypeOK'
  <2>1. status' \in [Proposal -> Status] /\ carried' \in [Proposal -> Nat]
    BY <1>0, <1>1, <1>2 DEF Status
  <2>2. OtherTypes'
    BY <1>2 DEF RecordExecuted, MarkFailed, OtherTypes, histVars
  <2> QED
    BY <1>1, <2>1, <2>2, IdleCall, TypeStep
<1>5. HasClaimed(c, p)
  BY <1>1 DEF HasClaimed, Claimed
<1>6. s = "executed" => carried[p] = 1
  BY <1>0, <1>5 DEF IndInv, ClaimHeld
<1>7. \A d \in Caller, r \in Proposal : HasClaimed(d, r)' => d # c /\ HasClaimed(d, r)
  BY <1>3, IdleCall DEF HasClaimed, Claimed
<1>8. \A r \in Proposal : status'[r] = IF r = p THEN s ELSE status[r]
  BY <1>0, <1>2
<1>9. UndecidedIsUntouched' /\ CarriedOutOnce'
  BY <1>1, <1>8 DEF IndInv, UndecidedIsUntouched, CarriedOutOnce
<1>10. ClaimHeld'
  BY <1>1, <1>3, <1>7, <1>8 DEF IndInv, ClaimHeld, HasClaimed
<1>11. OneDecides'
  <2> SUFFICES ASSUME "deciding" \notin overlap' PROVE OneDecides'
    BY DEF OneDecides
  <2>1. \A d \in Caller \ {c} : ~InStage("deciding", call[d])
    BY <1>1, <1>3, Deciding DEF IndInv, OneDecides
  <2>2. \A d \in Caller : call'[d].pc \notin FoundPending \cup Claimed
    BY <1>3, <2>1, IdleCall, Deciding DEF FoundPending, Claimed
  <2>3. \A d, e \in Caller : InStage("deciding", call'[d]) /\ InStage("deciding", call'[e]) => d = e
    BY <1>1, IdleCall, GoOnAlone
  <2> QED
    BY <2>2, <2>3 DEF OneDecides, HasClaimed, InStage
<1>12. RowTellsTruth'
  BY <1>1, <1>3, <1>6, <1>8 DEF IndInv, RowTellsTruth
<1> QED
  BY <1>4, <1>9, <1>10, <1>11, <1>12 DEF IndInv

\* A click on reject: a pending row was claimed by nobody.
LEMMA RejectStep ==
  ASSUME IndInv, NEW p \in Proposal, Reject(p)
  PROVE  IndInv'
<1>1. /\ status[p] = "pending" /\ status' = [status EXCEPT ![p] = "rejected"]
      /\ turned' = [turned EXCEPT ![p] = TRUE]
      /\ UNCHANGED <<call, carried, overlap>>
  BY DEF Reject, MayReject
<1>2. /\ status \in [Proposal -> Status] /\ turned \in [Proposal -> BOOLEAN]
      /\ call \in [Caller -> Call] /\ \A c \in Caller : WellFormed(call[c])
      /\ OtherTypes
  BY TypeParts DEF IndInv
<1>3. TypeOK'
  <2>1. status' \in [Proposal -> Status] /\ turned' \in [Proposal -> BOOLEAN]
    BY <1>1, <1>2 DEF Status
  <2>2. OtherTypes'
    BY <1>2 DEF Reject, OtherTypes
  <2> QED
    BY <1>1, <2>1, <2>2 DEF IndInv, TypeOK, OtherTypes
<1>4. /\ \A r \in Proposal : status'[r] = IF r = p THEN "rejected" ELSE status[r]
      /\ \A r \in Proposal : turned'[r] = IF r = p THEN TRUE ELSE turned[r]
  BY <1>1, <1>2
<1>5. carried[p] = 0 /\ \A c \in Caller : ~HasClaimed(c, p)
  BY <1>1 DEF IndInv, UndecidedIsUntouched, ClaimHeld
<1>6. UndecidedIsUntouched' /\ CarriedOutOnce'
  BY <1>1, <1>4, <1>5 DEF IndInv, UndecidedIsUntouched, CarriedOutOnce
<1>7. ClaimHeld'
  BY <1>1, <1>4, <1>5 DEF IndInv, ClaimHeld, HasClaimed
<1>8. OneDecides'
  <2> SUFFICES ASSUME "deciding" \notin overlap' PROVE OneDecides'
    BY DEF OneDecides
  <2>1. \A c, d \in Caller : InStage("deciding", call'[c]) /\ InStage("deciding", call'[d]) => c = d
    BY <1>1 DEF IndInv, OneDecides
  <2>2. ASSUME NEW c \in Caller, call'[c].pc \in FoundPending
        PROVE  status'[call'[c].p] \in {"pending", "rejected"} /\ carried'[call'[c].p] = 0
    <3>1. call[c].p \in Proposal
      BY <1>1, <1>2, <2>2 DEF WellFormed, FoundPending
    <3> QED
      BY <1>1, <1>4, <2>2, <3>1 DEF IndInv, OneDecides
  <2>3. \A r \in Proposal : status'[r] = "rejected" => \A c \in Caller : ~HasClaimed(c, r)'
    BY <1>1, <1>4, <1>5 DEF IndInv, OneDecides, HasClaimed
  <2> QED
    BY <2>1, <2>2, <2>3 DEF OneDecides, InStage
<1>9. RowTellsTruth'
  BY <1>1, <1>4, <1>5 DEF IndInv, RowTellsTruth
<1> QED
  BY <1>3, <1>6, <1>7, <1>8, <1>9 DEF IndInv

\* A new day changes no decision.
LEMMA MidnightStep ==
  ASSUME IndInv, Midnight \/ UNCHANGED vars
  PROVE  IndInv'
<1>1. UNCHANGED <<status, carried, turned, call, overlap>>
  BY DEF Midnight, vars, rowVars, histVars
<1>2. today' \in [Proposal -> BOOLEAN] /\ UNCHANGED <<amount, auto, ownDeed, lost>>
  BY DEF Midnight, vars, rowVars, histVars, IndInv, TypeOK
<1>3. TypeOK'
  BY <1>1, <1>2 DEF IndInv, TypeOK
<1>4. UndecidedIsUntouched' /\ CarriedOutOnce' /\ RowTellsTruth'
  BY <1>1 DEF IndInv, UndecidedIsUntouched, CarriedOutOnce, RowTellsTruth
<1>5. ClaimHeld' /\ OneDecides'
  BY <1>1 DEF IndInv, ClaimHeld, OneDecides, HasClaimed, InStage
<1> QED
  BY <1>3, <1>4, <1>5 DEF IndInv

\* After a crash no call is left.
LEMMA CrashStep ==
  ASSUME IndInv, Crash
  PROVE  IndInv'
<1>1. call' = [c \in Caller |-> Idle] /\ UNCHANGED <<status, carried, turned, overlap>>
  BY DEF Crash, rowVars
<1>2. TypeOK'
  <2>1. call' \in [Caller -> Call] /\ \A c \in Caller : WellFormed(call'[c])
    BY <1>1, IdleCall DEF WellFormed
  <2>2. OtherTypes'
    <3>1. OtherTypes
      BY TypeParts DEF IndInv
    <3>2. lost' \in BOOLEAN
      BY DEF Crash
    <3> QED
      BY <3>1, <3>2 DEF Crash, OtherTypes, rowVars
  <2>3. /\ status' \in [Proposal -> Status] /\ carried' \in [Proposal -> Nat]
        /\ turned' \in [Proposal -> BOOLEAN] /\ overlap' \in SUBSET Stage
    BY <1>1 DEF IndInv, TypeOK
  <2> QED
    BY <2>1, <2>2, <2>3 DEF TypeOK, OtherTypes, WellFormed, Call
<1>3. UndecidedIsUntouched' /\ CarriedOutOnce' /\ RowTellsTruth'
  BY <1>1 DEF IndInv, UndecidedIsUntouched, CarriedOutOnce, RowTellsTruth
<1>4. \A c \in Caller : call'[c].pc = "idle"
  BY <1>1, IdleCall
<1>5. ClaimHeld' /\ OneDecides'
  BY <1>4 DEF ClaimHeld, OneDecides, HasClaimed, Claimed, FoundPending, InStage
<1> QED
  BY <1>2, <1>3, <1>5 DEF IndInv

LEMMA StepIndInv == IndInv /\ [Next]_vars => IndInv'
<1> SUFFICES ASSUME IndInv, [Next]_vars PROVE IndInv'
  OBVIOUS
<1>1. CASE UNCHANGED vars
  BY <1>1, MidnightStep
<1>2. ASSUME NEW c \in Caller, Throws(c) \/ \E a \in Amount : Propose(c, a) PROVE IndInv'
  BY <1>2, FreeMoves
<1>3. ASSUME NEW c \in Caller, NEW p \in Proposal, Create(c, p) PROVE IndInv'
  BY <1>3, InsertStep, MovesOnly DEF Create
<1>4. ASSUME NEW c \in Caller, NEW p \in Proposal, Decide(c, p) PROVE IndInv'
  BY <1>4, MovesOnly, RefuseStep, ClaimStep, ExecuteStep, RecordStep DEF Decide
<1>5. ASSUME NEW p \in Proposal, Reject(p) PROVE IndInv'
  BY <1>5, RejectStep
<1>6. CASE Midnight \/ Crash
  BY <1>6, MidnightStep, CrashStep
<1> QED
  BY <1>1, <1>2, <1>3, <1>4, <1>5, <1>6 DEF Next

LEMMA AlwaysIndInv == Spec => []IndInv
BY InitIndInv, StepIndInv, PTL DEF Spec

-----------------------------------------------------------------------------
\* Every variable keeps its type, with midnights and crashes.
THEOREM TypeCorrect == Spec => []TypeOK
<1>1. IndInv => TypeOK
  BY DEF IndInv
<1> QED
  BY <1>1, AlwaysIndInv, PTL

\* However many calls decide at once, a proposal is carried out at most once,
\* and never after an operator was told that it is rejected.
THEOREM CarriedOutOnceHolds == Spec => []CarriedOutOnce
<1>1. IndInv => CarriedOutOnce
  BY DEF IndInv
<1> QED
  BY <1>1, AlwaysIndInv, PTL

\* The row tells what happened: executed means carried out, and, unless two
\* decisions overlapped, a rejected proposal was not.
THEOREM RowTellsTruthHolds == Spec => []RowTellsTruth
<1>1. IndInv => RowTellsTruth
  BY DEF IndInv
<1> QED
  BY <1>1, AlwaysIndInv, PTL

-----------------------------------------------------------------------------
\* The daily limits
\*
\* A limit is kept because whoever is about to add to a total has checked it
\* when the total was no smaller than now: by then it has added nothing, and
\* nobody else adds while two calls of the same stage do not overlap.

\* What a set of rows asks for, and n more, is within the limit.
Fits(a, S, n, limit) == SumFunctionOnSet(a, S) + n <= limit

\* Without an overlap there is one call in each stage.
OneAtATime ==
  \A k \in Stage : k \notin overlap =>
    \A c, d \in Caller : InStage(k, call[c]) /\ InStage(k, call[d]) => c = d

\* Only the agent files; what it carries out is marked as its own, and the
\* deeds of its own are.
CallsKnow ==
  \A c \in Caller :
    /\ call[c].pc \notin {"idle", "file"} => status[call[c].p] # "none"
    /\ call[c].pc \in {"file", "mandate", "mark"} => call[c].agent
    /\ call[c].agent /\ call[c].pc \notin {"idle", "file", "mandate", "mark"} => auto[call[c].p]
    /\ call[c].pc = "record" => ownDeed[call[c].p] = call[c].agent
OwnIsMarked == \A p \in Proposal : ownDeed[p] => auto[p] /\ carried[p] > 0

\* What waits and was executed, what is about to be filed, and what was claimed
\* and is being carried out.
FilingFits ==
  "filing" \notin overlap =>
    /\ Fits(amount, Committed, 0, Cap)
    /\ \A c \in Caller :
         /\ call[c].pc = "file" => Fits(amount, Committed, call[c].amount, Cap)
         /\ call[c].pc \in {"execute", "record"} => Fits(amount, Committed \cup {call[c].p}, 0, Cap)

Orderly == "deciding" \notin overlap /\ ~lost
Outlay == {p \in Proposal : carried[p] > 0 /\ today[p]}
OwnOutlay == {p \in Proposal : ownDeed[p] /\ today[p]}

\* What was carried out is on record, or about to be.
OutcomesKnown ==
  Orderly =>
    /\ \A p \in Proposal : carried[p] > 0 =>
         status[p] = "executed" \/ \E c \in Caller : At(c, "record", p)
    /\ \A c \in Caller : call[c].pc = "fail" => carried[call[c].p] = 0

\* What was carried out today, and what passed the policy's check.
OutlayFits ==
  Orderly =>
    /\ Fits(amount, Outlay, 0, Cap)
    /\ \A c \in Caller : call[c].pc \in {"claim", "execute"} => Fits(amount, Outlay \cup {call[c].p}, 0, Cap)

\* What the agent did by itself today, and what passed the mandate's check.
Acts(q) == q.agent /\ q.pc \in {"mark", "get", "policy", "claim", "execute"}
OwnOutlayFits ==
  Orderly /\ "acting" \notin overlap =>
    /\ Fits(amount, OwnOutlay, 0, OwnLimit)
    /\ \A c \in Caller : Acts(call[c]) => Fits(amount, OwnOutlay \cup {call[c].p}, 0, OwnLimit)

LimitsInv ==
  /\ IndInv /\ OneAtATime
  /\ CallsKnow /\ OwnIsMarked /\ FilingFits /\ OutcomesKnown /\ OutlayFits /\ OwnOutlayFits

\* Fewer rows, of the same amounts, fit as well.
LEMMA FitsKept ==
  ASSUME NEW a \in [Proposal -> Nat], NEW b \in [Proposal -> Nat],
         NEW S \in SUBSET Proposal, NEW R \in SUBSET Proposal, R \subseteq S,
         \A p \in R : b[p] = a[p], NEW n \in Nat, NEW limit \in Nat, Fits(a, S, n, limit)
  PROVE  Fits(b, R, n, limit)
<1>1. IsFiniteSet(S) /\ IsFiniteSet(R)
  BY ProposalAssumption, FS_Subset
<1>2. \A p \in S : a[p] \in Nat
  OBVIOUS
<1>3. SumFunctionOnSet(b, R) = SumFunctionOnSet(a, R)
  <2>1. \A p \in R : b[p] = a[p]
    OBVIOUS
  <2> QED
    BY ONLY <1>1, <2>1, SumCongruence
<1>4. SumFunctionOnSet(a, R) <= SumFunctionOnSet(a, S)
  <2>1. R \in SUBSET S
    OBVIOUS
  <2> QED
    BY ONLY <1>1, <1>2, <2>1, SumSubset
<1>5. SumFunctionOnSet(a, R) \in Int /\ SumFunctionOnSet(a, S) \in Int
  <2>1. (\A p \in R : a[p] \in Int) /\ (\A p \in S : a[p] \in Int)
    OBVIOUS
  <2> QED
    BY ONLY <1>1, <2>1, SumInt
<1> QED
  BY <1>3, <1>4, <1>5 DEF Fits

\* One row more fits if its amount did.
LEMMA FitsOneMore ==
  ASSUME NEW a \in [Proposal -> Nat], NEW S \in SUBSET Proposal, NEW p \in Proposal,
         NEW limit \in Nat, Fits(a, S, a[p], limit)
  PROVE  Fits(a, S \cup {p}, 0, limit)
<1> DEFINE T == S \cup {p}
<1>1. IsFiniteSet(S) /\ IsFiniteSet(T)
  <2>1. T \in SUBSET Proposal
    OBVIOUS
  <2> QED
    BY <2>1, ProposalAssumption, FS_Subset
<1>2. (\A q \in S : a[q] \in Int) /\ (\A q \in T : a[q] \in Int) /\ a[p] \in Nat
  OBVIOUS
<1>3. SumFunctionOnSet(a, T) <= SumFunctionOnSet(a, S) + a[p]
  BY ONLY <1>1, <1>2, SumOneMore
<1>4. SumFunctionOnSet(a, S) \in Int /\ SumFunctionOnSet(a, T) \in Int
  <2> HIDE DEF T
  <2> QED
    BY ONLY <1>1, <1>2, SumInt
<1> HIDE DEF T
<1>5. Fits(a, T, 0, limit)
  BY <1>2, <1>3, <1>4 DEF Fits
<1> QED
  BY <1>5 DEF T

\* What never goes back.
Frame ==
  /\ overlap \subseteq overlap' /\ (lost => lost')
  /\ \A p \in Proposal : status[p] # "none" => amount'[p] = amount[p] /\ status'[p] # "none"
  /\ \A p \in Proposal : auto[p] => auto'[p]

LEMMA FrameHolds ==
  ASSUME IndInv, [Next]_vars
  PROVE  Frame
<1>0. /\ status \in [Proposal -> Status] /\ amount \in [Proposal -> Nat] /\ auto \in [Proposal -> BOOLEAN]
      /\ lost \in BOOLEAN
  BY DEF IndInv, TypeOK
<1> USE <1>0
<1>1. CASE UNCHANGED vars
  BY <1>1 DEF vars, rowVars, histVars, Frame
<1>2. ASSUME NEW c \in Caller, Throws(c) \/ \E a \in Amount : Propose(c, a) PROVE Frame
  BY <1>2 DEF Throws, Propose, Ends, GoOn, rowVars, histVars, Frame
<1>3. ASSUME NEW c \in Caller, NEW p \in Proposal, Create(c, p) PROVE Frame
  <2>1. CASE Insert(c, p)
    BY <2>1 DEF Insert, GoOn, histVars, Frame
  <2>2. CASE CheckMandate(c, p)
    BY <2>2 DEF CheckMandate, Goto, Ends, GoOn, rowVars, histVars, Frame
  <2>3. CASE MarkAutonomous(c, p)
    BY <2>3 DEF MarkAutonomous, Goto, GoOn, histVars, Frame
  <2> QED
    BY <1>3, <2>1, <2>2, <2>3 DEF Create
<1>4. ASSUME NEW c \in Caller, NEW p \in Proposal, Decide(c, p) PROVE Frame
  <2>1. overlap \subseteq overlap'
    BY <1>4 DEF Decide, Approve, GetProposal, CheckPolicy, Refuse, Claim, Execute, ExecuteFails,
      ExecuteLosesReply, RecordExecuted, RecordFails, MarkFailed, Goto, Ends, GoOn
  <2>2. UNCHANGED <<amount, auto>> /\ (lost => lost')
    BY <1>4 DEF Decide, Approve, GetProposal, CheckPolicy, Refuse, Claim, Execute, ExecuteFails,
      ExecuteLosesReply, RecordExecuted, RecordFails, MarkFailed, rowVars, histVars
  <2>3. status' = status \/ \E s \in {"rejected", "approved", "executed", "failed"} : status' = [status EXCEPT ![p] = s]
    BY <1>4 DEF Decide, Approve, GetProposal, CheckPolicy, Refuse, RefusedStatus, Claim, Execute, ExecuteFails,
      ExecuteLosesReply, RecordExecuted, RecordFails, MarkFailed, rowVars
  <2>4. \A r \in Proposal : status[r] # "none" => status'[r] # "none"
    BY <2>3
  <2> QED
    BY <2>1, <2>2, <2>4 DEF Frame
<1>5. ASSUME NEW p \in Proposal, Reject(p) PROVE Frame
  BY <1>5 DEF Reject, Frame
<1>6. CASE Midnight \/ Crash
  BY <1>6 DEF Midnight, Crash, rowVars, histVars, Frame
<1> QED
  BY <1>1, <1>2, <1>3, <1>4, <1>5, <1>6 DEF Next

\* The first stage's call keeps the others out, or is found to overlap.
LEMMA GoOnGives ==
  ASSUME TypeOK, NEW c \in Caller, NEW q, GoOn(c, q)
  PROVE  /\ call'[c] = q
         /\ \A d \in Caller \ {c} : call'[d] = call[d]
         /\ \A k \in Stage, d \in Caller \ {c} :
              InStage(k, q) /\ InStage(k, call[d]) => k \in overlap'
BY DEF TypeOK, GoOn

LEMMA GotoGives ==
  ASSUME TypeOK, NEW c \in Caller, NEW pc, Goto(c, pc)
  PROVE  /\ call'[c].pc = pc /\ call'[c].p = call[c].p /\ call'[c].agent = call[c].agent
         /\ \A d \in Caller \ {c} : call'[d] = call[d]
<1> DEFINE q == [call[c] EXCEPT !.pc = pc]
<1>1. call[c] \in Call
  BY TypeParts
<1>2. q.pc = pc /\ q.p = call[c].p /\ q.agent = call[c].agent
  BY <1>1 DEF Call
<1>3. GoOn(c, q)
  BY DEF Goto
<1> HIDE DEF q
<1> QED
  BY <1>2, <1>3, GoOnGives

LEMMA EndsGives ==
  ASSUME TypeOK, NEW c \in Caller, Ends(c)
  PROVE  /\ call'[c] = Idle /\ call'[c].pc = "idle" /\ ~call'[c].agent
         /\ \A d \in Caller \ {c} : call'[d] = call[d]
<1>1. Idle.pc = "idle" /\ ~Idle.agent
  BY DEF Idle
<1>2. GoOn(c, Idle)
  BY DEF Ends
<1> QED
  BY <1>1, <1>2, GoOnGives

LEMMA IdleInNoStage ==
  ASSUME NEW k \in Stage
  PROVE  ~InStage(k, Idle)
BY DEF Stage, InStage, Idle

\* One call a step, and a crash ends all.
LEMMA StepShape ==
  ASSUME TypeOK, [Next]_vars
  PROVE  \/ \E c \in Caller : \E q : GoOn(c, q)
         \/ UNCHANGED <<call, overlap>>
         \/ call' = [c \in Caller |-> Idle]
<1>1. CASE UNCHANGED vars
  BY <1>1 DEF vars
<1>2. ASSUME NEW c \in Caller, Throws(c) \/ \E a \in Amount : Propose(c, a) PROVE \E q : GoOn(c, q)
  BY <1>2 DEF Throws, Propose, Ends
<1>3. ASSUME NEW c \in Caller, NEW p \in Proposal, Create(c, p) PROVE \E q : GoOn(c, q)
  BY <1>3 DEF Create, Insert, CheckMandate, MarkAutonomous, Goto, Ends
<1>4. ASSUME NEW c \in Caller, NEW p \in Proposal, Decide(c, p) PROVE \E q : GoOn(c, q)
  BY <1>4 DEF Decide, Approve, GetProposal, CheckPolicy, Refuse, Claim, Execute, ExecuteFails,
    ExecuteLosesReply, RecordExecuted, RecordFails, MarkFailed, Goto, Ends
<1>5. ASSUME NEW p \in Proposal, Reject(p) PROVE UNCHANGED <<call, overlap>>
  BY <1>5 DEF Reject
<1>6. CASE Midnight
  BY <1>6 DEF Midnight
<1>7. CASE Crash
  BY <1>7 DEF Crash
<1> QED
  BY <1>1, <1>2, <1>3, <1>4, <1>5, <1>6, <1>7 DEF Next

LEMMA OneAtATimeStep ==
  ASSUME IndInv, OneAtATime, [Next]_vars
  PROVE  OneAtATime'
<1> SUFFICES ASSUME NEW k \in Stage, k \notin overlap', NEW c \in Caller, NEW d \in Caller,
                    InStage(k, call'[c]), InStage(k, call'[d])
             PROVE  c = d
  BY DEF OneAtATime, InStage
<1>0. TypeOK /\ k \notin overlap
  BY FrameHolds DEF IndInv, Frame
<1>1. ASSUME NEW e \in Caller, NEW q, GoOn(e, q) PROVE c = d
  <2>1. /\ call'[e] = q /\ \A f \in Caller \ {e} : call'[f] = call[f]
        /\ \A f \in Caller \ {e} : InStage(k, q) /\ InStage(k, call[f]) => k \in overlap'
    BY <1>0, <1>1, GoOnGives
  <2>2. CASE c = e \/ d = e
    BY <2>1, <2>2
  <2>3. CASE c # e /\ d # e
    BY <1>0, <2>1, <2>3 DEF OneAtATime
  <2> QED
    BY <2>2, <2>3
<1>2. CASE UNCHANGED <<call, overlap>>
  BY <1>0, <1>2 DEF OneAtATime
<1>3. CASE call' = [e \in Caller |-> Idle]
  BY <1>3, IdleInNoStage
<1> QED
  BY <1>0, <1>1, <1>2, <1>3, StepShape

-----------------------------------------------------------------------------
\* Steps that add nothing to a total

\* A call that is on a proposal is on a row.
LEMMA OnRow ==
  ASSUME LimitsInv, NEW c \in Caller, call[c].pc \notin {"idle", "file"}
  PROVE  call[c].p \in Proposal /\ status[call[c].p] # "none"
BY DEF LimitsInv, CallsKnow, IndInv, TypeOK

LEMMA FilingKept ==
  ASSUME LimitsInv, Frame, IndInv', Committed' \subseteq Committed,
         \A d \in Caller :
           /\ call'[d].pc = "file" =>
                \/ call[d].pc = "file" /\ call'[d].amount = call[d].amount
                \/ "filing" \notin overlap' => Fits(amount', Committed', call'[d].amount, Cap)
           /\ call'[d].pc \in {"execute", "record"} =>
                \/ call[d].pc \in {"execute", "record"} /\ call'[d].p = call[d].p
                \/ "filing" \notin overlap' => Fits(amount', Committed' \cup {call'[d].p}, 0, Cap)
  PROVE  FilingFits'
<1> SUFFICES ASSUME "filing" \notin overlap' PROVE FilingFits'
  BY DEF FilingFits
<1>1. /\ Fits(amount, Committed, 0, Cap)
      /\ \A c \in Caller :
         /\ call[c].pc = "file" => Fits(amount, Committed, call[c].amount, Cap)
         /\ call[c].pc \in {"execute", "record"} => Fits(amount, Committed \cup {call[c].p}, 0, Cap)
  BY DEF LimitsInv, FilingFits, Frame
<1>2. /\ amount \in [Proposal -> Nat] /\ amount' \in [Proposal -> Nat]
      /\ \A d \in Caller : call[d].amount \in Nat
      /\ Cap \in Nat /\ 0 \in Nat
  BY ProposalAssumption DEF LimitsInv, IndInv, TypeOK
<1>3. /\ Committed \in SUBSET Proposal /\ Committed' \in SUBSET Proposal
      /\ \A p \in Committed : amount'[p] = amount[p]
  BY DEF Committed, ExecutedToday, Pending, Frame
<1>4. Fits(amount', Committed', 0, Cap)
  BY <1>1, <1>2, <1>3, FitsKept
<1>5. ASSUME NEW d \in Caller, call'[d].pc = "file" PROVE Fits(amount', Committed', call'[d].amount, Cap)
  <2> SUFFICES ASSUME ~Fits(amount', Committed', call'[d].amount, Cap) PROVE FALSE
    OBVIOUS
  <2>1. call'[d].amount = call[d].amount /\ call[d].amount \in Nat /\ Fits(amount, Committed, call[d].amount, Cap)
    BY <1>1, <1>2, <1>5
  <2> QED
    BY <1>2, <1>3, <2>1, FitsKept
<1>6. ASSUME NEW d \in Caller, call'[d].pc \in {"execute", "record"}
      PROVE  Fits(amount', Committed' \cup {call'[d].p}, 0, Cap)
  <2> SUFFICES ASSUME ~Fits(amount', Committed' \cup {call'[d].p}, 0, Cap) PROVE FALSE
    OBVIOUS
  <2>1. call'[d].p = call[d].p /\ Fits(amount, Committed \cup {call[d].p}, 0, Cap)
    BY <1>1, <1>6
  <2>2. call[d].p \in Proposal /\ amount'[call[d].p] = amount[call[d].p]
    BY <1>6, OnRow DEF Frame
  <2> DEFINE S == Committed \cup {call[d].p}
             R == Committed' \cup {call'[d].p}
  <2>3. S \in SUBSET Proposal /\ R \in SUBSET Proposal /\ R \subseteq S /\ \A p \in R : amount'[p] = amount[p]
    BY <1>3, <2>1, <2>2
  <2>4. Fits(amount, S, 0, Cap)
    BY <2>1
  <2> HIDE DEF S, R
  <2>5. Fits(amount', R, 0, Cap)
    BY <1>2, <2>3, <2>4, FitsKept
  <2> QED
    BY <2>5 DEF R
<1> QED
  BY <1>4, <1>5, <1>6 DEF FilingFits

LEMMA OutlayKept ==
  ASSUME LimitsInv, Frame, IndInv', Orderly' => Outlay' \subseteq Outlay,
         \A d \in Caller : call'[d].pc \in {"claim", "execute"} =>
           \/ call[d].pc \in {"claim", "execute"} /\ call'[d].p = call[d].p
           \/ Orderly' => Fits(amount', Outlay' \cup {call'[d].p}, 0, Cap)
  PROVE  OutlayFits'
<1> SUFFICES ASSUME Orderly' PROVE OutlayFits'
  BY DEF OutlayFits
<1>1. /\ Fits(amount, Outlay, 0, Cap)
      /\ \A c \in Caller : call[c].pc \in {"claim", "execute"} => Fits(amount, Outlay \cup {call[c].p}, 0, Cap)
  BY DEF LimitsInv, OutlayFits, Frame, Orderly
<1>2. /\ amount \in [Proposal -> Nat] /\ amount' \in [Proposal -> Nat]
      /\ Cap \in Nat /\ 0 \in Nat
  BY ProposalAssumption DEF LimitsInv, IndInv, TypeOK
<1>3. /\ Outlay \in SUBSET Proposal /\ Outlay' \in SUBSET Proposal
      /\ \A p \in Outlay : amount'[p] = amount[p]
  <2>1. \A p \in Outlay : p \in Proposal /\ status[p] # "none"
    BY DEF Outlay, LimitsInv, IndInv, UndecidedIsUntouched
  <2> QED
    BY <2>1 DEF Outlay, Frame
<1>4. Fits(amount', Outlay', 0, Cap)
  BY <1>1, <1>2, <1>3, FitsKept
<1>5. ASSUME NEW d \in Caller, call'[d].pc \in {"claim", "execute"}
      PROVE  Fits(amount', Outlay' \cup {call'[d].p}, 0, Cap)
  <2> SUFFICES ASSUME ~Fits(amount', Outlay' \cup {call'[d].p}, 0, Cap) PROVE FALSE
    OBVIOUS
  <2>1. call'[d].p = call[d].p /\ Fits(amount, Outlay \cup {call[d].p}, 0, Cap)
    BY <1>1, <1>5
  <2>2. call[d].p \in Proposal /\ amount'[call[d].p] = amount[call[d].p]
    BY <1>5, OnRow DEF Frame
  <2> DEFINE S == Outlay \cup {call[d].p}
             R == Outlay' \cup {call'[d].p}
  <2>3. S \in SUBSET Proposal /\ R \in SUBSET Proposal /\ R \subseteq S /\ \A p \in R : amount'[p] = amount[p]
    BY <1>3, <2>1, <2>2
  <2>4. Fits(amount, S, 0, Cap)
    BY <2>1
  <2> HIDE DEF S, R
  <2>5. Fits(amount', R, 0, Cap)
    BY <1>2, <2>3, <2>4, FitsKept
  <2> QED
    BY <2>5 DEF R
<1> QED
  BY <1>4, <1>5 DEF OutlayFits

LEMMA OwnOutlayKept ==
  ASSUME LimitsInv, Frame, IndInv', Orderly' => OwnOutlay' \subseteq OwnOutlay,
         \A d \in Caller : Acts(call'[d]) =>
           \/ Acts(call[d]) /\ call'[d].p = call[d].p
           \/ Orderly' /\ "acting" \notin overlap' => Fits(amount', OwnOutlay' \cup {call'[d].p}, 0, OwnLimit)
  PROVE  OwnOutlayFits'
<1> SUFFICES ASSUME Orderly', "acting" \notin overlap' PROVE OwnOutlayFits'
  BY DEF OwnOutlayFits
<1>1. /\ Fits(amount, OwnOutlay, 0, OwnLimit)
      /\ \A c \in Caller : Acts(call[c]) => Fits(amount, OwnOutlay \cup {call[c].p}, 0, OwnLimit)
  BY DEF LimitsInv, OwnOutlayFits, Frame, Orderly
<1>2. /\ amount \in [Proposal -> Nat] /\ amount' \in [Proposal -> Nat]
      /\ OwnLimit \in Nat /\ 0 \in Nat
  BY ProposalAssumption DEF LimitsInv, IndInv, TypeOK
<1>3. /\ OwnOutlay \in SUBSET Proposal /\ OwnOutlay' \in SUBSET Proposal
      /\ \A p \in OwnOutlay : amount'[p] = amount[p]
  <2>1. \A p \in OwnOutlay : p \in Proposal /\ status[p] # "none"
    BY DEF OwnOutlay, LimitsInv, IndInv, UndecidedIsUntouched, OwnIsMarked
  <2> QED
    BY <2>1 DEF OwnOutlay, Frame
<1>4. Fits(amount', OwnOutlay', 0, OwnLimit)
  BY <1>1, <1>2, <1>3, FitsKept
<1>5. ASSUME NEW d \in Caller, Acts(call'[d])
      PROVE  Fits(amount', OwnOutlay' \cup {call'[d].p}, 0, OwnLimit)
  <2> SUFFICES ASSUME ~Fits(amount', OwnOutlay' \cup {call'[d].p}, 0, OwnLimit) PROVE FALSE
    OBVIOUS
  <2>1. call'[d].p = call[d].p /\ Fits(amount, OwnOutlay \cup {call[d].p}, 0, OwnLimit)
    BY <1>1, <1>5
  <2>2. call[d].p \in Proposal /\ amount'[call[d].p] = amount[call[d].p]
    BY <1>5, OnRow DEF Frame, Acts
  <2> DEFINE S == OwnOutlay \cup {call[d].p}
             R == OwnOutlay' \cup {call'[d].p}
  <2>3. S \in SUBSET Proposal /\ R \in SUBSET Proposal /\ R \subseteq S /\ \A p \in R : amount'[p] = amount[p]
    BY <1>3, <2>1, <2>2
  <2>4. Fits(amount, S, 0, OwnLimit)
    BY <2>1
  <2> HIDE DEF S, R
  <2>5. Fits(amount', R, 0, OwnLimit)
    BY <1>2, <2>3, <2>4, FitsKept
  <2> QED
    BY <2>5 DEF R
<1> QED
  BY <1>4, <1>5 DEF OwnOutlayFits, Acts

-----------------------------------------------------------------------------
\* Steps that move one call and leave the rows and the chain alone

OthersStay(c) == \A d \in Caller \ {c} : call'[d] = call[d]

\* What call c knows after the step.
Informed(c) ==
  /\ call'[c].pc \notin {"idle", "file"} => status'[call'[c].p] # "none"
  /\ call'[c].pc \in {"file", "mandate", "mark"} => call'[c].agent
  /\ call'[c].agent /\ call'[c].pc \notin {"idle", "file", "mandate", "mark"} => auto'[call'[c].p]
  /\ call'[c].pc = "record" => ownDeed'[call'[c].p] = call'[c].agent

LEMMA CallsKnowStep ==
  ASSUME LimitsInv, Frame, NEW c \in Caller, OthersStay(c), Informed(c),
         \A d \in Caller \ {c} : call[d].pc = "record" => ownDeed'[call[d].p] = ownDeed[call[d].p]
  PROVE  CallsKnow'
<1> SUFFICES ASSUME NEW d \in Caller
             PROVE  /\ call'[d].pc \notin {"idle", "file"} => status'[call'[d].p] # "none"
                    /\ call'[d].pc \in {"file", "mandate", "mark"} => call'[d].agent
                    /\ call'[d].agent /\ call'[d].pc \notin {"idle", "file", "mandate", "mark"} => auto'[call'[d].p]
                    /\ call'[d].pc = "record" => ownDeed'[call'[d].p] = call'[d].agent
  BY DEF CallsKnow
<1>1. CASE d = c
  BY <1>1 DEF Informed
<1>2. CASE d # c
  <2>1. call'[d] = call[d]
    BY <1>2 DEF OthersStay
  <2>2. call[d].pc \notin {"idle", "file"} => call[d].p \in Proposal
    BY OnRow
  <2>3. /\ call[d].pc \notin {"idle", "file"} => status[call[d].p] # "none"
        /\ call[d].pc \in {"file", "mandate", "mark"} => call[d].agent
        /\ call[d].agent /\ call[d].pc \notin {"idle", "file", "mandate", "mark"} => auto[call[d].p]
        /\ call[d].pc = "record" => ownDeed[call[d].p] = call[d].agent
    BY DEF LimitsInv, CallsKnow
  <2>4. call[d].pc = "record" => ownDeed'[call[d].p] = ownDeed[call[d].p]
    BY <1>2
  <2> QED
    BY <2>1, <2>2, <2>3, <2>4 DEF Frame
<1> QED
  BY <1>1, <1>2

LEMMA MoveKnows ==
  ASSUME LimitsInv, Frame, NEW c \in Caller, OthersStay(c), Informed(c),
         UNCHANGED <<carried, ownDeed, status>>,
         Orderly' => call[c].pc # "record" /\ (call'[c].pc = "fail" => carried[call'[c].p] = 0)
  PROVE  CallsKnow' /\ OwnIsMarked' /\ OutcomesKnown'
<1>1. CallsKnow'
  BY CallsKnowStep
<1>2. OwnIsMarked'
  BY DEF LimitsInv, OwnIsMarked, Frame
<1>3. OutcomesKnown'
  <2> SUFFICES ASSUME Orderly' PROVE OutcomesKnown'
    BY DEF OutcomesKnown
  <2>1. Orderly
    BY DEF Orderly, Frame
  <2>2. \A d \in Caller : call[d].pc = "record" => call'[d] = call[d]
    BY DEF OthersStay
  <2>3. ASSUME NEW p \in Proposal, carried'[p] > 0
        PROVE  status'[p] = "executed" \/ \E d \in Caller : call'[d].pc = "record" /\ call'[d].p = p
    BY <2>1, <2>2, <2>3 DEF LimitsInv, OutcomesKnown, At
  <2>4. ASSUME NEW d \in Caller, call'[d].pc = "fail" PROVE carried'[call'[d].p] = 0
    BY <2>1, <2>4 DEF LimitsInv, OutcomesKnown, OthersStay
  <2> QED
    BY <2>3, <2>4 DEF OutcomesKnown, At
<1> QED
  BY <1>1, <1>2, <1>3

\* No total changes, and nobody passes a check.
LEMMA QuietStep ==
  ASSUME LimitsInv, IndInv', [Next]_vars, NEW c \in Caller, NEW p,
         \/ Throws(c)
         \/ /\ p \in Proposal
            /\ \/ MarkAutonomous(c, p) \/ Approve(c, p) \/ GetProposal(c, p)
               \/ ExecuteFails(c, p) \/ RecordFails(c, p)
  PROVE  LimitsInv'
<1>0. TypeOK /\ Frame /\ OneAtATime'
  BY FrameHolds, OneAtATimeStep DEF LimitsInv, IndInv
<1>1. UNCHANGED <<carried, ownDeed, status, today>>
  BY DEF MarkAutonomous, Approve, GetProposal, ExecuteFails, RecordFails, Throws, rowVars, histVars
<1>2. /\ Committed' = Committed /\ Outlay' = Outlay /\ OwnOutlay' = OwnOutlay
  BY <1>1 DEF Committed, ExecutedToday, Pending, Outlay, OwnOutlay
<1>3. /\ OthersStay(c)
      /\ \/ call'[c].pc = "idle" /\ ~call'[c].agent /\ call[c].pc # "record"
         \/ /\ call'[c].p = p /\ call'[c].pc = "get" /\ call[c].pc = "mark" /\ call[c].p = p /\ call'[c].agent = call[c].agent
            /\ auto'[p]
         \/ call'[c].p = p /\ call'[c].pc = "get" /\ ~call'[c].agent /\ status[p] # "none" /\ call[c].pc = "idle"
         \/ call'[c].p = p /\ call'[c].pc = "policy" /\ call[c].pc = "get" /\ call[c].p = p /\ call'[c].agent = call[c].agent
         \/ call'[c].p = p /\ call'[c].pc = "fail" /\ call[c].pc = "execute" /\ call[c].p = p /\ call'[c].agent = call[c].agent
         \/ call'[c].p = p /\ call'[c].pc = "fail" /\ call[c].pc = "record" /\ call[c].p = p /\ call'[c].agent = call[c].agent /\ lost'
  <2>1. CASE p \in Proposal /\ MarkAutonomous(c, p)
    <3>1. auto'[p]
      BY <1>0, <2>1 DEF MarkAutonomous, TypeOK
    <3> QED
      BY <1>0, <2>1, <3>1, GotoGives DEF MarkAutonomous, OthersStay, At
  <2>2. CASE Approve(c, p)
    <3> DEFINE q == [Idle EXCEPT !.pc = "get", !.p = p]
    <3>1. q.pc = "get" /\ q.p = p /\ ~q.agent
      BY DEF Idle
    <3>2. GoOn(c, q) /\ status[p] # "none" /\ call[c].pc = "idle"
      BY <2>2 DEF Approve
    <3> HIDE DEF q
    <3> QED
      BY <1>0, <3>1, <3>2, GoOnGives DEF OthersStay
  <2>3. CASE GetProposal(c, p)
    BY <1>0, <2>3, GotoGives, EndsGives DEF GetProposal, OthersStay, At
  <2>4. CASE ExecuteFails(c, p)
    BY <1>0, <2>4, GotoGives DEF ExecuteFails, OthersStay, At
  <2>5. CASE RecordFails(c, p)
    BY <1>0, <2>5, GotoGives DEF RecordFails, OthersStay, At
  <2>6. CASE Throws(c)
    BY <1>0, <2>6, EndsGives DEF Throws, OthersStay
  <2> QED
    BY <2>1, <2>2, <2>3, <2>4, <2>5, <2>6
<1>4. call[c].pc \notin {"idle", "file"} => call[c].p \in Proposal /\ status[call[c].p] # "none"
  BY OnRow
<1>5. Informed(c)
  BY <1>0, <1>1, <1>3, <1>4 DEF Informed, LimitsInv, CallsKnow, Frame
<1>6. Orderly' => call[c].pc # "record" /\ (call'[c].pc = "fail" => carried[call'[c].p] = 0)
  <2>1. call[c].pc = "execute" /\ call[c].p = p => carried[p] = 0
    BY <1>4 DEF LimitsInv, IndInv, ClaimHeld, HasClaimed, Claimed
  <2> QED
    BY <1>3, <2>1 DEF Orderly
<1>7. CallsKnow' /\ OwnIsMarked' /\ OutcomesKnown'
  BY <1>0, <1>1, <1>3, <1>5, <1>6, MoveKnows
<1>8. \A d \in Caller :
        /\ call'[d].pc = "file" => call[d].pc = "file" /\ call'[d].amount = call[d].amount
        /\ call'[d].pc \in {"execute", "record"} =>
             call[d].pc \in {"execute", "record"} /\ call'[d].p = call[d].p
        /\ call'[d].pc \in {"claim", "execute"} => call[d].pc \in {"claim", "execute"} /\ call'[d].p = call[d].p
        /\ Acts(call'[d]) => Acts(call[d]) /\ call'[d].p = call[d].p
  <2>1. \A d \in Caller \ {c} : call'[d] = call[d]
    BY <1>3 DEF OthersStay
  <2> QED
    BY <1>3, <2>1 DEF Acts
<1>9. FilingFits'
  BY <1>0, <1>2, <1>8, FilingKept
<1>10. OutlayFits'
  BY <1>0, <1>2, <1>8, OutlayKept
<1>11. OwnOutlayFits'
  BY <1>0, <1>2, <1>8, OwnOutlayKept
<1> QED
  BY <1>0, <1>7, <1>9, <1>10, <1>11 DEF LimitsInv

-----------------------------------------------------------------------------
\* The checks: whoever passes one fits on top of what was added so far

\* The agent files what the policy allows on top of what waits and was executed.
LEMMA ProposeStep ==
  ASSUME LimitsInv, IndInv', [Next]_vars, NEW c \in Caller, NEW a \in Amount, Propose(c, a)
  PROVE  LimitsInv'
<1>0. TypeOK /\ Frame /\ OneAtATime'
  BY FrameHolds, OneAtATimeStep DEF LimitsInv, IndInv
<1>1. UNCHANGED <<carried, ownDeed, status, today, amount>> /\ call[c].pc = "idle"
  BY DEF Propose, rowVars, histVars
<1>2. /\ Committed' = Committed /\ Outlay' = Outlay /\ OwnOutlay' = OwnOutlay
  BY <1>1 DEF Committed, ExecutedToday, Pending, Outlay, OwnOutlay
<1>3. OthersStay(c) /\ call'[c].pc = "file" /\ call'[c].agent /\ call'[c].amount = a
  <2> DEFINE q == [Idle EXCEPT !.pc = "file", !.amount = a, !.agent = TRUE]
  <2>1. q.pc = "file" /\ q.agent /\ q.amount = a
    BY DEF Idle
  <2>2. GoOn(c, q)
    BY DEF Propose
  <2> HIDE DEF q
  <2> QED
    BY <1>0, <2>1, <2>2, GoOnGives DEF OthersStay
<1>4. Informed(c)
  BY <1>3 DEF Informed
<1>5. CallsKnow' /\ OwnIsMarked' /\ OutcomesKnown'
  BY <1>0, <1>1, <1>3, <1>4, MoveKnows
<1>6. Fits(amount', Committed', a, Cap)
  BY <1>1, <1>2 DEF Propose, FitsWhenFiled, Total, Fits
<1>7. \A d \in Caller \ {c} : call'[d] = call[d]
  BY <1>3 DEF OthersStay
<1>8. FilingFits'
  BY <1>0, <1>2, <1>3, <1>6, <1>7, FilingKept
<1>9. OutlayFits'
  BY <1>0, <1>2, <1>3, <1>7, OutlayKept
<1>10. OwnOutlayFits'
  BY <1>0, <1>2, <1>3, <1>7, OwnOutlayKept DEF Acts
<1> QED
  BY <1>0, <1>5, <1>8, <1>9, <1>10 DEF LimitsInv

\* Within its mandate the agent acts: whatever it did by itself today is
\* executed, or another of its actions is at its record.
LEMMA CheckMandateStep ==
  ASSUME LimitsInv, IndInv', [Next]_vars, NEW c \in Caller, NEW p \in Proposal, CheckMandate(c, p)
  PROVE  LimitsInv'
<1>0. TypeOK /\ Frame /\ OneAtATime'
  BY FrameHolds, OneAtATimeStep DEF LimitsInv, IndInv
<1>1. UNCHANGED <<carried, ownDeed, status, today, amount, auto>> /\ call[c].pc = "mandate" /\ call[c].p = p
  BY DEF CheckMandate, rowVars, histVars, At
<1>2. /\ Committed' = Committed /\ Outlay' = Outlay /\ OwnOutlay' = OwnOutlay
  BY <1>1 DEF Committed, ExecutedToday, Pending, Outlay, OwnOutlay
<1>3. call[c].agent /\ status[p] # "none"
  BY <1>1 DEF LimitsInv, CallsKnow
<1>4. /\ OthersStay(c)
      /\ \/ call'[c].pc = "idle" /\ ~call'[c].agent
         \/ call'[c].pc = "mark" /\ call'[c].p = p /\ call'[c].agent /\ WithinMandate(amount[p])
  BY <1>0, <1>1, <1>3, GotoGives, EndsGives DEF CheckMandate, OthersStay
<1>5. Informed(c)
  BY <1>1, <1>3, <1>4 DEF Informed
<1>6. CallsKnow' /\ OwnIsMarked' /\ OutcomesKnown'
  BY <1>0, <1>1, <1>4, <1>5, MoveKnows
<1>7. \A d \in Caller \ {c} : call'[d] = call[d]
  BY <1>4 DEF OthersStay
<1>8. FilingFits'
  BY <1>0, <1>2, <1>4, <1>7, FilingKept
<1>9. OutlayFits'
  BY <1>0, <1>2, <1>4, <1>7, OutlayKept
<1>10. ASSUME Orderly', "acting" \notin overlap', call'[c].pc = "mark"
       PROVE  Fits(amount', OwnOutlay' \cup {p}, 0, OwnLimit)
  <2> DEFINE Own == {r \in ExecutedToday : auto[r]}
  <2>1. Fits(amount, Own, amount[p], OwnLimit)
    BY <1>4, <1>10 DEF WithinMandate, Total, Fits
  <2>2. OwnOutlay \subseteq Own
    <3> SUFFICES ASSUME NEW r \in Proposal, ownDeed[r], today[r] PROVE r \in Own
      BY DEF OwnOutlay
    <3>1. auto[r] /\ carried[r] > 0
      BY DEF LimitsInv, OwnIsMarked
    <3>2. Orderly
      BY <1>0, <1>10 DEF Orderly, Frame
    <3>3. ASSUME NEW d \in Caller, At(d, "record", r) PROVE FALSE
      <4>1. call[d].agent /\ d # c
        BY <1>1, <3>3 DEF LimitsInv, CallsKnow, At
      <4>2. call'[d] = call[d]
        BY <1>7, <4>1
      <4>3. InStage("acting", call'[d]) /\ InStage("acting", call'[c])
        BY <1>4, <1>10, <3>3, <4>1, <4>2 DEF InStage, At
      <4>4. "acting" \in Stage
        BY DEF Stage
      <4> QED
        BY <1>0, <1>10, <4>1, <4>3, <4>4 DEF OneAtATime, InStage
    <3>4. status[r] = "executed"
      BY <3>1, <3>2, <3>3 DEF LimitsInv, OutcomesKnown
    <3> QED
      BY <3>1, <3>4 DEF ExecutedToday
  <2>3. /\ amount \in [Proposal -> Nat] /\ OwnLimit \in Nat /\ amount[p] \in Nat
        /\ Own \in SUBSET Proposal /\ OwnOutlay \in SUBSET Proposal
    BY <1>0, ProposalAssumption DEF TypeOK, ExecutedToday, OwnOutlay
  <2> HIDE DEF Own
  <2>4. Fits(amount, OwnOutlay, amount[p], OwnLimit)
    BY <2>1, <2>2, <2>3, FitsKept
  <2>5. Fits(amount, OwnOutlay \cup {p}, 0, OwnLimit)
    BY <2>3, <2>4, FitsOneMore
  <2> QED
    BY <1>1, <1>2, <2>5
<1>11. OwnOutlayFits'
  BY <1>0, <1>2, <1>4, <1>7, <1>10, OwnOutlayKept DEF Acts
<1> QED
  BY <1>0, <1>6, <1>8, <1>9, <1>11 DEF LimitsInv

\* Within the policy a call goes on to claim: without an overlap nobody else is
\* at a record, so whatever was carried out today is executed.
LEMMA CheckPolicyStep ==
  ASSUME LimitsInv, IndInv', [Next]_vars, NEW c \in Caller, NEW p \in Proposal, CheckPolicy(c, p)
  PROVE  LimitsInv'
<1>0. TypeOK /\ Frame /\ OneAtATime'
  BY FrameHolds, OneAtATimeStep DEF LimitsInv, IndInv
<1>1. UNCHANGED <<carried, ownDeed, status, today, amount, auto>> /\ call[c].pc = "policy" /\ call[c].p = p
  BY DEF CheckPolicy, rowVars, histVars, At
<1>2. /\ Committed' = Committed /\ Outlay' = Outlay /\ OwnOutlay' = OwnOutlay
  BY <1>1 DEF Committed, ExecutedToday, Pending, Outlay, OwnOutlay
<1>3. /\ OthersStay(c) /\ call'[c].p = p /\ call'[c].agent = call[c].agent
      /\ \/ call'[c].pc = "refuse"
         \/ call'[c].pc = "claim" /\ FitsWhenDecided(amount[p])
  BY <1>0, <1>1, GotoGives DEF CheckPolicy, OthersStay
<1>4. Informed(c)
  BY <1>1, <1>3 DEF Informed, LimitsInv, CallsKnow
<1>5. CallsKnow' /\ OwnIsMarked' /\ OutcomesKnown'
  BY <1>0, <1>1, <1>3, <1>4, MoveKnows
<1>6. \A d \in Caller \ {c} : call'[d] = call[d]
  BY <1>3 DEF OthersStay
<1>7. FilingFits'
  BY <1>0, <1>2, <1>3, <1>6, FilingKept
<1>8. OwnOutlayFits'
  BY <1>0, <1>1, <1>2, <1>3, <1>6, OwnOutlayKept DEF Acts
<1>9. ASSUME Orderly', call'[c].pc = "claim" PROVE Fits(amount', Outlay' \cup {p}, 0, Cap)
  <2>1. Fits(amount, ExecutedToday, amount[p], Cap)
    BY <1>3, <1>9 DEF FitsWhenDecided, Total, Fits
  <2>2. Outlay \subseteq ExecutedToday
    <3> SUFFICES ASSUME NEW r \in Proposal, carried[r] > 0, today[r] PROVE r \in ExecutedToday
      BY DEF Outlay
    <3>1. Orderly
      BY <1>0, <1>9 DEF Orderly, Frame
    <3>2. ASSUME NEW d \in Caller, At(d, "record", r) PROVE FALSE
      BY <1>1, <3>1, <3>2, Deciding DEF At, LimitsInv, IndInv, OneDecides, Orderly
    <3> QED
      BY <3>1, <3>2 DEF ExecutedToday, LimitsInv, OutcomesKnown
  <2>3. /\ amount \in [Proposal -> Nat] /\ Cap \in Nat /\ amount[p] \in Nat
        /\ ExecutedToday \in SUBSET Proposal /\ Outlay \in SUBSET Proposal
    BY <1>0, ProposalAssumption DEF TypeOK, ExecutedToday, Outlay
  <2>4. Fits(amount, Outlay, amount[p], Cap)
    BY <2>1, <2>2, <2>3, FitsKept
  <2>5. Fits(amount, Outlay \cup {p}, 0, Cap)
    BY <2>3, <2>4, FitsOneMore
  <2> QED
    BY <1>1, <1>2, <2>5
<1>10. OutlayFits'
  BY <1>0, <1>2, <1>3, <1>6, <1>9, OutlayKept
<1> QED
  BY <1>0, <1>5, <1>7, <1>8, <1>10 DEF LimitsInv

-----------------------------------------------------------------------------
\* The rows and the chain

LEMMA OutcomesStep ==
  ASSUME LimitsInv, Frame, NEW c \in Caller, OthersStay(c), NEW p \in Proposal,
         \A r \in Proposal \ {p} : status'[r] = status[r] /\ carried'[r] = carried[r],
         Orderly' =>
           /\ carried'[p] = 0 \/ status'[p] = "executed" \/ (call'[c].pc = "record" /\ call'[c].p = p)
           /\ call[c].pc = "record" => call[c].p = p
           /\ call'[c].pc # "fail"
           /\ \A d \in Caller \ {c} : call[d].pc \notin {"record", "fail"}
  PROVE  OutcomesKnown'
<1> SUFFICES ASSUME Orderly' PROVE OutcomesKnown'
  BY DEF OutcomesKnown
<1>1. Orderly
  BY DEF Orderly, Frame
<1>2. ASSUME NEW r \in Proposal, carried'[r] > 0
      PROVE  status'[r] = "executed" \/ \E d \in Caller : call'[d].pc = "record" /\ call'[d].p = r
  <2>1. CASE r = p
    BY <1>2, <2>1
  <2>2. CASE r # p
    <3>1. carried[r] > 0 /\ status'[r] = status[r]
      BY <1>2, <2>2
    <3>2. \A d \in Caller : ~(call[d].pc = "record" /\ call[d].p = r)
      BY <2>2
    <3> QED
      BY <1>1, <3>1, <3>2 DEF LimitsInv, OutcomesKnown, At
  <2> QED
    BY <2>1, <2>2
<1>3. ASSUME NEW d \in Caller, call'[d].pc = "fail" PROVE FALSE
  BY <1>3 DEF OthersStay
<1> QED
  BY <1>2, <1>3 DEF OutcomesKnown, At

\* Without an overlap the other calls decide nothing.
LEMMA DecidesAlone ==
  ASSUME LimitsInv, Orderly, NEW c \in Caller, call[c].pc \notin {"idle", "file", "mandate", "mark"}
  PROVE  \A d \in Caller \ {c} : call[d].pc \in {"idle", "file", "mandate", "mark"}
BY Deciding DEF LimitsInv, IndInv, OneDecides, Orderly

\* A new row fits because what it asks for did when the policy was checked.
LEMMA InsertKeepsLimits ==
  ASSUME LimitsInv, IndInv', [Next]_vars, NEW c \in Caller, NEW p \in Proposal, Insert(c, p)
  PROVE  LimitsInv'
<1>0. TypeOK /\ Frame /\ OneAtATime'
  BY FrameHolds, OneAtATimeStep DEF LimitsInv, IndInv
<1>1. /\ UNCHANGED <<carried, ownDeed, today, auto>> /\ call[c].pc = "file" /\ status[p] = "none"
      /\ status' = [status EXCEPT ![p] = "pending"] /\ amount' = [amount EXCEPT ![p] = call[c].amount]
  BY DEF Insert, histVars
<1>2. /\ status'[p] = "pending" /\ \A r \in Proposal \ {p} : status'[r] = status[r]
      /\ amount'[p] = call[c].amount /\ \A r \in Proposal \ {p} : amount'[r] = amount[r]
  BY <1>0, <1>1 DEF TypeOK
<1>3. OthersStay(c) /\ call'[c].pc = "mandate" /\ call'[c].p = p /\ call'[c].agent
  <2> DEFINE q == [call[c] EXCEPT !.pc = "mandate", !.p = p]
  <2>1. call[c] \in Call /\ call[c].agent
    BY <1>0, <1>1, TypeParts DEF LimitsInv, CallsKnow
  <2>2. q.pc = "mandate" /\ q.p = p /\ q.agent
    BY <2>1 DEF Call
  <2>3. GoOn(c, q)
    BY DEF Insert
  <2> HIDE DEF q
  <2> QED
    BY <1>0, <2>2, <2>3, GoOnGives DEF OthersStay
<1>4. \A d \in Caller \ {c} : call'[d] = call[d]
  BY <1>3 DEF OthersStay
<1>5. carried[p] = 0 /\ ~ownDeed[p]
  BY <1>0, <1>1 DEF LimitsInv, IndInv, UndecidedIsUntouched, OwnIsMarked
<1>6. CallsKnow'
  <2>1. Informed(c)
    BY <1>2, <1>3 DEF Informed
  <2> QED
    BY <1>0, <1>1, <1>3, <2>1, CallsKnowStep
<1>7. OwnIsMarked'
  BY <1>1 DEF LimitsInv, OwnIsMarked
<1>8. OutcomesKnown'
  <2> SUFFICES ASSUME Orderly' PROVE OutcomesKnown'
    BY DEF OutcomesKnown
  <2>1. Orderly
    BY <1>0 DEF Orderly, Frame
  <2>2. ASSUME NEW r \in Proposal, carried'[r] > 0
        PROVE  status'[r] = "executed" \/ \E d \in Caller : call'[d].pc = "record" /\ call'[d].p = r
    <3>1. r # p /\ carried[r] > 0
      BY <1>1, <1>5, <2>2
    <3>2. CASE status[r] = "executed"
      BY <1>2, <3>1, <3>2
    <3>3. ASSUME NEW d \in Caller, At(d, "record", r)
          PROVE  \E e \in Caller : call'[e].pc = "record" /\ call'[e].p = r
      BY <1>1, <1>4, <3>3 DEF At
    <3> QED
      BY <2>1, <3>1, <3>2, <3>3 DEF LimitsInv, OutcomesKnown
  <2>3. ASSUME NEW d \in Caller, call'[d].pc = "fail" PROVE carried'[call'[d].p] = 0
    BY <1>1, <1>3, <1>4, <2>1, <2>3 DEF LimitsInv, OutcomesKnown
  <2> QED
    BY <2>2, <2>3 DEF OutcomesKnown, At
<1>9. FilingFits'
  <2> SUFFICES ASSUME "filing" \notin overlap' PROVE FilingFits'
    BY DEF FilingFits
  <2>1. "filing" \notin overlap /\ "filing" \in Stage
    BY <1>0 DEF Frame, Stage
  <2>2. Fits(amount, Committed, amount'[p], Cap)
    BY <1>1, <1>2, <2>1 DEF LimitsInv, FilingFits
  <2>3. /\ Committed \in SUBSET Proposal /\ Committed' \in SUBSET Proposal
        /\ p \notin Committed /\ Committed' \subseteq Committed \cup {p}
    BY <1>1, <1>2 DEF Committed, ExecutedToday, Pending
  <2>4. /\ amount \in [Proposal -> Nat] /\ amount' \in [Proposal -> Nat] /\ amount'[p] \in Nat
        /\ Cap \in Nat /\ 0 \in Nat
    BY ProposalAssumption DEF LimitsInv, IndInv, TypeOK
  <2>5. Fits(amount', Committed, amount'[p], Cap)
    BY <1>2, <2>2, <2>3, <2>4, FitsKept
  <2> DEFINE S == Committed \cup {p}
  <2>6. Fits(amount', S, 0, Cap)
    BY <2>3, <2>4, <2>5, FitsOneMore
  <2>7. S \in SUBSET Proposal /\ Committed' \subseteq S
    BY <2>3
  <2> HIDE DEF S
  <2>8. Fits(amount', Committed', 0, Cap)
    BY <2>3, <2>4, <2>6, <2>7, FitsKept
  <2>9. ASSUME NEW d \in Caller, call'[d].pc \in {"file", "execute", "record"} PROVE FALSE
    <3>1. d # c /\ call'[d] = call[d]
      BY <1>3, <1>4, <2>9
    <3>2. InStage("filing", call[d]) /\ InStage("filing", call[c])
      BY <1>1, <2>9, <3>1 DEF InStage
    <3> QED
      BY <2>1, <3>1, <3>2 DEF LimitsInv, OneAtATime
  <2> QED
    BY <2>8, <2>9 DEF FilingFits
<1>10. Outlay' = Outlay /\ OwnOutlay' = OwnOutlay
  BY <1>1 DEF Outlay, OwnOutlay
<1>11. OutlayFits'
  BY <1>0, <1>3, <1>4, <1>10, OutlayKept
<1>12. OwnOutlayFits'
  BY <1>0, <1>3, <1>4, <1>10, OwnOutlayKept DEF Acts
<1> QED
  BY <1>0, <1>6, <1>7, <1>8, <1>9, <1>11, <1>12 DEF LimitsInv

\* A row that is turned down, by the policy's late verdict or a failure: without
\* an overlap or a lost outcome it was not carried out.
LEMMA CloseStep ==
  ASSUME LimitsInv, IndInv', [Next]_vars, NEW c \in Caller, NEW p \in Proposal, Refuse(c, p) \/ MarkFailed(c, p)
  PROVE  LimitsInv'
<1>0. TypeOK /\ Frame /\ OneAtATime'
  BY FrameHolds, OneAtATimeStep DEF LimitsInv, IndInv
<1>1. /\ UNCHANGED <<carried, ownDeed, amount, auto>> /\ call[c].pc \in {"refuse", "fail"} /\ call[c].p = p
      /\ \E s \in {"rejected", "failed"} : status' = [status EXCEPT ![p] = s]
      /\ today' = today \/ today' = [today EXCEPT ![p] = TRUE]
  BY DEF Refuse, MarkFailed, RefusedStatus, histVars, At
<1>2. /\ status'[p] \in {"rejected", "failed"} /\ \A r \in Proposal \ {p} : status'[r] = status[r] /\ today'[r] = today[r]
  BY <1>0, <1>1 DEF TypeOK
<1>3. OthersStay(c) /\ call'[c].pc = "idle" /\ ~call'[c].agent
  BY <1>0, EndsGives DEF Refuse, MarkFailed, OthersStay
<1>4. \A d \in Caller \ {c} : call'[d] = call[d]
  BY <1>3 DEF OthersStay
<1>5. Orderly' => Orderly
  BY <1>0 DEF Orderly, Frame
<1>6. Orderly => carried[p] = 0 /\ ~ownDeed[p]
  <2>1. Orderly => carried[p] = 0
    BY <1>1 DEF LimitsInv, IndInv, OneDecides, OutcomesKnown, Orderly, FoundPending
  <2> QED
    BY <2>1 DEF LimitsInv, OwnIsMarked
<1>7. CallsKnow'
  <2>1. Informed(c)
    BY <1>3 DEF Informed
  <2> QED
    BY <1>0, <1>1, <1>3, <2>1, CallsKnowStep
<1>8. OwnIsMarked'
  BY <1>1 DEF LimitsInv, OwnIsMarked
<1>9. OutcomesKnown'
  <2>1. Orderly' => \A d \in Caller \ {c} : call[d].pc \notin {"record", "fail"}
    BY <1>1, <1>5, DecidesAlone
  <2> QED
    BY <1>0, <1>1, <1>2, <1>3, <1>5, <1>6, <2>1, OutcomesStep
<1>10. FilingFits'
  <2>1. Committed' \subseteq Committed
    BY <1>2 DEF Committed, ExecutedToday, Pending
  <2> QED
    BY <1>0, <1>3, <1>4, <2>1, FilingKept
<1>11. Orderly' => Outlay' \subseteq Outlay /\ OwnOutlay' \subseteq OwnOutlay
  BY <1>1, <1>2, <1>5, <1>6 DEF Outlay, OwnOutlay
<1>12. OutlayFits'
  BY <1>0, <1>3, <1>4, <1>11, OutlayKept
<1>13. OwnOutlayFits'
  BY <1>0, <1>3, <1>4, <1>11, OwnOutlayKept DEF Acts
<1> QED
  BY <1>0, <1>7, <1>8, <1>9, <1>10, <1>12, <1>13 DEF LimitsInv

\* A claim takes a row from those that wait, and its call keeps its room.
LEMMA ClaimKeepsLimits ==
  ASSUME LimitsInv, IndInv', [Next]_vars, NEW c \in Caller, NEW p \in Proposal, Claim(c, p)
  PROVE  LimitsInv'
<1>0. TypeOK /\ Frame /\ OneAtATime'
  BY FrameHolds, OneAtATimeStep DEF LimitsInv, IndInv
<1>1. UNCHANGED <<carried, ownDeed, amount, auto>> /\ call[c].pc = "claim" /\ call[c].p = p
  BY DEF Claim, histVars, At
<1>2. \/ UNCHANGED <<status, today>> /\ call'[c].pc = "idle" /\ ~call'[c].agent /\ OthersStay(c)
      \/ /\ status[p] = "pending" /\ status'[p] = "approved"
         /\ \A r \in Proposal \ {p} : status'[r] = status[r] /\ today'[r] = today[r]
         /\ call'[c].pc = "execute" /\ call'[c].p = p /\ call'[c].agent = call[c].agent /\ OthersStay(c)
  <2>1. CASE MayClaim(p)
    <3>1. status[p] = "pending" /\ status' = [status EXCEPT ![p] = "approved"] /\ today' = [today EXCEPT ![p] = TRUE]
          /\ Goto(c, "execute")
      BY <2>1 DEF Claim, MayClaim
    <3> QED
      BY <1>0, <1>1, <3>1, GotoGives DEF OthersStay, TypeOK
  <2>2. CASE ~MayClaim(p)
    BY <1>0, <2>2, EndsGives DEF Claim, OthersStay
  <2> QED
    BY <2>1, <2>2
<1>3. \A d \in Caller \ {c} : call'[d] = call[d]
  BY <1>2 DEF OthersStay
<1>4. status[p] = "pending" => carried[p] = 0 /\ ~ownDeed[p]
  BY DEF LimitsInv, IndInv, UndecidedIsUntouched, OwnIsMarked
<1>5. CallsKnow'
  <2>1. Informed(c)
    BY <1>1, <1>2 DEF Informed, LimitsInv, CallsKnow
  <2> QED
    BY <1>0, <1>1, <1>2, <2>1, CallsKnowStep
<1>6. OwnIsMarked'
  BY <1>1 DEF LimitsInv, OwnIsMarked
<1>7. Orderly' => Orderly
  BY <1>0 DEF Orderly, Frame
<1>8. Orderly' => \A d \in Caller \ {c} : call[d].pc \notin {"record", "fail"}
  BY <1>1, <1>7, DecidesAlone
<1>9. OutcomesKnown'
  <2>1. \A r \in Proposal \ {p} : status'[r] = status[r] /\ carried'[r] = carried[r]
    BY <1>1, <1>2
  <2>2. Orderly' => carried'[p] = 0 \/ status'[p] = "executed" \/ (call'[c].pc = "record" /\ call'[c].p = p)
    <3>1. ASSUME Orderly', UNCHANGED status PROVE carried[p] = 0 \/ status[p] = "executed"
      <4>1. carried[p] \in Nat
        BY <1>0 DEF TypeOK
      <4> QED
        BY <1>1, <1>7, <1>8, <3>1, <4>1 DEF LimitsInv, OutcomesKnown, At
    <3> QED
      BY <1>1, <1>2, <1>4, <3>1
  <2> QED
    BY <1>0, <1>1, <1>2, <1>8, <2>1, <2>2, OutcomesStep
<1>10. Committed' \subseteq Committed /\ (status[p] = "pending" => p \in Committed)
  BY <1>2 DEF Committed, ExecutedToday, Pending
<1>11. FilingFits'
  <2>1. ASSUME "filing" \notin overlap', call'[c].pc = "execute"
        PROVE  Fits(amount', Committed' \cup {p}, 0, Cap)
    <3>1. Fits(amount, Committed, 0, Cap)
      BY <1>0, <2>1 DEF LimitsInv, FilingFits, Frame
    <3> DEFINE R == Committed' \cup {p}
    <3>2. R \subseteq Committed
      BY <1>2, <1>10, <2>1
    <3>3. Committed \in SUBSET Proposal /\ R \in SUBSET Proposal
      BY <3>2 DEF Committed, ExecutedToday, Pending
    <3>4. amount \in [Proposal -> Nat] /\ Cap \in Nat /\ 0 \in Nat
      BY <1>0, ProposalAssumption DEF TypeOK
    <3> HIDE DEF R
    <3>5. Fits(amount, R, 0, Cap)
      BY <3>1, <3>2, <3>3, <3>4, FitsKept
    <3> QED
      BY <1>1, <3>5 DEF R
  <2> QED
    BY <1>0, <1>2, <1>3, <1>10, <2>1, FilingKept
<1>12. Outlay' \subseteq Outlay /\ OwnOutlay' \subseteq OwnOutlay
  BY <1>1, <1>2, <1>4 DEF Outlay, OwnOutlay
<1>13. OutlayFits'
  BY <1>0, <1>1, <1>2, <1>3, <1>12, OutlayKept
<1>14. OwnOutlayFits'
  BY <1>0, <1>1, <1>2, <1>3, <1>12, OwnOutlayKept DEF Acts
<1> QED
  BY <1>0, <1>5, <1>6, <1>9, <1>11, <1>13, <1>14 DEF LimitsInv

\* The action on chain uses the room its call has kept.
LEMMA ExecuteKeepsLimits ==
  ASSUME LimitsInv, IndInv', [Next]_vars, NEW c \in Caller, NEW p \in Proposal,
         Execute(c, p) \/ ExecuteLosesReply(c, p)
  PROVE  LimitsInv'
<1>0. TypeOK /\ Frame /\ OneAtATime'
  BY FrameHolds, OneAtATimeStep DEF LimitsInv, IndInv
<1>1. /\ UNCHANGED <<status, today, amount, auto>> /\ call[c].pc = "execute" /\ call[c].p = p
      /\ carried' = [carried EXCEPT ![p] = @ + 1] /\ ownDeed' = [ownDeed EXCEPT ![p] = call[c].agent]
  BY DEF Execute, ExecuteLosesReply, CarriedOut, rowVars, At
<1>2. carried[p] = 0
  BY <1>1 DEF LimitsInv, IndInv, ClaimHeld, HasClaimed, Claimed
<1>3. /\ carried'[p] = 1 /\ \A r \in Proposal \ {p} : carried'[r] = carried[r]
      /\ ownDeed'[p] = call[c].agent /\ \A r \in Proposal \ {p} : ownDeed'[r] = ownDeed[r]
  BY <1>0, <1>1, <1>2 DEF TypeOK
<1>4. /\ OthersStay(c) /\ call'[c].p = p /\ call'[c].agent = call[c].agent
      /\ \/ call'[c].pc = "record"
         \/ call'[c].pc = "fail" /\ lost'
  BY <1>0, <1>1, GotoGives DEF Execute, ExecuteLosesReply, OthersStay
<1>5. \A d \in Caller \ {c} : call'[d] = call[d]
  BY <1>4 DEF OthersStay
<1>6. Orderly' => Orderly /\ call'[c].pc = "record"
  BY <1>0, <1>4 DEF Orderly, Frame
<1>7. CallsKnow'
  <2>1. Informed(c)
    BY <1>1, <1>3, <1>4 DEF Informed, LimitsInv, CallsKnow
  <2>2. ASSUME NEW d \in Caller \ {c}, call[d].pc = "record" PROVE ownDeed'[call[d].p] = ownDeed[call[d].p]
    <3>1. call[d].p \in Proposal
      BY <2>2, OnRow
    <3>2. call[d].p # p
      BY <1>1, <2>2 DEF LimitsInv, IndInv, ClaimHeld, HasClaimed, Claimed
    <3> QED
      BY <1>3, <3>1, <3>2
  <2> QED
    BY <1>0, <1>4, <2>1, <2>2, CallsKnowStep
<1>8. OwnIsMarked'
  <2>1. call[c].agent => auto[p]
    BY <1>1 DEF LimitsInv, CallsKnow
  <2> QED
    BY <1>1, <1>3, <2>1 DEF LimitsInv, OwnIsMarked
<1>9. Orderly' => \A d \in Caller \ {c} : call[d].pc \in {"idle", "file", "mandate", "mark"}
  BY <1>1, <1>6, DecidesAlone
<1>10. OutcomesKnown'
  BY <1>0, <1>1, <1>3, <1>4, <1>6, <1>9, OutcomesStep
<1>11. FilingFits'
  <2>1. Committed' = Committed
    BY <1>1 DEF Committed, ExecutedToday, Pending
  <2> QED
    BY <1>0, <1>1, <1>4, <1>5, <2>1, FilingKept
<1>12. /\ amount \in [Proposal -> Nat] /\ Cap \in Nat /\ OwnLimit \in Nat /\ 0 \in Nat
       /\ Outlay \in SUBSET Proposal /\ Outlay' \in SUBSET Proposal
       /\ OwnOutlay \in SUBSET Proposal /\ OwnOutlay' \in SUBSET Proposal
  BY <1>0, ProposalAssumption DEF TypeOK, Outlay, OwnOutlay
<1>13. OutlayFits'
  <2> SUFFICES ASSUME Orderly' PROVE OutlayFits'
    BY DEF OutlayFits
  <2> DEFINE S == Outlay \cup {p}
  <2>1. Fits(amount, S, 0, Cap)
    BY <1>1, <1>6 DEF LimitsInv, OutlayFits
  <2>2. S \in SUBSET Proposal /\ Outlay' \subseteq S
    BY <1>1, <1>3, <1>12 DEF Outlay
  <2> HIDE DEF S
  <2>3. Fits(amount, Outlay', 0, Cap)
    BY <1>12, <2>1, <2>2, FitsKept
  <2>4. \A d \in Caller : call'[d].pc \notin {"claim", "execute"}
    BY <1>5, <1>6, <1>9
  <2> QED
    BY <1>1, <2>3, <2>4 DEF OutlayFits
<1>14. OwnOutlayFits'
  <2>1. CASE ~call[c].agent
    <3>1. OwnOutlay' \subseteq OwnOutlay
      BY <1>1, <1>3, <2>1 DEF OwnOutlay
    <3> QED
      BY <1>0, <1>4, <1>5, <3>1, OwnOutlayKept DEF Acts
  <2>2. CASE call[c].agent
    <3> SUFFICES ASSUME Orderly', "acting" \notin overlap' PROVE OwnOutlayFits'
      BY DEF OwnOutlayFits
    <3>0. "acting" \notin overlap /\ "acting" \in Stage
      BY <1>0 DEF Frame, Stage
    <3> DEFINE S == OwnOutlay \cup {p}
    <3>1. Fits(amount, S, 0, OwnLimit)
      BY <1>1, <1>6, <2>2, <3>0 DEF LimitsInv, OwnOutlayFits, Acts
    <3>2. S \in SUBSET Proposal /\ OwnOutlay' \subseteq S
      BY <1>1, <1>3, <1>12 DEF OwnOutlay
    <3> HIDE DEF S
    <3>3. Fits(amount, OwnOutlay', 0, OwnLimit)
      BY <1>12, <3>1, <3>2, FitsKept
    <3>4. ASSUME NEW d \in Caller, Acts(call'[d]) PROVE FALSE
      <4>1. d # c /\ call'[d] = call[d]
        BY <1>4, <1>5, <3>4 DEF Acts
      <4>2. InStage("acting", call[d]) /\ InStage("acting", call[c])
        BY <1>1, <2>2, <3>4, <4>1 DEF InStage, Acts
      <4> QED
        BY <3>0, <4>1, <4>2 DEF LimitsInv, OneAtATime
    <3> QED
      BY <1>1, <3>3, <3>4 DEF OwnOutlayFits
  <2> QED
    BY <2>1, <2>2
<1> QED
  BY <1>0, <1>7, <1>8, <1>10, <1>11, <1>13, <1>14 DEF LimitsInv

\* The record of what was carried out uses the room kept since the claim.
LEMMA RecordKeepsLimits ==
  ASSUME LimitsInv, IndInv', [Next]_vars, NEW c \in Caller, NEW p \in Proposal, RecordExecuted(c, p)
  PROVE  LimitsInv'
<1>0. TypeOK /\ Frame /\ OneAtATime'
  BY FrameHolds, OneAtATimeStep DEF LimitsInv, IndInv
<1>1. /\ UNCHANGED <<carried, ownDeed, amount, auto, today>> /\ call[c].pc = "record" /\ call[c].p = p
      /\ status' = [status EXCEPT ![p] = "executed"]
  BY DEF RecordExecuted, histVars, At
<1>2. status'[p] = "executed" /\ \A r \in Proposal \ {p} : status'[r] = status[r]
  BY <1>0, <1>1 DEF TypeOK
<1>3. OthersStay(c) /\ call'[c].pc = "idle" /\ ~call'[c].agent
  BY <1>0, EndsGives DEF RecordExecuted, OthersStay
<1>4. \A d \in Caller \ {c} : call'[d] = call[d]
  BY <1>3 DEF OthersStay
<1>5. Orderly' => Orderly
  BY <1>0 DEF Orderly, Frame
<1>6. CallsKnow'
  <2>1. Informed(c)
    BY <1>3 DEF Informed
  <2> QED
    BY <1>0, <1>1, <1>3, <2>1, CallsKnowStep
<1>7. OwnIsMarked'
  BY <1>1 DEF LimitsInv, OwnIsMarked
<1>8. OutcomesKnown'
  <2>1. Orderly' => \A d \in Caller \ {c} : call[d].pc \notin {"record", "fail"}
    BY <1>1, <1>5, DecidesAlone
  <2> QED
    BY <1>0, <1>1, <1>2, <1>3, <2>1, OutcomesStep
<1>9. FilingFits'
  <2> SUFFICES ASSUME "filing" \notin overlap' PROVE FilingFits'
    BY DEF FilingFits
  <2>1. "filing" \notin overlap /\ "filing" \in Stage
    BY <1>0 DEF Frame, Stage
  <2> DEFINE S == Committed \cup {p}
  <2>2. Fits(amount, S, 0, Cap)
    BY <1>1, <2>1 DEF LimitsInv, FilingFits
  <2>3. S \in SUBSET Proposal /\ Committed' \in SUBSET Proposal /\ Committed' \subseteq S
    BY <1>1, <1>2 DEF Committed, ExecutedToday, Pending
  <2>4. amount \in [Proposal -> Nat] /\ Cap \in Nat /\ 0 \in Nat
    BY <1>0, ProposalAssumption DEF TypeOK
  <2> HIDE DEF S
  <2>5. Fits(amount', Committed', 0, Cap)
    BY <1>1, <2>2, <2>3, <2>4, FitsKept
  <2>6. ASSUME NEW d \in Caller, call'[d].pc \in {"file", "execute", "record"} PROVE FALSE
    <3>1. d # c /\ call'[d] = call[d]
      BY <1>3, <1>4, <2>6
    <3>2. InStage("filing", call[d]) /\ InStage("filing", call[c])
      BY <1>1, <2>6, <3>1 DEF InStage
    <3> QED
      BY <2>1, <3>1, <3>2 DEF LimitsInv, OneAtATime
  <2> QED
    BY <2>5, <2>6 DEF FilingFits
<1>10. Outlay' = Outlay /\ OwnOutlay' = OwnOutlay
  BY <1>1 DEF Outlay, OwnOutlay
<1>11. OutlayFits'
  BY <1>0, <1>3, <1>4, <1>10, OutlayKept
<1>12. OwnOutlayFits'
  BY <1>0, <1>3, <1>4, <1>10, OwnOutlayKept DEF Acts
<1> QED
  BY <1>0, <1>6, <1>7, <1>8, <1>9, <1>11, <1>12 DEF LimitsInv

\* A click on reject, a midnight and a step of nobody take rows away only.
LEMMA NoCallKeepsLimits ==
  ASSUME LimitsInv, IndInv', [Next]_vars, (\E p \in Proposal : Reject(p)) \/ Midnight \/ UNCHANGED vars
  PROVE  LimitsInv'
<1>0. TypeOK /\ Frame /\ OneAtATime'
  BY FrameHolds, OneAtATimeStep DEF LimitsInv, IndInv
<1>1. UNCHANGED <<carried, ownDeed, amount, auto, call, lost, overlap>>
  BY DEF Reject, Midnight, vars, rowVars, histVars
<1>2. \A p \in Proposal :
        \/ status'[p] = status[p] /\ (today'[p] => today[p])
        \/ status[p] = "pending" /\ status'[p] = "rejected"
  <2>1. ASSUME NEW q \in Proposal, Reject(q)
        PROVE  \A p \in Proposal : \/ status'[p] = status[p] /\ (today'[p] => today[p])
                                   \/ status[p] = "pending" /\ status'[p] = "rejected"
    BY <1>0, <2>1 DEF Reject, MayReject, TypeOK
  <2>2. CASE Midnight
    BY <2>2 DEF Midnight
  <2>3. CASE UNCHANGED vars
    BY <2>3 DEF vars, rowVars
  <2> QED
    BY <2>1, <2>2, <2>3
<1>3. \A p \in Proposal : status[p] = "pending" => carried[p] = 0 /\ ~ownDeed[p]
  BY DEF LimitsInv, IndInv, UndecidedIsUntouched, OwnIsMarked
<1>4. CallsKnow' /\ OwnIsMarked'
  <2>1. \A c \in Caller : call[c].pc \notin {"idle", "file"} => status'[call[c].p] # "none"
    BY <1>0, OnRow DEF Frame
  <2> QED
    BY <1>1, <2>1 DEF LimitsInv, CallsKnow, OwnIsMarked
<1>5. OutcomesKnown'
  BY <1>1, <1>2, <1>3 DEF LimitsInv, OutcomesKnown, Orderly, At
<1>6. Committed' \subseteq Committed /\ Outlay' \subseteq Outlay /\ OwnOutlay' \subseteq OwnOutlay
  <2>1. Committed' \subseteq Committed
    BY <1>2 DEF Committed, ExecutedToday, Pending
  <2> QED
    BY <1>1, <1>2, <1>3, <2>1 DEF Outlay, OwnOutlay
<1>7. FilingFits'
  BY <1>0, <1>1, <1>6, FilingKept
<1>8. OutlayFits'
  BY <1>0, <1>1, <1>6, OutlayKept
<1>9. OwnOutlayFits'
  BY <1>0, <1>1, <1>6, OwnOutlayKept
<1> QED
  BY <1>0, <1>4, <1>5, <1>7, <1>8, <1>9 DEF LimitsInv

\* A crash loses the outcome of a call at its record.
LEMMA CrashKeepsLimits ==
  ASSUME LimitsInv, IndInv', [Next]_vars, Crash
  PROVE  LimitsInv'
<1>0. TypeOK /\ Frame /\ OneAtATime'
  BY FrameHolds, OneAtATimeStep DEF LimitsInv, IndInv
<1>1. /\ UNCHANGED <<carried, ownDeed, amount, auto, status, today>>
      /\ lost' = (lost \/ \E c \in Caller : call[c].pc = "record")
  BY DEF Crash, rowVars
<1>2. \A c \in Caller : call'[c].pc = "idle" /\ ~call'[c].agent
  BY DEF Crash, Idle
<1>3. Committed' = Committed /\ Outlay' = Outlay /\ OwnOutlay' = OwnOutlay
  BY <1>1 DEF Committed, ExecutedToday, Pending, Outlay, OwnOutlay
<1>4. CallsKnow' /\ OwnIsMarked'
  BY <1>1, <1>2 DEF LimitsInv, CallsKnow, OwnIsMarked
<1>5. OutcomesKnown'
  <2> SUFFICES ASSUME Orderly' PROVE OutcomesKnown'
    BY DEF OutcomesKnown
  <2>1. Orderly /\ \A c \in Caller : call[c].pc # "record"
    BY <1>0, <1>1 DEF Orderly, Frame
  <2> QED
    BY <1>1, <1>2, <2>1 DEF LimitsInv, OutcomesKnown, At
<1>6. FilingFits'
  BY <1>0, <1>2, <1>3, FilingKept
<1>7. OutlayFits'
  BY <1>0, <1>2, <1>3, OutlayKept
<1>8. OwnOutlayFits'
  BY <1>0, <1>2, <1>3, OwnOutlayKept DEF Acts
<1> QED
  BY <1>0, <1>4, <1>5, <1>6, <1>7, <1>8 DEF LimitsInv

LEMMA StepLimitsInv == LimitsInv /\ [Next]_vars => LimitsInv'
<1> SUFFICES ASSUME LimitsInv, [Next]_vars PROVE LimitsInv'
  OBVIOUS
<1>0. IndInv'
  BY StepIndInv DEF LimitsInv
<1>1. CASE UNCHANGED vars
  BY <1>0, <1>1, NoCallKeepsLimits
<1>2. ASSUME NEW c \in Caller, NEW a \in Amount, Propose(c, a) PROVE LimitsInv'
  BY <1>0, <1>2, ProposeStep
<1>3. ASSUME NEW c \in Caller, NEW p \in Proposal, Create(c, p) PROVE LimitsInv'
  BY <1>0, <1>3, InsertKeepsLimits, CheckMandateStep, QuietStep DEF Create
<1>4. ASSUME NEW c \in Caller, NEW p \in Proposal, Decide(c, p) PROVE LimitsInv'
  BY <1>0, <1>4, QuietStep, CheckPolicyStep, CloseStep, ClaimKeepsLimits, ExecuteKeepsLimits,
    RecordKeepsLimits DEF Decide
<1>5. ASSUME NEW c \in Caller, Throws(c) PROVE LimitsInv'
  BY <1>0, <1>5, QuietStep
<1>6. CASE (\E p \in Proposal : Reject(p)) \/ Midnight
  BY <1>0, <1>6, NoCallKeepsLimits
<1>7. CASE Crash
  BY <1>0, <1>7, CrashKeepsLimits
<1> QED
  BY <1>1, <1>2, <1>3, <1>4, <1>5, <1>6, <1>7 DEF Next

LEMMA InitLimitsInv == Init => LimitsInv
<1> SUFFICES ASSUME Init PROVE LimitsInv
  OBVIOUS
<1>0. IndInv
  BY InitIndInv
<1>1. \A c \in Caller : call[c] = Idle /\ call[c].pc = "idle" /\ ~call[c].agent
  BY DEF Init, Idle
<1>2. Committed = {} /\ Outlay = {} /\ OwnOutlay = {}
  BY DEF Init, Committed, ExecutedToday, Pending, Outlay, OwnOutlay
<1>3. Fits(amount, {}, 0, Cap) /\ Fits(amount, {}, 0, OwnLimit)
  BY SumEmpty, ProposalAssumption DEF Fits
<1>4. OneAtATime
  BY <1>1, IdleInNoStage DEF OneAtATime
<1>5. CallsKnow /\ OwnIsMarked /\ OutcomesKnown
  <2>1. \A p \in Proposal : ~ownDeed[p] /\ ~(carried[p] > 0)
    BY DEF Init
  <2> QED
    BY <1>1, <2>1 DEF CallsKnow, OwnIsMarked, OutcomesKnown
<1>6. FilingFits /\ OutlayFits /\ OwnOutlayFits
  BY <1>1, <1>2, <1>3 DEF FilingFits, OutlayFits, OwnOutlayFits, Acts
<1> QED
  BY <1>0, <1>4, <1>5, <1>6 DEF LimitsInv

LEMMA AlwaysLimitsInv == Spec => []LimitsInv
BY InitLimitsInv, StepLimitsInv, PTL DEF Spec

\* The daily limits, by what was really carried out, for any number of rows and
\* calls: within the cap and, of what the agent did by itself, within its own
\* limit, unless the calls that check them overlapped or an outcome was lost.
THEOREM WithinLimitsHolds == Spec => []WithinLimits
<1>1. LimitsInv => WithinLimits
  <2> SUFFICES ASSUME LimitsInv PROVE WithinLimits
    OBVIOUS
  <2>1. \A S \in SUBSET Proposal : Total(S) \in Int
    <3> SUFFICES ASSUME NEW S \in SUBSET Proposal PROVE Total(S) \in Int
      OBVIOUS
    <3>1. IsFiniteSet(S)
      BY ProposalAssumption, FS_Subset
    <3>2. \A p \in S : amount[p] \in Int
      BY DEF LimitsInv, IndInv, TypeOK
    <3> QED
      BY <3>1, <3>2, SumInt DEF Total
  <2>2. \A S \in SUBSET Proposal : \A limit \in Nat : Fits(amount, S, 0, limit) => Total(S) <= limit
    BY <2>1 DEF Fits, Total
  <2>3. Committed \in SUBSET Proposal /\ Outlay \in SUBSET Proposal /\ OwnOutlay \in SUBSET Proposal
    BY DEF Committed, ExecutedToday, Pending, Outlay, OwnOutlay
  <2>4. /\ Orderly => Total(Outlay) <= Cap
        /\ Orderly /\ "acting" \notin overlap => Total(OwnOutlay) <= OwnLimit
        /\ "filing" \notin overlap => Total(Committed) <= Cap
    BY <2>2, <2>3, ProposalAssumption DEF LimitsInv, FilingFits, OutlayFits, OwnOutlayFits
  <2> QED
    BY <2>4 DEF WithinLimits, Orderly, Outlay, OwnOutlay
<1> QED
  BY <1>1, AlwaysLimitsInv, PTL

-----------------------------------------------------------------------------
(* Monitor *)

\* The tables, the chains and what the readers hold.
EventsTyped ==
  /\ mined \in Seq(Mint \ Pushed) /\ others \subseteq Pushed /\ hashed \subseteq Note /\ missed \subseteq Mint
  /\ stored \subseteq Mined /\ faded \subseteq Note /\ old \subseteq Mined
  /\ left \in [Reader -> Seq(Mint)] /\ telling \in [Reader -> Mint \cup {None}]
  /\ \A h \in Reader : ToSet(left[h]) \subseteq Mined
CursorTyped ==
  /\ cursor \in 0..Len(mined) /\ to \in 0..Len(mined) /\ running \in BOOLEAN
CheckTyped ==
  /\ told \in [Mint -> Nat]
  /\ check \in [Mint -> {"none", "reads", "found", "ended", "cut"}]
  /\ signed \in [Mint -> (SUBSET Note) \cup {{None}}]
  /\ mints \in [Mint -> (SUBSET Mint) \cup {{None}}]
  /\ seen \in [{"pushed", "indexed"} -> Nat]
  /\ alerts \cup unsaid \subseteq {"pushed", "indexed"} \X SUBSET Mint
BoundTyped == pushes \in 0..MaxPushes /\ faults \in 0..MaxFaults

\* An event is emitted by the request or the pass whose insert it was, once, and
\* the check that starts then is its only one.
EachToldOnce ==
  /\ \A h \in Reader : telling[h] # None => telling[h] \in stored /\ told[telling[h]] = 0
  /\ \A h, g \in Reader : telling[h] # None /\ telling[h] = telling[g] => h = g
  /\ \A m \in Mint : told[m] \in {0, 1} /\ (told[m] = 1 => m \in stored)
  /\ \A m \in Mint : check[m] # "none" => told[m] = 1

\* The blocks between the cursor and the end of the batch that runs are stored,
\* or still to be.
BatchKept ==
  /\ \A i \in 1..cursor : mined[i] \in stored \cup missed
  /\ running =>
       /\ cursor <= to
       /\ \A i \in (cursor + 1)..to : mined[i] \in stored \cup missed \cup ToSet(left["indexer"])

\* What the checks have read: the mint of the check is among the mints, and of
\* two reads of a kiosk's mints the later one holds the earlier one, but for what
\* has left the window.
HasMints(m) == mints[m] # {None}
AtKiosk(k) == {e \in stored \ Stray : Kiosk(e) = k}
ReadsKnown ==
  /\ IsFiniteSet(stored)
  /\ \A m \in Mint :
      /\ HasMints(m) => mints[m] \subseteq AtKiosk(Kiosk(m)) /\ (m \in mints[m] \/ m \in old \/ m \in Stray)
      /\ signed[m] # {None} => signed[m] \subseteq hashed
      /\ check[m] = "found" => HasMints(m) /\ signed[m] # {None}
      /\ check[m] \in {"none", "ended", "cut"} => ~HasMints(m)
  /\ \A x, y \in Mint : HasMints(x) /\ HasMints(y) /\ Kiosk(x) = Kiosk(y) =>
       mints[x] \subseteq mints[y] \cup old \/ mints[y] \subseteq mints[x] \cup old

\* The unsigned mints a check has read that are still in the window.
View(m) == (mints[m] \cap Rogue) \ old

\* An alert counts mints of its kiosk; a check read before it and its rogues are
\* in it, or after it and all it counts was read, but for what has grown old.
ClaimsKnown ==
  \A a \in Claims :
    /\ a[1] \in {"pushed", "indexed"} /\ a[2] \subseteq AtKiosk(a[1])
    /\ \A m \in Mint : HasMints(m) /\ Kiosk(m) = a[1] =>
         View(m) \subseteq a[2] \/ a[2] \subseteq mints[m] \cup old

\* A wording that was seen is an alert's.
SeenWasSaid ==
  \A k \in {"pushed", "indexed"} :
    seen[k] > 0 => \E a \in Claims : a[1] = k /\ Cardinality(a[2]) = seen[k]

\* The rogues of T are counted as RoguesAreReported wants it.
Answered(T, k) ==
  \/ T = {}
  \/ \E a \in Claims :
       /\ a[1] = k
       /\ T \subseteq a[2] \/ (OutOfDate(a[2]) /\ Cardinality(T) <= Cardinality(a[2]))

\* So are those checked so far, and, with them, the ones that a check has read
\* that did so too early to know of all of those.
AllCounted ==
  \A k \in {"pushed", "indexed"} :
    /\ Answered(CheckedRogues(k), k)
    /\ \A m \in Mint : HasMints(m) /\ Kiosk(m) = k =>
         CheckedRogues(k) \subseteq mints[m] \/ Answered(CheckedRogues(k) \cup View(m), k)

MonitorInv ==
  /\ EventsTyped /\ CursorTyped /\ CheckTyped /\ BoundTyped
  /\ EachToldOnce /\ BatchKept /\ ReadsKnown
  /\ ClaimsKnown /\ SeenWasSaid /\ AllCounted

-----------------------------------------------------------------------------
\* What is left of a batch is its first event and the rest.
LEMMA FirstAndRest ==
  ASSUME NEW s \in Seq(Mint), s # <<>>
  PROVE  /\ Head(s) \in Mint /\ Tail(s) \in Seq(Mint)
         /\ ToSet(s) \subseteq {Head(s)} \cup ToSet(Tail(s))
         /\ {Head(s)} \cup ToSet(Tail(s)) \subseteq ToSet(s)
<1>1. /\ Head(s) \in Mint /\ Tail(s) \in Seq(Mint) /\ Len(Tail(s)) = Len(s) - 1
      /\ \A i \in 1..Len(Tail(s)) : Tail(s)[i] = s[i + 1]
  BY HeadTailProperties
<1>2. DOMAIN s = 1..Len(s) /\ Len(s) \in Nat /\ DOMAIN Tail(s) = 1..Len(Tail(s)) /\ Len(s) # 0
  BY <1>1, LenProperties, EmptySeq
<1>3. Head(s) = s[1]
  OBVIOUS
<1>4. ToSet(s) \subseteq {Head(s)} \cup ToSet(Tail(s))
  <2> SUFFICES ASSUME NEW i \in 1..Len(s) PROVE s[i] \in {Head(s)} \cup ToSet(Tail(s))
    BY <1>2 DEF ToSet
  <2>1. CASE i = 1
    BY <1>3, <2>1
  <2>2. CASE i # 1
    <3>1. i - 1 \in 1..Len(Tail(s)) /\ Tail(s)[i - 1] = s[i]
      BY <1>1, <1>2, <2>2
    <3> QED
      BY <1>2, <3>1 DEF ToSet
  <2> QED
    BY <2>1, <2>2
<1>5. {Head(s)} \cup ToSet(Tail(s)) \subseteq ToSet(s)
  <2>1. Head(s) \in ToSet(s)
    BY <1>2, <1>3 DEF ToSet
  <2>2. ASSUME NEW i \in 1..Len(Tail(s)) PROVE Tail(s)[i] \in ToSet(s)
    <3>1. i + 1 \in DOMAIN s /\ Tail(s)[i] = s[i + 1]
      BY <1>1, <1>2
    <3> QED
      BY <3>1 DEF ToSet
  <2>3. ToSet(Tail(s)) \subseteq ToSet(s)
    BY <1>2, <2>2 DEF ToSet
  <2> QED
    BY <2>1, <2>3
<1>6. Head(s) \in Mint /\ Tail(s) \in Seq(Mint)
  BY <1>1
<1> QED
  BY <1>4, <1>5, <1>6

\* What getLogs answers of the blocks a to b is exactly the events mined there.
LEMMA Slice ==
  ASSUME mined \in Seq(Mint \ Pushed), NEW a \in Nat \ {0}, NEW b \in 0..Len(mined)
  PROVE  /\ Logs(a, b) \in Seq(Mint)
         /\ ToSet(Logs(a, b)) = {mined[i] : i \in a..b}
         /\ ToSet(Logs(a, b)) \subseteq Mined
<1>1. Len(mined) \in Nat /\ DOMAIN mined = 1..Len(mined) /\ \A i \in 1..Len(mined) : mined[i] \in Mint
  BY LenProperties, ElementOfSeq
<1>2. \A i \in a..b : mined[i] \in Mint /\ i \in DOMAIN mined
  BY <1>1
<1> DEFINE s == Logs(a, b)
<1>3. /\ s \in Seq(Mint) /\ Len(s) = IF a <= b THEN b - a + 1 ELSE 0
      /\ \A i \in 1..(b - a + 1) : s[i] = mined[a + i - 1]
  <2>1. a \in Int /\ b \in Int
    BY <1>1
  <2> QED
    BY <1>2, <2>1, SubSeqProperties DEF Logs
<1>4. DOMAIN s = 1..Len(s)
  BY <1>3, LenProperties
<1> HIDE DEF s
<1>5. ToSet(s) = {mined[i] : i \in a..b}
  <2>1. ASSUME NEW i \in DOMAIN s PROVE s[i] \in {mined[j] : j \in a..b}
    <3>1. a + i - 1 \in a..b /\ s[i] = mined[a + i - 1]
      BY <1>1, <1>3, <1>4
    <3> QED
      BY <3>1
  <2>2. ASSUME NEW j \in a..b PROVE mined[j] \in ToSet(s)
    <3>1. j - a + 1 \in DOMAIN s /\ s[j - a + 1] = mined[j]
      BY <1>1, <1>3, <1>4
    <3> QED
      BY <3>1 DEF ToSet
  <2> QED
    BY <2>1, <2>2 DEF ToSet
<1>6. ToSet(s) \subseteq Mined
  BY <1>2, <1>5 DEF Mined, ToSet
<1> QED
  BY <1>3, <1>5, <1>6 DEF s

\* A mined event is the last of its chain, and the earlier ones stay.
LEMMA MintedIsLast ==
  ASSUME EventsTyped, NEW m \in Mint, MintOnChain(m)
  PROVE  /\ mined' \in Seq(Mint \ Pushed) /\ others' \subseteq Pushed
         /\ Len(mined) \in Nat /\ Len(mined') \in Nat /\ Len(mined) <= Len(mined')
         /\ \A i \in 1..Len(mined) : mined'[i] = mined[i]
         /\ Mined \subseteq Mined'
<1>1. Len(mined) \in Nat /\ DOMAIN mined = 1..Len(mined)
  BY LenProperties DEF EventsTyped
<1>2. CASE m \in Pushed
  BY <1>1, <1>2 DEF EventsTyped, MintOnChain, Mined
<1>3. CASE m \notin Pushed
  <2> DEFINE s == Append(mined, m)
  <2>1. m \in Mint \ Pushed /\ mined' = s /\ others' = others
    BY <1>3 DEF MintOnChain
  <2>2. s \in Seq(Mint \ Pushed) /\ Len(s) = Len(mined) + 1 /\ \A i \in 1..Len(mined) : s[i] = mined[i]
    BY <2>1, AppendProperties DEF EventsTyped
  <2>3. DOMAIN s = 1..Len(s)
    BY <2>2, LenProperties
  <2> HIDE DEF s
  <2>4. ToSet(mined) \subseteq ToSet(s)
    BY <1>1, <2>2, <2>3 DEF ToSet
  <2> QED
    BY <1>1, <2>1, <2>2, <2>4 DEF EventsTyped, Mined
<1> QED
  BY <1>2, <1>3

-----------------------------------------------------------------------------
\* The events, step by step

\* A reader that has nothing left holds no event.
LEMMA Emptied == <<>> \in Seq(Mint) /\ ToSet(<<>>) = {}
  BY EmptySeq, LenProperties DEF ToSet

\* MultiBaas posts events of its chain only.
LEMMA Posted ==
  ASSUME EventsTyped, MintAssumption, NEW b \in Batches
  PROVE  b \in Seq(Mint) /\ ToSet(b) \subseteq Mined
<1>1. others \subseteq Mint
  BY DEF EventsTyped, MintAssumption
<1>2. CASE \E m \in others : b = <<m>>
  <2> PICK m \in others : b = <<m>>
    BY <1>2
  <2>1. b \in Seq(Mint) /\ DOMAIN b = {1} /\ b[1] = m
    BY <1>1
  <2> QED
    BY <2>1 DEF ToSet, Mined
<1>3. CASE \E m, n \in others : b = <<m, n>>
  <2> PICK m \in others, n \in others : b = <<m, n>>
    BY <1>3
  <2>1. b \in Seq(Mint) /\ DOMAIN b = {1, 2} /\ b[1] = m /\ b[2] = n
    BY <1>1
  <2> QED
    BY <2>1 DEF ToSet, Mined
<1> QED
  BY <1>2, <1>3 DEF Batches

\* The batch the indexer fetches ends at or before the last block.
LEMMA BatchInChain ==
  ASSUME BoundAssumption, EventsTyped, CursorTyped, ReadLogs
  PROVE  /\ cursor + 1 \in Nat \ {0} /\ Len(mined) \in Nat \ {0} /\ Last(mined) = mined[Len(mined)]
         /\ to' \in cursor..Len(mined) /\ to' \in Nat \ {0}
<1>1. Len(mined) \in Nat /\ cursor \in Nat /\ cursor < Len(mined) /\ Batch \in Nat /\ Batch # 0
  BY LenProperties DEF EventsTyped, CursorTyped, ReadLogs, BoundAssumption
<1>2. BatchEnd \in (cursor + 1)..Len(mined)
  BY <1>1 DEF BatchEnd
<1> QED
  BY <1>1, <1>2 DEF ReadLogs, Last

\* A node that is behind is so by part of the batch.
LEMMA PartOfBatch ==
  ASSUME NEW c \in Nat, NEW l \in Nat, NEW t \in c..l, NEW b \in c..(t - 1)
  PROVE  b \in 0..l /\ b + 1 \in Nat \ {0} /\ t \in 0..l
  OBVIOUS

\* Readers hold events that were mined, and nothing else is stored.
LEMMA EventsStep ==
  ASSUME MintAssumption, BoundAssumption, EventsTyped, CursorTyped, MonitorNext
  PROVE  EventsTyped'
<1> DEFINE LeftTyped == left \in [Reader -> Seq(Mint)] /\ \A h \in Reader : ToSet(left[h]) \subseteq Mined
<1>0. "indexer" \in Reader /\ None \notin Mint /\ Mined \subseteq Mint
  <2>1. ToSet(mined) \subseteq Mint
    BY LenProperties, ElementOfSeq DEF EventsTyped, ToSet
  <2> QED
    BY <2>1 DEF Reader, MintAssumption, EventsTyped, Mined
<1>1. ASSUME NEW m \in Mint, MintOnChain(m) PROVE EventsTyped'
  BY <1>1, MintedIsLast DEF EventsTyped, MintOnChain, readerVars, windowVars, boundVars
<1>2. ASSUME NEW n \in Note, StoreHash(n) PROVE EventsTyped'
  BY <1>2 DEF EventsTyped, StoreHash, readerVars, windowVars, boundVars, Mined
<1>3. ASSUME ReadLogs PROVE EventsTyped'
  <2>1. /\ Len(mined) \in Nat /\ cursor \in Nat /\ cursor + 1 \in Nat \ {0}
        /\ to' \in cursor..Len(mined) /\ to' \in 0..Len(mined)
    BY <1>3, BatchInChain, LenProperties DEF EventsTyped, CursorTyped
  <2>2. \E b \in 0..Len(mined) :
          /\ left' = [left EXCEPT !["indexer"] = Logs(cursor + 1, b)]
          /\ missed' = missed \/ (b + 1 \in Nat \ {0} /\ missed' = missed \cup ToSet(Logs(b + 1, to')))
    <3>1. CASE left' = [left EXCEPT !["indexer"] = Logs(cursor + 1, to')] /\ missed' = missed
      BY <2>1, <3>1
    <3>2. CASE \E behind \in cursor..(to' - 1) :
                 /\ left' = [left EXCEPT !["indexer"] = Logs(cursor + 1, behind)]
                 /\ missed' = missed \cup ToSet(Logs(behind + 1, to'))
      <4>1. PICK b \in cursor..(to' - 1) :
              /\ left' = [left EXCEPT !["indexer"] = Logs(cursor + 1, b)]
              /\ missed' = missed \cup ToSet(Logs(b + 1, to'))
        BY <3>2
      <4>2. b \in 0..Len(mined) /\ b + 1 \in Nat \ {0}
        BY ONLY <2>1, <4>1, PartOfBatch
      <4> QED
        BY <4>1, <4>2
    <3> QED
      BY <1>3, <3>1, <3>2 DEF ReadLogs
  <2>3. PICK b \in 0..Len(mined) :
          /\ left' = [left EXCEPT !["indexer"] = Logs(cursor + 1, b)]
          /\ missed' = missed \/ (b + 1 \in Nat \ {0} /\ missed' = missed \cup ToSet(Logs(b + 1, to')))
    BY <2>2
  <2>4. Logs(cursor + 1, b) \in Seq(Mint) /\ ToSet(Logs(cursor + 1, b)) \subseteq Mined
    BY <2>1, Slice DEF EventsTyped
  <2>5. left' \in [Reader -> Seq(Mint)] /\ \A h \in Reader : ToSet(left'[h]) \subseteq Mined
    BY <1>0, <2>3, <2>4 DEF EventsTyped
  <2>6. missed' \subseteq Mint
    <3>1. CASE missed' = missed
      BY <3>1 DEF EventsTyped
    <3>2. CASE b + 1 \in Nat \ {0} /\ missed' = missed \cup ToSet(Logs(b + 1, to'))
      <4>1. ToSet(Logs(b + 1, to')) \subseteq Mined
        BY <2>1, <3>2, Slice DEF EventsTyped
      <4> QED
        BY <1>0, <3>2, <4>1 DEF EventsTyped
    <3> QED
      BY <2>3, <3>1, <3>2
  <2> QED
    BY <1>3, <2>5, <2>6 DEF EventsTyped, ReadLogs, Mined, windowVars
<1>4. ASSUME NEW q \in Request, NEW b \in Batches, Deliver(q, b) PROVE EventsTyped'
  <2>1. left' \in [Reader -> Seq(Mint)] /\ \A h \in Reader : ToSet(left'[h]) \subseteq Mined
    BY <1>4, Posted DEF Deliver, EventsTyped, Reader
  <2> QED
    BY <1>4, <2>1 DEF EventsTyped, Deliver, Mined, windowVars
<1>5. ASSUME NEW h \in Reader, Save(h) PROVE EventsTyped'
  <2> DEFINE s == left[h]
  <2>1. s \in Seq(Mint) /\ s # <<>> /\ ToSet(s) \subseteq Mined
    BY <1>5 DEF Save, EventsTyped
  <2>2. Head(s) \in Mint /\ Tail(s) \in Seq(Mint) /\ Head(s) \in Mined /\ ToSet(Tail(s)) \subseteq Mined
    BY <2>1, FirstAndRest
  <2>3. left' \in [Reader -> Seq(Mint)] /\ \A g \in Reader : ToSet(left'[g]) \subseteq Mined
    BY <1>5, <2>2 DEF Save, EventsTyped
  <2>4. stored' \subseteq Mined /\ telling' \in [Reader -> Mint \cup {None}]
    BY <1>5, <2>2 DEF Save, EventsTyped
  <2> QED
    BY <1>5, <2>3, <2>4 DEF EventsTyped, Save, Mined, windowVars, boundVars
<1>6. ASSUME NEW h \in Reader, Tell(h) PROVE EventsTyped'
  BY <1>6 DEF EventsTyped, Tell, Mined, windowVars, boundVars
<1>7. ASSUME NEW h \in Reader, PassFails(h) PROVE EventsTyped'
  <2>1. left' \in [Reader -> Seq(Mint)] /\ \A g \in Reader : ToSet(left'[g]) \subseteq Mined
    BY <1>7, Emptied DEF PassFails, EventsTyped
  <2> QED
    BY <1>7, <2>1 DEF EventsTyped, PassFails, Mined, windowVars
<1>8. ASSUME EndBatch PROVE EventsTyped'
  BY <1>8 DEF EventsTyped, EndBatch, Mined, windowVars, boundVars
<1>9. ASSUME Restart PROVE EventsTyped'
  <2>1. left' \in [Reader -> Seq(Mint)] /\ \A g \in Reader : ToSet(left'[g]) \subseteq Mined
    BY <1>9, Emptied DEF Restart
  <2> QED
    BY <1>9, <2>1 DEF EventsTyped, Restart, Mined, windowVars
<1>10. ASSUME NEW m \in Mint, ReadNotes(m) \/ ReadMints(m) \/ Judge(m) \/ Raise(m) \/ RaiseFails(m)
       PROVE EventsTyped'
  BY <1>10 DEF EventsTyped, ReadNotes, ReadMints, Judge, Raise, RaiseFails, Mined, readerVars, windowVars, boundVars
<1>11. ASSUME NEW n \in Note, RowAges(n) PROVE EventsTyped'
  BY <1>11 DEF EventsTyped, RowAges, Mined, readerVars, boundVars
<1>12. ASSUME NEW m \in Mint, MintAges(m) PROVE EventsTyped'
  BY <1>12 DEF EventsTyped, MintAges, Mined, readerVars, boundVars
<1> QED
  BY <1>1, <1>2, <1>3, <1>4, <1>5, <1>6, <1>7, <1>8, <1>9, <1>10, <1>11, <1>12 DEF MonitorNext

\* The cursor and the end of the batch stay within the chain.
LEMMA CursorStep ==
  ASSUME MintAssumption, BoundAssumption, EventsTyped, CursorTyped, MonitorNext
  PROVE  CursorTyped'
<1>0. Len(mined) \in Nat
  BY LenProperties DEF EventsTyped
<1>1. ASSUME NEW m \in Mint, MintOnChain(m) PROVE CursorTyped'
  BY <1>1, MintedIsLast DEF CursorTyped, MintOnChain, readerVars
<1>2. ASSUME NEW n \in Note, StoreHash(n) PROVE CursorTyped'
  BY <1>2 DEF CursorTyped, StoreHash, readerVars
<1>3. ASSUME ReadLogs PROVE CursorTyped'
  <2>1. to' \in 0..Len(mined)
    BY <1>0, <1>3, BatchInChain
  <2> QED
    BY <1>3, <2>1 DEF CursorTyped, ReadLogs
<1>4. ASSUME NEW q \in Request, NEW b \in Batches, Deliver(q, b) PROVE CursorTyped'
  BY <1>4 DEF CursorTyped, Deliver
<1>5. ASSUME NEW h \in Reader, Save(h) \/ Tell(h) \/ PassFails(h) PROVE CursorTyped'
  BY <1>5 DEF CursorTyped, Save, Tell, PassFails
<1>6. ASSUME EndBatch \/ Restart PROVE CursorTyped'
  BY <1>6 DEF CursorTyped, EndBatch, Restart
<1>7. ASSUME NEW m \in Mint, ReadNotes(m) \/ ReadMints(m) \/ Judge(m) \/ Raise(m) \/ RaiseFails(m)
       PROVE CursorTyped'
  BY <1>7 DEF CursorTyped, ReadNotes, ReadMints, Judge, Raise, RaiseFails, readerVars
<1>8. ASSUME NEW n \in Mint, RowAges(n) \/ MintAges(n) PROVE CursorTyped'
  BY <1>8 DEF CursorTyped, RowAges, MintAges, readerVars
<1> QED
  BY <1>1, <1>2, <1>3, <1>4, <1>5, <1>6, <1>7, <1>8 DEF MonitorNext, Mint

\* The bounds are kept.
LEMMA BoundStep ==
  ASSUME BoundAssumption, BoundTyped, MonitorNext
  PROVE  BoundTyped'
<1> USE DEF BoundAssumption, BoundTyped
<1>1. ASSUME NEW m \in Mint, MintOnChain(m) PROVE BoundTyped'
  BY <1>1 DEF MintOnChain, boundVars
<1>2. ASSUME NEW n \in Note, StoreHash(n) PROVE BoundTyped'
  BY <1>2 DEF StoreHash, boundVars
<1>3. ASSUME ReadLogs PROVE BoundTyped'
  BY <1>3 DEF ReadLogs
<1>4. ASSUME NEW q \in Request, NEW b \in Batches, Deliver(q, b) PROVE BoundTyped'
  BY <1>4 DEF Deliver
<1>5. ASSUME NEW h \in Reader, Save(h) \/ Tell(h) \/ PassFails(h) PROVE BoundTyped'
  BY <1>5 DEF Save, Tell, PassFails, boundVars
<1>6. ASSUME EndBatch \/ Restart PROVE BoundTyped'
  BY <1>6 DEF EndBatch, Restart, boundVars
<1>7. ASSUME NEW m \in Mint, ReadNotes(m) \/ ReadMints(m) \/ Judge(m) \/ Raise(m) \/ RaiseFails(m)
       PROVE BoundTyped'
  BY <1>7 DEF ReadNotes, ReadMints, Judge, Raise, RaiseFails, boundVars
<1>8. ASSUME NEW n \in Mint, RowAges(n) \/ MintAges(n) PROVE BoundTyped'
  BY <1>8 DEF RowAges, MintAges, boundVars
<1> QED
  BY <1>1, <1>2, <1>3, <1>4, <1>5, <1>6, <1>7, <1>8 DEF MonitorNext, Mint

-----------------------------------------------------------------------------
\* Told once, and nothing skipped, step by step

\* saveEvent's insert decides: of all readers of an event one emits it, once.
LEMMA EachToldOnceStep ==
  ASSUME MintAssumption, EventsTyped, CheckTyped, EachToldOnce, MonitorNext
  PROVE  EachToldOnce'
<1> USE DEF EachToldOnce
<1>0. None \notin Mint
  BY DEF MintAssumption
<1>1. ASSUME NEW m \in Mint, MintOnChain(m) PROVE EachToldOnce'
  BY <1>1 DEF MintOnChain, readerVars, listenerVars, checkVars
<1>2. ASSUME NEW n \in Note, StoreHash(n) PROVE EachToldOnce'
  BY <1>2 DEF StoreHash, readerVars, listenerVars, checkVars
<1>3. ASSUME ReadLogs PROVE EachToldOnce'
  BY <1>3 DEF ReadLogs, listenerVars, checkVars
<1>4. ASSUME NEW q \in Request, NEW b \in Batches, Deliver(q, b) PROVE EachToldOnce'
  BY <1>4 DEF Deliver, listenerVars, checkVars
<1>5. ASSUME NEW h \in Reader, Save(h) PROVE EachToldOnce'
  <2> DEFINE m == Head(left[h])
  <2>1. m \in Mint
    BY <1>5, FirstAndRest DEF Save, EventsTyped
  <2>2. /\ telling[h] = None /\ stored' = stored \cup {m}
        /\ telling' = [telling EXCEPT ![h] = IF m \notin stored THEN m ELSE None]
        /\ UNCHANGED <<told, check>>
    BY <1>5 DEF Save, IsNew, listenerVars, checkVars
  <2> HIDE DEF m
  <2>3. m \notin stored => told[m] = 0 /\ \A g \in Reader : telling[g] # m
    BY <1>0, <2>1
  <2> QED
    BY <1>0, <2>1, <2>2, <2>3 DEF EventsTyped
<1>6. ASSUME NEW h \in Reader, Tell(h) PROVE EachToldOnce'
  <2> DEFINE m == telling[h]
  <2>1. m \in Mint /\ m \in stored /\ told[m] = 0
    BY <1>6 DEF Tell, EventsTyped
  <2>2. /\ told' = [told EXCEPT ![m] = @ + 1] /\ check' = [check EXCEPT ![m] = "reads"]
        /\ telling' = [telling EXCEPT ![h] = None] /\ stored' = stored
    BY <1>6 DEF Tell
  <2>3. told'[m] = 1 /\ (\A e \in Mint \ {m} : told'[e] = told[e] /\ check'[e] = check[e])
    BY <2>1, <2>2 DEF CheckTyped
  <2>4. telling'[h] = None /\ (\A g \in Reader \ {h} : telling'[g] = telling[g] /\ (telling[g] = m => m = None))
    BY <1>0, <2>1, <2>2 DEF EventsTyped
  <2> HIDE DEF m
  <2>5. \A g \in Reader : telling'[g] # None => telling'[g] \in stored' /\ told'[telling'[g]] = 0
    <3> SUFFICES ASSUME NEW g \in Reader, telling'[g] # None
                 PROVE  telling'[g] \in stored' /\ told'[telling'[g]] = 0
      OBVIOUS
    <3>1. g # h /\ telling'[g] = telling[g] /\ telling[g] \in Mint /\ telling[g] # m
      BY <1>0, <2>1, <2>4 DEF EventsTyped
    <3> QED
      BY <2>2, <2>3, <3>1
  <2>6. \A g, f \in Reader : telling'[g] # None /\ telling'[g] = telling'[f] => g = f
    BY <2>4
  <2>7. \A e \in Mint : told'[e] \in {0, 1} /\ (told'[e] = 1 => e \in stored') /\ (check'[e] # "none" => told'[e] = 1)
    BY <2>1, <2>2, <2>3
  <2> QED
    BY <2>5, <2>6, <2>7
<1>7. ASSUME NEW h \in Reader, PassFails(h) PROVE EachToldOnce'
  BY <1>7 DEF PassFails, listenerVars, checkVars
<1>8. ASSUME EndBatch PROVE EachToldOnce'
  BY <1>8 DEF EndBatch, listenerVars, checkVars
<1>9. ASSUME Restart PROVE EachToldOnce'
  BY <1>9 DEF Restart
<1>10. ASSUME NEW m \in Mint, ReadNotes(m) \/ ReadMints(m) PROVE EachToldOnce'
  BY <1>10 DEF ReadNotes, ReadMints, readerVars
<1>11. ASSUME NEW m \in Mint, Judge(m) \/ Raise(m) \/ RaiseFails(m) PROVE EachToldOnce'
  <2>1. check[m] # "none" /\ (check' = [check EXCEPT ![m] = "found"] \/ check' = [check EXCEPT ![m] = "ended"])
    BY <1>11 DEF Judge, Raise, RaiseFails, Ended
  <2>2. \A e \in Mint : check'[e] # "none" => check[e] # "none"
    BY <2>1 DEF CheckTyped
  <2>3. UNCHANGED <<readerVars, told>>
    BY <1>11 DEF Judge, Raise, RaiseFails
  <2> QED
    BY <2>2, <2>3 DEF readerVars
<1>12. ASSUME NEW n \in Mint, RowAges(n) \/ MintAges(n) PROVE EachToldOnce'
  BY <1>12 DEF RowAges, MintAges, readerVars, listenerVars, checkVars
<1> QED
  BY <1>1, <1>2, <1>3, <1>4, <1>5, <1>6, <1>7, <1>8, <1>9, <1>10, <1>11, <1>12 DEF MonitorNext, Mint

\* A batch is passed only when it is stored; one that failed is not passed.
LEMMA BatchKeptStep ==
  ASSUME MintAssumption, BoundAssumption, EventsTyped, CursorTyped, BatchKept, MonitorNext
  PROVE  BatchKept'
<1> USE DEF BatchKept
<1>0. Len(mined) \in Nat /\ "indexer" \in Reader /\ "indexer" \notin Request
  BY LenProperties DEF EventsTyped, Reader, MintAssumption
<1>1. ASSUME NEW m \in Mint, MintOnChain(m) PROVE BatchKept'
  <2>1. \A i \in 1..Len(mined) : mined'[i] = mined[i]
    BY <1>1, MintedIsLast
  <2>2. UNCHANGED <<readerVars, missed>>
    BY <1>1 DEF MintOnChain, boundVars
  <2> QED
    BY <1>0, <2>1, <2>2 DEF readerVars, CursorTyped
<1>2. ASSUME NEW n \in Note, StoreHash(n) PROVE BatchKept'
  BY <1>2 DEF StoreHash, readerVars, boundVars
<1>3. ASSUME ReadLogs PROVE BatchKept'
  <2>1. /\ cursor + 1 \in Nat \ {0} /\ Len(mined) \in Nat \ {0} /\ Last(mined) = mined[Len(mined)]
        /\ to' \in cursor..Len(mined) /\ to' \in Nat \ {0} /\ cursor \in Nat
    BY <1>3, BatchInChain DEF CursorTyped
  <2>2. missed \subseteq missed' /\ UNCHANGED <<mined, cursor, stored>>
    BY <1>3 DEF ReadLogs
  <2>3. \A i \in (cursor + 1)..to' : mined[i] \in missed' \cup ToSet(left'["indexer"])
    <3>1. CASE left' = [left EXCEPT !["indexer"] = Logs(cursor + 1, to')]
      <4>1. ToSet(left'["indexer"]) = {mined[i] : i \in (cursor + 1)..to'}
        BY <1>0, <2>1, <3>1, Slice DEF EventsTyped
      <4> QED
        BY <4>1
    <3>2. CASE \E behind \in cursor..(to' - 1) :
                 /\ left' = [left EXCEPT !["indexer"] = Logs(cursor + 1, behind)]
                 /\ missed' = missed \cup ToSet(Logs(behind + 1, to'))
      <4>1. PICK b \in cursor..(to' - 1) :
              /\ left' = [left EXCEPT !["indexer"] = Logs(cursor + 1, b)]
              /\ missed' = missed \cup ToSet(Logs(b + 1, to'))
        BY <3>2
      <4>2. b \in 0..Len(mined) /\ b + 1 \in Nat \ {0} /\ to' \in 0..Len(mined)
        BY ONLY <1>0, <2>1, <4>1, PartOfBatch
      <4>3. ToSet(left'["indexer"]) = {mined[i] : i \in (cursor + 1)..b}
        BY <1>0, <2>1, <4>1, <4>2, Slice DEF EventsTyped
      <4>4. ToSet(Logs(b + 1, to')) = {mined[i] : i \in (b + 1)..to'}
        BY <4>2, Slice DEF EventsTyped
      <4>5. \A i \in (cursor + 1)..to' : i \in (cursor + 1)..b \/ i \in (b + 1)..to'
        BY <2>1, <4>1
      <4> QED
        BY <4>1, <4>3, <4>4, <4>5
    <3> QED
      BY <1>3, <3>1, <3>2 DEF ReadLogs
  <2> QED
    BY <2>1, <2>2, <2>3
<1>4. ASSUME NEW q \in Request, NEW b \in Batches, Deliver(q, b) PROVE BatchKept'
  <2>1. left'["indexer"] = left["indexer"] /\ UNCHANGED <<mined, cursor, to, running, stored, missed>>
    BY <1>0, <1>4 DEF Deliver, EventsTyped
  <2> QED
    BY <2>1
<1>5. ASSUME NEW h \in Reader, Save(h) PROVE BatchKept'
  <2>1. UNCHANGED <<mined, cursor, to, running, missed>> /\ stored \subseteq stored'
    BY <1>5 DEF Save, boundVars
  <2>2. ToSet(left["indexer"]) \subseteq stored' \cup ToSet(left'["indexer"])
    <3>1. CASE h = "indexer"
      <4> DEFINE s == left[h]
      <4>1. s \in Seq(Mint) /\ s # <<>> /\ stored' = stored \cup {Head(s)} /\ left'[h] = Tail(s)
        BY <1>5 DEF Save, EventsTyped
      <4> HIDE DEF s
      <4>2. ToSet(s) \subseteq {Head(s)} \cup ToSet(Tail(s))
        BY <4>1, FirstAndRest
      <4> QED
        BY <3>1, <4>1, <4>2 DEF s
    <3>2. CASE h # "indexer"
      BY <1>0, <1>5, <3>2 DEF Save, EventsTyped
    <3> QED
      BY <3>1, <3>2
  <2> QED
    BY <2>1, <2>2
<1>6. ASSUME NEW h \in Reader, Tell(h) PROVE BatchKept'
  BY <1>6 DEF Tell, boundVars
<1>7. ASSUME NEW h \in Reader, PassFails(h) PROVE BatchKept'
  <2>1. UNCHANGED <<mined, cursor, to, stored, missed>>
    BY <1>7 DEF PassFails
  <2>2. running' => running /\ left'["indexer"] = left["indexer"]
    BY <1>0, <1>7 DEF PassFails, EventsTyped
  <2> QED
    BY <2>1, <2>2
<1>8. ASSUME EndBatch PROVE BatchKept'
  <2>1. UNCHANGED <<mined, stored, missed>> /\ cursor' = to /\ ~running' /\ running /\ left["indexer"] = <<>>
    BY <1>8 DEF EndBatch, boundVars
  <2>2. cursor \in Nat /\ to \in Nat /\ ToSet(left["indexer"]) = {}
    BY <1>0, <2>1, Emptied DEF CursorTyped
  <2>3. \A i \in 1..to : i \in 1..cursor \/ i \in (cursor + 1)..to
    BY <2>2
  <2> QED
    BY <2>1, <2>2, <2>3
<1>9. ASSUME Restart PROVE BatchKept'
  BY <1>9 DEF Restart
<1>10. ASSUME NEW m \in Mint, ReadNotes(m) \/ ReadMints(m) \/ Judge(m) \/ Raise(m) \/ RaiseFails(m)
       PROVE BatchKept'
  BY <1>10 DEF ReadNotes, ReadMints, Judge, Raise, RaiseFails, readerVars, boundVars
<1>11. ASSUME NEW n \in Mint, RowAges(n) \/ MintAges(n) PROVE BatchKept'
  BY <1>11 DEF RowAges, MintAges, readerVars, boundVars
<1> QED
  BY <1>1, <1>2, <1>3, <1>4, <1>5, <1>6, <1>7, <1>8, <1>9, <1>10, <1>11 DEF MonitorNext, Mint

-----------------------------------------------------------------------------
\* What the checks read, step by step

\* What a check read is finite, and so is the number it finds.
LEMMA UnbackedIsNumber ==
  ASSUME ReadsKnown, NEW m \in Mint, HasMints(m)
  PROVE  IsFiniteSet(mints[m]) /\ IsFiniteSet(Unbacked(m)) /\ Wording(m) \in Nat
<1>1. IsFiniteSet(mints[m])
  BY FS_Subset DEF ReadsKnown, AtKiosk
<1>2. IsFiniteSet(Unbacked(m))
  BY <1>1, FS_Subset DEF Unbacked
<1> QED
  BY <1>1, <1>2, FS_CardinalityType DEF Wording

\* A finding's kiosk is one of the two.
LEMMA TwoKiosks == \A m : Kiosk(m) \in {"pushed", "indexed"}
  BY DEF Kiosk

\* A mint's kiosk never changes.
LEMMA KioskStays == \A x : Kiosk(x)' = Kiosk(x)
  BY DEF Kiosk

\* What is stored was minted.
LEMMA StoredAreMints ==
  ASSUME MintAssumption, EventsTyped
  PROVE  stored \subseteq Mint
<1>1. ToSet(mined) \subseteq Mint
  BY LenProperties, ElementOfSeq DEF EventsTyped, ToSet
<1> QED
  BY <1>1 DEF EventsTyped, Mined, MintAssumption

\* An alert that is about to be written counts mints.
LEMMA HeldTyped ==
  ASSUME MintAssumption, EventsTyped, CheckTyped, ReadsKnown
  PROVE  /\ Held \subseteq {"pushed", "indexed"} \X SUBSET Mint
         /\ \A m \in Mint : check[m] = "found" => Unbacked(m) \subseteq Mint
<1>1. ASSUME NEW m \in Mint, check[m] = "found" PROVE Unbacked(m) \subseteq Mint
  <2>1. mints[m] \subseteq stored
    BY <1>1 DEF ReadsKnown, AtKiosk
  <2> QED
    BY <2>1, StoredAreMints DEF Unbacked
<1> QED
  BY <1>1, TwoKiosks DEF Held

\* The checks are typed.
LEMMA CheckStep ==
  ASSUME MintAssumption, EventsTyped, CheckTyped, ReadsKnown, MonitorNext
  PROVE  CheckTyped'
<1> USE DEF CheckTyped
<1>1. ASSUME NEW m \in Mint, MintOnChain(m) \/ RowAges(m) \/ MintAges(m) PROVE CheckTyped'
  BY <1>1 DEF MintOnChain, RowAges, MintAges, listenerVars, checkVars
<1>2. ASSUME NEW n \in Note, StoreHash(n) PROVE CheckTyped'
  BY <1>2 DEF StoreHash, listenerVars, checkVars
<1>3. ASSUME ReadLogs PROVE CheckTyped'
  BY <1>3 DEF ReadLogs, listenerVars, checkVars
<1>4. ASSUME NEW q \in Request, NEW b \in Batches, Deliver(q, b) PROVE CheckTyped'
  BY <1>4 DEF Deliver, listenerVars, checkVars
<1>5. ASSUME NEW h \in Reader, Save(h) \/ PassFails(h) PROVE CheckTyped'
  BY <1>5 DEF Save, PassFails, listenerVars, checkVars
<1>6. ASSUME NEW h \in Reader, Tell(h) PROVE CheckTyped'
  <2>1. telling[h] \in Mint
    BY <1>6 DEF Tell, EventsTyped
  <2> QED
    BY <1>6, <2>1 DEF Tell
<1>7. ASSUME EndBatch PROVE CheckTyped'
  BY <1>7 DEF EndBatch, listenerVars, checkVars
<1>8. ASSUME Restart PROVE CheckTyped'
  <2>1. told' \in [Mint -> Nat] /\ alerts' \cup unsaid' \subseteq {"pushed", "indexed"} \X SUBSET Mint
    BY <1>8, HeldTyped DEF Restart
  <2>2. seen' \in [{"pushed", "indexed"} -> Nat]
    BY <1>8 DEF Restart
  <2>3. check' \in [Mint -> {"none", "reads", "found", "ended", "cut"}]
    BY <1>8 DEF Restart
  <2>4. signed' \in [Mint -> (SUBSET Note) \cup {{None}}] /\ mints' \in [Mint -> (SUBSET Mint) \cup {{None}}]
    BY <1>8 DEF Restart
  <2> QED
    BY ONLY <2>1, <2>2, <2>3, <2>4, Zenon
<1>9. ASSUME NEW m \in Mint, ReadNotes(m) PROVE CheckTyped'
  <2>1. {n \in hashed \ faded : Kiosk(n) = Kiosk(m)} \in SUBSET Note
    BY DEF EventsTyped
  <2> QED
    BY <1>9, <2>1 DEF ReadNotes
<1>10. ASSUME NEW m \in Mint, ReadMints(m) PROVE CheckTyped'
  <2>1. {e \in stored \ (old \cup Stray) : Kiosk(e) = Kiosk(m)} \in SUBSET Mint
    BY StoredAreMints
  <2> QED
    BY <1>10, <2>1 DEF ReadMints
<1>11. ASSUME NEW m \in Mint, Judge(m) PROVE CheckTyped'
  <2>1. Wording(m) \in Nat /\ Kiosk(m) \in {"pushed", "indexed"}
    BY <1>11, UnbackedIsNumber, TwoKiosks DEF Judge, HasMints
  <2>2. told' \in [Mint -> Nat] /\ alerts' \cup unsaid' \subseteq {"pushed", "indexed"} \X SUBSET Mint
    BY <1>11 DEF Judge
  <2>3. seen' \in [{"pushed", "indexed"} -> Nat]
    BY <1>11, <2>1 DEF Judge
  <2>4. check' \in [Mint -> {"none", "reads", "found", "ended", "cut"}]
    BY <1>11 DEF Judge, Ended
  <2>5. signed' \in [Mint -> (SUBSET Note) \cup {{None}}] /\ mints' \in [Mint -> (SUBSET Mint) \cup {{None}}]
    BY <1>11 DEF Judge, Ended
  <2> QED
    BY ONLY <2>2, <2>3, <2>4, <2>5, Zenon
<1>12. ASSUME NEW m \in Mint, Raise(m) \/ RaiseFails(m) PROVE CheckTyped'
  <2>1. Unbacked(m) \subseteq Mint /\ Kiosk(m) \in {"pushed", "indexed"}
    BY <1>12, HeldTyped, TwoKiosks DEF Raise, RaiseFails
  <2>2. told' \in [Mint -> Nat] /\ seen' \in [{"pushed", "indexed"} -> Nat]
    BY <1>12 DEF Raise, RaiseFails
  <2>3. alerts' \cup unsaid' \subseteq {"pushed", "indexed"} \X SUBSET Mint
    BY <1>12, <2>1 DEF Raise, RaiseFails
  <2>4. check' \in [Mint -> {"none", "reads", "found", "ended", "cut"}]
    BY <1>12 DEF Raise, RaiseFails, Ended
  <2>5. signed' \in [Mint -> (SUBSET Note) \cup {{None}}] /\ mints' \in [Mint -> (SUBSET Mint) \cup {{None}}]
    BY <1>12 DEF Raise, RaiseFails, Ended
  <2> QED
    BY ONLY <2>2, <2>3, <2>4, <2>5, Zenon
<1> QED
  BY <1>1, <1>2, <1>3, <1>4, <1>5, <1>6, <1>7, <1>8, <1>9, <1>10, <1>11, <1>12 DEF MonitorNext, Mint

\* Of a step that reads nothing new.
LEMMA ReadsFrame ==
  ASSUME ReadsKnown, stored \subseteq stored', hashed \subseteq hashed', old \subseteq old', IsFiniteSet(stored'),
         \A m \in Mint : /\ mints'[m] = mints[m] \/ mints'[m] = {None}
                         /\ signed'[m] # {None} => signed'[m] = signed[m]
                         /\ check'[m] = "found" => mints'[m] # {None} /\ signed'[m] # {None}
                         /\ check'[m] \in {"none", "ended", "cut"} => mints'[m] = {None}
  PROVE  ReadsKnown'
<1>1. \A k : AtKiosk(k) \subseteq AtKiosk(k)'
  BY KioskStays DEF AtKiosk
<1>2. \A m \in Mint : HasMints(m)' => HasMints(m) /\ mints'[m] = mints[m]
  BY DEF HasMints
<1>3. ASSUME NEW m \in Mint
      PROVE  /\ HasMints(m)' => mints'[m] \subseteq AtKiosk(Kiosk(m))' /\ (m \in mints'[m] \/ m \in old' \/ m \in Stray)
             /\ signed'[m] # {None} => signed'[m] \subseteq hashed'
             /\ check'[m] = "found" => HasMints(m)' /\ signed'[m] # {None}
             /\ check'[m] \in {"none", "ended", "cut"} => ~HasMints(m)'
  <2>1. HasMints(m)' => mints'[m] \subseteq AtKiosk(Kiosk(m))' /\ (m \in mints'[m] \/ m \in old' \/ m \in Stray)
    <3>1. AtKiosk(Kiosk(m)) \subseteq AtKiosk(Kiosk(m))'
      BY KioskStays DEF AtKiosk
    <3> QED
      BY <1>2, <3>1 DEF ReadsKnown
  <2>2. signed'[m] # {None} => signed'[m] \subseteq hashed'
    BY DEF ReadsKnown
  <2> QED
    BY <2>1, <2>2 DEF HasMints
<1>4. \A x, y \in Mint : HasMints(x)' /\ HasMints(y)' /\ Kiosk(x)' = Kiosk(y)' =>
        mints'[x] \subseteq mints'[y] \cup old' \/ mints'[y] \subseteq mints'[x] \cup old'
  BY <1>2, KioskStays DEF ReadsKnown
<1> QED
  BY <1>3, <1>4 DEF ReadsKnown

\* A check reads its own mint, and two checks of a kiosk read one's mints within the other's.
LEMMA ReadsStep ==
  ASSUME MintAssumption, EventsTyped, CheckTyped, EachToldOnce, ReadsKnown, MonitorNext
  PROVE  ReadsKnown'
<1>0. None \notin Mint /\ IsFiniteSet(stored)
  BY DEF MintAssumption, ReadsKnown
<1>1. ASSUME UNCHANGED <<checkVars, stored>>, hashed \subseteq hashed', old \subseteq old' PROVE ReadsKnown'
  BY <1>0, <1>1, ReadsFrame DEF checkVars, ReadsKnown, HasMints
<1>2. ASSUME NEW h \in Reader, Save(h) PROVE ReadsKnown'
  <2>1. IsFiniteSet(stored') /\ stored \subseteq stored'
    BY <1>0, <1>2, FS_AddElement DEF Save
  <2>2. UNCHANGED <<checkVars, hashed, old>>
    BY <1>2 DEF Save, listenerVars, windowVars
  <2> QED
    BY <2>1, <2>2, ReadsFrame DEF checkVars, ReadsKnown, HasMints
<1>3. ASSUME NEW h \in Reader, Tell(h) PROVE ReadsKnown'
  <2> DEFINE m == telling[h]
  <2>1. m \in Mint /\ check[m] = "none"
    BY <1>3 DEF Tell, EventsTyped, EachToldOnce, CheckTyped
  <2>2. check' = [check EXCEPT ![m] = "reads"] /\ UNCHANGED <<stored, hashed, old, signed, mints>>
    BY <1>3 DEF Tell, windowVars
  <2> QED
    BY <1>0, <2>1, <2>2, ReadsFrame DEF CheckTyped, ReadsKnown, HasMints
<1>4. ASSUME Restart PROVE ReadsKnown'
  <2>1. UNCHANGED <<stored, hashed, old>> /\ \A m \in Mint : mints'[m] = {None} /\ signed'[m] = {None} /\ check'[m] # "found"
    BY <1>4 DEF Restart, windowVars, CheckTyped
  <2> QED
    BY <1>0, <2>1, ReadsFrame
<1>5. ASSUME NEW m \in Mint, ReadNotes(m) PROVE ReadsKnown'
  <2> DEFINE g == {n \in hashed \ faded : Kiosk(n) = Kiosk(m)}
  <2>1. /\ check[m] = "reads" /\ UNCHANGED <<stored, hashed, old, check, mints>>
        /\ signed' = [signed EXCEPT ![m] = g] /\ g \subseteq hashed
    BY <1>5 DEF ReadNotes, readerVars, windowVars
  <2> HIDE DEF g
  <2>2. signed'[m] = g /\ \A x \in Mint \ {m} : signed'[x] = signed[x]
    BY <2>1 DEF CheckTyped
  <2>3. ASSUME NEW x \in Mint
        PROVE  /\ HasMints(x)' => mints'[x] \subseteq AtKiosk(Kiosk(x))' /\ (x \in mints'[x] \/ x \in old' \/ x \in Stray)
               /\ signed'[x] # {None} => signed'[x] \subseteq hashed'
               /\ check'[x] = "found" => HasMints(x)' /\ signed'[x] # {None}
               /\ check'[x] \in {"none", "ended", "cut"} => ~HasMints(x)'
    <3>1. AtKiosk(Kiosk(x))' = AtKiosk(Kiosk(x)) /\ (HasMints(x)' <=> HasMints(x))
      BY <2>1, KioskStays DEF AtKiosk, HasMints
    <3> QED
      BY <2>1, <2>2, <3>1 DEF ReadsKnown
  <2>4. \A x, y \in Mint : HasMints(x)' /\ HasMints(y)' /\ Kiosk(x)' = Kiosk(y)' =>
          mints'[x] \subseteq mints'[y] \cup old' \/ mints'[y] \subseteq mints'[x] \cup old'
    BY <2>1, KioskStays DEF ReadsKnown, HasMints
  <2> QED
    BY <1>0, <2>1, <2>3, <2>4 DEF ReadsKnown
<1>6. ASSUME NEW m \in Mint, ReadMints(m) PROVE ReadsKnown'
  <2> DEFINE r == {e \in stored \ (old \cup Stray) : Kiosk(e) = Kiosk(m)}
  <2>1. /\ check[m] = "reads" /\ mints' = [mints EXCEPT ![m] = r] /\ UNCHANGED <<stored, hashed, old, check, signed>>
        /\ ~HasMints(m)
    BY <1>6 DEF ReadMints, readerVars, windowVars, HasMints
  <2>2. m \in stored
    BY <2>1 DEF EachToldOnce
  <2>3. (m \in r \/ m \in old \/ m \in Stray) /\ r \subseteq AtKiosk(Kiosk(m)) /\ AtKiosk(Kiosk(m)) \subseteq r \cup old
    BY <2>2 DEF AtKiosk
  <2> HIDE DEF r
  <2>4. mints'[m] = r /\ (\A x \in Mint \ {m} : mints'[x] = mints[x])
    BY <2>1 DEF CheckTyped
  <2>5. \A x \in Mint : HasMints(x)' => x = m \/ HasMints(x)
    BY <2>4 DEF HasMints
  <2>6. \A k : AtKiosk(k)' = AtKiosk(k)
    BY <2>1, KioskStays DEF AtKiosk
  <2>7. ASSUME NEW x \in Mint
        PROVE  /\ HasMints(x)' => mints'[x] \subseteq AtKiosk(Kiosk(x))' /\ (x \in mints'[x] \/ x \in old' \/ x \in Stray)
               /\ signed'[x] # {None} => signed'[x] \subseteq hashed'
               /\ check'[x] = "found" => HasMints(x)' /\ signed'[x] # {None}
               /\ check'[x] \in {"none", "ended", "cut"} => ~HasMints(x)'
    <3>1. AtKiosk(Kiosk(x))' = AtKiosk(Kiosk(x))
      BY <2>1, KioskStays DEF AtKiosk
    <3>2. CASE x = m
      BY <2>1, <2>3, <2>4, <3>1, <3>2 DEF ReadsKnown
    <3>3. CASE x # m
      BY <2>1, <2>4, <3>1, <3>3 DEF ReadsKnown, HasMints
    <3> QED
      BY <3>2, <3>3
  <2>8. \A x \in Mint : HasMints(x) /\ Kiosk(x) = Kiosk(m) => mints[x] \subseteq r \cup old
    BY <2>3 DEF ReadsKnown
  <2>9. ASSUME NEW x \in Mint, NEW y \in Mint, HasMints(x)', HasMints(y)', Kiosk(x) = Kiosk(y)
        PROVE  mints'[x] \subseteq mints'[y] \cup old' \/ mints'[y] \subseteq mints'[x] \cup old'
    <3>1. CASE x = m /\ y = m
      BY <3>1
    <3>2. CASE x = m /\ y # m
      BY <2>1, <2>4, <2>5, <2>8, <2>9, <3>2
    <3>3. CASE x # m /\ y = m
      BY <2>1, <2>4, <2>5, <2>8, <2>9, <3>3
    <3>4. CASE x # m /\ y # m
      BY <2>1, <2>4, <2>5, <2>9, <3>4 DEF ReadsKnown
    <3> QED
      BY <3>1, <3>2, <3>3, <3>4
  <2> QED
    BY <1>0, <2>1, <2>7, <2>9, KioskStays DEF ReadsKnown
<1>7. ASSUME NEW m \in Mint, Judge(m), Fresh(m) PROVE ReadsKnown'
  <2>1. /\ check' = [check EXCEPT ![m] = "found"] /\ UNCHANGED <<stored, hashed, old, signed, mints>>
        /\ HasMints(m) /\ signed[m] # {None}
    BY <1>7 DEF Judge, readerVars, windowVars, HasMints
  <2> QED
    BY <1>0, <2>1, ReadsFrame DEF CheckTyped, ReadsKnown, HasMints
<1>8. ASSUME NEW m \in Mint, Ended(m), UNCHANGED <<stored, hashed, old>> PROVE ReadsKnown'
  <2>1. /\ \A x \in Mint \ {m} : mints'[x] = mints[x] /\ signed'[x] = signed[x] /\ check'[x] = check[x]
        /\ mints'[m] = {None} /\ check'[m] = "ended" /\ signed'[m] = {None}
    BY <1>8 DEF Ended, CheckTyped
  <2>2. ASSUME NEW x \in Mint
        PROVE  /\ mints'[x] = mints[x] \/ mints'[x] = {None}
               /\ signed'[x] # {None} => signed'[x] = signed[x]
               /\ check'[x] = "found" => mints'[x] # {None} /\ signed'[x] # {None}
               /\ check'[x] \in {"none", "ended", "cut"} => mints'[x] = {None}
    BY <2>1 DEF ReadsKnown, HasMints
  <2> QED
    BY <1>0, <1>8, <2>2, ReadsFrame
<1>9. ASSUME NEW m \in Mint, MintOnChain(m) \/ RowAges(m) \/ MintAges(m) PROVE ReadsKnown'
  BY <1>1, <1>9 DEF MintOnChain, RowAges, MintAges, readerVars, listenerVars, windowVars
<1>10. ASSUME NEW n \in Note, StoreHash(n) PROVE ReadsKnown'
  BY <1>1, <1>10 DEF StoreHash, readerVars, listenerVars, windowVars
<1>11. ASSUME ReadLogs \/ EndBatch PROVE ReadsKnown'
  BY <1>1, <1>11 DEF ReadLogs, EndBatch, listenerVars, windowVars
<1>12. ASSUME NEW q \in Request, NEW b \in Batches, Deliver(q, b) PROVE ReadsKnown'
  BY <1>1, <1>12 DEF Deliver, listenerVars, windowVars
<1>13. ASSUME NEW h \in Reader, PassFails(h) PROVE ReadsKnown'
  BY <1>1, <1>13 DEF PassFails, listenerVars, windowVars
<1>14. ASSUME NEW m \in Mint, Judge(m) \/ Raise(m) \/ RaiseFails(m) PROVE ReadsKnown'
  BY <1>7, <1>8, <1>14 DEF Judge, Raise, RaiseFails, readerVars, windowVars
<1> QED
  BY <1>2, <1>3, <1>4, <1>5, <1>6, <1>9, <1>10, <1>11, <1>12, <1>13, <1>14 DEF MonitorNext, Mint

-----------------------------------------------------------------------------
\* What was said, step by step

\* Answered, of the state a step leads to.
AnsweredNext(T, k) ==
  \/ T = {}
  \/ \E a \in Claims' :
       /\ a[1] = k
       /\ T \subseteq a[2] \/ (a[2] \cap (hashed' \cup old') # {} /\ Cardinality(T) <= Cardinality(a[2]))

\* The rogues checked so far are stored mints of their kiosk, within the window.
LEMMA CheckedAreStored ==
  ASSUME MintAssumption, CheckTyped, EachToldOnce, NEW k
  PROVE  CheckedRogues(k) \subseteq (AtKiosk(k) \cap Rogue) \ old
  BY DEF CheckedRogues, AtKiosk, EachToldOnce, Mint

\* What is counted stays counted, and so does any part of it.
LEMMA AnsweredStays ==
  ASSUME ReadsKnown, ClaimsKnown, NEW k, NEW U, NEW T, T \subseteq U, U \subseteq stored,
         Claims \subseteq Claims', hashed \subseteq hashed', old \subseteq old', Answered(U, k)
  PROVE  AnsweredNext(T, k)
<1>1. CASE T = {}
  BY <1>1 DEF AnsweredNext
<1>2. CASE T # {}
  <2>1. PICK a \in Claims :
          a[1] = k /\ (U \subseteq a[2] \/ (a[2] \cap (hashed \cup old) # {} /\ Cardinality(U) <= Cardinality(a[2])))
    BY <1>2 DEF Answered, OutOfDate
  <2>2. a \in Claims' /\ a[2] \subseteq stored
    BY <2>1 DEF ClaimsKnown, AtKiosk
  <2>3. CASE U \subseteq a[2]
    BY <2>1, <2>2, <2>3 DEF AnsweredNext
  <2>4. CASE a[2] \cap (hashed \cup old) # {} /\ Cardinality(U) <= Cardinality(a[2])
    <3>1. IsFiniteSet(U) /\ IsFiniteSet(a[2])
      BY <2>2, FS_Subset DEF ReadsKnown
    <3>2. /\ Cardinality(T) \in Nat /\ Cardinality(U) \in Nat /\ Cardinality(a[2]) \in Nat
          /\ Cardinality(T) <= Cardinality(U)
      BY ONLY <3>1, T \subseteq U, FS_Subset, FS_CardinalityType
    <3>3. Cardinality(T) <= Cardinality(a[2])
      BY ONLY <2>4, <3>2
    <3>4. a[2] \cap (hashed' \cup old') # {}
      BY <2>4
    <3> QED
      BY <2>1, <2>2, <3>3, <3>4 DEF AnsweredNext
  <2> QED
    BY <2>1, <2>3, <2>4
<1> QED
  BY <1>1, <1>2

\* AllCounted, of the state a step leads to.
LEMMA CountedNext ==
  ASSUME \A k \in {"pushed", "indexed"} :
           /\ AnsweredNext(CheckedRogues(k)', k)
           /\ \A m \in Mint : HasMints(m)' /\ Kiosk(m) = k =>
                CheckedRogues(k)' \subseteq mints'[m] \/ AnsweredNext(CheckedRogues(k)' \cup View(m)', k)
  PROVE  AllCounted'
  BY KioskStays DEF AllCounted, AnsweredNext, Answered, OutOfDate

\* ClaimsKnown, of the same.
LEMMA ClaimsNext ==
  ASSUME \A a \in Claims' :
           /\ a[1] \in {"pushed", "indexed"} /\ a[2] \subseteq AtKiosk(a[1])'
           /\ \A m \in Mint : HasMints(m)' /\ Kiosk(m) = a[1] =>
                View(m)' \subseteq a[2] \/ a[2] \subseteq mints'[m] \cup old'
  PROVE  ClaimsKnown'
  BY KioskStays DEF ClaimsKnown, AtKiosk, View

\* What all steps are shown from.
SayInv ==
  /\ MintAssumption /\ CheckTyped /\ EachToldOnce /\ ReadsKnown
  /\ ClaimsKnown /\ SeenWasSaid /\ AllCounted

\* Of a step that reads no mints, and ends no check of a rogue.
LEMMA CountedStays ==
  ASSUME SayInv, Claims \subseteq Claims', stored \subseteq stored', hashed \subseteq hashed', old \subseteq old',
         \A m \in Mint : mints'[m] = mints[m] \/ mints'[m] = {None},
         \A k : CheckedRogues(k)' \subseteq CheckedRogues(k)
  PROVE  AllCounted'
<1> USE DEF SayInv
<1>1. \A m \in Mint : HasMints(m)' => HasMints(m) /\ mints'[m] = mints[m] /\ View(m)' \subseteq View(m)
  BY DEF HasMints, View
<1> SUFFICES ASSUME NEW k \in {"pushed", "indexed"}
             PROVE  /\ AnsweredNext(CheckedRogues(k)', k)
                    /\ \A m \in Mint : HasMints(m)' /\ Kiosk(m) = k =>
                         CheckedRogues(k)' \subseteq mints'[m] \/ AnsweredNext(CheckedRogues(k)' \cup View(m)', k)
  BY CountedNext
<1>2. CheckedRogues(k) \subseteq stored /\ Answered(CheckedRogues(k), k)
  BY CheckedAreStored DEF AtKiosk, AllCounted
<1>3. AnsweredNext(CheckedRogues(k)', k)
  BY <1>2, AnsweredStays
<1>4. ASSUME NEW m \in Mint, HasMints(m)', Kiosk(m) = k
      PROVE  CheckedRogues(k)' \subseteq mints'[m] \/ AnsweredNext(CheckedRogues(k)' \cup View(m)', k)
  <2>1. CASE CheckedRogues(k) \subseteq mints[m]
    BY <1>1, <1>4, <2>1
  <2>2. CASE Answered(CheckedRogues(k) \cup View(m), k)
    <3>1. HasMints(m) /\ View(m) \subseteq stored /\ View(m)' \subseteq View(m)
      BY <1>1, <1>4 DEF ReadsKnown, AtKiosk, View
    <3>2. /\ CheckedRogues(k) \cup View(m) \subseteq stored
          /\ CheckedRogues(k)' \cup View(m)' \subseteq CheckedRogues(k) \cup View(m)
      BY <1>2, <3>1
    <3> QED
      BY <2>2, <3>2, AnsweredStays
  <2> QED
    BY <1>1, <1>4, <2>1, <2>2 DEF AllCounted
<1> QED
  BY <1>3, <1>4

\* Of a step that reads no mints, says nothing, and ends no check of a rogue.
LEMMA QuietStays ==
  ASSUME SayInv, Claims' = Claims, \A k \in {"pushed", "indexed"} : seen'[k] \in {0, seen[k]},
         stored \subseteq stored', hashed \subseteq hashed', old \subseteq old',
         \A m \in Mint : mints'[m] = mints[m] \/ mints'[m] = {None},
         \A k : CheckedRogues(k)' \subseteq CheckedRogues(k)
  PROVE  ClaimsKnown' /\ SeenWasSaid' /\ AllCounted'
<1> USE DEF SayInv
<1>1. \A m \in Mint : HasMints(m)' => HasMints(m) /\ mints'[m] = mints[m] /\ View(m)' \subseteq View(m)
  BY DEF HasMints, View
<1>2. \A k : AtKiosk(k) \subseteq AtKiosk(k)'
  BY KioskStays DEF AtKiosk
<1>3. ClaimsKnown'
  <2> SUFFICES ASSUME NEW a \in Claims
               PROVE  /\ a[1] \in {"pushed", "indexed"} /\ a[2] \subseteq AtKiosk(a[1])'
                      /\ \A m \in Mint : HasMints(m)' /\ Kiosk(m) = a[1] =>
                           View(m)' \subseteq a[2] \/ a[2] \subseteq mints'[m] \cup old'
    BY ClaimsNext
  <2>1. a[1] \in {"pushed", "indexed"} /\ a[2] \subseteq AtKiosk(a[1])
    BY DEF ClaimsKnown
  <2>2. a[2] \subseteq AtKiosk(a[1])'
    BY <2>1, KioskStays DEF AtKiosk
  <2>3. ASSUME NEW m \in Mint, HasMints(m)', Kiosk(m) = a[1]
        PROVE  View(m)' \subseteq a[2] \/ a[2] \subseteq mints'[m] \cup old'
    <3>1. View(m) \subseteq a[2] \/ a[2] \subseteq mints[m] \cup old
      BY <1>1, <2>3 DEF ClaimsKnown
    <3> QED
      BY <1>1, <2>3, <3>1
  <2> QED
    BY <2>1, <2>2, <2>3
<1>4. SeenWasSaid'
  BY DEF SeenWasSaid
<1>5. AllCounted'
  BY CountedStays
<1> QED
  BY <1>3, <1>4, <1>5

\* A check ends: what it read before it knew of the others is counted with them.
LEMMA EndingStays ==
  ASSUME SayInv, NEW m \in Mint, HasMints(m), Ended(m), Claims' = Claims,
         UNCHANGED <<seen, stored, hashed, old>>,
         CheckedRogues(Kiosk(m)) \subseteq mints[m] => Answered(View(m), Kiosk(m))
  PROVE  ClaimsKnown' /\ SeenWasSaid' /\ AllCounted'
<1> USE DEF SayInv
<1>1. /\ mints'[m] = {None} /\ check'[m] = "ended"
      /\ \A x \in Mint \ {m} : mints'[x] = mints[x] /\ check'[x] = check[x]
  BY DEF Ended, CheckTyped
<1>2. \A x \in Mint : HasMints(x)' => x # m /\ HasMints(x) /\ mints'[x] = mints[x] /\ View(x)' = View(x)
  BY <1>1 DEF HasMints, View
<1>3. ClaimsKnown'
  <2>1. \A k : AtKiosk(k)' = AtKiosk(k)
    BY KioskStays DEF AtKiosk
  <2> SUFFICES ASSUME NEW a \in Claims
               PROVE  /\ a[1] \in {"pushed", "indexed"} /\ a[2] \subseteq AtKiosk(a[1])'
                      /\ \A x \in Mint : HasMints(x)' /\ Kiosk(x) = a[1] =>
                           View(x)' \subseteq a[2] \/ a[2] \subseteq mints'[x] \cup old'
    BY ClaimsNext
  <2>2. a[1] \in {"pushed", "indexed"} /\ a[2] \subseteq AtKiosk(a[1])
    BY DEF ClaimsKnown
  <2>3. a[2] \subseteq AtKiosk(a[1])'
    BY <2>2, KioskStays DEF AtKiosk
  <2>4. ASSUME NEW x \in Mint, HasMints(x)', Kiosk(x) = a[1]
        PROVE  View(x)' \subseteq a[2] \/ a[2] \subseteq mints'[x] \cup old'
    <3>1. View(x) \subseteq a[2] \/ a[2] \subseteq mints[x] \cup old
      BY <1>2, <2>4 DEF ClaimsKnown
    <3> QED
      BY <1>2, <2>4, <3>1
  <2> QED
    BY <2>2, <2>3, <2>4
<1>4. SeenWasSaid'
  BY DEF SeenWasSaid
<1>5. AllCounted'
  <2> SUFFICES ASSUME NEW k \in {"pushed", "indexed"}
               PROVE  /\ AnsweredNext(CheckedRogues(k)', k)
                      /\ \A x \in Mint : HasMints(x)' /\ Kiosk(x) = k =>
                           CheckedRogues(k)' \subseteq mints'[x] \/ AnsweredNext(CheckedRogues(k)' \cup View(x)', k)
    BY CountedNext
  <2> DEFINE E == CheckedRogues(k)
             F == CheckedRogues(k)'
             V == View(m)
  <2>1. E \subseteq (AtKiosk(k) \cap Rogue) \ old /\ E \subseteq stored
    BY CheckedAreStored DEF AtKiosk
  <2>2. V \subseteq stored
    BY DEF ReadsKnown, AtKiosk, View
  <2>3. Answered(E, k) /\ \A x \in Mint : HasMints(x) /\ Kiosk(x) = k =>
                            E \subseteq mints[x] \/ Answered(E \cup View(x), k)
    BY DEF AllCounted
  <2>4. CASE Kiosk(m) # k
    <3>1. F = E
      BY <1>1, <2>4, KioskStays DEF CheckedRogues, Mint
    <3>2. AnsweredNext(F, k)
      BY <2>1, <2>3, <3>1, AnsweredStays
    <3>3. ASSUME NEW x \in Mint, HasMints(x)', Kiosk(x) = k
          PROVE  F \subseteq mints'[x] \/ AnsweredNext(F \cup View(x)', k)
      <4>1. HasMints(x) /\ View(x) \subseteq stored /\ mints'[x] = mints[x] /\ View(x)' = View(x)
        BY <1>2, <3>3 DEF ReadsKnown, AtKiosk, View
      <4>2. E \subseteq mints[x] \/ Answered(E \cup View(x), k)
        BY <2>3, <3>3, <4>1
      <4>3. E \cup View(x) \subseteq stored /\ F \cup View(x)' \subseteq E \cup View(x)
        BY <2>1, <3>1, <4>1
      <4> QED
        BY <3>1, <4>1, <4>2, <4>3, AnsweredStays
    <3> QED
      BY <3>2, <3>3
  <2>5. CASE Kiosk(m) = k
    <3>1. F \subseteq E \cup V
      <4> SUFFICES ASSUME NEW x \in F, x \notin E PROVE x \in V
        OBVIOUS
      <4>1. x \in Rogue \ (old \cup Stray) /\ Kiosk(x) = k /\ check'[x] = "ended"
        BY KioskStays DEF CheckedRogues
      <4>2. x = m
        BY <1>1, <4>1 DEF CheckedRogues, Mint
      <4> QED
        BY <4>1, <4>2 DEF ReadsKnown, View
    <3>2. Answered(E \cup V, k)
      <4>1. CASE E \subseteq mints[m]
        <5>1. E \cup V = V
          BY <2>1, <4>1 DEF View
        <5> QED
          BY <2>5, <4>1, <5>1
      <4>2. CASE ~(E \subseteq mints[m])
        BY <2>3, <2>5, <4>2
      <4> QED
        BY <4>1, <4>2
    <3>3. E \cup V \subseteq stored
      BY <2>1, <2>2
    <3>4. AnsweredNext(F, k)
      BY <3>1, <3>2, <3>3, AnsweredStays
    <3>5. ASSUME NEW x \in Mint, HasMints(x)', Kiosk(x) = k
          PROVE  F \subseteq mints'[x] \/ AnsweredNext(F \cup View(x)', k)
      <4>1. HasMints(x) /\ View(x) \subseteq stored /\ mints'[x] = mints[x] /\ View(x)' = View(x)
        BY <1>2, <3>5 DEF ReadsKnown, AtKiosk, View
      <4>2. mints[x] \subseteq mints[m] \cup old \/ mints[m] \subseteq mints[x] \cup old
        BY <2>5, <3>5, <4>1 DEF ReadsKnown
      <4>3. CASE mints[x] \subseteq mints[m] \cup old
        <5>1. F \cup View(x)' \subseteq E \cup V
          BY <3>1, <4>1, <4>3 DEF View
        <5> QED
          BY <3>2, <3>3, <5>1, AnsweredStays
      <4>4. CASE mints[m] \subseteq mints[x] \cup old
        <5>1. V \subseteq View(x) /\ V \subseteq mints[x]
          BY <4>4 DEF View
        <5>2. CASE E \subseteq mints[x]
          BY <3>1, <4>1, <5>1, <5>2
        <5>3. CASE Answered(E \cup View(x), k)
          <6>1. F \cup View(x)' \subseteq E \cup View(x) /\ E \cup View(x) \subseteq stored
            BY <2>1, <3>1, <4>1, <5>1
          <6> QED
            BY <5>3, <6>1, AnsweredStays
        <5> QED
          BY <2>3, <3>5, <4>1, <5>2, <5>3
      <4> QED
        BY <4>2, <4>3, <4>4
    <3> QED
      BY <3>4, <3>5
  <2> QED
    BY <2>4, <2>5
<1> QED
  BY <1>3, <1>4, <1>5

\* Alerts about to be written are those of the checks that found something.
LEMMA HeldSame ==
  ASSUME \A m \in Mint : /\ check'[m] = "found" <=> check[m] = "found"
                         /\ check[m] = "found" => mints'[m] = mints[m] /\ signed'[m] = signed[m]
  PROVE  Held' = Held
  BY KioskStays DEF Held, Unbacked

\* What a check found is all it read that is not signed, the rogues among it.
LEMMA UnbackedHasView ==
  ASSUME SayInv, NEW m \in Mint, HasMints(m), signed[m] # {None}
  PROVE  /\ View(m) \subseteq Unbacked(m) /\ Unbacked(m) \subseteq mints[m]
         /\ Unbacked(m) \subseteq AtKiosk(Kiosk(m))
         /\ mints[m] \ Unbacked(m) \subseteq hashed
  BY DEF SayInv, View, Unbacked, ReadsKnown, CheckTyped, MintAssumption

\* A check finds something new.
LEMMA FreshFinds ==
  ASSUME SayInv, NEW m \in Mint, Judge(m), Fresh(m)
  PROVE  ClaimsKnown' /\ SeenWasSaid' /\ AllCounted'
<1> USE DEF SayInv
<1> DEFINE c == <<Kiosk(m), Unbacked(m)>>
<1>1. /\ check[m] = "reads" /\ HasMints(m) /\ signed[m] # {None}
      /\ seen' = [seen EXCEPT ![Kiosk(m)] = Wording(m)]
      /\ check' = [check EXCEPT ![m] = "found"]
      /\ UNCHANGED <<signed, mints, stored, hashed, old, alerts, unsaid>>
  BY DEF Judge, readerVars, windowVars, HasMints
<1>2. Claims' = Claims \cup {c}
  <2>1. \A x \in Mint : check'[x] = "found" <=> x = m \/ check[x] = "found"
    BY <1>1 DEF CheckTyped
  <2>2. Held' = Held \cup {c}
    BY <1>1, <2>1, KioskStays DEF Held, Unbacked
  <2> QED
    BY <1>1, <2>2 DEF Claims
<1>3. \A x \in Mint : (HasMints(x)' <=> HasMints(x)) /\ mints'[x] = mints[x] /\ View(x)' = View(x)
  BY <1>1 DEF HasMints, View
<1>4. \A k : AtKiosk(k)' = AtKiosk(k)
  BY <1>1, KioskStays DEF AtKiosk
<1>5. ClaimsKnown'
  <2> SUFFICES ASSUME NEW a \in Claims'
               PROVE  /\ a[1] \in {"pushed", "indexed"} /\ a[2] \subseteq AtKiosk(a[1])'
                      /\ \A x \in Mint : HasMints(x)' /\ Kiosk(x) = a[1] =>
                           View(x)' \subseteq a[2] \/ a[2] \subseteq mints'[x] \cup old'
    BY ClaimsNext
  <2>1. CASE a \in Claims
    BY <1>1, <1>3, <1>4, <2>1 DEF ClaimsKnown
  <2>2. CASE a = c
    <3>1. a[1] = Kiosk(m) /\ a[2] = Unbacked(m)
      BY <2>2
    <3>2. /\ View(m) \subseteq Unbacked(m) /\ Unbacked(m) \subseteq mints[m]
          /\ Unbacked(m) \subseteq AtKiosk(Kiosk(m))
      BY <1>1, UnbackedHasView
    <3>3. ASSUME NEW x \in Mint, HasMints(x), Kiosk(x) = Kiosk(m)
          PROVE  View(x) \subseteq Unbacked(m) \/ Unbacked(m) \subseteq mints[x] \cup old
      <4>1. CASE mints[x] \subseteq mints[m] \cup old
        <5>1. View(x) \subseteq View(m)
          BY <4>1 DEF View
        <5> QED
          BY <3>2, <5>1
      <4>2. CASE mints[m] \subseteq mints[x] \cup old
        BY <3>2, <4>2
      <4> QED
        BY <1>1, <3>3, <4>1, <4>2 DEF ReadsKnown
    <3> QED
      BY <1>1, <1>3, <1>4, <3>1, <3>2, <3>3, TwoKiosks
  <2> QED
    BY <1>2, <2>1, <2>2
<1>6. SeenWasSaid'
  <2> SUFFICES ASSUME NEW k \in {"pushed", "indexed"}, seen'[k] > 0
               PROVE  \E a \in Claims' : a[1] = k /\ Cardinality(a[2]) = seen'[k]
    BY DEF SeenWasSaid
  <2>1. CASE k = Kiosk(m)
    <3>1. c \in Claims' /\ c[1] = k /\ c[2] = Unbacked(m)
      BY <1>2, <2>1
    <3>2. seen'[k] = Wording(m)
      BY <1>1, <2>1 DEF CheckTyped
    <3> QED
      BY <3>1, <3>2 DEF Wording
  <2>2. CASE k # Kiosk(m)
    <3>1. seen'[k] = seen[k]
      BY <1>1, <2>2 DEF CheckTyped
    <3> QED
      BY <1>2, <3>1 DEF SeenWasSaid
  <2> QED
    BY <2>1, <2>2
<1>7. ASSUME NEW k PROVE CheckedRogues(k)' \subseteq CheckedRogues(k)
  <2>1. \A x \in Mint : check'[x] = "ended" => check[x] = "ended"
    BY <1>1 DEF CheckTyped
  <2> QED
    BY <1>1, <2>1, KioskStays DEF CheckedRogues, Mint
<1>8. AllCounted'
  BY <1>1, <1>2, <1>7, CountedStays
<1> QED
  BY <1>5, <1>6, <1>8

\* A finding whose wording was seen is counted by an alert, or that alert is out of date.
LEMMA SilentIsSaid ==
  ASSUME SayInv, NEW m \in Mint, HasMints(m), signed[m] # {None}, ~Fresh(m)
  PROVE  Answered(View(m), Kiosk(m))
<1> USE DEF SayInv
<1>1. /\ View(m) \subseteq Unbacked(m) /\ mints[m] \ Unbacked(m) \subseteq hashed
      /\ IsFiniteSet(Unbacked(m)) /\ Wording(m) \in Nat
  BY UnbackedHasView, UnbackedIsNumber
<1>2. CASE View(m) = {}
  BY <1>2 DEF Answered
<1>3. CASE View(m) # {}
  <2>1. Unbacked(m) # {} /\ seen[Kiosk(m)] = Wording(m)
    BY <1>1, <1>3 DEF Fresh
  <2>2. Wording(m) > 0
    BY <1>1, <2>1, FS_EmptySet DEF Wording
  <2>3. PICK a \in Claims : a[1] = Kiosk(m) /\ Cardinality(a[2]) = Wording(m)
    BY <2>1, <2>2, TwoKiosks DEF SeenWasSaid
  <2>4. CASE View(m) \subseteq a[2]
    BY <2>3, <2>4 DEF Answered
  <2>5. CASE ~(View(m) \subseteq a[2])
    <3>1. a[2] \subseteq mints[m] \cup old
      BY <2>3, <2>5 DEF ClaimsKnown
    <3>2. ~(a[2] \subseteq Unbacked(m))
      <4> SUFFICES ASSUME a[2] \subseteq Unbacked(m) PROVE FALSE
        OBVIOUS
      <4>1. a[2] # Unbacked(m)
        BY <1>1, <2>5
      <4>2. Cardinality(a[2]) < Cardinality(Unbacked(m))
        BY ONLY <1>1, <4>1, a[2] \subseteq Unbacked(m), FS_Subset, FS_CardinalityType
      <4> QED
        BY ONLY <1>1, <2>3, <4>2 DEF Wording
    <3>3. OutOfDate(a[2])
      BY <1>1, <3>1, <3>2 DEF OutOfDate
    <3>4. Cardinality(View(m)) <= Cardinality(a[2])
      <4>1. Cardinality(View(m)) <= Cardinality(Unbacked(m))
        BY ONLY <1>1, FS_Subset, FS_CardinalityType
      <4> QED
        BY <2>3, <4>1 DEF Wording
    <3> QED
      BY <2>3, <3>3, <3>4 DEF Answered
  <2> QED
    BY <2>4, <2>5
<1> QED
  BY <1>2, <1>3

\* A check finds nothing new.
LEMMA NothingFresh ==
  ASSUME SayInv, NEW m \in Mint, Judge(m), ~Fresh(m)
  PROVE  ClaimsKnown' /\ SeenWasSaid' /\ AllCounted'
<1> USE DEF SayInv
<1>1. /\ check[m] = "reads" /\ HasMints(m) /\ signed[m] # {None} /\ Ended(m)
      /\ UNCHANGED <<seen, stored, hashed, old, alerts, unsaid>>
  BY DEF Judge, readerVars, windowVars, HasMints
<1>2. Claims' = Claims
  <2>1. \A x \in Mint : /\ check'[x] = "found" <=> check[x] = "found"
                        /\ check[x] = "found" => mints'[x] = mints[x] /\ signed'[x] = signed[x]
    BY <1>1 DEF CheckTyped, Ended
  <2> QED
    BY <1>1, <2>1, HeldSame DEF Claims
<1>3. Answered(View(m), Kiosk(m))
  BY <1>1, SilentIsSaid
<1> QED
  BY <1>1, <1>2, <1>3, EndingStays

\* An alert is written, or its insert fails.
LEMMA RaisingSays ==
  ASSUME SayInv, NEW m \in Mint, Raise(m) \/ RaiseFails(m)
  PROVE  ClaimsKnown' /\ SeenWasSaid' /\ AllCounted'
<1> USE DEF SayInv
<1> DEFINE c == <<Kiosk(m), Unbacked(m)>>
<1>1. /\ check[m] = "found" /\ Ended(m) /\ alerts' \cup unsaid' = alerts \cup unsaid \cup {c}
      /\ UNCHANGED <<seen, stored, hashed, old>>
  BY DEF Raise, RaiseFails, readerVars, windowVars
<1>2. HasMints(m) /\ signed[m] # {None}
  BY <1>1 DEF ReadsKnown
<1>3. Held = Held' \cup {c}
  <2>1. \A x \in Mint : check[x] = "found" <=> x = m \/ check'[x] = "found"
    BY <1>1 DEF CheckTyped, Ended
  <2>2. \A x \in Mint : check'[x] = "found" => x # m /\ mints'[x] = mints[x] /\ signed'[x] = signed[x]
    BY <1>1 DEF CheckTyped, Ended
  <2>3. \A x \in Mint : check'[x] = "found" => <<Kiosk(x)', Unbacked(x)'>> = <<Kiosk(x), Unbacked(x)>>
    BY <2>2, KioskStays DEF Unbacked
  <2> QED
    BY <2>1, <2>3 DEF Held
<1>4. Claims' = Claims /\ c \in Claims
  BY <1>1, <1>3 DEF Claims
<1>5. Answered(View(m), Kiosk(m))
  <2>1. c[1] = Kiosk(m) /\ View(m) \subseteq c[2]
    BY <1>2, UnbackedHasView
  <2> QED
    BY <1>4, <2>1 DEF Answered
<1> QED
  BY <1>1, <1>2, <1>4, <1>5, EndingStays

\* A check reads the mints: it sees all that were checked.
LEMMA ReadingSees ==
  ASSUME SayInv, NEW m \in Mint, ReadMints(m)
  PROVE  ClaimsKnown' /\ SeenWasSaid' /\ AllCounted'
<1> USE DEF SayInv
<1> DEFINE r == {e \in stored \ (old \cup Stray) : Kiosk(e) = Kiosk(m)}
<1>1. /\ check[m] = "reads" /\ mints' = [mints EXCEPT ![m] = r]
      /\ UNCHANGED <<seen, stored, hashed, old, check, signed, alerts, unsaid>>
  BY DEF ReadMints, readerVars, windowVars
<1>2. AtKiosk(Kiosk(m)) \subseteq r \cup old /\ AtKiosk(Kiosk(m)) \ old \subseteq r
  BY DEF AtKiosk
<1> HIDE DEF r
<1>3. mints'[m] = r /\ (\A x \in Mint \ {m} : mints'[x] = mints[x])
  BY <1>1 DEF CheckTyped
<1>4. \A x \in Mint \ {m} : (HasMints(x)' <=> HasMints(x)) /\ View(x)' = View(x)
  BY <1>1, <1>3 DEF HasMints, View
<1>5. \A k : AtKiosk(k)' = AtKiosk(k) /\ CheckedRogues(k)' = CheckedRogues(k)
  BY <1>1, KioskStays DEF AtKiosk, CheckedRogues
<1>6. Claims' = Claims
  <2>1. \A x \in Mint : /\ check'[x] = "found" <=> check[x] = "found"
                        /\ check[x] = "found" => mints'[x] = mints[x] /\ signed'[x] = signed[x]
    BY <1>1, <1>3
  <2> QED
    BY <1>1, <2>1, HeldSame DEF Claims
<1>7. ClaimsKnown'
  <2> SUFFICES ASSUME NEW a \in Claims
               PROVE  /\ a[1] \in {"pushed", "indexed"} /\ a[2] \subseteq AtKiosk(a[1])'
                      /\ \A x \in Mint : HasMints(x)' /\ Kiosk(x) = a[1] =>
                           View(x)' \subseteq a[2] \/ a[2] \subseteq mints'[x] \cup old'
    BY <1>6, ClaimsNext
  <2>1. a[1] \in {"pushed", "indexed"} /\ a[2] \subseteq AtKiosk(a[1])
    BY DEF ClaimsKnown
  <2>2. ASSUME NEW x \in Mint, HasMints(x)', Kiosk(x) = a[1]
        PROVE  View(x)' \subseteq a[2] \/ a[2] \subseteq mints'[x] \cup old'
    <3>1. CASE x = m
      BY <1>1, <1>2, <1>3, <2>1, <2>2, <3>1
    <3>2. CASE x # m
      <4>1. View(x) \subseteq a[2] \/ a[2] \subseteq mints[x] \cup old
        BY <1>4, <2>2, <3>2 DEF ClaimsKnown
      <4> QED
        BY <1>1, <1>3, <1>4, <3>2, <4>1
    <3> QED
      BY <3>1, <3>2
  <2> QED
    BY <1>5, <2>1, <2>2
<1>8. SeenWasSaid'
  BY <1>1, <1>6 DEF SeenWasSaid
<1>9. AllCounted'
  <2> SUFFICES ASSUME NEW k \in {"pushed", "indexed"}
               PROVE  /\ AnsweredNext(CheckedRogues(k)', k)
                      /\ \A x \in Mint : HasMints(x)' /\ Kiosk(x) = k =>
                           CheckedRogues(k)' \subseteq mints'[x] \/ AnsweredNext(CheckedRogues(k)' \cup View(x)', k)
    BY CountedNext
  <2> DEFINE E == CheckedRogues(k)
  <2>1. E \subseteq AtKiosk(k) \ old /\ E \subseteq stored
    BY CheckedAreStored DEF AtKiosk
  <2>2. Answered(E, k) /\ \A x \in Mint : HasMints(x) /\ Kiosk(x) = k =>
                            E \subseteq mints[x] \/ Answered(E \cup View(x), k)
    BY DEF AllCounted
  <2>3. CheckedRogues(k)' = E
    BY <1>5
  <2> HIDE DEF E
  <2>4. AnsweredNext(E, k)
    BY <1>1, <1>6, <2>1, <2>2, AnsweredStays
  <2>5. ASSUME NEW x \in Mint, HasMints(x)', Kiosk(x) = k
        PROVE  E \subseteq mints'[x] \/ AnsweredNext(E \cup View(x)', k)
    <3>1. CASE x = m
      BY <1>2, <1>3, <2>1, <2>5, <3>1
    <3>2. CASE x # m
      <4>1. HasMints(x) /\ mints'[x] = mints[x] /\ View(x)' = View(x)
        BY <1>3, <1>4, <2>5, <3>2
      <4>2. View(x) \subseteq stored
        BY <4>1 DEF ReadsKnown, AtKiosk, View
      <4>3. CASE Answered(E \cup View(x), k)
        <5>1. E \cup View(x) \subseteq stored
          BY <2>1, <4>2
        <5> QED
          BY <1>1, <1>6, <4>1, <4>3, <5>1, AnsweredStays
      <4> QED
        BY <2>2, <2>5, <4>1, <4>3
    <3> QED
      BY <3>1, <3>2
  <2> QED
    BY <2>3, <2>4, <2>5
<1> QED
  BY <1>7, <1>8, <1>9

\* The backend restarts: what was about to be said is not.
LEMMA RestartSays ==
  ASSUME SayInv, Restart
  PROVE  ClaimsKnown' /\ SeenWasSaid' /\ AllCounted'
<1> USE DEF SayInv
<1>1. /\ UNCHANGED <<stored, hashed, old, alerts>> /\ unsaid' = unsaid \cup Held
      /\ \A m \in Mint : mints'[m] = {None} /\ check'[m] # "found" /\ (check'[m] = "ended" => check[m] = "ended")
      /\ \A k \in {"pushed", "indexed"} : seen'[k] = 0
  BY DEF Restart, windowVars, CheckTyped
<1>2. Claims' = Claims
  <2>1. Held' = {}
    BY <1>1 DEF Held
  <2> QED
    BY <1>1, <2>1 DEF Claims
<1>3. \A k : CheckedRogues(k)' \subseteq CheckedRogues(k)
  BY <1>1, KioskStays DEF CheckedRogues, Mint
<1> QED
  BY <1>1, <1>2, <1>3, QuietStays

\* What was said of the rogues, step by step.
LEMMA SaidStep ==
  ASSUME SayInv, EventsTyped, MonitorNext
  PROVE  ClaimsKnown' /\ SeenWasSaid' /\ AllCounted'
<1> USE DEF SayInv
<1>1. ASSUME UNCHANGED <<mints, seen, alerts, unsaid>>, stored \subseteq stored', hashed \subseteq hashed', old \subseteq old',
             \A m \in Mint : check'[m] = check[m] \/ (check[m] = "none" /\ check'[m] = "reads"),
             \A m \in Mint : signed'[m] = signed[m] \/ check[m] = "reads"
      PROVE  ClaimsKnown' /\ SeenWasSaid' /\ AllCounted'
  <2>1. Held' = Held
    BY <1>1, HeldSame
  <2>2. \A k : CheckedRogues(k)' \subseteq CheckedRogues(k)
    BY <1>1, KioskStays DEF CheckedRogues, Mint
  <2>3. Claims' = Claims
    BY <1>1, <2>1 DEF Claims
  <2> QED
    BY <1>1, <2>2, <2>3, QuietStays
<1>2. ASSUME NEW m \in Mint, MintOnChain(m) \/ RowAges(m) \/ MintAges(m) PROVE ClaimsKnown' /\ SeenWasSaid' /\ AllCounted'
  BY <1>1, <1>2 DEF MintOnChain, RowAges, MintAges, readerVars, listenerVars, checkVars, windowVars
<1>3. ASSUME NEW n \in Note, StoreHash(n) PROVE ClaimsKnown' /\ SeenWasSaid' /\ AllCounted'
  BY <1>1, <1>3 DEF StoreHash, readerVars, listenerVars, checkVars, windowVars
<1>4. ASSUME ReadLogs \/ EndBatch PROVE ClaimsKnown' /\ SeenWasSaid' /\ AllCounted'
  BY <1>1, <1>4 DEF ReadLogs, EndBatch, listenerVars, checkVars, windowVars
<1>5. ASSUME NEW q \in Request, NEW b \in Batches, Deliver(q, b) PROVE ClaimsKnown' /\ SeenWasSaid' /\ AllCounted'
  BY <1>1, <1>5 DEF Deliver, listenerVars, checkVars, windowVars
<1>6. ASSUME NEW h \in Reader, Save(h) \/ PassFails(h) PROVE ClaimsKnown' /\ SeenWasSaid' /\ AllCounted'
  BY <1>1, <1>6 DEF Save, PassFails, listenerVars, checkVars, windowVars
<1>7. ASSUME NEW h \in Reader, Tell(h) PROVE ClaimsKnown' /\ SeenWasSaid' /\ AllCounted'
  <2>1. telling[h] \in Mint /\ check[telling[h]] = "none"
    BY <1>7 DEF Tell, EventsTyped, EachToldOnce, CheckTyped
  <2>2. \A m \in Mint : check'[m] = check[m] \/ (check[m] = "none" /\ check'[m] = "reads")
    BY <1>7, <2>1 DEF Tell, CheckTyped
  <2>3. UNCHANGED <<mints, seen, alerts, unsaid, stored, hashed, old, signed>>
    BY <1>7 DEF Tell, windowVars
  <2> QED
    BY <1>1, <2>2, <2>3
<1>8. ASSUME NEW m \in Mint, ReadNotes(m) PROVE ClaimsKnown' /\ SeenWasSaid' /\ AllCounted'
  <2>1. UNCHANGED <<mints, seen, alerts, unsaid, stored, hashed, old, check>>
    BY <1>8 DEF ReadNotes, readerVars, windowVars
  <2>2. \A x \in Mint : signed'[x] = signed[x] \/ check[x] = "reads"
    BY <1>8 DEF ReadNotes, CheckTyped
  <2> QED
    BY <1>1, <2>1, <2>2
<1>9. ASSUME NEW m \in Mint, Judge(m) PROVE ClaimsKnown' /\ SeenWasSaid' /\ AllCounted'
  BY <1>9, FreshFinds, NothingFresh
<1> QED
  BY <1>2, <1>3, <1>4, <1>5, <1>6, <1>7, <1>8, <1>9, RaisingSays, ReadingSees, RestartSays DEF MonitorNext, Mint

\* The invariant holds at the start.
LEMMA MonitorStarts ==
  ASSUME MintAssumption, BoundAssumption, MonitorInit
  PROVE  MonitorInv
<1> USE DEF MonitorInit
<1>1. EventsTyped
  BY Emptied DEF EventsTyped, Mined, MintAssumption
<1>2. CursorTyped /\ BoundTyped
  <2>1. Len(mined) = 0
    OBVIOUS
  <2>2. running \in BOOLEAN /\ cursor \in 0..Len(mined) /\ to \in 0..Len(mined)
    <3>1. running \in BOOLEAN
      OBVIOUS
    <3>2. cursor \in 0..Len(mined) /\ to \in 0..Len(mined)
      BY <2>1
    <3> QED
      BY <3>1, <3>2
  <2>3. BoundTyped
    BY DEF BoundTyped, BoundAssumption
  <2> QED
    BY ONLY <2>2, <2>3 DEF CursorTyped
<1>3. CheckTyped
  BY DEF CheckTyped
<1>4. EachToldOnce
  BY DEF EachToldOnce
<1>5. BatchKept
  BY DEF BatchKept
<1>6. ReadsKnown
  BY FS_EmptySet DEF ReadsKnown, HasMints
<1>7. SeenWasSaid /\ ClaimsKnown
  <2>1. Claims = {}
    BY DEF Claims, Held
  <2> QED
    BY <2>1 DEF SeenWasSaid, ClaimsKnown
<1>8. \A k : CheckedRogues(k) = {}
  BY DEF CheckedRogues, Mint
<1>9. AllCounted
  BY <1>8 DEF AllCounted, Answered, HasMints
<1> QED
  BY <1>1, <1>2, <1>3, <1>4, <1>5, <1>6, <1>7, <1>9 DEF MonitorInv

\* Every step keeps it.
LEMMA MonitorSteps ==
  ASSUME MintAssumption, BoundAssumption, MonitorInv, [MonitorNext]_monitorVars
  PROVE  MonitorInv'
<1>1. CASE MonitorNext
  <2>1. EventsTyped' /\ CursorTyped' /\ BoundTyped'
    BY <1>1, EventsStep, CursorStep, BoundStep DEF MonitorInv
  <2>2. CheckTyped' /\ EachToldOnce' /\ BatchKept' /\ ReadsKnown'
    BY <1>1, CheckStep, EachToldOnceStep, BatchKeptStep, ReadsStep DEF MonitorInv
  <2>3. ClaimsKnown' /\ SeenWasSaid' /\ AllCounted'
    BY <1>1, SaidStep DEF MonitorInv, SayInv
  <2> QED
    BY <2>1, <2>2, <2>3 DEF MonitorInv
<1>2. CASE UNCHANGED monitorVars
  <2> USE <1>2 DEF monitorVars, readerVars, listenerVars, checkVars, windowVars, boundVars
  <2>1. EventsTyped'
    BY DEF MonitorInv, EventsTyped, Mined
  <2>2. CursorTyped' /\ BoundTyped'
    BY DEF MonitorInv, CursorTyped, BoundTyped
  <2>3. CheckTyped'
    BY DEF MonitorInv, CheckTyped
  <2>4. EachToldOnce'
    BY DEF MonitorInv, EachToldOnce
  <2>5. BatchKept'
    BY DEF MonitorInv, BatchKept
  <2>6. ReadsKnown'
    BY ReadsFrame DEF MonitorInv, ReadsKnown, HasMints
  <2>7. Claims' = Claims
    BY HeldSame DEF Claims
  <2>8. \A k : CheckedRogues(k)' = CheckedRogues(k)
    BY KioskStays DEF CheckedRogues
  <2>9. ClaimsKnown' /\ SeenWasSaid' /\ AllCounted'
    BY <2>7, <2>8, QuietStays DEF MonitorInv, SayInv
  <2> QED
    BY <2>1, <2>2, <2>3, <2>4, <2>5, <2>6, <2>9 DEF MonitorInv
<1> QED
  BY <1>1, <1>2

\* The inductive invariant of the monitor.
THEOREM MonitorInvariant == MonitorSpec => []MonitorInv
<1>1. MonitorInit => MonitorInv
  BY MonitorStarts, MintAssumption, BoundAssumption
<1>2. MonitorInv /\ [MonitorNext]_monitorVars => MonitorInv'
  BY MonitorSteps, MintAssumption, BoundAssumption
<1> QED
  BY <1>1, <1>2, PTL DEF MonitorSpec

\* Every variable of the monitor has its type.
THEOREM MonitorTypes == MonitorSpec => []MonitorTypeOK
<1>1. MonitorInv => MonitorTypeOK
  BY DEF MonitorInv, EventsTyped, CursorTyped, CheckTyped, BoundTyped, MonitorTypeOK
<1> QED
  BY <1>1, MonitorInvariant, PTL

\* However often an event is delivered, and by whom, the listeners hear of it
\* at most once, and only of what is stored (chainEvents.ts, saveEvent).
THEOREM HeardOnceHolds == MonitorSpec => []HeardOnce
<1>1. MonitorInv => HeardOnce
  BY DEF MonitorInv, EachToldOnce, HeardOnce
<1> QED
  BY <1>1, MonitorInvariant, PTL

\* The indexer's cursor passes no event it has not stored, but for those an RPC
\* node kept from it (logIndexer.ts, setCursor).
THEOREM NothingSkippedHolds == MonitorSpec => []NothingSkipped
<1>1. MonitorInv => NothingSkipped
  BY DEF MonitorInv, BatchKept, NothingSkipped
<1> QED
  BY <1>1, MonitorInvariant, PTL

\* One alert of a kiosk counts all its mints that no signed note stands behind,
\* as long as a check sees them, but for older alerts of the same sum that are
\* out of date (opsMonitor.ts, seenFindings).
THEOREM RoguesAreReportedHolds == MonitorSpec => []RoguesAreReported
<1>1. MonitorInv => RoguesAreReported
  BY DEF MonitorInv, AllCounted, Answered, RoguesAreReported
<1> QED
  BY <1>1, MonitorInvariant, PTL
=============================================================================
