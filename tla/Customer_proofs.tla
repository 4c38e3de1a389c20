-------------------------- MODULE Customer_proofs --------------------------
(***************************************************************************)
(* Closing a position for every set of positions, strategies and requests  *)
(* and every value: IndInv is inductive, so the customer is paid at most   *)
(* once, with the recorded value, and only after the docking.              *)
(***************************************************************************)
EXTENDS AquaClose, CustomerMoney, Sums, SequenceTheorems, TLAPS

PayTx == [status : TxStatus, amount : Value]

\* The null of close_value is no amount.
LEMMA NoValueIsNoValue == NoValue \notin Value
BY ValueAssumption DEF NoValue

\* The payouts of a position are numbered from 1, so no payout is named by the
\* null or the "pending" value of close_tx.
LEMMA PayIndices ==
  ASSUME TypeOK, NEW p \in Position
  PROVE  /\ DOMAIN pay[p] = 1..Len(pay[p])
         /\ Len(pay[p]) \in Nat
         /\ NotSent \notin DOMAIN pay[p] /\ Claimed \notin DOMAIN pay[p]
         /\ \A i \in DOMAIN pay[p] : pay[p][i] \in PayTx
<1>1. pay[p] \in Seq(PayTx)
  BY DEF TypeOK, PayTx
<1>2. DOMAIN pay[p] = 1..Len(pay[p]) /\ Len(pay[p]) \in Nat
  BY <1>1, LenProperties
<1>3. \A i \in 1..Len(pay[p]) : pay[p][i] \in PayTx
  BY <1>1, ElementOfSeq
<1> QED
  BY <1>2, <1>3 DEF NotSent, Claimed

\* A broadcast extends the position's payouts by one pending transaction and
\* leaves every other one as it was.
LEMMA BroadcastExtends ==
  ASSUME TypeOK, NEW r \in Request, NEW p \in Position, Broadcast(r, p), req[r].value \in Value
  PROVE  /\ pay' \in [Position -> Seq(PayTx)]
         /\ \A q \in Position \ {p} : pay'[q] = pay[q]
         /\ DOMAIN pay'[p] = DOMAIN pay[p] \cup {Len(pay[p]) + 1}
         /\ Len(pay[p]) + 1 \notin DOMAIN pay[p]
         /\ \A i \in DOMAIN pay[p] : pay'[p][i] = pay[p][i]
         /\ pay'[p][Len(pay[p]) + 1] = [status |-> "pending", amount |-> req[r].value]
<1> DEFINE new == [status |-> "pending", amount |-> req[r].value]
           longer == Append(pay[p], new)
<1>1. pay[p] \in Seq(PayTx) /\ new \in PayTx
  BY DEF TypeOK, PayTx, TxStatus
<1>2. /\ longer \in Seq(PayTx)
      /\ Len(longer) = Len(pay[p]) + 1
      /\ \A i \in 1..Len(pay[p]) : longer[i] = pay[p][i]
      /\ longer[Len(pay[p]) + 1] = new
  BY <1>1, AppendProperties
<1>3. /\ DOMAIN pay[p] = 1..Len(pay[p]) /\ Len(pay[p]) \in Nat
      /\ DOMAIN longer = 1..Len(longer)
  BY <1>1, <1>2, LenProperties
<1>4. pay' = [pay EXCEPT ![p] = longer]
  BY DEF Broadcast
<1>5. pay \in [Position -> Seq(PayTx)]
  BY DEF TypeOK, PayTx
<1> HIDE DEF longer, new
<1>6. pay'[p] = longer
  BY <1>4, <1>5
<1>7. DOMAIN longer = DOMAIN pay[p] \cup {Len(pay[p]) + 1} /\ Len(pay[p]) + 1 \notin DOMAIN pay[p]
  BY <1>2, <1>3
<1> QED
  BY <1>2, <1>3, <1>4, <1>5, <1>6, <1>7 DEF new

\* Mining settles one pending payout and changes nothing else of any of them.
LEMMA MineSettles ==
  ASSUME TypeOK, NEW p \in Position, Mine(p)
  PROVE  /\ pay' \in [Position -> Seq(PayTx)]
         /\ \A q \in Position : DOMAIN pay'[q] = DOMAIN pay[q]
         /\ \A q \in Position : \A i \in DOMAIN pay[q] :
              /\ pay'[q][i].amount = pay[q][i].amount
              /\ pay[q][i].status # "pending" => pay'[q][i] = pay[q][i]
         /\ \E i \in DOMAIN pay[p] :
              /\ pay[p][i].status = "pending" /\ pay'[p][i].status \in {"success", "reverted"}
              /\ \A j \in DOMAIN pay[p] \ {i} : pay'[p][j] = pay[p][j]
         /\ \A q \in Position \ {p} : pay'[q] = pay[q]
<1>1. PICK i \in DOMAIN pay[p], st \in {"success", "reverted"} :
        pay[p][i].status = "pending" /\ pay' = [pay EXCEPT ![p][i].status = st]
  BY DEF Mine
<1> DEFINE mined == [pay[p][i] EXCEPT !.status = st]
           settled == [pay[p] EXCEPT ![i] = mined]
<1>2. pay \in [Position -> Seq(PayTx)] /\ pay[p] \in Seq(PayTx) /\ pay[p][i] \in PayTx
  BY PayIndices DEF TypeOK, PayTx
<1>3. mined \in PayTx /\ mined.amount = pay[p][i].amount /\ mined.status = st
  BY <1>2 DEF PayTx, TxStatus
<1>4. i \in 1..Len(pay[p])
  BY PayIndices
<1>5. /\ settled \in Seq(PayTx)
      /\ DOMAIN settled = DOMAIN pay[p]
      /\ settled[i] = mined
      /\ \A j \in DOMAIN pay[p] \ {i} : settled[j] = pay[p][j]
  <2> HIDE DEF mined
  <2> QED
    BY <1>2, <1>3, <1>4, ExceptSeq
<1>6. pay' = [pay EXCEPT ![p] = settled]
  BY <1>1
<1> HIDE DEF settled, mined
<1>7. pay'[p] = settled /\ \A q \in Position \ {p} : pay'[q] = pay[q]
  BY <1>2, <1>6
<1> QED
  BY <1>1, <1>2, <1>3, <1>5, <1>6, <1>7

\* Initially every position is open and nothing is paid or claimed.
LEMMA InitIndInv == Init => IndInv
<1> SUFFICES ASSUME Init PROVE IndInv
  OBVIOUS
<1> USE DEF Init, Idle, NotSent, Claimed, NoValue
<1>1. TypeOK
  <2>1. \A p \in Position : Idle(p) \in [pc : Pc, pos : Position, value : Value \cup {NoValue}, hash : Nat, todo : SUBSET Strategy]
    BY DEF Pc
  <2> QED
    BY <2>1 DEF TypeOK
<1>2. \A r \in Request : req[r].pc = "idle"
  OBVIOUS
<1>3. RecordKnows /\ PaidAtMostOnce /\ ClosedIsPaid /\ DockedBeforePaid
  BY DEF RecordKnows, NoneLive, PaidAtMostOnce, ClosedIsPaid, DockedBeforePaid
<1>4. ClaimHeld /\ HashKnown /\ DockingOver
  BY <1>2 DEF ClaimHeld, HashKnown, DockingOver, Sending, Paying
<1>5. ValueKnown
  BY <1>2 DEF ValueKnown, Sending, Paying
<1> QED
  BY <1>1, <1>3, <1>4, <1>5 DEF IndInv

\* One request moves and the others stay where they are.
Requests == [pc : Pc, pos : Position, value : Value \cup {NoValue}, hash : Nat, todo : SUBSET Strategy]

LEMMA OneMoves ==
  ASSUME TypeOK, NEW r \in Request, NEW q \in Requests, GoOn(r, q)
  PROVE  /\ req' \in [Request -> Requests]
         /\ req'[r] = q
         /\ \A o \in Request \ {r} : req'[o] = req[o]
BY DEF TypeOK, GoOn, Requests

LEMMA OneGoes ==
  ASSUME TypeOK, NEW r \in Request, NEW pc \in Pc, Goto(r, pc)
  PROVE  /\ req' \in [Request -> Requests]
         /\ req'[r].pc = pc /\ req'[r].pos = req[r].pos /\ req'[r].value = req[r].value
         /\ req'[r].hash = req[r].hash /\ req'[r].todo = req[r].todo
         /\ \A o \in Request \ {r} : req'[o] = req[o]
<1> DEFINE q == [req[r] EXCEPT !.pc = pc]
<1>1. req[r] \in Requests
  BY DEF TypeOK, Requests
<1>2. /\ q \in Requests /\ q.pc = pc /\ q.pos = req[r].pos /\ q.value = req[r].value
      /\ q.hash = req[r].hash /\ q.todo = req[r].todo
  BY <1>1 DEF Requests
<1>3. GoOn(r, q)
  BY DEF Goto
<1> HIDE DEF q
<1> QED
  BY <1>2, <1>3, OneMoves

\* A request that moves to a step at which it neither holds the claim nor goes by
\* a hash disturbs nothing of what the claim and the hashes say.
LEMMA EarlyMove ==
  ASSUME IndInv, NEW r \in Request,
         req' \in [Request -> Requests],
         \A o \in Request \ {r} : req'[o] = req[o],
         req'[r].pc \in {"idle", "value", "claim", "read", "dock", "step", "payclaim"},
         req'[r].pc \in Hashless => req'[r].hash = NotSent,
         UNCHANGED <<closeTx, pay>>
  PROVE  RecordKnows' /\ PaidAtMostOnce' /\ ClaimHeld' /\ HashKnown'
<1>1. RecordKnows' /\ PaidAtMostOnce'
  BY DEF IndInv, RecordKnows, NoneLive, OnlyLive, Live, PaidAtMostOnce
<1>2. ClaimHeld'
  <2> SUFFICES ASSUME NEW o \in Request, req'[o].pc \in Sending
               PROVE  /\ closeTx'[req'[o].pos] = Claimed
                      /\ \A q \in Request :
                           req'[q].pc \in Sending /\ req'[q].pos = req'[o].pos => q = o
                      /\ IF req'[o].pc = "store" THEN OnlyLive(req[o].pos, req[o].hash)'
                                                 ELSE NoneLive(req[o].pos)'
    BY DEF ClaimHeld
  <2>1. o # r /\ req'[o] = req[o]
    BY DEF Sending
  <2>2. \A q \in Request : req'[q].pc \in Sending => req'[q] = req[q]
    BY DEF Sending
  <2> QED
    BY <2>1, <2>2 DEF IndInv, ClaimHeld, OnlyLive, NoneLive, Live
<1>3. HashKnown'
  BY DEF IndInv, HashKnown, Live, Hashless
<1> QED
  BY <1>1, <1>2, <1>3

\* So does one that goes to the end with nothing to pay.
LEMMA FinishMove ==
  ASSUME IndInv, NEW r \in Request,
         req' \in [Request -> Requests],
         \A o \in Request \ {r} : req'[o] = req[o],
         req'[r].pc = "finish", req'[r].value = 0, req'[r].hash = NotSent,
         UNCHANGED <<closeTx, pay>>
  PROVE  RecordKnows' /\ PaidAtMostOnce' /\ ClaimHeld' /\ HashKnown'
<1>1. RecordKnows' /\ PaidAtMostOnce'
  BY DEF IndInv, RecordKnows, NoneLive, OnlyLive, Live, PaidAtMostOnce
<1>2. \A q \in Request : req'[q].pc \in Sending => q # r /\ req'[q] = req[q]
  BY DEF Sending
<1>3. ClaimHeld'
  BY <1>2 DEF IndInv, ClaimHeld, OnlyLive, NoneLive, Live
<1>4. HashKnown'
  BY DEF IndInv, HashKnown, Live, Hashless
<1> QED
  BY <1>1, <1>3, <1>4

\* A request that throws leaves nothing of its own behind.
LEMMA StopsKeeps ==
  ASSUME IndInv, NEW r \in Request, Stops(r),
         UNCHANGED <<status, closeValue, closeTx, shipped, pay>>
  PROVE  IndInv'
<1> USE DEF IndInv
<1>1. Idle(req[r].pos) \in Requests /\ Idle(req[r].pos).pc = "idle"
  BY DEF TypeOK, Idle, Pc, NotSent, Requests
<1>2. /\ req' \in [Request -> Requests] /\ req'[r].pc = "idle"
      /\ \A o \in Request \ {r} : req'[o] = req[o]
  BY <1>1, OneMoves DEF Stops
<1>3. TypeOK'
  BY <1>2 DEF TypeOK, Requests
<1>4. RecordKnows' /\ PaidAtMostOnce' /\ ClaimHeld' /\ HashKnown'
  BY <1>2, EarlyMove DEF Hashless
<1>5. ClosedIsPaid' /\ DockedBeforePaid'
  BY DEF ClosedIsPaid, DockedBeforePaid
<1>6. ValueKnown' /\ DockingOver'
  BY <1>2 DEF ValueKnown, DockingOver, Paying, Sending
<1> QED
  BY <1>3, <1>4, <1>5, <1>6

\* Reading the row, taking the value and claiming the position.
LEMMA ClaimStep ==
  ASSUME IndInv, NEW r \in Request, NEW p \in Position,
         Begin(r, p) \/ TakeValue(r, p) \/ ClaimPosition(r, p)
  PROVE  IndInv'
<1> USE DEF IndInv, At
<1>1. CASE Begin(r, p)
  <2> USE <1>1 DEF Begin, Idle, ResumeAt
  <2>1. PICK q \in Requests :
          /\ GoOn(r, q) /\ q.pos = p /\ q.hash = NotSent
          /\ \/ status[p] = "open" /\ q.pc = "value"
             \/ q.pc = "read" /\ q.value = closeValue[p] /\ q.value # NoValue
    <3>1. CASE status[p] = "open"
      <4> DEFINE q == [Idle(p) EXCEPT !.pc = "value"]
      <4>1. q \in Requests /\ q.pos = p /\ q.pc = "value" /\ q.hash = NotSent /\ GoOn(r, q)
        BY <3>1 DEF Requests, Pc, NotSent
      <4> QED
        BY <4>1, <3>1
    <3>2. CASE status[p] = "closing" /\ closeValue[p] # NoValue
      <4> DEFINE q == [Idle(p) EXCEPT !.pc = "read", !.value = closeValue[p]]
      <4>1. q \in Requests /\ q.pos = p /\ q.pc = "read" /\ q.value = closeValue[p] /\ q.hash = NotSent /\ GoOn(r, q)
        BY <3>2 DEF Requests, Pc, NotSent, TypeOK
      <4> QED
        BY <4>1, <3>2
    <3> QED
      BY <3>1, <3>2
  <2>2. /\ req' \in [Request -> Requests] /\ req'[r] = q
        /\ \A o \in Request \ {r} : req'[o] = req[o]
    BY <2>1, OneMoves
  <2>3. TypeOK'
    BY <2>2 DEF TypeOK, Requests
  <2>4. ClosedIsPaid' /\ DockedBeforePaid'
    BY DEF ClosedIsPaid, DockedBeforePaid
  <2>5. RecordKnows' /\ PaidAtMostOnce' /\ ClaimHeld' /\ HashKnown'
    BY <2>1, <2>2, EarlyMove
  <2>6. ValueKnown'
    BY <2>1, <2>2 DEF ValueKnown, Paying, Sending
  <2>7. DockingOver'
    BY <2>1, <2>2 DEF DockingOver, Paying, Sending
  <2> QED
    BY <2>3, <2>4, <2>5, <2>6, <2>7
<1>2. CASE TakeValue(r, p)
  <2> USE <1>2 DEF TakeValue
  <2>1. PICK q \in Requests : GoOn(r, q) /\ q.pos = p /\ q.pc = "claim" /\ q.value \in Value /\ q.hash = NotSent
    <3>1. PICK v \in Value : GoOn(r, [req[r] EXCEPT !.pc = "claim", !.value = v])
      OBVIOUS
    <3> DEFINE q == [req[r] EXCEPT !.pc = "claim", !.value = v]
    <3>2. q \in Requests /\ q.pos = p /\ q.pc = "claim" /\ q.value \in Value /\ q.hash = NotSent
      BY DEF TypeOK, Requests, Pc, HashKnown, Hashless
    <3> QED
      BY <3>1, <3>2
  <2>2. /\ req' \in [Request -> Requests] /\ req'[r] = q
        /\ \A o \in Request \ {r} : req'[o] = req[o]
    BY <2>1, OneMoves
  <2>3. TypeOK'
    BY <2>2 DEF TypeOK, Requests
  <2>4. ClosedIsPaid' /\ DockedBeforePaid'
    BY DEF ClosedIsPaid, DockedBeforePaid
  <2>5. RecordKnows' /\ PaidAtMostOnce' /\ ClaimHeld' /\ HashKnown'
    BY <2>1, <2>2, EarlyMove
  <2>6. ValueKnown' /\ DockingOver'
    <3>1. q.value # NoValue
      BY <2>1, NoValueIsNoValue
    <3>2. ValueKnown'
      BY <2>1, <2>2, <3>1 DEF ValueKnown, Paying, Sending
    <3>3. DockingOver'
      BY <2>1, <2>2 DEF DockingOver, Paying, Sending
    <3> QED
      BY <3>2, <3>3
  <2> QED
    BY <2>3, <2>4, <2>5, <2>6
<1>3. CASE ClaimPosition(r, p)
  <2> USE <1>3 DEF ClaimPosition, MayClaim
  <2>1. req[r].value \in Value /\ req[r].value # NoValue
    BY DEF ValueKnown, TypeOK
  <2>2. /\ req' \in [Request -> Requests]
        /\ req'[r].pc = "read" /\ req'[r].pos = p /\ req'[r].value = req[r].value
        /\ req'[r].hash = NotSent
        /\ \A o \in Request \ {r} : req'[o] = req[o]
    BY OneGoes DEF Pc, HashKnown, Hashless
  <2>3. TypeOK'
    BY <2>1, <2>2 DEF TypeOK, Requests
  <2>4. status'[p] = "closing" /\ closeValue'[p] = req[r].value
    BY DEF TypeOK
  <2>5. ClosedIsPaid' /\ DockedBeforePaid'
    BY DEF ClosedIsPaid, DockedBeforePaid, TypeOK
  <2>6. RecordKnows' /\ PaidAtMostOnce' /\ ClaimHeld' /\ HashKnown'
    BY <2>2, EarlyMove
  <2>7. pay[p] = <<>> /\ closeTx[p] = NotSent
    BY DEF ValueKnown
  <2>8. \A o \in Request : req[o].pos = p => req[o].pc \in {"idle", "value", "claim"}
    BY DEF ValueKnown
  <2>9. ValueKnown'
    <3>1. \A o \in Position : /\ status'[o] = "open" <=> closeValue'[o] = NoValue
                              /\ closeValue'[o] \in {NoValue, 0} => pay'[o] = <<>> /\ closeTx'[o] = NotSent
                              /\ \A i \in DOMAIN pay'[o] : pay'[o][i].amount = closeValue'[o]
      BY <2>1, <2>4, <2>7 DEF ValueKnown, TypeOK
    <3>2. /\ closeValue'[p] = req[r].value
          /\ \A x \in Position \ {p} : closeValue'[x] = closeValue[x]
          /\ \A o \in Request : req[o].pos \in Position
      BY DEF TypeOK
    <3>3. \A o \in Request :
            /\ req'[o].pc = "claim" => req'[o].value # NoValue
            /\ req'[o].pc \notin {"idle", "value", "claim"} =>
                 closeValue'[req'[o].pos] = req'[o].value /\ req'[o].value # NoValue
            /\ req'[o].pc \in Paying => req'[o].value # 0
      <4> SUFFICES ASSUME NEW o \in Request
                   PROVE  /\ req'[o].pc = "claim" => req'[o].value # NoValue
                          /\ req'[o].pc \notin {"idle", "value", "claim"} =>
                               closeValue'[req'[o].pos] = req'[o].value /\ req'[o].value # NoValue
                          /\ req'[o].pc \in Paying => req'[o].value # 0
        OBVIOUS
      <4>1. CASE o = r
        BY <4>1, <2>1, <2>2, <3>2 DEF Paying, Sending
      <4>2. CASE o # r
        <5>1. req'[o] = req[o]
          BY <4>2, <2>2
        <5>2. req[o].pos = p => req[o].pc \in {"idle", "value", "claim"}
          BY <2>8
        <5> QED
          BY <5>1, <5>2, <3>2 DEF ValueKnown, Paying, Sending
      <4> QED
        BY <4>1, <4>2
    <3> QED
      BY <3>1, <3>3 DEF ValueKnown
  <2>10. DockingOver'
    BY <2>2 DEF DockingOver, Paying, Sending
  <2> QED
    BY <2>3, <2>5, <2>6, <2>9, <2>10
<1> QED
  BY <1>1, <1>2, <1>3

\* Docking: what it leaves shipped is never more than before, and nothing when it
\* ends well.
LEMMA DockStep ==
  ASSUME IndInv, NEW r \in Request, NEW p \in Position,
         ReadShipped(r, p) \/ DockRemaining(r, p) \/ DockFails(r, p)
  PROVE  IndInv'
<1> USE DEF IndInv, At
<1>1. CASE ReadShipped(r, p)
  <2> USE <1>1 DEF ReadShipped
  <2>1. PICK q \in Requests :
          /\ GoOn(r, q) /\ q.pos = p /\ q.pc = "dock" /\ q.value = req[r].value
          /\ q.hash = NotSent /\ shipped[p] \subseteq q.todo
    <3>0. PICK behind \in SUBSET Strategy :
            GoOn(r, [req[r] EXCEPT !.pc = "dock", !.todo = shipped[p] \cup behind])
      OBVIOUS
    <3> DEFINE q == [req[r] EXCEPT !.pc = "dock", !.todo = shipped[p] \cup behind]
    <3>1. /\ q \in Requests /\ q.pos = p /\ q.pc = "dock" /\ q.value = req[r].value
          /\ q.hash = NotSent /\ shipped[p] \subseteq q.todo /\ GoOn(r, q)
      BY <3>0 DEF TypeOK, Requests, Pc, HashKnown, Hashless
    <3> QED
      BY <3>1
  <2>2. /\ req' \in [Request -> Requests] /\ req'[r] = q
        /\ \A o \in Request \ {r} : req'[o] = req[o]
    BY <2>1, OneMoves
  <2>3. TypeOK'
    BY <2>2 DEF TypeOK, Requests
  <2>4. ClosedIsPaid' /\ DockedBeforePaid'
    BY DEF ClosedIsPaid, DockedBeforePaid
  <2>5. RecordKnows' /\ PaidAtMostOnce' /\ ClaimHeld' /\ HashKnown'
    BY <2>1, <2>2, EarlyMove
  <2>6. ValueKnown'
    <3>1. /\ UNCHANGED <<status, closeValue, closeTx, pay>> /\ req[r].pos = p /\ req[r].pc = "read"
          /\ req'[r].pos = req[r].pos /\ req'[r].value = req[r].value /\ req'[r].pc = "dock"
      BY <2>1, <2>2
    <3> HIDE <1>1 DEF ReadShipped
    <3> QED
      BY <2>2, <3>1 DEF ValueKnown, Paying, Sending
  <2>7. DockingOver'
    BY <2>1, <2>2 DEF DockingOver, Paying, Sending
  <2> QED
    BY <2>3, <2>4, <2>5, <2>6, <2>7
<1>2. CASE DockRemaining(r, p)
  <2> USE <1>2 DEF DockRemaining
  <2>1. /\ req' \in [Request -> Requests]
        /\ req'[r].pc = AfterDock(r) /\ req'[r].pos = p /\ req'[r].value = req[r].value
        /\ req'[r].hash = NotSent
        /\ \A o \in Request \ {r} : req'[o] = req[o]
    <3>1. AfterDock(r) \in Pc /\ req[r].hash = NotSent
      BY DEF AfterDock, Pc, HashKnown, Hashless
    <3> QED
      BY <3>1, OneGoes
  <2>2. TypeOK'
    BY <2>1 DEF TypeOK, Requests
  <2>3. shipped'[p] = {} /\ \A o \in Position : shipped'[o] \subseteq shipped[o]
    BY DEF TypeOK, DockingOver
  <2>4. ClosedIsPaid' /\ DockedBeforePaid'
    BY <2>3 DEF ClosedIsPaid, DockedBeforePaid
  <2>5. RecordKnows' /\ PaidAtMostOnce' /\ ClaimHeld' /\ HashKnown'
    <3>1. CASE req[r].value # 0
      BY <2>1, <3>1, EarlyMove DEF AfterDock, Hashless
    <3>2. CASE req[r].value = 0
      BY <2>1, <3>2, FinishMove DEF AfterDock
    <3> QED
      BY <3>1, <3>2
  <2>6. ValueKnown'
    BY <2>1 DEF ValueKnown, Paying, Sending, AfterDock
  <2>7. DockingOver'
    <3>1. \A o \in Request : req[o].pos \in Position
      BY DEF TypeOK
    <3> QED
      BY <2>1, <2>3, <3>1 DEF DockingOver, AfterDock, Paying, Sending
  <2> QED
    BY <2>2, <2>4, <2>5, <2>6, <2>7
<1>3. CASE DockFails(r, p)
  <2> USE <1>3 DEF DockFails
  <2>1. /\ shipped' \in [Position -> SUBSET Strategy]
        /\ \A o \in Position : shipped'[o] \subseteq shipped[o]
    BY DEF TypeOK
  <2>2. Idle(req[r].pos) \in Requests /\ Idle(req[r].pos).pc = "idle"
    BY DEF TypeOK, Idle, Pc, NotSent, Requests
  <2>3. /\ req' \in [Request -> Requests] /\ req'[r].pc = "idle"
        /\ \A o \in Request \ {r} : req'[o] = req[o]
    BY <2>2, OneMoves DEF Stops
  <2>4. TypeOK'
    BY <2>1, <2>3 DEF TypeOK, Requests
  <2>5. ClosedIsPaid' /\ DockedBeforePaid'
    BY <2>1 DEF ClosedIsPaid, DockedBeforePaid
  <2>6. RecordKnows' /\ PaidAtMostOnce' /\ ClaimHeld' /\ HashKnown'
    BY <2>3, EarlyMove DEF Hashless
  <2>7. ValueKnown'
    BY <2>3 DEF ValueKnown, Paying, Sending
  <2>8. DockingOver'
    <3>1. \A o \in Request : req[o].pos \in Position
      BY DEF TypeOK
    <3> QED
      BY <2>1, <2>3, <3>1 DEF DockingOver, Paying, Sending
  <2> QED
    BY <2>4, <2>5, <2>6, <2>7, <2>8
<1> QED
  BY <1>1, <1>2, <1>3

\* A step of payOut keeps the recorded value, in the row, the requests and on
\* chain, and finds everything docked.
LEMMA PayMove ==
  ASSUME IndInv, NEW r \in Request, NEW p \in Position, At(r, req[r].pc, p), req[r].pc \in Paying,
         req' \in [Request -> Requests],
         \A o \in Request \ {r} : req'[o] = req[o],
         \/ req'[r].pc = "idle"
         \/ req'[r].pc \in Paying \cup {"finish"} /\ req'[r].pos = p /\ req'[r].value = req[r].value,
         UNCHANGED <<status, closeValue, shipped>>,
         \A o \in Position \ {p} : pay'[o] = pay[o] /\ closeTx'[o] = closeTx[o],
         \A i \in DOMAIN pay'[p] : pay'[p][i].amount = req[r].value
  PROVE  ValueKnown' /\ DockingOver' /\ DockedBeforePaid'
<1> USE DEF IndInv, At
<1>1. /\ closeValue[p] = req[r].value /\ req[r].value \notin {NoValue, 0}
      /\ shipped[p] = {}
  BY DEF ValueKnown, DockingOver, Paying, Sending
<1>2. ValueKnown'
  <2>1. \A o \in Position :
          /\ status'[o] = "open" <=> closeValue'[o] = NoValue
          /\ closeValue'[o] \in {NoValue, 0} => pay'[o] = <<>> /\ closeTx'[o] = NotSent
          /\ \A i \in DOMAIN pay'[o] : pay'[o][i].amount = closeValue'[o]
    BY <1>1 DEF ValueKnown
  <2>2. \A o \in Request :
          /\ req'[o].pc = "claim" => req'[o].value # NoValue
          /\ req'[o].pc \notin {"idle", "value", "claim"} =>
               closeValue'[req'[o].pos] = req'[o].value /\ req'[o].value # NoValue
          /\ req'[o].pc \in Paying => req'[o].value # 0
    BY <1>1 DEF ValueKnown, Paying, Sending
  <2> QED
    BY <2>1, <2>2 DEF ValueKnown
<1>3. DockingOver'
  BY <1>1 DEF DockingOver, Paying, Sending
<1>4. DockedBeforePaid'
  BY <1>1 DEF DockedBeforePaid
<1> QED
  BY <1>2, <1>3, <1>4

\* payOut reading the row, the receipt and the estimate.
LEMMA PayReadStep ==
  ASSUME IndInv, NEW r \in Request, NEW p \in Position,
         PayoutStep(r, p) \/ Verify(r, p) \/ EstimateReverts(r, p) \/ WaitPayout(r, p)
  PROVE  IndInv'
<1> USE DEF IndInv, At
<1>1. /\ UNCHANGED <<status, closeValue, closeTx, shipped, pay>>
      /\ req[r].pos = p /\ req[r].pc \in Paying
  BY DEF PayoutStep, Verify, EstimateReverts, WaitPayout, Paying, Sending
<1>2. /\ \A i \in DOMAIN pay[p] : pay[p][i] \in PayTx
      /\ NotSent \notin DOMAIN pay[p] /\ Claimed \notin DOMAIN pay[p]
  BY PayIndices
<1>3. /\ req' \in [Request -> Requests]
      /\ \A o \in Request \ {r} : req'[o] = req[o]
      /\ req'[r].pos = p /\ req'[r].value = req[r].value
      /\ \/ req'[r].pc = "payclaim"
         \/ /\ req'[r].pc = "verify" /\ req'[r].hash \in DOMAIN pay[p] /\ closeTx[p] = req'[r].hash
         \/ /\ req[r].pc = "verify" /\ req'[r].hash = req[r].hash
            /\ \/ req'[r].pc = "wait"
               \/ req'[r].pc = "finish" /\ pay[p][req[r].hash].status = "success"
               \/ req'[r].pc = "clear" /\ ~Live(p, req[r].hash)
         \/ req[r].pc = "send" /\ req'[r].pc = "release" /\ req'[r].hash = req[r].hash
         \/ /\ req[r].pc = "wait" /\ req'[r].pc = "finish" /\ req'[r].hash = req[r].hash
            /\ pay[p][req[r].hash].status = "success"
  <2>1. CASE PayoutStep(r, p)
    <3> USE <2>1 DEF PayoutStep
    <3>1. CASE Goto(r, "payclaim")
      BY <1>1, <3>1, OneGoes DEF Pc
    <3>2. CASE closeTx[p] \notin {NotSent, Claimed} /\ GoOn(r, [req[r] EXCEPT !.pc = "verify", !.hash = closeTx[p]])
      <4> DEFINE q == [req[r] EXCEPT !.pc = "verify", !.hash = closeTx[p]]
      <4>1. closeTx[p] \in DOMAIN pay[p]
        BY <3>2 DEF RecordKnows, OnlyLive
      <4>2. /\ q \in Requests /\ q.pos = p /\ q.pc = "verify" /\ q.value = req[r].value
            /\ q.hash = closeTx[p]
        BY <3>2 DEF TypeOK, Requests, Pc
      <4> HIDE DEF q
      <4>3. req' \in [Request -> Requests] /\ req'[r] = q /\ \A o \in Request \ {r} : req'[o] = req[o]
        BY <3>2, <4>2, OneMoves DEF q
      <4> QED
        BY <4>1, <4>2, <4>3
    <3> QED
      BY <3>1, <3>2
  <2>2. CASE Verify(r, p)
    <3>1. pay[p][req[r].hash].status \in TxStatus
      BY <2>2, <1>2 DEF Verify, HashKnown, PayTx
    <3>2. /\ AfterReceipt(pay[p][req[r].hash].status) \in {"wait", "finish", "clear"}
          /\ AfterReceipt(pay[p][req[r].hash].status) = "finish" => pay[p][req[r].hash].status = "success"
          /\ AfterReceipt(pay[p][req[r].hash].status) = "clear" => ~Live(p, req[r].hash)
      BY <3>1 DEF AfterReceipt, TxStatus, Live
    <3> QED
      BY <2>2, <3>2, OneGoes DEF Verify, Pc
  <2>3. CASE EstimateReverts(r, p)
    BY <2>3, OneGoes DEF EstimateReverts, Pc
  <2>4. CASE WaitPayout(r, p)
    BY <2>4, OneGoes DEF WaitPayout, Pc
  <2> QED
    BY <2>1, <2>2, <2>3, <2>4
<1>4. TypeOK'
  BY <1>1, <1>3 DEF TypeOK, Requests
<1>5. RecordKnows' /\ PaidAtMostOnce' /\ ClosedIsPaid'
  BY <1>1 DEF RecordKnows, NoneLive, OnlyLive, Live, PaidAtMostOnce, ClosedIsPaid
<1>6. ClaimHeld'
  BY <1>1, <1>3 DEF ClaimHeld, NoneLive, OnlyLive, Live, Sending
<1>7. HashKnown'
  BY <1>1, <1>3 DEF HashKnown, Live, ValueKnown, Hashless, Paying, Sending
<1>8. ValueKnown' /\ DockingOver' /\ DockedBeforePaid'
  <2>1. req'[r].pc \in Paying \cup {"finish"}
    BY <1>3 DEF Paying, Sending
  <2>2. \A i \in DOMAIN pay'[p] : pay'[p][i].amount = req[r].value
    BY <1>1 DEF ValueKnown, Paying, Sending
  <2> QED
    BY <1>1, <1>3, <2>1, <2>2, PayMove
<1> QED
  BY <1>4, <1>5, <1>6, <1>7, <1>8

\* The claims of the requests on other positions are not disturbed by a step on p.
LEMMA OthersHold ==
  ASSUME IndInv, NEW r \in Request, NEW p \in Position,
         \A o \in Request \ {r} : req'[o] = req[o],
         \A o \in Request \ {r} : req[o].pos = p => req[o].pc \notin Sending,
         req'[r].pc \in Sending => req'[r].pos = p,
         req'[r].pc \in Sending => /\ closeTx'[p] = Claimed
                                   /\ IF req'[r].pc = "store" THEN OnlyLive(p, req[r].hash)'
                                                              ELSE NoneLive(p)',
         \A o \in Position \ {p} : pay'[o] = pay[o] /\ closeTx'[o] = closeTx[o]
  PROVE  ClaimHeld'
<1> SUFFICES ASSUME NEW o \in Request, req'[o].pc \in Sending
             PROVE  /\ closeTx'[req'[o].pos] = Claimed
                    /\ \A q \in Request :
                         req'[q].pc \in Sending /\ req'[q].pos = req'[o].pos => q = o
                    /\ IF req'[o].pc = "store" THEN OnlyLive(req[o].pos, req[o].hash)'
                                               ELSE NoneLive(req[o].pos)'
  BY DEF ClaimHeld
<1>1. CASE o = r
  BY <1>1 DEF OnlyLive, NoneLive, Live
<1>2. CASE o # r
  <2>1. req'[o] = req[o] /\ req[o].pos \in Position /\ req[o].pos # p
    BY <1>2 DEF IndInv, TypeOK
  <2>2. /\ closeTx[req[o].pos] = Claimed
        /\ \A q \in Request : req[q].pc \in Sending /\ req[q].pos = req[o].pos => q = o
        /\ IF req[o].pc = "store" THEN OnlyLive(req[o].pos, req[o].hash) ELSE NoneLive(req[o].pos)
    BY <2>1 DEF IndInv, ClaimHeld
  <2>3. /\ closeTx'[req'[o].pos] = Claimed
        /\ \A q \in Request : req'[q].pc \in Sending /\ req'[q].pos = req'[o].pos => q = o
    BY <2>1, <2>2
  <2>4. pay'[req[o].pos] = pay[req[o].pos]
    BY <2>1
  <2>5. IF req'[o].pc = "store" THEN OnlyLive(req[o].pos, req[o].hash)' ELSE NoneLive(req[o].pos)'
    BY <2>1, <2>2, <2>4 DEF OnlyLive, NoneLive, Live
  <2> QED
    BY <2>3, <2>5
<1> QED
  BY <1>1, <1>2

\* Nor are any by a step that leaves the rows and the chain alone.
LEMMA ClaimUntouched ==
  ASSUME IndInv, NEW r \in Request,
         \A o \in Request \ {r} : req'[o] = req[o],
         req'[r].pc \notin Sending,
         UNCHANGED pay,
         \A o \in Position : closeTx'[o] = closeTx[o]
  PROVE  ClaimHeld'
<1>1. \A o \in Request : req[o].pos \in Position
  BY DEF IndInv, TypeOK
<1>2. \A o \in Request : req'[o].pc \in Sending => o # r /\ req'[o] = req[o]
  OBVIOUS
<1> QED
  BY <1>1, <1>2 DEF IndInv, ClaimHeld, OnlyLive, NoneLive, Live

\* payOut claiming the payout, clearing a reverted hash, recording a new one, and
\* giving the claim back: the row's hash goes on saying what is out.
LEMMA PayRowStep ==
  ASSUME IndInv, NEW r \in Request, NEW p \in Position,
         ClearReverted(r, p) \/ ClaimPayout(r, p) \/ ReleaseClaim(r, p) \/ StoreHash(r, p)
  PROVE  IndInv'
<1> USE DEF IndInv, At
<1>1. /\ UNCHANGED <<status, closeValue, shipped, pay>>
      /\ req[r].pos = p /\ req[r].pc \in Paying
  BY DEF ClearReverted, ClaimPayout, ReleaseClaim, StoreHash, Paying, Sending
<1>2. /\ \A i \in DOMAIN pay[p] : pay[p][i] \in PayTx
      /\ NotSent \notin DOMAIN pay[p] /\ Claimed \notin DOMAIN pay[p]
  BY PayIndices
<1>3. status[p] = "closed" => closeTx[p] \in DOMAIN pay[p] /\ Live(p, closeTx[p])
  <2>1. closeValue[p] # 0
    BY <1>1 DEF ValueKnown, Paying, Sending
  <2>2. status[p] = "closed" =>
          closeTx[p] \in DOMAIN pay[p] /\ pay[p][closeTx[p]] = [status |-> "success", amount |-> closeValue[p]]
    BY <2>1 DEF ClosedIsPaid
  <2>3. status[p] = "closed" => pay[p][closeTx[p]].status = "success"
    BY <2>2
  <2> QED
    BY <2>2, <2>3 DEF Live
<1>4. closeTx \in [Position -> Nat \cup {Claimed}]
  BY DEF TypeOK
<1>5. \A o \in Position \ {p} : closeTx'[o] = closeTx[o] /\ pay'[o] = pay[o]
  BY <1>1, <1>4 DEF ClearReverted, ClaimPayout, ReleaseClaim, StoreHash
<1>6. /\ req' \in [Request -> Requests]
      /\ \A o \in Request \ {r} : req'[o] = req[o]
      /\ \/ req'[r].pc = "idle"
         \/ req'[r].pc \in Paying /\ req'[r].pos = p /\ req'[r].value = req[r].value
  <2>1. CASE ReleaseClaim(r, p)
    <3>1. Idle(req[r].pos) \in Requests /\ Idle(req[r].pos).pc = "idle"
      BY DEF TypeOK, Idle, Pc, NotSent, Requests
    <3> QED
      BY <2>1, <3>1, OneMoves DEF ReleaseClaim, Stops
  <2>2. CASE ClearReverted(r, p) \/ ClaimPayout(r, p) \/ StoreHash(r, p)
    BY <2>2, <1>1, OneGoes DEF ClearReverted, ClaimPayout, StoreHash, Pc, Paying, Sending
  <2> QED
    BY <2>1, <2>2
<1>7. ValueKnown' /\ DockingOver' /\ DockedBeforePaid'
  <2>1. \A i \in DOMAIN pay'[p] : pay'[p][i].amount = req[r].value
    BY <1>1 DEF ValueKnown, Paying, Sending
  <2> QED
    BY <1>1, <1>5, <1>6, <2>1, PayMove
<1>8. PaidAtMostOnce'
  BY <1>1 DEF PaidAtMostOnce
<1>9. CASE ClearReverted(r, p)
  <2> USE <1>9 DEF ClearReverted, ClearsOwn
  <2>1. req'[r].pc = "payclaim" /\ ~Live(p, req[r].hash) /\ req[r].hash \in DOMAIN pay[p]
    BY <1>1, OneGoes DEF Pc, HashKnown
  <2>2. closeTx'[p] = closeTx[p] \/ (closeTx'[p] = NotSent /\ closeTx[p] = req[r].hash)
    BY <1>4
  <2>3. TypeOK'
    BY <1>1, <1>4, <1>6 DEF TypeOK, Requests, NotSent
  <2>4. RecordKnows'
    BY <1>1, <1>2, <1>5, <2>1, <2>2 DEF RecordKnows, NoneLive, OnlyLive, Live
  <2>5. ClosedIsPaid'
    BY <1>1, <1>3, <1>5, <2>1, <2>2 DEF ClosedIsPaid, Live
  <2>6. ClaimHeld'
    <3>1. \A o \in Request : req[o].pc \in Sending => req[o].pos # p \/ closeTx[p] # req[r].hash
      BY <1>2, <2>1 DEF ClaimHeld
    <3>2. CASE closeTx'[p] = closeTx[p]
      BY <1>1, <1>4, <1>5, <1>6, <2>1, <3>2, ClaimUntouched DEF Sending
    <3>3. CASE closeTx[p] = req[r].hash
      BY <1>5, <1>6, <2>1, <3>1, <3>3, OthersHold DEF Sending
    <3> QED
      BY <2>2, <3>2, <3>3
  <2>7. HashKnown'
    BY <1>1, <1>2, <1>5, <1>6, <2>1, <2>2 DEF HashKnown, Live, Hashless
  <2> QED
    BY <1>7, <1>8, <2>3, <2>4, <2>5, <2>6, <2>7
<1>10. CASE ClaimPayout(r, p)
  <2> USE <1>10 DEF ClaimPayout, Sendable
  <2>1. req'[r].pc = "send" /\ req'[r].pos = p
    BY <1>1, OneGoes DEF Pc
  <2>2. closeTx'[p] = Claimed /\ closeTx[p] = NotSent /\ NoneLive(p)
    BY <1>4 DEF RecordKnows
  <2>3. TypeOK'
    BY <1>1, <1>4, <1>6 DEF TypeOK, Requests
  <2>4. RecordKnows'
    BY <1>1, <1>5, <2>2 DEF RecordKnows, NoneLive, OnlyLive, Live, NotSent, Claimed
  <2>5. ClosedIsPaid'
    BY <1>1, <1>2, <1>3, <1>5, <2>2 DEF ClosedIsPaid
  <2>6. ClaimHeld'
    <3>1. \A o \in Request : req[o].pc \in Sending => req[o].pos # p
      BY <2>2 DEF ClaimHeld, NotSent, Claimed
    <3>2. NoneLive(p)'
      BY <1>1, <2>2 DEF NoneLive, Live
    <3> QED
      BY <1>5, <1>6, <2>1, <2>2, <3>1, <3>2, OthersHold
  <2>7. HashKnown'
    BY <1>1, <1>2, <1>5, <1>6, <2>1, <2>2 DEF HashKnown, Live, Hashless, NoneLive
  <2> QED
    BY <1>7, <1>8, <2>3, <2>4, <2>5, <2>6, <2>7
<1>11. CASE ReleaseClaim(r, p)
  <2> USE <1>11 DEF ReleaseClaim
  <2>1. closeTx'[p] = NotSent /\ closeTx[p] = Claimed /\ NoneLive(p)
    BY <1>4 DEF ClaimHeld, Sending
  <2>2. \A o \in Request \ {r} : req[o].pos = p => req[o].pc \notin Sending
    BY <1>1 DEF ClaimHeld, Sending
  <2>3. req'[r].pc = "idle"
    <3>1. Idle(req[r].pos) \in Requests /\ Idle(req[r].pos).pc = "idle"
      BY DEF TypeOK, Idle, Pc, NotSent, Requests
    <3> QED
      BY <3>1, OneMoves DEF Stops
  <2>4. TypeOK'
    BY <1>1, <1>4, <1>6 DEF TypeOK, Requests, NotSent
  <2>5. RecordKnows'
    BY <1>1, <1>5, <2>1 DEF RecordKnows, NoneLive, OnlyLive, Live
  <2>6. ClosedIsPaid'
    BY <1>1, <1>2, <1>3, <1>5, <2>1 DEF ClosedIsPaid
  <2>7. ClaimHeld'
    BY <1>5, <1>6, <2>2, <2>3, OthersHold DEF Sending
  <2>8. HashKnown'
    BY <1>1, <1>2, <1>5, <1>6, <2>1, <2>3 DEF HashKnown, Live, Hashless, NoneLive
  <2> QED
    BY <1>7, <1>8, <2>4, <2>5, <2>6, <2>7, <2>8
<1>12. CASE StoreHash(r, p)
  <2> USE <1>12 DEF StoreHash
  <2>1. closeTx'[p] = req[r].hash /\ closeTx[p] = Claimed /\ OnlyLive(p, req[r].hash)
    BY <1>1, <1>4 DEF ClaimHeld, Sending
  <2>2. \A o \in Request \ {r} : req[o].pos = p => req[o].pc \notin Sending
    BY <1>1 DEF ClaimHeld, Sending
  <2>3. req'[r].pc = "wait" /\ req'[r].hash = req[r].hash /\ req'[r].pos = p
    BY <1>1, OneGoes DEF Pc
  <2>4. TypeOK'
    BY <1>1, <1>4, <1>6 DEF TypeOK, Requests
  <2>5. RecordKnows'
    BY <1>1, <1>2, <1>5, <2>1 DEF RecordKnows, NoneLive, OnlyLive, Live
  <2>6. ClosedIsPaid'
    BY <1>1, <1>2, <1>3, <1>5, <2>1 DEF ClosedIsPaid
  <2>7. ClaimHeld'
    BY <1>5, <1>6, <2>2, <2>3, OthersHold DEF Sending
  <2>8. HashKnown'
    BY <1>1, <1>2, <1>5, <1>6, <2>1, <2>3 DEF HashKnown, Live, Hashless, OnlyLive
  <2> QED
    BY <1>7, <1>8, <2>4, <2>5, <2>6, <2>7, <2>8
<1> QED
  BY <1>9, <1>10, <1>11, <1>12

\* The payout going out, its answer lost or not: the only one not reverted.
LEMMA SendStep ==
  ASSUME IndInv, NEW r \in Request, NEW p \in Position, SendPayout(r, p) \/ SendLosesReply(r, p)
  PROVE  IndInv'
<1> USE DEF IndInv, At
<1> DEFINE h == Len(pay[p]) + 1
<1>1. /\ UNCHANGED <<status, closeValue, closeTx, shipped>> /\ Broadcast(r, p)
      /\ req[r].pos = p /\ req[r].pc = "send"
  BY DEF SendPayout, SendLosesReply, Broadcast
<1>2. closeTx[p] = Claimed /\ NoneLive(p)
  BY <1>1 DEF ClaimHeld, Sending
<1>3. req[r].value \in Value
  BY <1>1 DEF ValueKnown, TypeOK, Paying, Sending
<1>4. /\ pay' \in [Position -> Seq(PayTx)]
      /\ \A o \in Position \ {p} : pay'[o] = pay[o]
      /\ DOMAIN pay'[p] = DOMAIN pay[p] \cup {h} /\ h \notin DOMAIN pay[p]
      /\ \A i \in DOMAIN pay[p] : pay'[p][i] = pay[p][i]
      /\ pay'[p][h] = [status |-> "pending", amount |-> req[r].value]
      /\ h \in Nat
  BY <1>1, <1>3, BroadcastExtends, PayIndices
<1> HIDE DEF h
<1>5. /\ \A i \in DOMAIN pay[p] : pay'[p][i].status = "reverted"
      /\ pay'[p][h].status # "reverted"
  BY <1>2, <1>4 DEF NoneLive, Live
<1>6. /\ req' \in [Request -> Requests]
      /\ \A o \in Request \ {r} : req'[o] = req[o]
      /\ \/ req'[r].pc = "idle"
         \/ req'[r].pc = "store" /\ req'[r].pos = p /\ req'[r].value = req[r].value /\ req'[r].hash = h
  <2>1. CASE SendPayout(r, p)
    <3> DEFINE q == [req[r] EXCEPT !.pc = "store", !.hash = h]
    <3>1. q \in Requests /\ q.pos = p /\ q.pc = "store" /\ q.value = req[r].value /\ q.hash = h
      BY <1>1, <1>4 DEF TypeOK, Requests, Pc
    <3>2. GoOn(r, q)
      BY <2>1 DEF SendPayout, h
    <3> HIDE DEF q
    <3> QED
      BY <3>1, <3>2, OneMoves
  <2>2. CASE SendLosesReply(r, p)
    <3>1. Idle(req[r].pos) \in Requests /\ Idle(req[r].pos).pc = "idle"
      BY DEF TypeOK, Idle, Pc, NotSent, Requests
    <3> QED
      BY <2>2, <3>1, OneMoves DEF SendLosesReply, Stops
  <2> QED
    BY <2>1, <2>2
<1>7. TypeOK'
  BY <1>1, <1>4, <1>6 DEF TypeOK, Requests, PayTx
<1>8. RecordKnows' /\ PaidAtMostOnce'
  BY <1>1, <1>2, <1>4, <1>5 DEF RecordKnows, PaidAtMostOnce, NoneLive, OnlyLive, Live, NotSent, Claimed
<1>9. ClosedIsPaid'
  <2>1. status[p] # "closed"
    BY <1>1, <1>2, PayIndices DEF ClosedIsPaid, ValueKnown, Paying, Sending
  <2> QED
    BY <1>1, <1>4, <2>1 DEF ClosedIsPaid
<1>10. ClaimHeld'
  <2>1. \A o \in Request \ {r} : req[o].pos = p => req[o].pc \notin Sending
    BY <1>1 DEF ClaimHeld, Sending
  <2>2. h \in DOMAIN pay'[p] /\ \A i \in DOMAIN pay'[p] : pay'[p][i].status # "reverted" => i = h
    BY <1>4, <1>5
  <2>3. req'[r].pc = "store" => OnlyLive(p, req[r].hash)'
    BY <1>6, <2>2 DEF OnlyLive, Live
  <2>4. \A o \in Position \ {p} : pay'[o] = pay[o] /\ closeTx'[o] = closeTx[o]
    BY <1>1, <1>4
  <2> QED
    BY <1>1, <1>2, <1>6, <2>1, <2>3, <2>4, OthersHold DEF Sending
<1>11. HashKnown'
  <2>1. \A o \in Request : req[o].pos \in Position
    BY DEF TypeOK
  <2>2. \A o \in Position : \A i \in DOMAIN pay[o] : i \in DOMAIN pay'[o] /\ pay'[o][i] = pay[o][i]
    BY <1>4
  <2>3. req'[r].pc \notin Hashless \cup {"verify", "wait", "clear", "finish"}
    BY <1>6 DEF Hashless
  <2>4. \A o \in Request \ {r} : req'[o] = req[o]
    BY <1>6
  <2> QED
    BY <1>1, <2>1, <2>2, <2>3, <2>4 DEF HashKnown, Live
<1>12. ValueKnown' /\ DockingOver' /\ DockedBeforePaid'
  <2>1. \A i \in DOMAIN pay'[p] : pay'[p][i].amount = req[r].value
    BY <1>1, <1>4 DEF ValueKnown, Paying, Sending
  <2> QED
    BY <1>1, <1>4, <1>6, <2>1, PayMove DEF Paying, Sending
<1> QED
  BY <1>7, <1>8, <1>9, <1>10, <1>11, <1>12

\* Closing the position, with the payout that succeeded or with nothing to pay.
LEMMA FinishStep ==
  ASSUME IndInv, NEW r \in Request, NEW p \in Position, Finish(r, p)
  PROVE  IndInv'
<1> USE DEF IndInv, At
<1>1. /\ UNCHANGED <<closeValue, shipped, pay>> /\ req[r].pos = p /\ req[r].pc = "finish"
      /\ closeValue[p] = req[r].value /\ closeValue[p] # NoValue
  BY DEF Finish, ValueKnown, Paying, Sending
<1>2. /\ \A o \in Position \ {p} : status'[o] = status[o] /\ closeTx'[o] = closeTx[o] /\ pay'[o] = pay[o]
      /\ status'[p] = "closed" /\ closeTx'[p] = req[r].hash
  BY <1>1 DEF Finish, TypeOK
<1>3. /\ req' \in [Request -> Requests] /\ req'[r].pc = "idle"
      /\ \A o \in Request \ {r} : req'[o] = req[o]
  <2>1. Idle(req[r].pos) \in Requests /\ Idle(req[r].pos).pc = "idle"
    BY DEF TypeOK, Idle, Pc, NotSent, Requests
  <2> QED
    BY <2>1, OneMoves DEF Finish, Stops
<1>4. CASE req[r].value = 0
  <2>1. /\ pay[p] = <<>> /\ closeTx[p] = NotSent /\ req[r].hash = NotSent
    BY <1>1, <1>4 DEF ValueKnown, HashKnown
  <2>2. closeTx' = closeTx
    BY <1>1, <2>1 DEF Finish, TypeOK
  <2>3. TypeOK'
    BY <1>1, <1>3, <2>2 DEF TypeOK, Requests, Finish
  <2>4. RecordKnows' /\ PaidAtMostOnce' /\ ClaimHeld' /\ HashKnown'
    BY <1>1, <1>3, <2>2, EarlyMove DEF Hashless
  <2>5. ClosedIsPaid'
    BY <1>1, <1>2, <1>4, <2>1, <2>2 DEF ClosedIsPaid
  <2>6. ValueKnown'
    BY <1>1, <1>2, <1>3, <2>2 DEF ValueKnown, Paying, Sending
  <2>7. DockingOver' /\ DockedBeforePaid'
    BY <1>1, <1>3 DEF DockingOver, DockedBeforePaid, Paying, Sending
  <2> QED
    BY <2>3, <2>4, <2>5, <2>6, <2>7
<1>5. CASE req[r].value # 0
  <2>1. /\ req[r].hash \in DOMAIN pay[p] /\ pay[p][req[r].hash].status = "success"
        /\ closeTx[p] = req[r].hash
    BY <1>1, <1>5 DEF HashKnown, Live
  <2>2. closeTx' = closeTx
    BY <1>1, <2>1 DEF Finish, TypeOK
  <2>3. TypeOK'
    BY <1>1, <1>3, <2>2 DEF TypeOK, Requests, Finish
  <2>4. RecordKnows' /\ PaidAtMostOnce' /\ ClaimHeld' /\ HashKnown'
    BY <1>1, <1>3, <2>2, EarlyMove DEF Hashless
  <2>5. ClosedIsPaid'
    <3>1. pay[p][closeTx[p]] = [status |-> "success", amount |-> closeValue[p]]
      <4>1. pay[p][closeTx[p]] \in PayTx
        BY <2>1, PayIndices
      <4>2. pay[p][closeTx[p]].status = "success" /\ pay[p][closeTx[p]].amount = closeValue[p]
        BY <2>1 DEF ValueKnown
      <4> QED
        BY <4>1, <4>2 DEF PayTx
    <3> QED
      BY <1>1, <1>2, <1>5, <2>1, <2>2, <3>1 DEF ClosedIsPaid
  <2>6. ValueKnown'
    BY <1>1, <1>2, <1>3, <2>2 DEF ValueKnown, Paying, Sending
  <2>7. DockingOver' /\ DockedBeforePaid'
    BY <1>1, <1>3 DEF DockingOver, DockedBeforePaid, Paying, Sending
  <2> QED
    BY <2>3, <2>4, <2>5, <2>6, <2>7
<1> QED
  BY <1>4, <1>5

\* A payout being mined changes neither its amount nor a final status.
LEMMA MineStep ==
  ASSUME IndInv, NEW p \in Position, Mine(p)
  PROVE  IndInv'
<1> USE DEF IndInv
<1>1. UNCHANGED <<status, closeValue, closeTx, shipped, req>>
  BY DEF Mine
<1>2. /\ pay' \in [Position -> Seq(PayTx)]
      /\ \A q \in Position : DOMAIN pay'[q] = DOMAIN pay[q]
      /\ \A q \in Position : \A i \in DOMAIN pay[q] :
           /\ pay'[q][i].amount = pay[q][i].amount
           /\ pay[q][i].status # "pending" => pay'[q][i] = pay[q][i]
  BY MineSettles
<1>3. \A r \in Request : req[r].pos \in Position
  BY DEF TypeOK
<1>4. TypeOK'
  BY <1>1, <1>2 DEF TypeOK, PayTx
<1>5. \A q \in Position : \A i \in DOMAIN pay[q] :
        pay'[q][i].status # "reverted" => pay[q][i].status # "reverted"
  <2> SUFFICES ASSUME NEW q \in Position, NEW i \in DOMAIN pay[q], pay[q][i].status = "reverted"
               PROVE  pay'[q][i].status = "reverted"
    OBVIOUS
  <2>1. pay'[q][i] = pay[q][i]
    BY <1>2
  <2> QED
    BY <2>1
<1>6. \A q \in Position : NoneLive(q) => NoneLive(q)'
  BY <1>2, <1>5 DEF NoneLive, Live
<1>7. \A q \in Position : \A h \in Nat : OnlyLive(q, h) => OnlyLive(q, h)'
  BY <1>2, <1>5 DEF OnlyLive, Live
<1>8. RecordKnows'
  BY <1>1, <1>6, <1>7 DEF RecordKnows, TypeOK, NotSent, Claimed
<1>9. PaidAtMostOnce'
  BY <1>2, <1>5 DEF PaidAtMostOnce
<1>10. \A q \in Position : pay'[q] = <<>> <=> pay[q] = <<>>
  <2> SUFFICES ASSUME NEW q \in Position PROVE pay'[q] = <<>> <=> pay[q] = <<>>
    OBVIOUS
  <2>1. pay[q] \in Seq(PayTx) /\ pay'[q] \in Seq(PayTx) /\ DOMAIN pay'[q] = DOMAIN pay[q]
    BY <1>2 DEF TypeOK, PayTx
  <2> QED
    BY <2>1, LenProperties, EmptySeq
<1>11. ClosedIsPaid'
  <2> SUFFICES ASSUME NEW q \in Position, status[q] = "closed"
               PROVE  IF closeValue[q] = 0 THEN pay'[q] = <<>>
                      ELSE /\ closeTx[q] \in DOMAIN pay[q]
                           /\ pay'[q][closeTx[q]] = [status |-> "success", amount |-> closeValue[q]]
    BY <1>1, <1>2 DEF ClosedIsPaid
  <2>1. CASE closeValue[q] = 0
    BY <2>1, <1>10 DEF ClosedIsPaid
  <2>2. CASE closeValue[q] # 0
    <3>1. closeTx[q] \in DOMAIN pay[q] /\ pay[q][closeTx[q]] = [status |-> "success", amount |-> closeValue[q]]
      BY <2>2 DEF ClosedIsPaid
    <3>2. pay[q][closeTx[q]].status # "pending"
      BY <3>1
    <3> QED
      BY <2>2, <3>1, <3>2, <1>2
  <2> QED
    BY <2>1, <2>2
<1>12. ClaimHeld'
  <2>1. \A r \in Request : req[r].hash \in Nat
    BY DEF TypeOK
  <2> QED
    BY <1>1, <1>3, <1>6, <1>7, <2>1 DEF ClaimHeld
<1>13. HashKnown'
  BY <1>1, <1>2, <1>3 DEF HashKnown, Live
<1>14. ValueKnown'
  BY <1>1, <1>2, <1>10 DEF ValueKnown
<1>15. DockingOver' /\ DockedBeforePaid'
  BY <1>1, <1>10 DEF DockingOver, DockedBeforePaid
<1> QED
  BY <1>4, <1>8, <1>9, <1>11, <1>12, <1>13, <1>14, <1>15

\* Every step keeps the invariant.
LEMMA StepIndInv == IndInv /\ [Next]_vars => IndInv'
<1> SUFFICES ASSUME IndInv, [Next]_vars PROVE IndInv'
  OBVIOUS
<1>1. ASSUME NEW r \in Request, Throws(r) PROVE IndInv'
  BY <1>1, StopsKeeps DEF Throws
<1>2. ASSUME NEW r \in Request, NEW p \in Position, ClosePosition(r, p) PROVE IndInv'
  BY <1>2, ClaimStep, DockStep, PayReadStep, PayRowStep, SendStep, FinishStep
     DEF ClosePosition, PayOut
<1>3. ASSUME NEW p \in Position, Mine(p) PROVE IndInv'
  BY <1>3, MineStep
<1>4. CASE UNCHANGED vars
  <2> USE <1>4 DEF vars, IndInv
  <2>1. TypeOK' /\ ValueKnown' /\ DockingOver'
    BY DEF TypeOK, ValueKnown, DockingOver
  <2>2. RecordKnows' /\ PaidAtMostOnce' /\ ClosedIsPaid' /\ DockedBeforePaid'
    BY DEF RecordKnows, NoneLive, OnlyLive, Live, PaidAtMostOnce, ClosedIsPaid, DockedBeforePaid
  <2>3. ClaimHeld'
    BY DEF ClaimHeld, NoneLive, OnlyLive, Live
  <2>4. HashKnown'
    BY DEF HashKnown, Live
  <2> QED
    BY <2>1, <2>2, <2>3, <2>4
<1> QED
  BY <1>1, <1>2, <1>3, <1>4 DEF Next

LEMMA AlwaysIndInv == Spec => []IndInv
BY InitIndInv, StepIndInv, PTL DEF Spec

\* Every variable keeps its type in every reachable state.
THEOREM TypeCorrect == Spec => []TypeOK
<1>1. IndInv => TypeOK
  BY DEF IndInv
<1> QED
  BY <1>1, AlwaysIndInv, PTL

\* However many requests close a position, at most one payout of it is out or
\* succeeded at any time.
THEOREM PaidAtMostOnceHolds == Spec => []PaidAtMostOnce
<1>1. IndInv => PaidAtMostOnce
  BY DEF IndInv
<1> QED
  BY <1>1, AlwaysIndInv, PTL

\* A closed position was paid the recorded value by the recorded transaction.
THEOREM ClosedIsPaidHolds == Spec => []ClosedIsPaid
<1>1. IndInv => ClosedIsPaid
  BY DEF IndInv
<1> QED
  BY <1>1, AlwaysIndInv, PTL

\* No payout goes out while a strategy of the position holds balances.
THEOREM DockedBeforePaidHolds == Spec => []DockedBeforePaid
<1>1. IndInv => DockedBeforePaid
  BY DEF IndInv
<1> QED
  BY <1>1, AlwaysIndInv, PTL

\* The recorded payout is fixed once, and closed is final.
THEOREM PayoutFixedHolds == Spec => PayoutFixed
<1> DEFINE Fixed(p) == status[p] # "open" =>
                         /\ closeValue'[p] = closeValue[p]
                         /\ status'[p] # "open"
                         /\ status[p] = "closed" => status'[p] = "closed"
<1>1. ASSUME IndInv, [Next]_vars, NEW p \in Position PROVE Fixed(p)
  <2> USE <1>1 DEF IndInv, TypeOK
  <2>1. CASE UNCHANGED <<status, closeValue>>
    BY <2>1
  <2>2. ASSUME NEW r \in Request, NEW q \in Position, ClaimPosition(r, q) PROVE Fixed(p)
    BY <2>2 DEF ClaimPosition, MayClaim
  <2>3. ASSUME NEW r \in Request, NEW q \in Position, Finish(r, q) PROVE Fixed(p)
    BY <2>3 DEF Finish
  <2>4. ASSUME NEW r \in Request, NEW q \in Position, ClosePosition(r, q),
               ~ClaimPosition(r, q), ~Finish(r, q)
        PROVE  UNCHANGED <<status, closeValue>>
    <3>1. ASSUME PayOut(r, q) PROVE UNCHANGED <<status, closeValue>>
      BY <3>1 DEF PayOut, PayoutStep, Verify, ClearReverted, ClaimPayout, SendPayout, SendLosesReply,
           Broadcast, EstimateReverts, ReleaseClaim, StoreHash, WaitPayout
    <3>2. ASSUME Begin(r, q) \/ TakeValue(r, q) \/ ReadShipped(r, q) \/ DockRemaining(r, q) \/ DockFails(r, q)
          PROVE  UNCHANGED <<status, closeValue>>
      BY <3>2 DEF Begin, TakeValue, ReadShipped, DockRemaining, DockFails
    <3> QED
      BY <2>4, <3>1, <3>2 DEF ClosePosition
  <2>5. ASSUME (\E r \in Request : Throws(r)) \/ (\E q \in Position : Mine(q)) \/ UNCHANGED vars
        PROVE  UNCHANGED <<status, closeValue>>
    BY <2>5 DEF Throws, Mine, vars
  <2> QED
    BY <1>1, <2>1, <2>2, <2>3, <2>4, <2>5 DEF Next
<1>2. IndInv /\ [Next]_vars => [\A p \in Position : Fixed(p)]_vars
  BY <1>1
<1> QED
  BY <1>2, AlwaysIndInv, PTL DEF Spec, PayoutFixed

-----------------------------------------------------------------------------
(***************************************************************************)
(* AquaClose implements PayoutPromise, for every set of positions,         *)
(* strategies and requests and every value: fixing is the claim of the     *)
(* position, paying is the mining of its payout, closing is the first      *)
(* finish; every other step is invisible to the customer.                  *)
(***************************************************************************)

\* What a customer sees of the positions.
Seen == <<[p \in Position |-> Phase(p)], closeValue, [p \in Position |-> Received(p)]>>

\* A position has at most one payment, by the transaction that succeeded.
LEMMA ReceivedByOne ==
  ASSUME IndInv, NEW p \in Position, NEW i \in DOMAIN pay[p], pay[p][i].status = "success"
  PROVE  Received(p) = {<<i, closeValue[p]>>}
<1>1. \A j \in DOMAIN pay[p] : pay[p][j].status = "success" => j = i
  BY DEF IndInv, PaidAtMostOnce
<1>2. pay[p][i].amount = closeValue[p]
  BY DEF IndInv, ValueKnown
<1> QED
  BY <1>1, <1>2 DEF Received

\* Nothing is received before a payout succeeded.
LEMMA ReceivedNothing ==
  ASSUME NEW p \in Position, \A i \in DOMAIN pay[p] : pay[p][i].status # "success"
  PROVE  Received(p) = {}
BY DEF Received

\* At the start nothing was sent.
LEMMA NothingPaidYet ==
  ASSUME Init, NEW p \in Position
  PROVE  DOMAIN pay[p] = {}
<1>1. DOMAIN <<>> = {}
  OBVIOUS
<1>2. pay[p] = <<>>
  BY DEF Init
<1> QED
  BY <1>1, <1>2

\* The payouts of a position are named by the numbers up to the bound.
Numbered == \A p \in Position : DOMAIN pay[p] \subseteq 1..MaxPayouts

LEMMA AlwaysNumbered == Spec => []Numbered
<1>1. Init => Numbered
  BY NothingPaidYet DEF Numbered
<1>2. IndInv /\ Numbered /\ [Next]_vars => Numbered'
  <2> SUFFICES ASSUME IndInv, Numbered, [Next]_vars PROVE Numbered'
    OBVIOUS
  <2>1. CASE pay' = pay
    BY <2>1 DEF Numbered
  <2>2. ASSUME NEW p \in Position, Mine(p) PROVE Numbered'
    BY <2>2, MineSettles DEF Numbered, IndInv
  <2>3. ASSUME NEW r \in Request, NEW p \in Position, Broadcast(r, p) PROVE Numbered'
    <3>1. req[r].value \in Value /\ Len(pay[p]) < MaxPayouts
      BY <2>3 DEF IndInv, TypeOK, ValueKnown, Broadcast, At
    <3>2. /\ \A q \in Position \ {p} : pay'[q] = pay[q]
          /\ DOMAIN pay'[p] = DOMAIN pay[p] \cup {Len(pay[p]) + 1}
          /\ Len(pay[p]) \in Nat
      BY <2>3, <3>1, BroadcastExtends, PayIndices DEF IndInv
    <3>3. Len(pay[p]) + 1 \in 1..MaxPayouts
      BY <3>1, <3>2, BoundAssumption
    <3> QED
      BY <3>2, <3>3 DEF Numbered
  <2>4. ASSUME NEW r \in Request, NEW p \in Position, ClosePosition(r, p)
        PROVE  Broadcast(r, p) \/ pay' = pay
    BY <2>4 DEF ClosePosition, Begin, TakeValue, ClaimPosition, ReadShipped, DockRemaining, DockFails, Finish,
         PayOut, PayoutStep, Verify, ClearReverted, ClaimPayout, SendPayout, SendLosesReply,
         EstimateReverts, ReleaseClaim, StoreHash, WaitPayout
  <2>5. ASSUME (\E r \in Request : Throws(r)) \/ UNCHANGED vars PROVE pay' = pay
    BY <2>5 DEF Throws, vars
  <2> QED
    BY <2>1, <2>2, <2>3, <2>4, <2>5 DEF Next
<1> QED
  BY <1>1, <1>2, AlwaysIndInv, PTL DEF Spec

LEMMA InitPromise == Init => Promise!Init
<1> SUFFICES ASSUME Init PROVE Promise!Init
  OBVIOUS
<1>1. \A p \in Position : DOMAIN pay[p] = {} /\ status[p] = "open"
  BY NothingPaidYet DEF Init
<1>2. \A p \in Position : Received(p) = {}
  BY <1>1, ReceivedNothing
<1>3. \A p \in Position : Phase(p) = "open"
  BY <1>1 DEF Phase
<1> QED
  BY <1>2, <1>3 DEF Promise!Init, Init

\* A step that touches neither the row's status and value nor the payouts.
LEMMA RequestsOnly ==
  ASSUME UNCHANGED <<status, closeValue, pay>>
  PROVE  UNCHANGED Seen
BY DEF Seen, Phase, Received

\* A payout that is sent has not arrived.
LEMMA SentIsUnseen ==
  ASSUME IndInv, NEW r \in Request, NEW p \in Position, Broadcast(r, p)
  PROVE  UNCHANGED Seen
<1>1. req[r].value \in Value
  BY DEF IndInv, TypeOK, ValueKnown, Broadcast, At
<1>2. /\ \A q \in Position \ {p} : pay'[q] = pay[q]
      /\ DOMAIN pay'[p] = DOMAIN pay[p] \cup {Len(pay[p]) + 1}
      /\ \A i \in DOMAIN pay[p] : pay'[p][i] = pay[p][i]
      /\ pay'[p][Len(pay[p]) + 1] = [status |-> "pending", amount |-> req[r].value]
  BY <1>1, BroadcastExtends DEF IndInv
<1>3. UNCHANGED <<status, closeValue>>
  BY DEF Broadcast
<1>4. \A q \in Position \ {p} : Received(q)' = Received(q)
  BY <1>2 DEF Received
<1>5. Received(p)' = Received(p)
  <2>1. {j \in DOMAIN pay'[p] : pay'[p][j].status = "success"} = {j \in DOMAIN pay[p] : pay[p][j].status = "success"}
    BY <1>2
  <2> QED
    BY <1>2, <2>1 DEF Received
<1>6. \A q \in Position : Received(q)' = Received(q) /\ Phase(q)' = Phase(q)
  BY <1>3, <1>4, <1>5 DEF Phase
<1> QED
  BY <1>3, <1>6 DEF Seen

\* The claim of an open position fixes what is owed.
LEMMA ClaimFixes ==
  ASSUME IndInv, NEW r \in Request, NEW p \in Position, ClaimPosition(r, p)
  PROVE  Promise!Fix(p)
<1>1. /\ status[p] = "open" /\ status' = [status EXCEPT ![p] = "closing"]
      /\ closeValue' = [closeValue EXCEPT ![p] = req[r].value] /\ pay' = pay
      /\ req[r].pc = "claim"
  BY DEF ClaimPosition, MayClaim, At
<1>2. req[r].value \in Value /\ status \in [Position -> {"open", "closing", "closed"}]
  BY <1>1 DEF IndInv, TypeOK, ValueKnown
<1>3. pay[p] = <<>>
  BY <1>1 DEF IndInv, ValueKnown
<1>4. \A q \in Position : Received(q)' = Received(q)
  BY <1>1 DEF Received
<1>5. Received(p) = {}
  BY <1>3, ReceivedNothing
<1>6. /\ Phase(p) = "open" /\ Phase(p)' = "fixed"
      /\ \A q \in Position \ {p} : Phase(q)' = Phase(q)
  BY <1>1, <1>2, <1>4, <1>5 DEF Phase
<1>7. [q \in Position |-> Phase(q)'] = [[q \in Position |-> Phase(q)] EXCEPT ![p] = "fixed"]
  BY <1>6
<1>8. [q \in Position |-> Received(q)'] = [q \in Position |-> Received(q)]
  BY <1>4
<1> QED
  BY <1>1, <1>2, <1>6, <1>7, <1>8 DEF Promise!Fix

\* A payout is mined while its position is closing: the customer has it, or it
\* reverted and nothing is to be seen.
LEMMA MinePays ==
  ASSUME IndInv, Numbered, NEW p \in Position, Mine(p)
  PROVE  Promise!Pay(p) \/ UNCHANGED Seen
<1>1. PICK i \in DOMAIN pay[p] :
        /\ pay[p][i].status = "pending" /\ pay'[p][i].status \in {"success", "reverted"}
        /\ \A j \in DOMAIN pay[p] \ {i} : pay'[p][j] = pay[p][j]
  BY MineSettles DEF IndInv
<1>2. /\ \A q \in Position \ {p} : pay'[q] = pay[q]
      /\ DOMAIN pay'[p] = DOMAIN pay[p]
      /\ pay'[p][i].amount = pay[p][i].amount
  BY MineSettles DEF IndInv
<1>3. UNCHANGED <<status, closeValue, closeTx>>
  BY DEF Mine
<1>4. \A j \in DOMAIN pay[p] : pay[p][j].status # "success"
  BY <1>1 DEF IndInv, PaidAtMostOnce
<1>5. Received(p) = {} /\ \A q \in Position \ {p} : Received(q)' = Received(q)
  BY <1>2, <1>4, ReceivedNothing DEF Received
<1>6. pay[p] # <<>> /\ pay[p][i].amount = closeValue[p]
  BY <1>1 DEF IndInv, ValueKnown
<1>7. status[p] = "closing" /\ closeValue[p] # 0
  <2>1. status[p] # "open" /\ closeValue[p] # 0
    BY <1>6 DEF IndInv, ValueKnown
  <2>2. status[p] # "closed"
    <3>1. status[p] = "closed" =>
            closeTx[p] \in DOMAIN pay[p] /\ pay[p][closeTx[p]] = [status |-> "success", amount |-> closeValue[p]]
      BY <2>1 DEF IndInv, ClosedIsPaid
    <3>2. [status |-> "success", amount |-> closeValue[p]].status = "success"
      OBVIOUS
    <3> QED
      BY <1>4, <3>1, <3>2
  <2> QED
    BY <2>1, <2>2 DEF IndInv, TypeOK
<1>8. CASE pay'[p][i].status = "reverted"
  <2>1. Received(p)' = {}
    BY <1>1, <1>2, <1>4, <1>8 DEF Received
  <2>2. \A q \in Position : Received(q)' = Received(q) /\ Phase(q)' = Phase(q)
    BY <1>3, <1>5, <2>1 DEF Phase
  <2> QED
    BY <1>3, <2>2 DEF Seen
<1>9. CASE pay'[p][i].status = "success"
  <2>1. {j \in DOMAIN pay'[p] : pay'[p][j].status = "success"} = {i}
    BY <1>1, <1>2, <1>4, <1>9
  <2>2. Received(p)' = {<<i, closeValue[p]>>}
    BY <1>2, <1>6, <2>1 DEF Received
  <2>3. /\ Phase(p) = "fixed" /\ Phase(p)' = "paid"
        /\ \A q \in Position \ {p} : Phase(q)' = Phase(q)
    BY <1>3, <1>5, <1>7, <2>2 DEF Phase
  <2>4. [q \in Position |-> Phase(q)'] = [[q \in Position |-> Phase(q)] EXCEPT ![p] = "paid"]
    BY <2>3
  <2>5. [q \in Position |-> Received(q)'] = [[q \in Position |-> Received(q)] EXCEPT ![p] = {<<i, closeValue[p]>>}]
    BY <1>5, <2>2
  <2>6. i \in 1..MaxPayouts
    BY DEF Numbered
  <2> QED
    BY <1>3, <1>7, <2>3, <2>4, <2>5, <2>6 DEF Promise!Pay
<1> QED
  BY <1>1, <1>8, <1>9

\* The first finish closes the position, and a later one changes nothing.
LEMMA FinishCloses ==
  ASSUME IndInv, NEW r \in Request, NEW p \in Position, Finish(r, p)
  PROVE  Promise!Close(p) \/ UNCHANGED Seen
<1>1. /\ status' = [status EXCEPT ![p] = "closed"] /\ UNCHANGED <<closeValue, pay>>
      /\ req[r].pc = "finish" /\ req[r].pos = p
  BY DEF Finish, At
<1>2. status \in [Position -> {"open", "closing", "closed"}]
  BY DEF IndInv, TypeOK
<1>3. closeValue[p] = req[r].value /\ req[r].value # NoValue
  BY <1>1 DEF IndInv, ValueKnown
<1>4. \A q \in Position : Received(q)' = Received(q)
  BY <1>1 DEF Received
<1>5. CASE status[p] = "closed"
  <2>1. status' = status
    BY <1>1, <1>2, <1>5
  <2> QED
    BY <1>1, <2>1, RequestsOnly
<1>6. CASE status[p] # "closed"
  <2>1. status[p] = "closing"
    BY <1>2, <1>3, <1>6 DEF IndInv, ValueKnown
  <2>2. Phase(p) = "paid" \/ (Phase(p) = "fixed" /\ closeValue[p] = 0)
    <3>1. CASE req[r].value = 0
      BY <1>3, <2>1, <3>1 DEF Phase
    <3>2. CASE req[r].value # 0
      <4>1. req[r].hash \in DOMAIN pay[p] /\ pay[p][req[r].hash].status = "success"
        BY <1>1, <3>2 DEF IndInv, HashKnown
      <4>2. Received(p) # {}
        BY <4>1, ReceivedByOne
      <4> QED
        BY <2>1, <4>2 DEF Phase
    <3> QED
      BY <3>1, <3>2
  <2>3. Phase(p)' = "closed" /\ \A q \in Position \ {p} : Phase(q)' = Phase(q)
    BY <1>1, <1>2, <1>4 DEF Phase
  <2>4. [q \in Position |-> Phase(q)'] = [[q \in Position |-> Phase(q)] EXCEPT ![p] = "closed"]
    BY <2>3
  <2>5. [q \in Position |-> Received(q)'] = [q \in Position |-> Received(q)]
    BY <1>4
  <2> QED
    BY <1>1, <2>2, <2>4, <2>5 DEF Promise!Close
<1> QED
  BY <1>5, <1>6

LEMMA StepPromise == IndInv /\ Numbered /\ [Next]_vars => [Promise!Next]_Seen
<1> SUFFICES ASSUME IndInv, Numbered, [Next]_vars PROVE Promise!Next \/ UNCHANGED Seen
  OBVIOUS
<1>1. CASE UNCHANGED vars \/ \E r \in Request : Throws(r)
  BY <1>1, RequestsOnly DEF vars, Throws
<1>2. ASSUME NEW p \in Position, Mine(p) PROVE Promise!Next \/ UNCHANGED Seen
  BY <1>2, MinePays DEF Promise!Next
<1>3. ASSUME NEW r \in Request, NEW p \in Position, PayOut(r, p) PROVE UNCHANGED Seen
  <2>1. CASE Broadcast(r, p)
    BY <2>1, SentIsUnseen
  <2>2. CASE UNCHANGED <<status, closeValue, pay>>
    BY <2>2, RequestsOnly
  <2>3. Broadcast(r, p) \/ UNCHANGED <<status, closeValue, pay>>
    BY <1>3 DEF PayOut, PayoutStep, Verify, ClearReverted, ClaimPayout, SendPayout, SendLosesReply,
         EstimateReverts, ReleaseClaim, StoreHash, WaitPayout
  <2> QED
    BY <2>1, <2>2, <2>3
<1>4. ASSUME NEW r \in Request, NEW p \in Position, ClaimPosition(r, p) \/ Finish(r, p)
      PROVE  Promise!Next \/ UNCHANGED Seen
  BY <1>4, ClaimFixes, FinishCloses DEF Promise!Next
<1>5. ASSUME NEW r \in Request, NEW p \in Position,
             Begin(r, p) \/ TakeValue(r, p) \/ ReadShipped(r, p) \/ DockRemaining(r, p) \/ DockFails(r, p)
      PROVE  UNCHANGED Seen
  BY <1>5, RequestsOnly DEF Begin, TakeValue, ReadShipped, DockRemaining, DockFails
<1> QED
  BY <1>1, <1>2, <1>3, <1>4, <1>5 DEF Next, ClosePosition

\* Closing keeps its promise to the customer: an open position is fixed, then
\* paid once with the fixed value unless that is zero, then closed for good.
THEOREM KeepsPromiseHolds == Spec => KeepsPromise
<1>1. Init => Promise!Init
  BY InitPromise
<1>2. IndInv /\ Numbered /\ [Next]_vars => [Promise!Next]_Seen
  BY StepPromise
<1> QED
  BY <1>1, <1>2, AlwaysIndInv, AlwaysNumbered, PTL DEF Spec, KeepsPromise, Promise!Spec, Seen

-----------------------------------------------------------------------------
(***************************************************************************)
(* What a customer's requests do with their money (CustomerMoney), for     *)
(* every set of requests, chains and values: MoneyInv is inductive.  Its   *)
(* first part is about the requests one by one, with a lemma for every     *)
(* step; the cover of what is on Aqua and the room under the daily limit,  *)
(* which the requests share, come after it.                                *)
(***************************************************************************)

\* A request before any of its money has moved.
Early == {Unasked, "asked", "checked", "backed", "approving", "approved"}

\* A request is at a step of its kind.
RightStage(r) ==
  \/ at[r] \in {Unasked, Over, "asked", "checked"}
  \/ kind[r] = "send" /\ at[r] \in {"taken", "delivered"}
  \/ kind[r] = "open" /\ at[r] \in Opening \cup {"delivered"}
  \/ kind[r] = "bridge" /\ at[r] = "moving"
  \/ kind[r] = "tk" /\ at[r] = "signed"
  \/ kind[r] = "withdraw" /\ at[r] \in {"legs", "paying", "noting"}

Untouched(r) ==
  at[r] \in Early =>
    /\ paid[r] = 0 /\ took[r] = 0 /\ written[r] = 0 /\ rowed[r] = 0
    /\ hold[r] = 0 /\ live[r] = 0 /\ failures[r] = 0 /\ read[r] = 0

\* The legs of a withdrawal: rows follow payments, by one leg at most.
LegsNoted(r) ==
  kind[r] = "withdraw" =>
    /\ paid[r] <= written[r] + read[r] /\ took[r] <= paid[r]
    /\ at[r] \in {"legs", "paying"} => paid[r] <= written[r]
    /\ at[r] \in {"legs", "paying", "noting"} => raced \/ paid[r] <= amt[r]

\* The treasury holds what an opening took until it is shipped or given back.
HeldFor(r) ==
  kind[r] = "open" =>
    /\ at[r] \in {"taken", "shipping", "shipped"} => failures[r] = 0
    /\ at[r] = "undo" => failures[r] = 1
    /\ at[r] = "delivered" => hold[r] = 0
    /\ at[r] = Over /\ hold[r] > 0 => failures[r] = 2 \/ r \in cut

LiveIsShipped(r) ==
  /\ live[r] \in {0, amt[r]}
  /\ live[r] > 0 => kind[r] = "open" /\ at[r] \in {"shipping", "shipped", "undo", Over}

\* A request takes no more than it asked the limit for, a transfer that goes
\* twice apart.
TookWhatItAsked(r) ==
  /\ at[r] \in {"taken", "shipping", "shipped", "undo", "delivered", "signed"} => took[r] <= amt[r]
  /\ at[r] = "moving" => raced \/ took[r] <= rowed[r]

InOrder(r) ==
  /\ RightStage(r) /\ Untouched(r) /\ LegsNoted(r) /\ HeldFor(r)
  /\ LiveIsShipped(r) /\ TookWhatItAsked(r)

PurseTyped ==
  /\ box \in [Chain -> Nat] /\ position \in Nat /\ wallet \in Nat /\ cash \in Nat
  /\ live \in [Errand -> Nat]
AskTyped ==
  /\ kind \in [Errand -> Kind] /\ from \in [Errand -> Chain] /\ amt \in [Errand -> Nat]
  /\ at \in [Errand -> Step \cup {Unasked, Over}]
  /\ todo \in [Errand -> SUBSET Chain] /\ read \in [Errand -> Nat]
TallyTyped ==
  /\ paid \in [Errand -> Nat] /\ written \in [Errand -> Nat]
  /\ took \in [Errand -> Nat] /\ rowed \in [Errand -> Nat]
  /\ hold \in [Errand -> Nat]
TraceTyped ==
  /\ failures \in [Errand -> Nat] /\ raced \in BOOLEAN /\ cut \subseteq Errand
  /\ faults \in 0..MaxFaults
ErrandTyped == PurseTyped /\ AskTyped /\ TallyTyped /\ TraceTyped

\* The room a request needs under the limit: what it asked for while it is on
\* its way, what it took before and after.
RoomOf(r) == IF r \in Active THEN amt[r] ELSE took[r]

\* An opening on its way to a row, and one that ensureApprovals has counted.
OnItsWay(r) == kind[r] = "open" /\ (at[r] \in Opening \/ live[r] > 0)
Counted(r) ==
  kind[r] = "open" /\ (at[r] \in {"approved", "taken", "shipping", "shipped", "undo"} \/ live[r] > 0)

\* A step leaves request s alone.
Alone(s) ==
  /\ kind'[s] = kind[s] /\ at'[s] = at[s] /\ amt'[s] = amt[s] /\ read'[s] = read[s]
  /\ paid'[s] = paid[s] /\ took'[s] = took[s] /\ written'[s] = written[s] /\ rowed'[s] = rowed[s]
  /\ hold'[s] = hold[s] /\ live'[s] = live[s] /\ failures'[s] = failures[s]
  /\ s \in cut => s \in cut'

\* A step is one of request r, and marks what it marks for good.
OnlyOf(r) == (raced => raced') /\ \A s \in Errand \ {r} : Alone(s)

\* Request r is in order after the step and needs no more room than before.
Settles(r) == InOrder(r)' /\ (~raced' => RoomOf(r)' <= RoomOf(r))

\* Request r is not on its way, or counted, unless it was.
Recedes(r) ==
  /\ OnItsWay(r)' => OnItsWay(r) /\ amt'[r] = amt[r]
  /\ Counted(r)' => Counted(r)
  /\ {at[r], at'[r]} \cap {"backed", "approving"} = {}

\* No step is the name of a request not made yet or answered.
LEMMA StepNames ==
  /\ Unasked # Over
  /\ Over \notin Early \ {Unasked} /\ Over \notin Opening
  /\ \A s \in Step : s # Unasked /\ s # Over
BY NameAssumption DEF Early, Opening, Step

\* A send or an opening takes its money.
LEMMA TakeStep ==
  ASSUME ErrandTyped, NEW r \in Errand, InOrder(r), Take(r)
  PROVE  ErrandTyped' /\ OnlyOf(r) /\ Settles(r) /\ Recedes(r)
<1> USE DEF Take, Ready, Moves, Go, moneyVars, askVars, legVars, tallyVars, ghostVars
<1> USE DEF ErrandTyped, PurseTyped, AskTyped, TallyTyped, TraceTyped
<1>1. PurseTyped'
  OBVIOUS
<1>2. AskTyped'
  BY DEF Step, Kind
<1>3. TallyTyped' /\ TraceTyped'
  OBVIOUS
<1>4. OnlyOf(r)
  BY DEF OnlyOf, Alone
<1>5. /\ kind'[r] = kind[r] /\ amt'[r] = amt[r] /\ read'[r] = read[r]
      /\ written'[r] = written[r] /\ rowed'[r] = rowed[r] /\ live'[r] = live[r]
      /\ failures'[r] = failures[r] /\ cut' = cut /\ raced' = raced
      /\ \/ at'[r] = Over /\ paid'[r] = paid[r] /\ took'[r] = took[r] /\ hold'[r] = hold[r]
         \/ /\ at'[r] = "taken" /\ hold'[r] = amt[r]
            /\ paid'[r] = paid[r] + amt[r] /\ took'[r] = took[r] + amt[r]
  OBVIOUS
<1>6. Ready(r) /\ ErrandTyped
  OBVIOUS
<1>7. InOrder(r)'
  BY ONLY <1>5, <1>6, InOrder(r), StepNames
     DEF InOrder, RightStage, Untouched, LegsNoted, HeldFor, LiveIsShipped, TookWhatItAsked,
         Opening, Early, Step, ErrandTyped, PurseTyped, AskTyped, TallyTyped, TraceTyped
<1>8. Settles(r)
  BY ONLY <1>5, <1>6, <1>7, InOrder(r), r \in Errand, StepNames
     DEF Settles, RoomOf, Active, InOrder, Untouched, TookWhatItAsked, LegsNoted, RightStage,
         Opening, Early, Step, ErrandTyped, PurseTyped, AskTyped, TallyTyped, TraceTyped
<1>9. Recedes(r)
  BY ONLY <1>5, <1>6, InOrder(r), StepNames
     DEF Recedes, OnItsWay, Counted, InOrder, Untouched, RightStage,
         Opening, Early, Step, ErrandTyped, PurseTyped, AskTyped, TallyTyped
<1> QED
  BY <1>1, <1>2, <1>3, <1>4, <1>8, <1>9

\* The taking fails, done or not.
LEMMA TakeFailsStep ==
  ASSUME ErrandTyped, NEW r \in Errand, InOrder(r), TakeFails(r)
  PROVE  ErrandTyped' /\ OnlyOf(r) /\ Settles(r) /\ Recedes(r)
<1> USE DEF TakeFails, Ready, Moves, Cut, Go, moneyVars, askVars, legVars, tallyVars, ghostVars
<1> USE DEF ErrandTyped, PurseTyped, AskTyped, TallyTyped, TraceTyped
<1>1. PurseTyped'
  OBVIOUS
<1>2. AskTyped'
  BY DEF Step, Kind
<1>3. TallyTyped' /\ TraceTyped'
  <2>1. TallyTyped'
    OBVIOUS
  <2>2. TraceTyped'
    BY NumberAssumption DEF Fault
  <2> QED
    BY <2>1, <2>2
<1>4. OnlyOf(r)
  BY DEF OnlyOf, Alone
<1>5. /\ kind'[r] = kind[r] /\ amt'[r] = amt[r] /\ read'[r] = read[r]
      /\ written'[r] = written[r] /\ rowed'[r] = rowed[r] /\ live'[r] = live[r]
      /\ failures'[r] = failures[r] /\ raced' = raced /\ at'[r] = Over /\ r \in cut'
      /\ \/ paid'[r] = paid[r] /\ took'[r] = took[r] /\ hold'[r] = hold[r]
         \/ paid'[r] = paid[r] + amt[r] /\ took'[r] = took[r] + amt[r] /\ hold'[r] = amt[r]
  OBVIOUS
<1>6. Ready(r) /\ ErrandTyped
  OBVIOUS
<1>7. InOrder(r)'
  BY ONLY <1>5, <1>6, InOrder(r), StepNames
     DEF InOrder, RightStage, Untouched, LegsNoted, HeldFor, LiveIsShipped, TookWhatItAsked,
         Opening, Early, Step, ErrandTyped, PurseTyped, AskTyped, TallyTyped, TraceTyped
<1>8. Settles(r)
  BY ONLY <1>5, <1>6, <1>7, InOrder(r), r \in Errand, StepNames
     DEF Settles, RoomOf, Active, InOrder, Untouched, TookWhatItAsked, LegsNoted, RightStage,
         Opening, Early, Step, ErrandTyped, PurseTyped, AskTyped, TallyTyped, TraceTyped
<1>9. Recedes(r)
  BY ONLY <1>5, <1>6, InOrder(r), StepNames
     DEF Recedes, OnItsWay, Counted, InOrder, Untouched, RightStage,
         Opening, Early, Step, ErrandTyped, PurseTyped, AskTyped, TallyTyped
<1> QED
  BY <1>1, <1>2, <1>3, <1>4, <1>8, <1>9

\* The row of what has moved is written, or is not.
LEMMA RecordStep ==
  ASSUME ErrandTyped, NEW r \in Errand, InOrder(r), Record(r)
  PROVE  ErrandTyped' /\ OnlyOf(r) /\ Settles(r) /\ Recedes(r)
<1> USE DEF Record, Writes, Go, moneyVars, askVars, legVars, tallyVars, ghostVars
<1> USE DEF ErrandTyped, PurseTyped, AskTyped, TallyTyped, TraceTyped
<1>1. PurseTyped'
  OBVIOUS
<1>2. AskTyped'
  BY DEF Step, Kind
<1>3. TallyTyped' /\ TraceTyped'
  BY NumberAssumption DEF Fault
<1>4. OnlyOf(r)
  BY DEF OnlyOf, Alone
<1>5. /\ kind'[r] = kind[r] /\ amt'[r] = amt[r] /\ read'[r] = read[r] /\ paid'[r] = paid[r]
      /\ took'[r] = took[r] /\ hold'[r] = hold[r] /\ live'[r] = live[r]
      /\ failures'[r] = failures[r] /\ cut' = cut /\ raced' = raced /\ at'[r] = Over
      /\ \/ written'[r] = written[r] /\ rowed'[r] = rowed[r]
         \/ written'[r] = written[r] + amt[r] /\ rowed'[r] = rowed[r] + amt[r]
  OBVIOUS
<1>6. at[r] = "delivered" /\ ErrandTyped
  OBVIOUS
<1>7. InOrder(r)'
  BY ONLY <1>5, <1>6, InOrder(r), StepNames
     DEF InOrder, RightStage, Untouched, LegsNoted, HeldFor, LiveIsShipped, TookWhatItAsked,
         Opening, Early, Step, ErrandTyped, PurseTyped, AskTyped, TallyTyped, TraceTyped
<1>8. Settles(r)
  BY ONLY <1>5, <1>6, <1>7, InOrder(r), r \in Errand, StepNames
     DEF Settles, RoomOf, Active, InOrder, Untouched, TookWhatItAsked, LegsNoted, RightStage,
         Opening, Early, Step, ErrandTyped, PurseTyped, AskTyped, TallyTyped, TraceTyped
<1>9. Recedes(r)
  BY ONLY <1>5, <1>6, InOrder(r), StepNames
     DEF Recedes, OnItsWay, Counted, InOrder, Untouched, RightStage,
         Opening, Early, Step, ErrandTyped, PurseTyped, AskTyped, TallyTyped
<1> QED
  BY <1>1, <1>2, <1>3, <1>4, <1>8, <1>9

\* A send reaches the other box, or nobody.
LEMMA GiveStep ==
  ASSUME ErrandTyped, NEW r \in Errand, InOrder(r), Give(r)
  PROVE  ErrandTyped' /\ OnlyOf(r) /\ Settles(r) /\ Recedes(r)
<1> USE DEF Give, Go, moneyVars, askVars, legVars, tallyVars, ghostVars
<1> USE DEF ErrandTyped, PurseTyped, AskTyped, TallyTyped, TraceTyped
<1>1. PurseTyped'
  OBVIOUS
<1>2. AskTyped'
  BY DEF Step, Kind
<1>3. TallyTyped' /\ TraceTyped'
  BY NumberAssumption DEF Fault
<1>4. OnlyOf(r)
  BY DEF OnlyOf, Alone
<1>5. /\ kind'[r] = kind[r] /\ amt'[r] = amt[r] /\ read'[r] = read[r] /\ paid'[r] = paid[r]
      /\ took'[r] = took[r] /\ written'[r] = written[r] /\ rowed'[r] = rowed[r]
      /\ live'[r] = live[r] /\ failures'[r] = failures[r] /\ cut' = cut /\ raced' = raced
      /\ at'[r] \in {"delivered", Over} /\ hold'[r] \in {0, hold[r]}
  OBVIOUS
<1>6. at[r] = "taken" /\ kind[r] = "send" /\ ErrandTyped
  OBVIOUS
<1>7. InOrder(r)'
  BY ONLY <1>5, <1>6, InOrder(r), StepNames
     DEF InOrder, RightStage, Untouched, LegsNoted, HeldFor, LiveIsShipped, TookWhatItAsked,
         Opening, Early, Step, ErrandTyped, PurseTyped, AskTyped, TallyTyped, TraceTyped
<1>8. Settles(r)
  BY ONLY <1>5, <1>6, <1>7, InOrder(r), r \in Errand, StepNames
     DEF Settles, RoomOf, Active, InOrder, Untouched, TookWhatItAsked, LegsNoted, RightStage,
         Opening, Early, Step, ErrandTyped, PurseTyped, AskTyped, TallyTyped, TraceTyped
<1>9. Recedes(r)
  BY ONLY <1>5, <1>6, InOrder(r), StepNames
     DEF Recedes, OnItsWay, Counted, InOrder, Untouched, RightStage,
         Opening, Early, Step, ErrandTyped, PurseTyped, AskTyped, TallyTyped
<1> QED
  BY <1>1, <1>2, <1>3, <1>4, <1>8, <1>9

\* An opening sends its strategies.
LEMMA ShipStep ==
  ASSUME ErrandTyped, NEW r \in Errand, InOrder(r), Ship(r)
  PROVE  ErrandTyped' /\ OnlyOf(r) /\ Settles(r) /\ Recedes(r)
<1> USE DEF Ship, Go, moneyVars, askVars, legVars, tallyVars, ghostVars
<1> USE DEF ErrandTyped, PurseTyped, AskTyped, TallyTyped, TraceTyped
<1>1. PurseTyped'
  OBVIOUS
<1>2. AskTyped'
  BY DEF Step, Kind
<1>3. TallyTyped' /\ TraceTyped'
  OBVIOUS
<1>4. OnlyOf(r)
  BY DEF OnlyOf, Alone
<1>5. /\ kind'[r] = kind[r] /\ amt'[r] = amt[r] /\ read'[r] = read[r] /\ paid'[r] = paid[r]
      /\ took'[r] = took[r] /\ written'[r] = written[r] /\ rowed'[r] = rowed[r]
      /\ hold'[r] = hold[r] /\ failures'[r] = failures[r] /\ cut' = cut /\ raced' = raced
      /\ at'[r] = "shipping" /\ live'[r] = amt[r]
  OBVIOUS
<1>6. at[r] = "taken" /\ kind[r] = "open" /\ ErrandTyped
  OBVIOUS
<1>7. InOrder(r)'
  BY ONLY <1>5, <1>6, InOrder(r), StepNames
     DEF InOrder, RightStage, Untouched, LegsNoted, HeldFor, LiveIsShipped, TookWhatItAsked,
         Opening, Early, Step, ErrandTyped, PurseTyped, AskTyped, TallyTyped, TraceTyped
<1>8. Settles(r)
  BY ONLY <1>5, <1>6, <1>7, InOrder(r), r \in Errand, StepNames
     DEF Settles, RoomOf, Active, InOrder, Untouched, TookWhatItAsked, LegsNoted, RightStage,
         Opening, Early, Step, ErrandTyped, PurseTyped, AskTyped, TallyTyped, TraceTyped
<1>9. Recedes(r)
  BY ONLY <1>5, <1>6, InOrder(r), StepNames
     DEF Recedes, OnItsWay, Counted, InOrder, Untouched, RightStage,
         Opening, Early, Step, ErrandTyped, PurseTyped, AskTyped, TallyTyped
<1> QED
  BY <1>1, <1>2, <1>3, <1>4, <1>8, <1>9

\* They are mined, or one is not.
LEMMA ShippedStep ==
  ASSUME ErrandTyped, NEW r \in Errand, InOrder(r), Shipped(r)
  PROVE  ErrandTyped' /\ OnlyOf(r) /\ Settles(r) /\ Recedes(r)
<1> USE DEF Shipped, Failed, Go, moneyVars, askVars, legVars, tallyVars, ghostVars
<1> USE DEF ErrandTyped, PurseTyped, AskTyped, TallyTyped, TraceTyped
<1>1. PurseTyped'
  OBVIOUS
<1>2. AskTyped'
  BY DEF Step, Kind
<1>3. TallyTyped' /\ TraceTyped'
  BY NumberAssumption DEF Fault
<1>4. OnlyOf(r)
  BY DEF OnlyOf, Alone
<1>5. /\ kind'[r] = kind[r] /\ amt'[r] = amt[r] /\ read'[r] = read[r] /\ paid'[r] = paid[r]
      /\ took'[r] = took[r] /\ written'[r] = written[r] /\ rowed'[r] = rowed[r]
      /\ hold'[r] = hold[r] /\ cut' = cut /\ raced' = raced
      /\ \/ at'[r] = "shipped" /\ live'[r] = live[r] /\ failures'[r] = failures[r]
         \/ at'[r] = "undo" /\ failures'[r] = failures[r] + 1 /\ live'[r] \in {0, live[r]}
  OBVIOUS
<1>6. at[r] = "shipping" /\ ErrandTyped
  OBVIOUS
<1>7. InOrder(r)'
  BY ONLY <1>5, <1>6, InOrder(r), StepNames
     DEF InOrder, RightStage, Untouched, LegsNoted, HeldFor, LiveIsShipped, TookWhatItAsked,
         Opening, Early, Step, ErrandTyped, PurseTyped, AskTyped, TallyTyped, TraceTyped
<1>8. Settles(r)
  BY ONLY <1>5, <1>6, <1>7, InOrder(r), r \in Errand, StepNames
     DEF Settles, RoomOf, Active, InOrder, Untouched, TookWhatItAsked, LegsNoted, RightStage,
         Opening, Early, Step, ErrandTyped, PurseTyped, AskTyped, TallyTyped, TraceTyped
<1>9. Recedes(r)
  BY ONLY <1>5, <1>6, InOrder(r), StepNames
     DEF Recedes, OnItsWay, Counted, InOrder, Untouched, RightStage,
         Opening, Early, Step, ErrandTyped, PurseTyped, AskTyped, TallyTyped
<1> QED
  BY <1>1, <1>2, <1>3, <1>4, <1>8, <1>9

\* What was shipped is docked.
LEMMA DockShippedStep ==
  ASSUME ErrandTyped, NEW r \in Errand, InOrder(r), DockShipped(r)
  PROVE  ErrandTyped' /\ OnlyOf(r) /\ Settles(r) /\ Recedes(r)
<1> USE DEF DockShipped, Go, moneyVars, askVars, legVars, tallyVars, ghostVars
<1> USE DEF ErrandTyped, PurseTyped, AskTyped, TallyTyped, TraceTyped
<1>1. PurseTyped'
  OBVIOUS
<1>2. AskTyped'
  BY DEF Step, Kind
<1>3. TallyTyped' /\ TraceTyped'
  OBVIOUS
<1>4. OnlyOf(r)
  BY DEF OnlyOf, Alone
<1>5. /\ kind'[r] = kind[r] /\ amt'[r] = amt[r] /\ read'[r] = read[r] /\ paid'[r] = paid[r]
      /\ took'[r] = took[r] /\ written'[r] = written[r] /\ rowed'[r] = rowed[r]
      /\ hold'[r] = hold[r] /\ failures'[r] = failures[r] /\ cut' = cut /\ raced' = raced
      /\ at'[r] = at[r] /\ live'[r] = 0
  OBVIOUS
<1>6. at[r] = "undo" /\ ErrandTyped
  OBVIOUS
<1>7. InOrder(r)'
  BY ONLY <1>5, <1>6, InOrder(r), StepNames
     DEF InOrder, RightStage, Untouched, LegsNoted, HeldFor, LiveIsShipped, TookWhatItAsked,
         Opening, Early, Step, ErrandTyped, PurseTyped, AskTyped, TallyTyped, TraceTyped
<1>8. Settles(r)
  BY ONLY <1>5, <1>6, <1>7, InOrder(r), r \in Errand, StepNames
     DEF Settles, RoomOf, Active, InOrder, Untouched, TookWhatItAsked, LegsNoted, RightStage,
         Opening, Early, Step, ErrandTyped, PurseTyped, AskTyped, TallyTyped, TraceTyped
<1>9. Recedes(r)
  BY ONLY <1>5, <1>6, InOrder(r), StepNames
     DEF Recedes, OnItsWay, Counted, InOrder, Untouched, RightStage,
         Opening, Early, Step, ErrandTyped, PurseTyped, AskTyped, TallyTyped
<1> QED
  BY <1>1, <1>2, <1>3, <1>4, <1>8, <1>9

\* The money goes back, or the refund fails too.
LEMMA UndoStep ==
  ASSUME ErrandTyped, NEW r \in Errand, InOrder(r), Undo(r)
  PROVE  ErrandTyped' /\ OnlyOf(r) /\ Settles(r) /\ Recedes(r)
<1> USE DEF Undo, Refund, Failed, Go, moneyVars, askVars, legVars, tallyVars, ghostVars
<1> USE DEF ErrandTyped, PurseTyped, AskTyped, TallyTyped, TraceTyped
<1>1. PurseTyped'
  OBVIOUS
<1>2. AskTyped'
  BY DEF Step, Kind
<1>3. TallyTyped' /\ TraceTyped'
  BY NumberAssumption DEF Fault
<1>4. OnlyOf(r)
  BY DEF OnlyOf, Alone
<1>5. /\ kind'[r] = kind[r] /\ amt'[r] = amt[r] /\ read'[r] = read[r]
      /\ written'[r] = written[r] /\ rowed'[r] = rowed[r] /\ live'[r] = live[r]
      /\ cut' = cut /\ raced' = raced /\ at'[r] = Over
      /\ \/ paid'[r] = 0 /\ took'[r] = 0 /\ hold'[r] = 0 /\ failures'[r] = failures[r]
         \/ /\ paid'[r] = paid[r] /\ took'[r] = took[r] /\ hold'[r] = hold[r]
            /\ failures'[r] = failures[r] + 1
  OBVIOUS
<1>6. at[r] = "undo" /\ ErrandTyped
  OBVIOUS
<1>7. InOrder(r)'
  BY ONLY <1>5, <1>6, InOrder(r), StepNames
     DEF InOrder, RightStage, Untouched, LegsNoted, HeldFor, LiveIsShipped, TookWhatItAsked,
         Opening, Early, Step, ErrandTyped, PurseTyped, AskTyped, TallyTyped, TraceTyped
<1>8. Settles(r)
  BY ONLY <1>5, <1>6, <1>7, InOrder(r), r \in Errand, StepNames
     DEF Settles, RoomOf, Active, InOrder, Untouched, TookWhatItAsked, LegsNoted, RightStage,
         Opening, Early, Step, ErrandTyped, PurseTyped, AskTyped, TallyTyped, TraceTyped
<1>9. Recedes(r)
  BY ONLY <1>5, <1>6, InOrder(r), StepNames
     DEF Recedes, OnItsWay, Counted, InOrder, Untouched, RightStage,
         Opening, Early, Step, ErrandTyped, PurseTyped, AskTyped, TallyTyped
<1> QED
  BY <1>1, <1>2, <1>3, <1>4, <1>8, <1>9

\* The row of the position is written, or refused.
LEMMA InsertRowStep ==
  ASSUME ErrandTyped, NEW r \in Errand, InOrder(r), InsertRow(r)
  PROVE  ErrandTyped' /\ OnlyOf(r) /\ Settles(r) /\ Recedes(r)
<1> USE DEF InsertRow, Cut, Go, moneyVars, askVars, legVars, tallyVars, ghostVars
<1> USE DEF ErrandTyped, PurseTyped, AskTyped, TallyTyped, TraceTyped
<1>1. PurseTyped'
  OBVIOUS
<1>2. AskTyped'
  BY DEF Step, Kind
<1>3. TallyTyped' /\ TraceTyped'
  BY NumberAssumption DEF Fault
<1>4. OnlyOf(r)
  BY DEF OnlyOf, Alone
<1>5. /\ kind'[r] = kind[r] /\ amt'[r] = amt[r] /\ read'[r] = read[r] /\ paid'[r] = paid[r]
      /\ took'[r] = took[r] /\ written'[r] = written[r] /\ rowed'[r] = rowed[r]
      /\ failures'[r] = failures[r] /\ raced' = raced
      /\ \/ at'[r] = "delivered" /\ hold'[r] = 0 /\ live'[r] = 0 /\ cut' = cut
         \/ at'[r] = Over /\ hold'[r] = hold[r] /\ live'[r] = live[r] /\ r \in cut'
  OBVIOUS
<1>6. at[r] = "shipped" /\ ErrandTyped
  OBVIOUS
<1>7. InOrder(r)'
  BY ONLY <1>5, <1>6, InOrder(r), StepNames
     DEF InOrder, RightStage, Untouched, LegsNoted, HeldFor, LiveIsShipped, TookWhatItAsked,
         Opening, Early, Step, ErrandTyped, PurseTyped, AskTyped, TallyTyped, TraceTyped
<1>8. Settles(r)
  BY ONLY <1>5, <1>6, <1>7, InOrder(r), r \in Errand, StepNames
     DEF Settles, RoomOf, Active, InOrder, Untouched, TookWhatItAsked, LegsNoted, RightStage,
         Opening, Early, Step, ErrandTyped, PurseTyped, AskTyped, TallyTyped, TraceTyped
<1>9. Recedes(r)
  BY ONLY <1>5, <1>6, InOrder(r), StepNames
     DEF Recedes, OnItsWay, Counted, InOrder, Untouched, RightStage,
         Opening, Early, Step, ErrandTyped, PurseTyped, AskTyped, TallyTyped
<1> QED
  BY <1>1, <1>2, <1>3, <1>4, <1>8, <1>9

\* A bridge transfer is put on record.
LEMMA CreateTransferStep ==
  ASSUME ErrandTyped, NEW r \in Errand, InOrder(r), CreateTransfer(r)
  PROVE  ErrandTyped' /\ OnlyOf(r) /\ Settles(r) /\ Recedes(r)
<1> USE DEF CreateTransfer, Writes, Go, moneyVars, askVars, legVars, tallyVars, ghostVars
<1> USE DEF ErrandTyped, PurseTyped, AskTyped, TallyTyped, TraceTyped
<1>1. PurseTyped'
  OBVIOUS
<1>2. AskTyped'
  BY DEF Step, Kind
<1>3. TallyTyped' /\ TraceTyped'
  OBVIOUS
<1>4. OnlyOf(r)
  BY DEF OnlyOf, Alone
<1>5. /\ kind'[r] = kind[r] /\ amt'[r] = amt[r] /\ read'[r] = read[r] /\ paid'[r] = paid[r]
      /\ hold'[r] = hold[r] /\ live'[r] = live[r] /\ failures'[r] = failures[r]
      /\ cut' = cut /\ raced' = raced
      /\ \/ at'[r] = Over /\ written'[r] = written[r] /\ rowed'[r] = rowed[r] /\ took'[r] = took[r]
         \/ /\ at'[r] = "moving" /\ took'[r] = amt[r]
            /\ written'[r] = written[r] + amt[r] /\ rowed'[r] = rowed[r] + amt[r]
  OBVIOUS
<1>6. at[r] = "checked" /\ kind[r] = "bridge" /\ ErrandTyped
  OBVIOUS
<1>7. InOrder(r)'
  BY ONLY <1>5, <1>6, InOrder(r), StepNames
     DEF InOrder, RightStage, Untouched, LegsNoted, HeldFor, LiveIsShipped, TookWhatItAsked,
         Opening, Early, Step, ErrandTyped, PurseTyped, AskTyped, TallyTyped, TraceTyped
<1>8. Settles(r)
  BY ONLY <1>5, <1>6, <1>7, InOrder(r), r \in Errand, StepNames
     DEF Settles, RoomOf, Active, InOrder, Untouched, TookWhatItAsked, LegsNoted, RightStage,
         Opening, Early, Step, ErrandTyped, PurseTyped, AskTyped, TallyTyped, TraceTyped
<1>9. Recedes(r)
  BY ONLY <1>5, <1>6, InOrder(r), StepNames
     DEF Recedes, OnItsWay, Counted, InOrder, Untouched, RightStage,
         Opening, Early, Step, ErrandTyped, PurseTyped, AskTyped, TallyTyped
<1> QED
  BY <1>1, <1>2, <1>3, <1>4, <1>8, <1>9

\* It is paid, once or again.
LEMMA BoxPaysStep ==
  ASSUME ErrandTyped, NEW r \in Errand, InOrder(r), BoxPays(r)
  PROVE  ErrandTyped' /\ OnlyOf(r) /\ Settles(r) /\ Recedes(r)
<1> USE DEF BoxPays, Fault, moneyVars, askVars, legVars, tallyVars, ghostVars
<1> USE DEF ErrandTyped, PurseTyped, AskTyped, TallyTyped, TraceTyped
<1>1. PurseTyped'
  OBVIOUS
<1>2. AskTyped'
  BY DEF Step, Kind
<1>3. TallyTyped' /\ TraceTyped'
  <2>1. TallyTyped' /\ faults' \in 0..MaxFaults
    BY NumberAssumption
  <2>2. raced' \in BOOLEAN
    BY Zenon
  <2> QED BY <2>1, <2>2
<1>4. OnlyOf(r)
  BY DEF OnlyOf, Alone
<1>5. /\ kind'[r] = kind[r] /\ amt'[r] = amt[r] /\ read'[r] = read[r] /\ hold'[r] = hold[r]
      /\ live'[r] = live[r] /\ failures'[r] = failures[r] /\ cut' = cut /\ at'[r] = at[r]
      /\ written'[r] = written[r] /\ rowed'[r] = rowed[r] /\ paid'[r] = paid[r] + amt[r]
      /\ (raced' <=> raced \/ paid'[r] > amt[r])
      /\ \/ paid[r] = 0 /\ took'[r] = took[r]
         \/ paid[r] # 0 /\ took'[r] = took[r] + amt[r]
  <2>1. /\ kind'[r] = kind[r] /\ amt'[r] = amt[r] /\ read'[r] = read[r] /\ hold'[r] = hold[r]
        /\ live'[r] = live[r] /\ failures'[r] = failures[r] /\ cut' = cut /\ at'[r] = at[r]
        /\ written'[r] = written[r] /\ rowed'[r] = rowed[r]
    OBVIOUS
  <2>2. paid'[r] = paid[r] + amt[r]
    OBVIOUS
  <2>3. raced' <=> raced \/ paid'[r] > amt[r]
    OBVIOUS
  <2>4. CASE paid[r] = 0
    BY ONLY BoxPays(r), <2>1, <2>2, <2>3, <2>4 DEF BoxPays
  <2>5. CASE paid[r] # 0
    <3>1. took'[r] = took[r] + amt[r]
      BY <2>5
    <3> QED BY ONLY <2>1, <2>2, <2>3, <2>5, <3>1
  <2> QED BY <2>4, <2>5
<1>6. at[r] = "moving" /\ ErrandTyped /\ amt[r] \in Nat /\ paid[r] \in Nat
  OBVIOUS
<1>7. InOrder(r)'
  BY ONLY <1>5, <1>6, InOrder(r), StepNames
     DEF InOrder, RightStage, Untouched, LegsNoted, HeldFor, LiveIsShipped, TookWhatItAsked,
         Opening, Early, Step, ErrandTyped, PurseTyped, AskTyped, TallyTyped, TraceTyped
<1>8. Settles(r)
  BY ONLY <1>5, <1>6, <1>7, InOrder(r), r \in Errand, StepNames
     DEF Settles, RoomOf, Active, InOrder, Untouched, TookWhatItAsked, LegsNoted, RightStage,
         Opening, Early, Step, ErrandTyped, PurseTyped, AskTyped, TallyTyped, TraceTyped
<1>9. Recedes(r)
  BY ONLY <1>5, <1>6, InOrder(r), StepNames
     DEF Recedes, OnItsWay, Counted, InOrder, Untouched, RightStage,
         Opening, Early, Step, ErrandTyped, PurseTyped, AskTyped, TallyTyped
<1> QED
  BY <1>1, <1>2, <1>3, <1>4, <1>8, <1>9

\* It is over, paid or failed.
LEMMA AdvanceStep ==
  ASSUME ErrandTyped, NEW r \in Errand, InOrder(r), Advance(r)
  PROVE  ErrandTyped' /\ OnlyOf(r) /\ Settles(r) /\ Recedes(r)
<1> USE DEF Advance, Fault, Go, moneyVars, askVars, legVars, tallyVars, ghostVars
<1> USE DEF ErrandTyped, PurseTyped, AskTyped, TallyTyped, TraceTyped
<1>1. PurseTyped'
  OBVIOUS
<1>2. AskTyped'
  BY DEF Step, Kind
<1>3. TallyTyped' /\ TraceTyped'
  BY NumberAssumption
<1>4. OnlyOf(r)
  BY DEF OnlyOf, Alone
<1>5. /\ kind'[r] = kind[r] /\ amt'[r] = amt[r] /\ read'[r] = read[r] /\ hold'[r] = hold[r]
      /\ live'[r] = live[r] /\ failures'[r] = failures[r] /\ cut' = cut /\ raced' = raced
      /\ at'[r] = Over
      /\ paid'[r] = paid[r] /\ took'[r] \in {0, took[r]}
      /\ \/ written'[r] = written[r] /\ rowed'[r] = rowed[r] /\ took'[r] = took[r]
         \/ written'[r] = 0 /\ rowed'[r] = 0
  OBVIOUS
<1>6. at[r] = "moving" /\ ErrandTyped
  OBVIOUS
<1>7. InOrder(r)'
  BY ONLY <1>5, <1>6, InOrder(r), StepNames
     DEF InOrder, RightStage, Untouched, LegsNoted, HeldFor, LiveIsShipped, TookWhatItAsked,
         Opening, Early, Step, ErrandTyped, PurseTyped, AskTyped, TallyTyped, TraceTyped
<1>8. Settles(r)
  BY ONLY <1>5, <1>6, <1>7, InOrder(r), r \in Errand, StepNames
     DEF Settles, RoomOf, Active, InOrder, Untouched, TookWhatItAsked, LegsNoted, RightStage,
         Opening, Early, Step, ErrandTyped, PurseTyped, AskTyped, TallyTyped, TraceTyped
<1>9. Recedes(r)
  BY ONLY <1>5, <1>6, InOrder(r), StepNames
     DEF Recedes, OnItsWay, Counted, InOrder, Untouched, RightStage,
         Opening, Early, Step, ErrandTyped, PurseTyped, AskTyped, TallyTyped
<1> QED
  BY <1>1, <1>2, <1>3, <1>4, <1>8, <1>9

\* The customer signs a tkCASH send, or does not.
LEMMA SignStep ==
  ASSUME ErrandTyped, NEW r \in Errand, InOrder(r), Sign(r)
  PROVE  ErrandTyped' /\ OnlyOf(r) /\ Settles(r) /\ Recedes(r)
<1> USE DEF Sign, Moves, Go, moneyVars, askVars, legVars, tallyVars, ghostVars
<1> USE DEF ErrandTyped, PurseTyped, AskTyped, TallyTyped, TraceTyped
<1>1. PurseTyped'
  OBVIOUS
<1>2. AskTyped'
  BY DEF Step, Kind
<1>3. TallyTyped' /\ TraceTyped'
  OBVIOUS
<1>4. OnlyOf(r)
  BY DEF OnlyOf, Alone
<1>5. /\ kind'[r] = kind[r] /\ amt'[r] = amt[r] /\ read'[r] = read[r]
      /\ written'[r] = written[r] /\ rowed'[r] = rowed[r] /\ hold'[r] = hold[r]
      /\ live'[r] = live[r] /\ failures'[r] = failures[r] /\ cut' = cut /\ raced' = raced
      /\ \/ at'[r] = Over /\ paid'[r] = paid[r] /\ took'[r] = took[r]
         \/ at'[r] = "signed" /\ paid'[r] = paid[r] + amt[r] /\ took'[r] = took[r] + amt[r]
  OBVIOUS
<1>6. at[r] = "checked" /\ kind[r] = "tk" /\ ErrandTyped
  OBVIOUS
<1>7. InOrder(r)'
  BY ONLY <1>5, <1>6, InOrder(r), StepNames
     DEF InOrder, RightStage, Untouched, LegsNoted, HeldFor, LiveIsShipped, TookWhatItAsked,
         Opening, Early, Step, ErrandTyped, PurseTyped, AskTyped, TallyTyped, TraceTyped
<1>8. Settles(r)
  BY ONLY <1>5, <1>6, <1>7, InOrder(r), r \in Errand, StepNames
     DEF Settles, RoomOf, Active, InOrder, Untouched, TookWhatItAsked, LegsNoted, RightStage,
         Opening, Early, Step, ErrandTyped, PurseTyped, AskTyped, TallyTyped, TraceTyped
<1>9. Recedes(r)
  BY ONLY <1>5, <1>6, InOrder(r), StepNames
     DEF Recedes, OnItsWay, Counted, InOrder, Untouched, RightStage,
         Opening, Early, Step, ErrandTyped, PurseTyped, AskTyped, TallyTyped
<1> QED
  BY <1>1, <1>2, <1>3, <1>4, <1>8, <1>9

\* It is confirmed, once or again.
LEMMA ConfirmStep ==
  ASSUME ErrandTyped, NEW r \in Errand, InOrder(r), Confirm(r)
  PROVE  ErrandTyped' /\ OnlyOf(r) /\ Settles(r) /\ Recedes(r)
<1> USE DEF Confirm, Writes, NewRow, Go, moneyVars, askVars, legVars, tallyVars, ghostVars
<1> USE DEF ErrandTyped, PurseTyped, AskTyped, TallyTyped, TraceTyped
<1>1. PurseTyped'
  OBVIOUS
<1>2. AskTyped'
  BY DEF Step, Kind
<1>3. TallyTyped' /\ TraceTyped'
  OBVIOUS
<1>4. OnlyOf(r)
  BY DEF OnlyOf, Alone
<1>5. /\ kind'[r] = kind[r] /\ amt'[r] = amt[r] /\ read'[r] = read[r] /\ paid'[r] = paid[r]
      /\ took'[r] = took[r] /\ hold'[r] = hold[r] /\ live'[r] = live[r]
      /\ failures'[r] = failures[r] /\ cut' = cut /\ raced' = raced /\ at'[r] = Over
      /\ \/ written'[r] = written[r] /\ rowed'[r] = rowed[r]
         \/ written'[r] = written[r] + amt[r] /\ rowed'[r] = rowed[r] + amt[r]
  OBVIOUS
<1>6. kind[r] = "tk" /\ at[r] \in {"signed", Over} /\ ErrandTyped
  OBVIOUS
<1>7. InOrder(r)'
  BY ONLY <1>5, <1>6, InOrder(r), StepNames
     DEF InOrder, RightStage, Untouched, LegsNoted, HeldFor, LiveIsShipped, TookWhatItAsked,
         Opening, Early, Step, ErrandTyped, PurseTyped, AskTyped, TallyTyped, TraceTyped
<1>8. Settles(r)
  BY ONLY <1>5, <1>6, <1>7, InOrder(r), r \in Errand, StepNames
     DEF Settles, RoomOf, Active, InOrder, Untouched, TookWhatItAsked, LegsNoted, RightStage,
         Opening, Early, Step, ErrandTyped, PurseTyped, AskTyped, TallyTyped, TraceTyped
<1>9. Recedes(r)
  BY ONLY <1>5, <1>6, InOrder(r), StepNames
     DEF Recedes, OnItsWay, Counted, InOrder, Untouched, RightStage,
         Opening, Early, Step, ErrandTyped, PurseTyped, AskTyped, TallyTyped
<1> QED
  BY <1>1, <1>2, <1>3, <1>4, <1>8, <1>9

\* It is not confirmed.
LEMMA NeverConfirmedStep ==
  ASSUME ErrandTyped, NEW r \in Errand, InOrder(r), NeverConfirmed(r)
  PROVE  ErrandTyped' /\ OnlyOf(r) /\ Settles(r) /\ Recedes(r)
<1> USE DEF NeverConfirmed, Go, moneyVars, askVars, legVars, tallyVars, ghostVars
<1> USE DEF ErrandTyped, PurseTyped, AskTyped, TallyTyped, TraceTyped
<1>1. PurseTyped'
  OBVIOUS
<1>2. AskTyped'
  BY DEF Step, Kind
<1>3. TallyTyped' /\ TraceTyped'
  BY NumberAssumption DEF Fault
<1>4. OnlyOf(r)
  BY DEF OnlyOf, Alone
<1>5. /\ kind'[r] = kind[r] /\ amt'[r] = amt[r] /\ read'[r] = read[r] /\ paid'[r] = paid[r]
      /\ took'[r] = took[r] /\ written'[r] = written[r] /\ rowed'[r] = rowed[r]
      /\ hold'[r] = hold[r] /\ live'[r] = live[r] /\ failures'[r] = failures[r]
      /\ cut' = cut /\ raced' = raced /\ at'[r] = Over
  OBVIOUS
<1>6. at[r] = "signed" /\ ErrandTyped
  OBVIOUS
<1>7. InOrder(r)'
  BY ONLY <1>5, <1>6, InOrder(r), StepNames
     DEF InOrder, RightStage, Untouched, LegsNoted, HeldFor, LiveIsShipped, TookWhatItAsked,
         Opening, Early, Step, ErrandTyped, PurseTyped, AskTyped, TallyTyped, TraceTyped
<1>8. Settles(r)
  BY ONLY <1>5, <1>6, <1>7, InOrder(r), r \in Errand, StepNames
     DEF Settles, RoomOf, Active, InOrder, Untouched, TookWhatItAsked, LegsNoted, RightStage,
         Opening, Early, Step, ErrandTyped, PurseTyped, AskTyped, TallyTyped, TraceTyped
<1>9. Recedes(r)
  BY ONLY <1>5, <1>6, InOrder(r), StepNames
     DEF Recedes, OnItsWay, Counted, InOrder, Untouched, RightStage,
         Opening, Early, Step, ErrandTyped, PurseTyped, AskTyped, TallyTyped
<1> QED
  BY <1>1, <1>2, <1>3, <1>4, <1>8, <1>9

\* A withdrawal closes the positions.
LEMMA CloseAllStep ==
  ASSUME ErrandTyped, NEW r \in Errand, InOrder(r), CloseAll(r)
  PROVE  ErrandTyped' /\ OnlyOf(r) /\ Settles(r) /\ Recedes(r)
<1> USE DEF CloseAll, Go, moneyVars, askVars, legVars, tallyVars, ghostVars
<1> USE DEF ErrandTyped, PurseTyped, AskTyped, TallyTyped, TraceTyped
<1>1. PurseTyped'
  BY ChainAssumption
<1>2. AskTyped'
  BY DEF Step, Kind
<1>3. TallyTyped' /\ TraceTyped'
  OBVIOUS
<1>4. OnlyOf(r)
  BY DEF OnlyOf, Alone
<1>5. /\ kind'[r] = kind[r] /\ amt'[r] = amt[r] /\ read'[r] = read[r] /\ paid'[r] = paid[r]
      /\ took'[r] = took[r] /\ written'[r] = written[r] /\ rowed'[r] = rowed[r]
      /\ hold'[r] = hold[r] /\ live'[r] = live[r] /\ failures'[r] = failures[r]
      /\ cut' = cut /\ raced' = raced /\ at'[r] = "legs"
  OBVIOUS
<1>6. at[r] = "checked" /\ kind[r] = "withdraw" /\ ErrandTyped
  OBVIOUS
<1>7. InOrder(r)'
  BY ONLY <1>5, <1>6, InOrder(r), StepNames
     DEF InOrder, RightStage, Untouched, LegsNoted, HeldFor, LiveIsShipped, TookWhatItAsked,
         Opening, Early, Step, ErrandTyped, PurseTyped, AskTyped, TallyTyped, TraceTyped
<1>8. Settles(r)
  BY ONLY <1>5, <1>6, <1>7, InOrder(r), r \in Errand, StepNames
     DEF Settles, RoomOf, Active, InOrder, Untouched, TookWhatItAsked, LegsNoted, RightStage,
         Opening, Early, Step, ErrandTyped, PurseTyped, AskTyped, TallyTyped, TraceTyped
<1>9. Recedes(r)
  BY ONLY <1>5, <1>6, InOrder(r), StepNames
     DEF Recedes, OnItsWay, Counted, InOrder, Untouched, RightStage,
         Opening, Early, Step, ErrandTyped, PurseTyped, AskTyped, TallyTyped
<1> QED
  BY <1>1, <1>2, <1>3, <1>4, <1>8, <1>9

\* A leg reads its box.
LEMMA ReadLegStep ==
  ASSUME ErrandTyped, NEW r \in Errand, InOrder(r), ReadLeg(r)
  PROVE  ErrandTyped' /\ OnlyOf(r) /\ Settles(r) /\ Recedes(r)
<1> USE DEF ReadLeg, Go, moneyVars, askVars, legVars, tallyVars, ghostVars
<1> USE DEF ErrandTyped, PurseTyped, AskTyped, TallyTyped, TraceTyped
<1>1. PurseTyped'
  OBVIOUS
<1>2. AskTyped'
  BY DEF Step, Kind
<1>3. TallyTyped' /\ TraceTyped'
  OBVIOUS
<1>4. OnlyOf(r)
  BY DEF OnlyOf, Alone
<1>5. /\ kind'[r] = kind[r] /\ amt'[r] = amt[r] /\ paid'[r] = paid[r] /\ took'[r] = took[r]
      /\ written'[r] = written[r] /\ rowed'[r] = rowed[r] /\ hold'[r] = hold[r]
      /\ live'[r] = live[r] /\ failures'[r] = failures[r] /\ cut' = cut /\ raced' = raced
      /\ at'[r] \in {"legs", "paying"} /\ read'[r] \in Nat
  OBVIOUS
<1>6. at[r] = "legs" /\ ErrandTyped
  OBVIOUS
<1>7. InOrder(r)'
  BY ONLY <1>5, <1>6, InOrder(r), StepNames
     DEF InOrder, RightStage, Untouched, LegsNoted, HeldFor, LiveIsShipped, TookWhatItAsked,
         Opening, Early, Step, ErrandTyped, PurseTyped, AskTyped, TallyTyped, TraceTyped
<1>8. Settles(r)
  BY ONLY <1>5, <1>6, <1>7, InOrder(r), r \in Errand, StepNames
     DEF Settles, RoomOf, Active, InOrder, Untouched, TookWhatItAsked, LegsNoted, RightStage,
         Opening, Early, Step, ErrandTyped, PurseTyped, AskTyped, TallyTyped, TraceTyped
<1>9. Recedes(r)
  BY ONLY <1>5, <1>6, InOrder(r), StepNames
     DEF Recedes, OnItsWay, Counted, InOrder, Untouched, RightStage,
         Opening, Early, Step, ErrandTyped, PurseTyped, AskTyped, TallyTyped
<1> QED
  BY <1>1, <1>2, <1>3, <1>4, <1>8, <1>9

\* A leg is paid, or reverts.
LEMMA PayLegStep ==
  ASSUME ErrandTyped, NEW r \in Errand, InOrder(r), PayLeg(r)
  PROVE  ErrandTyped' /\ OnlyOf(r) /\ Settles(r) /\ Recedes(r)
<1> USE DEF PayLeg, Moves, Go, moneyVars, askVars, legVars, tallyVars, ghostVars
<1> USE DEF ErrandTyped, PurseTyped, AskTyped, TallyTyped, TraceTyped
<1>1. PurseTyped'
  OBVIOUS
<1>2. AskTyped'
  BY DEF Step, Kind
<1>3. TallyTyped' /\ TraceTyped'
  BY NumberAssumption DEF Fault
<1>4. OnlyOf(r)
  BY DEF OnlyOf, Alone
<1>5. /\ kind'[r] = kind[r] /\ amt'[r] = amt[r] /\ read'[r] = read[r]
      /\ written'[r] = written[r] /\ rowed'[r] = rowed[r] /\ hold'[r] = hold[r]
      /\ live'[r] = live[r] /\ failures'[r] = failures[r] /\ cut' = cut
      /\ /\ at'[r] \in {"noting", Over} /\ (raced' <=> raced \/ paid'[r] > amt[r])
      /\ \/ paid'[r] = paid[r] /\ took'[r] = took[r]
         \/ paid'[r] = paid[r] + read[r] /\ took'[r] = took[r] + read[r]
  OBVIOUS
<1>6. at[r] = "paying" /\ ErrandTyped
  OBVIOUS
<1>7. InOrder(r)'
  BY ONLY <1>5, <1>6, InOrder(r), StepNames
     DEF InOrder, RightStage, Untouched, LegsNoted, HeldFor, LiveIsShipped, TookWhatItAsked,
         Opening, Early, Step, ErrandTyped, PurseTyped, AskTyped, TallyTyped, TraceTyped
<1>8. Settles(r)
  BY ONLY <1>5, <1>6, <1>7, InOrder(r), r \in Errand, StepNames
     DEF Settles, RoomOf, Active, InOrder, Untouched, TookWhatItAsked, LegsNoted, RightStage,
         Opening, Early, Step, ErrandTyped, PurseTyped, AskTyped, TallyTyped, TraceTyped
<1>9. Recedes(r)
  BY ONLY <1>5, <1>6, InOrder(r), StepNames
     DEF Recedes, OnItsWay, Counted, InOrder, Untouched, RightStage,
         Opening, Early, Step, ErrandTyped, PurseTyped, AskTyped, TallyTyped
<1> QED
  BY <1>1, <1>2, <1>3, <1>4, <1>8, <1>9

\* The row of a leg is written, or is not.
LEMMA NoteLegStep ==
  ASSUME ErrandTyped, NEW r \in Errand, InOrder(r), NoteLeg(r)
  PROVE  ErrandTyped' /\ OnlyOf(r) /\ Settles(r) /\ Recedes(r)
<1> USE DEF NoteLeg, NoteIt, Writes, Go, moneyVars, askVars, legVars, tallyVars, ghostVars
<1> USE DEF ErrandTyped, PurseTyped, AskTyped, TallyTyped, TraceTyped
<1>1. PurseTyped'
  OBVIOUS
<1>2. AskTyped'
  BY DEF Step, Kind
<1>3. TallyTyped' /\ TraceTyped'
  BY NumberAssumption DEF Fault
<1>4. OnlyOf(r)
  BY DEF OnlyOf, Alone
<1>5. /\ kind'[r] = kind[r] /\ amt'[r] = amt[r] /\ read'[r] = read[r] /\ paid'[r] = paid[r]
      /\ took'[r] = took[r] /\ hold'[r] = hold[r] /\ live'[r] = live[r]
      /\ failures'[r] = failures[r] /\ cut' = cut /\ raced' = raced
      /\ \/ /\ at'[r] = "legs" /\ written'[r] = written[r] + read[r]
            /\ rowed'[r] = rowed[r] + read[r]
         \/ at'[r] = Over /\ written'[r] = written[r] /\ rowed'[r] = rowed[r]
  OBVIOUS
<1>6. at[r] = "noting" /\ ErrandTyped
  OBVIOUS
<1>7. InOrder(r)'
  BY ONLY <1>5, <1>6, InOrder(r), StepNames
     DEF InOrder, RightStage, Untouched, LegsNoted, HeldFor, LiveIsShipped, TookWhatItAsked,
         Opening, Early, Step, ErrandTyped, PurseTyped, AskTyped, TallyTyped, TraceTyped
<1>8. Settles(r)
  BY ONLY <1>5, <1>6, <1>7, InOrder(r), r \in Errand, StepNames
     DEF Settles, RoomOf, Active, InOrder, Untouched, TookWhatItAsked, LegsNoted, RightStage,
         Opening, Early, Step, ErrandTyped, PurseTyped, AskTyped, TallyTyped, TraceTyped
<1>9. Recedes(r)
  BY ONLY <1>5, <1>6, InOrder(r), StepNames
     DEF Recedes, OnItsWay, Counted, InOrder, Untouched, RightStage,
         Opening, Early, Step, ErrandTyped, PurseTyped, AskTyped, TallyTyped
<1> QED
  BY <1>1, <1>2, <1>3, <1>4, <1>8, <1>9

\* The withdrawal is over.
LEMMA LegsEndStep ==
  ASSUME ErrandTyped, NEW r \in Errand, InOrder(r), LegsEnd(r)
  PROVE  ErrandTyped' /\ OnlyOf(r) /\ Settles(r) /\ Recedes(r)
<1> USE DEF LegsEnd, Go, moneyVars, askVars, legVars, tallyVars, ghostVars
<1> USE DEF ErrandTyped, PurseTyped, AskTyped, TallyTyped, TraceTyped
<1>1. PurseTyped'
  OBVIOUS
<1>2. AskTyped'
  BY DEF Step, Kind
<1>3. TallyTyped' /\ TraceTyped'
  BY NumberAssumption DEF Fault
<1>4. OnlyOf(r)
  BY DEF OnlyOf, Alone
<1>5. /\ kind'[r] = kind[r] /\ amt'[r] = amt[r] /\ read'[r] = read[r] /\ paid'[r] = paid[r]
      /\ took'[r] = took[r] /\ written'[r] = written[r] /\ rowed'[r] = rowed[r]
      /\ hold'[r] = hold[r] /\ live'[r] = live[r] /\ failures'[r] = failures[r]
      /\ cut' = cut /\ raced' = raced /\ at'[r] = Over
  OBVIOUS
<1>6. at[r] = "legs" /\ ErrandTyped
  OBVIOUS
<1>7. InOrder(r)'
  BY ONLY <1>5, <1>6, InOrder(r), StepNames
     DEF InOrder, RightStage, Untouched, LegsNoted, HeldFor, LiveIsShipped, TookWhatItAsked,
         Opening, Early, Step, ErrandTyped, PurseTyped, AskTyped, TallyTyped, TraceTyped
<1>8. Settles(r)
  BY ONLY <1>5, <1>6, <1>7, InOrder(r), r \in Errand, StepNames
     DEF Settles, RoomOf, Active, InOrder, Untouched, TookWhatItAsked, LegsNoted, RightStage,
         Opening, Early, Step, ErrandTyped, PurseTyped, AskTyped, TallyTyped, TraceTyped
<1>9. Recedes(r)
  BY ONLY <1>5, <1>6, InOrder(r), StepNames
     DEF Recedes, OnItsWay, Counted, InOrder, Untouched, RightStage,
         Opening, Early, Step, ErrandTyped, PurseTyped, AskTyped, TallyTyped
<1> QED
  BY <1>1, <1>2, <1>3, <1>4, <1>8, <1>9

\* An opening is backed, or refused.
LEMMA BackStep ==
  ASSUME ErrandTyped, NEW r \in Errand, InOrder(r), Back(r)
  PROVE  ErrandTyped' /\ OnlyOf(r) /\ Settles(r)
<1> USE DEF Back, Go, moneyVars, askVars, legVars, tallyVars, ghostVars
<1> USE DEF ErrandTyped, PurseTyped, AskTyped, TallyTyped, TraceTyped
<1>1. PurseTyped'
  OBVIOUS
<1>2. AskTyped'
  BY DEF Step, Kind
<1>3. TallyTyped' /\ TraceTyped'
  BY NumberAssumption DEF Fault
<1>4. OnlyOf(r)
  BY DEF OnlyOf, Alone
<1>5. /\ kind'[r] = kind[r] /\ amt'[r] = amt[r] /\ read'[r] = read[r] /\ paid'[r] = paid[r]
      /\ took'[r] = took[r] /\ written'[r] = written[r] /\ rowed'[r] = rowed[r]
      /\ hold'[r] = hold[r] /\ live'[r] = live[r] /\ failures'[r] = failures[r]
      /\ cut' = cut /\ raced' = raced /\ at'[r] \in {"backed", Over}
  OBVIOUS
<1>6. at[r] = "checked" /\ kind[r] = "open" /\ ErrandTyped
  OBVIOUS
<1>7. InOrder(r)'
  BY ONLY <1>5, <1>6, InOrder(r), StepNames
     DEF InOrder, RightStage, Untouched, LegsNoted, HeldFor, LiveIsShipped, TookWhatItAsked,
         Opening, Early, Step, ErrandTyped, PurseTyped, AskTyped, TallyTyped, TraceTyped
<1>8. Settles(r)
  BY ONLY <1>5, <1>6, <1>7, InOrder(r), r \in Errand, StepNames
     DEF Settles, RoomOf, Active, InOrder, Untouched, TookWhatItAsked, LegsNoted, RightStage,
         Opening, Early, Step, ErrandTyped, PurseTyped, AskTyped, TallyTyped, TraceTyped
<1> QED
  BY <1>1, <1>2, <1>3, <1>4, <1>8

\* An opening asks for its approval.
LEMMA AskApprovalStep ==
  ASSUME ErrandTyped, NEW r \in Errand, InOrder(r), AskApproval(r)
  PROVE  ErrandTyped' /\ OnlyOf(r) /\ Settles(r)
<1> USE DEF AskApproval, Go, moneyVars, askVars, legVars, tallyVars, ghostVars
<1> USE DEF ErrandTyped, PurseTyped, AskTyped, TallyTyped, TraceTyped
<1>1. PurseTyped'
  OBVIOUS
<1>2. AskTyped'
  BY DEF Step, Kind
<1>3. TallyTyped' /\ TraceTyped'
  BY NumberAssumption DEF Fault
<1>4. OnlyOf(r)
  BY DEF OnlyOf, Alone
<1>5. /\ kind'[r] = kind[r] /\ amt'[r] = amt[r] /\ read'[r] = read[r] /\ paid'[r] = paid[r]
      /\ took'[r] = took[r] /\ written'[r] = written[r] /\ rowed'[r] = rowed[r]
      /\ hold'[r] = hold[r] /\ live'[r] = live[r] /\ failures'[r] = failures[r]
      /\ cut' = cut /\ raced' = raced /\ at'[r] = "approving"
  OBVIOUS
<1>6. at[r] = "backed" /\ ErrandTyped
  OBVIOUS
<1>7. InOrder(r)'
  BY ONLY <1>5, <1>6, InOrder(r), StepNames
     DEF InOrder, RightStage, Untouched, LegsNoted, HeldFor, LiveIsShipped, TookWhatItAsked,
         Opening, Early, Step, ErrandTyped, PurseTyped, AskTyped, TallyTyped, TraceTyped
<1>8. Settles(r)
  BY ONLY <1>5, <1>6, <1>7, InOrder(r), r \in Errand, StepNames
     DEF Settles, RoomOf, Active, InOrder, Untouched, TookWhatItAsked, LegsNoted, RightStage,
         Opening, Early, Step, ErrandTyped, PurseTyped, AskTyped, TallyTyped, TraceTyped
<1> QED
  BY <1>1, <1>2, <1>3, <1>4, <1>8

\* It gets it, or does not.
LEMMA ApproveStep ==
  ASSUME ErrandTyped, NEW r \in Errand, InOrder(r), Approve(r)
  PROVE  ErrandTyped' /\ OnlyOf(r) /\ Settles(r)
<1> USE DEF Approve, Go, moneyVars, askVars, legVars, tallyVars, ghostVars
<1> USE DEF ErrandTyped, PurseTyped, AskTyped, TallyTyped, TraceTyped
<1>1. PurseTyped'
  OBVIOUS
<1>2. AskTyped'
  BY DEF Step, Kind
<1>3. TallyTyped' /\ TraceTyped'
  BY NumberAssumption DEF Fault
<1>4. OnlyOf(r)
  BY DEF OnlyOf, Alone
<1>5. /\ kind'[r] = kind[r] /\ amt'[r] = amt[r] /\ read'[r] = read[r] /\ paid'[r] = paid[r]
      /\ took'[r] = took[r] /\ written'[r] = written[r] /\ rowed'[r] = rowed[r]
      /\ hold'[r] = hold[r] /\ live'[r] = live[r] /\ failures'[r] = failures[r]
      /\ cut' = cut /\ raced' = raced /\ at'[r] \in {"approved", Over}
  OBVIOUS
<1>6. at[r] = "approving" /\ ErrandTyped
  OBVIOUS
<1>7. InOrder(r)'
  BY ONLY <1>5, <1>6, InOrder(r), StepNames
     DEF InOrder, RightStage, Untouched, LegsNoted, HeldFor, LiveIsShipped, TookWhatItAsked,
         Opening, Early, Step, ErrandTyped, PurseTyped, AskTyped, TallyTyped, TraceTyped
<1>8. Settles(r)
  BY ONLY <1>5, <1>6, <1>7, InOrder(r), r \in Errand, StepNames
     DEF Settles, RoomOf, Active, InOrder, Untouched, TookWhatItAsked, LegsNoted, RightStage,
         Opening, Early, Step, ErrandTyped, PurseTyped, AskTyped, TallyTyped, TraceTyped
<1> QED
  BY <1>1, <1>2, <1>3, <1>4, <1>8

CoverTyped ==
  /\ allowance \in Nat /\ need \in Nat /\ holder \in Errand \cup {Keeper, Nobody}
  /\ complete \in BOOLEAN /\ blind \in BOOLEAN /\ undercut \in BOOLEAN /\ unchecked \in BOOLEAN

\* Unless a backing check was blind, the wallet covers what is open and one
\* opening, the only one on its way.
BackedAlone ==
  ~unchecked =>
    /\ position <= Reserve
    /\ \A r \in Errand : OnItsWay(r) =>
         /\ position + amt[r] <= Reserve
         /\ \A s \in Errand : OnItsWay(s) => s = r

\* The same of the allowance, for the openings that a run has counted.
CountedAlone ==
  ~undercut =>
    /\ position <= allowance
    /\ \A r \in Errand : Counted(r) =>
         /\ position + amt[r] <= allowance
         /\ \A s \in Errand : Counted(s) => s = r

\* A run of ensureApprovals that is not blind has read all there is to cover.
LockKnows ==
  /\ \A r \in Errand : at[r] = "approving" <=> holder = r
  /\ holder # Nobody /\ ~blind =>
       /\ position <= need
       /\ \A r \in Errand : OnItsWay(r) =>
            at[r] = "backed" \/ (r = holder /\ position + amt[r] <= need)

CoverInv == CoverTyped /\ BackedAlone /\ CountedAlone /\ LockKnows

\* Unless two requests raced for it, there is room under the limit for all.
Room == [r \in Errand |-> RoomOf(r)]
RoomKept == ~raced => SumFunctionOnSet(Room, Errand) <= Limit

AllInOrder == \A r \in Errand : InOrder(r)

MoneyInv == ErrandTyped /\ AllInOrder /\ CoverInv /\ RoomKept

\* What the parts of the invariant say of the types is the type invariant.
LEMMA MoneyTyped == ErrandTyped /\ CoverTyped <=> MoneyTypeOK
BY DEF MoneyTypeOK, ErrandTyped, PurseTyped, AskTyped, TallyTyped, TraceTyped, CoverTyped, CoverTypeOK

\* A request that a step leaves alone stays as it was.
LEMMA AloneSettles ==
  ASSUME ErrandTyped, NEW s \in Errand, InOrder(s), Alone(s), raced => raced'
  PROVE  /\ Settles(s) /\ at'[s] = at[s]
         /\ OnItsWay(s)' => OnItsWay(s) /\ amt'[s] = amt[s]
         /\ Counted(s)' => Counted(s)
<1>1. InOrder(s)'
  BY DEF InOrder, RightStage, Untouched, LegsNoted, HeldFor, LiveIsShipped, TookWhatItAsked, Alone
<1>2. RoomOf(s)' = RoomOf(s)
  BY DEF RoomOf, Active, Alone
<1>3. RoomOf(s) \in Nat
  BY DEF RoomOf, ErrandTyped, AskTyped, TallyTyped
<1> QED
  BY <1>1, <1>2, <1>3 DEF Settles, OnItsWay, Counted, Alone

\* Room is a number for every request.
LEMMA RoomTyped == ErrandTyped => \A s \in Errand : Room[s] = RoomOf(s) /\ Room[s] \in Nat
BY DEF Room, RoomOf, ErrandTyped, AskTyped, TallyTyped

\* When no request needs more room than before there is room for all.
LEMMA RoomShrinks ==
  ASSUME ErrandTyped, ErrandTyped', RoomKept, raced => raced',
         \A s \in Errand : ~raced' => RoomOf(s)' <= RoomOf(s)
  PROVE  RoomKept'
<1> SUFFICES ASSUME ~raced' PROVE SumFunctionOnSet(Room', Errand) <= Limit
  BY DEF RoomKept
<1>1. SumFunctionOnSet(Room, Errand) <= Limit
  BY DEF RoomKept
<1>2. IsFiniteSet(Errand) /\ Limit \in Nat
  BY ChainAssumption, NumberAssumption
<1>3. \A s \in Errand : Room[s] = RoomOf(s) /\ Room[s] \in Nat
  BY RoomTyped
<1>4. \A s \in Errand : Room'[s] = RoomOf(s)' /\ Room'[s] \in Nat
  BY DEF Room, RoomOf, ErrandTyped, AskTyped, TallyTyped
<1>5. \A s \in Errand : Room'[s] \in Int /\ Room[s] \in Int /\ Room'[s] <= Room[s]
  BY <1>3, <1>4
<1> DEFINE now == Room'
<1>6. \A s \in Errand : now[s] \in Int /\ Room[s] \in Int /\ now[s] <= Room[s]
  BY <1>5
<1> HIDE DEF now
<1>7. SumFunctionOnSet(now, Errand) <= SumFunctionOnSet(Room, Errand)
  BY ONLY <1>2, <1>6, SumMonotone
<1>8. SumFunctionOnSet(now, Errand) \in Int /\ SumFunctionOnSet(Room, Errand) \in Int
  BY ONLY <1>2, <1>6, SumInt
<1>9. SumFunctionOnSet(now, Errand) <= Limit
  BY ONLY <1>1, <1>2, <1>7, <1>8
<1> QED
  BY <1>9 DEF now

\* A step of no run of ensureApprovals, after which no opening is on its way
\* that was not, keeps the cover.
LEMMA CoverStays ==
  ASSUME ErrandTyped, ErrandTyped', CoverInv, UNCHANGED coverVars, position' <= position,
         \A s \in Errand : OnItsWay(s)' => OnItsWay(s) /\ amt'[s] = amt[s],
         \A s \in Errand : Counted(s)' => Counted(s),
         \A s \in Errand : at'[s] = "approving" <=> at[s] = "approving",
         \A s \in Errand : at[s] = "backed" => at'[s] = "backed"
  PROVE  CoverInv'
<1>0. position \in Nat /\ position' \in Nat /\ amt \in [Errand -> Nat]
  BY DEF ErrandTyped, PurseTyped, AskTyped
<1>1. /\ allowance' = allowance /\ holder' = holder /\ need' = need /\ complete' = complete
      /\ blind' = blind /\ undercut' = undercut /\ unchecked' = unchecked
  BY DEF coverVars
<1>2. CoverTyped'
  BY <1>1 DEF CoverInv, CoverTyped
<1>3. Reserve \in Nat /\ allowance \in Nat /\ need \in Nat
  BY ReserveAssumption DEF CoverInv, CoverTyped
<1>4. BackedAlone'
  BY <1>0, <1>1, <1>3 DEF CoverInv, BackedAlone
<1>5. CountedAlone'
  <2>1. \A s \in Errand : Counted(s)' => OnItsWay(s)'
    BY DEF Counted, OnItsWay, Opening
  <2> QED
    BY <1>0, <1>1, <1>3, <2>1 DEF CoverInv, CountedAlone
<1>6. LockKnows'
  BY <1>0, <1>1, <1>3 DEF CoverInv, LockKnows
<1> QED
  BY <1>2, <1>4, <1>5, <1>6 DEF CoverInv

\* So does a step of one request that recedes.
LEMMA RecedingKeepsCover ==
  ASSUME ErrandTyped, ErrandTyped', AllInOrder, CoverInv, UNCHANGED coverVars, position' <= position,
         NEW r \in Errand, OnlyOf(r), Recedes(r)
  PROVE  CoverInv'
<1>1. \A s \in Errand \ {r} : /\ OnItsWay(s)' => OnItsWay(s) /\ amt'[s] = amt[s]
                              /\ Counted(s)' => Counted(s)
                              /\ at'[s] = at[s]
  BY DEF OnlyOf, Alone, OnItsWay, Counted
<1>2. /\ OnItsWay(r)' => OnItsWay(r) /\ amt'[r] = amt[r]
      /\ Counted(r)' => Counted(r)
      /\ at'[r] # "approving" /\ at[r] # "approving" /\ at[r] # "backed"
  BY DEF Recedes
<1>3. /\ \A s \in Errand : OnItsWay(s)' => OnItsWay(s) /\ amt'[s] = amt[s]
      /\ \A s \in Errand : Counted(s)' => Counted(s)
  BY <1>1, <1>2
<1>4. /\ \A s \in Errand : at'[s] = "approving" <=> at[s] = "approving"
      /\ \A s \in Errand : at[s] = "backed" => at'[s] = "backed"
  BY <1>1, <1>2
<1> QED
  BY <1>3, <1>4, CoverStays

\* A step of one request that settles leaves all in order, with room.
LEMMA SettlingKeepsOrder ==
  ASSUME ErrandTyped, ErrandTyped', AllInOrder, RoomKept, NEW r \in Errand, OnlyOf(r), Settles(r)
  PROVE  AllInOrder' /\ RoomKept'
<1>1. \A s \in Errand \ {r} : Settles(s)
  BY AloneSettles DEF OnlyOf, AllInOrder
<1>2. \A s \in Errand : Settles(s)
  BY <1>1
<1>3. AllInOrder'
  BY <1>2 DEF AllInOrder, Settles
<1>4. RoomKept'
  <2>1. raced => raced'
    BY DEF OnlyOf
  <2>2. \A s \in Errand : ~raced' => RoomOf(s)' <= RoomOf(s)
    BY <1>2 DEF Settles
  <2> QED
    BY <2>1, <2>2, RoomShrinks
<1> QED
  BY <1>3, <1>4

\* The customer's money adds up to a number.
LEMMA BoxTotal == PurseTyped => Total(box) \in Nat
<1> SUFFICES ASSUME PurseTyped PROVE Total(box) \in Nat
  OBVIOUS
<1>1. IsFiniteSet(Chain) /\ DOMAIN box = Chain /\ \A c \in Chain : box[c] \in Nat
  BY ChainAssumption DEF PurseTyped
<1>2. SumFunctionOnSet(box, Chain) \in Nat
  BY <1>1, SumNat
<1>3. SumFunction(box) = SumFunctionOnSet(box, Chain)
  BY <1>1, SumOfAll
<1> QED
  BY <1>2, <1>3 DEF Total

\* A request is made.
LEMMA AskStep ==
  ASSUME ErrandTyped, NEW r \in Errand, InOrder(r),
         NEW k \in Kind, NEW c \in Chain, NEW a \in 1..Start, Ask(r, k, c, a)
  PROVE  ErrandTyped' /\ OnlyOf(r) /\ Settles(r) /\ Recedes(r)
<1> USE DEF Ask, Go, moneyVars, legVars, tallyVars, ghostVars
<1> USE DEF ErrandTyped, PurseTyped, AskTyped, TallyTyped, TraceTyped
<1>1. PurseTyped'
  OBVIOUS
<1>2. AskTyped'
  <2> DEFINE b == Total(box) + position
  <2>1. b \in Nat /\ a \in Nat /\ Primary \in Chain
    BY BoxTotal, ChainAssumption, NumberAssumption
  <2>2. amt' = [amt EXCEPT ![r] = IF k = "withdraw" THEN b ELSE a]
    OBVIOUS
  <2> HIDE DEF b
  <2>3. amt' \in [Errand -> Nat]
    BY <2>1, <2>2
  <2> QED
    BY <2>1, <2>3 DEF Step
<1>3. TallyTyped' /\ TraceTyped'
  OBVIOUS
<1>4. OnlyOf(r)
  BY DEF OnlyOf, Alone
<1>5. /\ at[r] = Unasked /\ at'[r] = "asked"
      /\ read'[r] = read[r] /\ paid'[r] = paid[r] /\ took'[r] = took[r] /\ written'[r] = written[r]
      /\ rowed'[r] = rowed[r] /\ hold'[r] = hold[r] /\ live'[r] = live[r] /\ failures'[r] = failures[r]
      /\ cut' = cut /\ raced' = raced
  OBVIOUS
<1>6. Untouched(r)
  BY DEF InOrder
<1>7. ErrandTyped /\ ErrandTyped'
  BY <1>1, <1>2, <1>3
<1>8. InOrder(r)'
  BY ONLY <1>5, <1>6, <1>7, r \in Errand, StepNames
     DEF InOrder, RightStage, Untouched, LegsNoted, HeldFor, LiveIsShipped, TookWhatItAsked,
         Opening, Early, Step
<1>9. Settles(r)
  BY ONLY <1>5, <1>6, <1>7, <1>8, r \in Errand, StepNames
     DEF Settles, RoomOf, Active, Untouched, Early, Step
<1>10. Recedes(r)
  BY ONLY <1>5, <1>6, <1>7, StepNames DEF Recedes, OnItsWay, Counted, Untouched, Opening, Early, Step
<1> QED
  BY <1>4, <1>7, <1>9, <1>10

\* The limit is asked: a request that passes unless another may race it finds
\* the room it needs.
LEMMA CheckStep ==
  ASSUME ErrandTyped, NEW r \in Errand, InOrder(r), Check(r)
  PROVE  /\ ErrandTyped' /\ OnlyOf(r) /\ InOrder(r)' /\ Recedes(r)
         /\ RoomOf(r)' <= RoomOf(r)
              \/ (~raced' => /\ ~raced /\ Active = {} /\ Unrecorded = {}
                             /\ amt[r] <= Left /\ RoomOf(r)' = amt[r])
<1> USE DEF Check, Go, moneyVars, askVars, legVars, tallyVars
<1> USE DEF ErrandTyped, PurseTyped, AskTyped, TallyTyped, TraceTyped
<1>1. PurseTyped'
  OBVIOUS
<1>2. AskTyped'
  BY DEF Step
<1>3. TallyTyped' /\ TraceTyped'
  OBVIOUS
<1>4. OnlyOf(r)
  BY DEF OnlyOf, Alone
<1>5. /\ at[r] = "asked" /\ kind'[r] = kind[r] /\ amt'[r] = amt[r]
      /\ read'[r] = read[r] /\ paid'[r] = paid[r] /\ took'[r] = took[r] /\ written'[r] = written[r]
      /\ rowed'[r] = rowed[r] /\ hold'[r] = hold[r] /\ live'[r] = live[r] /\ failures'[r] = failures[r]
      /\ cut' = cut
  OBVIOUS
<1>6. \/ at'[r] = Over /\ raced' = raced
      \/ /\ at'[r] = "checked" /\ amt[r] <= Left
         /\ raced' = (raced \/ Active # {} \/ Unrecorded # {})
  OBVIOUS
<1>7. ErrandTyped /\ ErrandTyped' /\ Untouched(r)
  BY <1>1, <1>2, <1>3 DEF InOrder
<1>8. InOrder(r)'
  BY ONLY <1>5, <1>6, <1>7, r \in Errand, StepNames
     DEF InOrder, RightStage, Untouched, LegsNoted, HeldFor, LiveIsShipped, TookWhatItAsked,
         Opening, Early, Step
<1>9. Recedes(r)
  BY ONLY <1>5, <1>6, <1>7, StepNames DEF Recedes, OnItsWay, Counted, Untouched, Opening, Early, Step
<1>10. CASE at'[r] = Over
  <2>1. RoomOf(r)' <= RoomOf(r)
    BY ONLY <1>5, <1>7, <1>10, r \in Errand, StepNames DEF RoomOf, Active, Step
  <2> QED BY <1>4, <1>7, <1>8, <1>9, <2>1
<1>11. CASE at'[r] # Over
  <2>1. RoomOf(r)' = amt[r]
    BY ONLY <1>5, <1>6, <1>11, r \in Errand, StepNames DEF RoomOf, Active, Step
  <2>2. ~raced' => ~raced /\ Active = {} /\ Unrecorded = {} /\ amt[r] <= Left
    BY ONLY <1>6, <1>11
  <2> QED BY <1>4, <1>7, <1>8, <1>9, <2>1, <2>2
<1> QED
  BY <1>10, <1>11

\* The room under the limit is what it was made for: a check that passes with
\* no other request under way and every dollar on record.
LEMMA CheckKeepsRoom ==
  ASSUME ErrandTyped, ErrandTyped', AllInOrder, ~raced, NEW r \in Errand, OnlyOf(r), at[r] = "asked",
         Active = {}, Unrecorded = {}, amt[r] > 0, amt[r] <= Left, RoomOf(r)' = amt[r]
  PROVE  RoomKept'
<1>1. IsFiniteSet(Errand) /\ Limit \in Nat
  BY ChainAssumption, NumberAssumption
<1>2. /\ amt \in [Errand -> Nat] /\ took \in [Errand -> Nat] /\ rowed \in [Errand -> Nat] /\ cash \in Nat
      /\ at \in [Errand -> Step \cup {Unasked, Over}]
  BY DEF ErrandTyped, PurseTyped, AskTyped, TallyTyped
<1> DEFINE all == [rowed EXCEPT ![r] = @ + amt[r]]
           now == Room'
<1>3. \A s \in Errand \ {r} : now[s] = took[s] /\ took[s] <= rowed[s]
  <2> SUFFICES ASSUME NEW s \in Errand \ {r} PROVE now[s] = took[s] /\ took[s] <= rowed[s]
    OBVIOUS
  <2>1. at[s] \in {Unasked, Over, "asked", "moving"} /\ at'[s] = at[s] /\ took'[s] = took[s]
    BY DEF Active, OnlyOf, Alone
  <2>2. now[s] = took[s]
    BY <2>1 DEF Room, RoomOf, Active
  <2>3. at[s] = Over => ~(rowed[s] < took[s])
    BY DEF Unrecorded
  <2>4. InOrder(s)
    BY DEF AllInOrder
  <2>5. took[s] <= rowed[s]
    BY ONLY <1>2, <2>1, <2>3, <2>4, ~raced, s \in Errand, StepNames DEF InOrder, Untouched, TookWhatItAsked, Early, Step
  <2> QED BY <2>2, <2>5
<1>4. now[r] = amt[r]
  BY DEF Room
<1>5. \A s \in Errand : now[s] \in Int /\ all[s] \in Int /\ now[s] <= all[s]
  BY <1>2, <1>3, <1>4
<1>6. SumFunctionOnSet(all, Errand) = SumFunctionOnSet(rowed, Errand) + amt[r]
  <2>1. rowed \in [Errand -> Int] /\ amt[r] \in Int /\ all = [rowed EXCEPT ![r] = @ + amt[r]] /\ r \in Errand
    BY <1>2
  <2> HIDE DEF all
  <2> QED BY ONLY <1>1, <2>1, SumStep
<1>7. Left = Limit - (cash + SumFunctionOnSet(rowed, Errand))
  <2>1. Total(rowed) = SumFunctionOnSet(rowed, Errand)
    BY <1>2, SumOfAll DEF Total
  <2>2. Left > 0
    <3>1. Left = Limit - Used \/ Left = 0
      BY DEF Left
    <3>2. amt[r] \in Nat /\ cash \in Nat /\ SumFunctionOnSet(rowed, Errand) \in Int /\ Used \in Int
      <4>1. \A s \in Errand : rowed[s] \in Int
        BY <1>2
      <4>2. SumFunctionOnSet(rowed, Errand) \in Int
        BY ONLY <1>1, <4>1, SumInt
      <4> QED BY <1>2, <2>1, <4>2 DEF Used
    <3> QED BY <1>1, <3>1, <3>2
  <2>3. Left = Limit - Used
    BY <2>2 DEF Left
  <2> QED BY <2>1, <2>3 DEF Used
<1> HIDE DEF all, now
<1>8. SumFunctionOnSet(now, Errand) <= SumFunctionOnSet(all, Errand)
  BY ONLY <1>1, <1>5, SumMonotone
<1>9. SumFunctionOnSet(now, Errand) \in Int /\ SumFunctionOnSet(all, Errand) \in Int
  BY ONLY <1>1, <1>5, SumInt
<1>10. SumFunctionOnSet(rowed, Errand) \in Int
  <2>1. \A s \in Errand : rowed[s] \in Int
    BY <1>2
  <2> QED BY ONLY <1>1, <2>1, SumInt
<1>11. amt[r] \in Nat
  BY <1>2
<1>12. SumFunctionOnSet(now, Errand) <= Limit
  <2>1. amt[r] <= Limit - (cash + SumFunctionOnSet(rowed, Errand))
    BY <1>7
  <2> QED BY ONLY <1>1, <1>2, <1>6, <1>8, <1>9, <1>10, <1>11, <2>1
<1> QED
  BY <1>12 DEF RoomKept, now

\* A check leaves all in order, with room.
LEMMA CheckKeeps ==
  ASSUME MoneyInv, NEW r \in Errand, Check(r)
  PROVE  ErrandTyped' /\ OnlyOf(r) /\ Recedes(r) /\ AllInOrder' /\ RoomKept'
<1>1. ErrandTyped /\ AllInOrder /\ RoomKept /\ InOrder(r)
  BY DEF MoneyInv, AllInOrder
<1>2. /\ ErrandTyped' /\ OnlyOf(r) /\ InOrder(r)' /\ Recedes(r)
      /\ RoomOf(r)' <= RoomOf(r)
           \/ (~raced' => /\ ~raced /\ Active = {} /\ Unrecorded = {}
                          /\ amt[r] <= Left /\ RoomOf(r)' = amt[r])
  BY <1>1, CheckStep
<1>3. CASE RoomOf(r)' <= RoomOf(r)
  BY <1>1, <1>2, <1>3, SettlingKeepsOrder DEF Settles
<1>4. CASE ~(RoomOf(r)' <= RoomOf(r))
  <2>1. \A s \in Errand \ {r} : InOrder(s)'
    BY <1>1, <1>2, AloneSettles DEF OnlyOf, AllInOrder, Settles
  <2>2. AllInOrder'
    BY <1>2, <2>1 DEF AllInOrder
  <2>3. at[r] = "asked"
    BY DEF Check
  <2>4. RoomKept'
    <3>1. CASE raced'
      BY <3>1 DEF RoomKept
    <3>2. CASE ~raced'
      <4>1. amt[r] \in Nat /\ RoomOf(r) \in Nat
        BY <1>1 DEF ErrandTyped, AskTyped, TallyTyped, RoomOf
      <4>2. RoomOf(r)' = amt[r] /\ amt[r] > 0
        BY <1>2, <1>4, <3>2, <4>1
      <4> QED BY <1>1, <1>2, <1>4, <2>3, <3>2, <4>2, CheckKeepsRoom
    <3> QED BY <3>1, <3>2
  <2> QED BY <1>2, <2>2, <2>4
<1> QED
  BY <1>3, <1>4

\* The row of an opening takes over from the opening.
LEMMA InsertKeepsCover ==
  ASSUME ErrandTyped, ErrandTyped', AllInOrder, CoverInv, UNCHANGED coverVars,
         NEW r \in Errand, OnlyOf(r), Recedes(r), InsertRow(r)
  PROVE  CoverInv'
<1>1. CASE position' <= position
  BY <1>1, RecedingKeepsCover
<1>2. ASSUME ~(position' <= position) PROVE CoverInv'
  <2>1. /\ position' = position + amt[r] /\ at[r] = "shipped" /\ at'[r] = "delivered" /\ live'[r] = 0
        /\ amt' = amt
    BY <1>2 DEF InsertRow, Go, Cut, Fault, ErrandTyped, PurseTyped, AskTyped, askVars
  <2>2. kind[r] = "open"
    <3>1. RightStage(r)
      BY DEF AllInOrder, InOrder
    <3> QED BY <2>1, <3>1, StepNames DEF RightStage, Step
  <2>3. OnItsWay(r) /\ Counted(r) /\ ~OnItsWay(r)' /\ ~Counted(r)'
    BY <2>1, <2>2 DEF OnItsWay, Counted, Opening
  <2>4. \A s \in Errand \ {r} : /\ OnItsWay(s)' => OnItsWay(s)
                                /\ Counted(s)' => Counted(s)
                                /\ at'[s] = at[s]
    BY DEF OnlyOf, Alone, OnItsWay, Counted
  <2>5. /\ allowance' = allowance /\ holder' = holder /\ need' = need /\ complete' = complete
        /\ blind' = blind /\ undercut' = undercut /\ unchecked' = unchecked
    BY DEF coverVars
  <2>6. CoverTyped'
    BY <2>5 DEF CoverInv, CoverTyped
  <2>7. BackedAlone'
    BY <2>1, <2>3, <2>4, <2>5 DEF CoverInv, BackedAlone
  <2>8. CountedAlone'
    BY <2>1, <2>3, <2>4, <2>5 DEF CoverInv, CountedAlone
  <2>9. LockKnows'
    <3>1. \A s \in Errand : at'[s] = "approving" <=> holder' = s
      BY <2>1, <2>4, <2>5 DEF CoverInv, LockKnows
    <3>2. holder = Nobody \/ blind
      BY <2>1, <2>3 DEF CoverInv, LockKnows
    <3> QED BY <2>5, <3>1, <3>2 DEF LockKnows
  <2> QED BY <2>6, <2>7, <2>8, <2>9 DEF CoverInv
<1> QED
  BY <1>1, <1>2

\* A check that sees every opening lets one in.
LEMMA BackKeepsCover ==
  ASSUME ErrandTyped, ErrandTyped', AllInOrder, CoverInv, NEW r \in Errand, OnlyOf(r), Back(r)
  PROVE  CoverInv'
<1> DEFINE Others == \E s \in Errand \ {r} : OnItsWay(s)
<1>1. OnTheWay \ {r} # {} <=> Others
  BY DEF OnTheWay, OnItsWay
<1>2. /\ at[r] = "checked" /\ kind[r] = "open" /\ amt' = amt /\ position' = position
      /\ kind' = kind /\ live' = live
      /\ allowance' = allowance /\ holder' = holder /\ need' = need /\ complete' = complete
      /\ blind' = blind /\ undercut' = undercut
      /\ at' = [at EXCEPT ![r] = "backed"] \/ at' = [at EXCEPT ![r] = Over]
  BY DEF Back, Go, moneyVars, askVars, lockVars
<1>3. at'[r] \in {"backed", Over}
  BY <1>2 DEF ErrandTyped, AskTyped
<1>4. \/ at'[r] = Over /\ unchecked' = unchecked
      \/ unchecked' = TRUE
      \/ at'[r] = "backed" /\ unchecked' = unchecked /\ ~Others /\ position + amt[r] <= Reserve
  <2> HIDE DEF Others
  <2>1. PICK all \in BOOLEAN :
          IF Backed(position, amt[r], all)
            THEN Go(r, "backed") /\ SeeCover(all, OnTheWay \ {r} # {})
            ELSE Go(r, Over) /\ UNCHANGED unchecked
    BY DEF Back
  <2>2. at \in [Errand -> Step \cup {Unasked, Over}] /\ unchecked \in BOOLEAN
    BY DEF ErrandTyped, AskTyped, CoverInv, CoverTyped
  <2>3. CASE Backed(position, amt[r], all)
    <3>1. at'[r] = "backed" /\ unchecked' = (unchecked \/ ~all \/ Others)
      BY <1>1, <2>1, <2>2, <2>3 DEF Go, SeeCover
    <3>2. ~all \/ position + amt[r] <= Reserve
      BY <2>3 DEF Backed
    <3> QED BY <2>2, <3>1, <3>2
  <2>4. CASE ~Backed(position, amt[r], all)
    BY <2>1, <2>2, <2>4 DEF Go
  <2> QED BY <2>3, <2>4
<1>5. live[r] = 0
  BY <1>2 DEF AllInOrder, InOrder, Untouched, Early
<1>6. ~OnItsWay(r) /\ ~Counted(r) /\ ~Counted(r)'
  BY <1>2, <1>3, <1>5, StepNames DEF OnItsWay, Counted, Opening, Step
<1>7. \A s \in Errand \ {r} : /\ OnItsWay(s)' <=> OnItsWay(s)
                              /\ Counted(s)' <=> Counted(s)
                              /\ at'[s] = at[s]
  BY DEF OnlyOf, Alone, OnItsWay, Counted
<1>8. at'[r] = Over => ~OnItsWay(r)'
  BY <1>2, <1>5, StepNames DEF OnItsWay
<1>9. CoverTyped'
  BY <1>2, <1>4 DEF CoverInv, CoverTyped
<1>10. BackedAlone'
  <2>1. CASE unchecked'
    BY <2>1 DEF BackedAlone
  <2>2. CASE ~unchecked' /\ at'[r] = Over
    <3>1. ~unchecked
      BY <1>4, <2>2 DEF CoverInv, CoverTyped
    <3> QED BY <1>2, <1>6, <1>7, <1>8, <2>2, <3>1 DEF CoverInv, BackedAlone
  <2>3. CASE ~unchecked' /\ at'[r] # Over
    <3>1. ~unchecked /\ ~Others /\ position + amt[r] <= Reserve
      BY <1>4, <2>3 DEF CoverInv, CoverTyped
    <3>2. \A s \in Errand \ {r} : ~OnItsWay(s)'
      BY <1>7, <3>1
    <3> QED BY <1>2, <3>1, <3>2 DEF CoverInv, BackedAlone
  <2> QED BY <2>1, <2>2, <2>3
<1>11. CountedAlone'
  BY <1>2, <1>6, <1>7 DEF CoverInv, CountedAlone
<1>12. LockKnows'
  <2>1. at'[r] # "approving" /\ at[r] # "approving"
    BY <1>2, <1>3, StepNames DEF Step
  <2>2. \A s \in Errand : at'[s] = "approving" <=> holder' = s
    BY <1>2, <1>7, <2>1 DEF CoverInv, LockKnows
  <2>3. OnItsWay(r)' => at'[r] = "backed"
    BY <1>3, <1>8
  <2> QED BY <1>2, <1>7, <2>2, <2>3 DEF CoverInv, LockKnows
<1> QED
  BY <1>9, <1>10, <1>11, <1>12 DEF CoverInv

\* allowanceAction leaves an allowance that is not below the need.
LEMMA AllowanceCovers ==
  ASSUME NEW now \in Nat, NEW n \in Nat, NEW all
  PROVE  AllowanceFor(now, n, all) \in Nat /\ n <= AllowanceFor(now, n, all)
<1>1. CASE Raise(now, n) \/ Lower(now, n, all)
  BY <1>1 DEF AllowanceFor
<1>2. CASE ~(Raise(now, n) \/ Lower(now, n, all))
  <2>1. ~(now < (n * 3) \div 2)
    BY <1>2 DEF Raise
  <2>2. n <= (n * 3) \div 2
    OBVIOUS
  <2> QED BY <1>2, <2>1, <2>2 DEF AllowanceFor
<1> QED
  BY <1>1, <1>2

\* A run takes the lock, with the need as it reads it, or less.
LEMMA ReadKeepsCover ==
  ASSUME ErrandTyped, ErrandTyped', AllInOrder, CoverInv, NEW who, NEW extra \in Nat,
         who \in Errand \/ who = Keeper,
         holder = Nobody, holder' = who, need' \in Nat, complete' \in BOOLEAN, blind' \in BOOLEAN,
         UNCHANGED <<allowance, undercut, unchecked, position, kind, amt, live>>,
         \A s \in Errand : s # who => at'[s] = at[s],
         who \in Errand => at[who] = "backed" /\ at'[who] = "approving" /\ extra = amt[who],
         ~blind' => /\ need' = position + extra
                    /\ \A s \in Errand : s # who => ~OnItsWay(s)
  PROVE  CoverInv'
<1>1. Keeper # Nobody /\ Keeper \notin Errand /\ Nobody \notin Errand
  BY NameAssumption
<1>2. position \in Nat /\ amt \in [Errand -> Nat]
  BY DEF ErrandTyped, PurseTyped, AskTyped
<1>3. CoverTyped'
  BY DEF CoverInv, CoverTyped
<1>4. \A s \in Errand : /\ OnItsWay(s)' <=> OnItsWay(s)
                        /\ Counted(s)' <=> Counted(s)
  BY DEF OnItsWay, Counted, Opening
<1>5. BackedAlone'
  BY <1>4 DEF CoverInv, BackedAlone
<1>6. CountedAlone'
  BY <1>4 DEF CoverInv, CountedAlone
<1>7. \A s \in Errand : at[s] # "approving"
  BY <1>1 DEF CoverInv, LockKnows
<1>8. \A s \in Errand : at'[s] = "approving" <=> holder' = s
  BY <1>1, <1>7
<1>9. ASSUME ~blind'
      PROVE  /\ position' <= need'
             /\ \A s \in Errand : OnItsWay(s)' => s = holder' /\ position' + amt'[s] <= need'
  <2>1. position <= need'
    BY <1>2, <1>9
  <2>2. \A s \in Errand : OnItsWay(s) => s = who
    BY <1>9
  <2>3. who \in Errand => position + amt[who] <= need'
    BY <1>2, <1>9
  <2> QED BY <1>4, <2>1, <2>2, <2>3
<1>10. LockKnows'
  BY <1>8, <1>9 DEF LockKnows
<1> QED
  BY <1>3, <1>5, <1>6, <1>10 DEF CoverInv

\* An opening reads what it needs approved.
LEMMA AskApprovalKeepsCover ==
  ASSUME ErrandTyped, ErrandTyped', AllInOrder, CoverInv, NEW r \in Errand, AskApproval(r)
  PROVE  CoverInv'
<1>1. position \in Nat /\ amt[r] \in Nat /\ at \in [Errand -> Step \cup {Unasked, Over}]
  BY DEF ErrandTyped, PurseTyped, AskTyped
<1>2. /\ at[r] = "backed" /\ at'[r] = "approving"
      /\ \A s \in Errand : s # r => at'[s] = at[s]
      /\ UNCHANGED <<position, kind, amt, live>>
  BY <1>1 DEF AskApproval, Go, moneyVars, askVars
<1>3. /\ holder = Nobody /\ holder' = r
      /\ UNCHANGED <<allowance, undercut, unchecked>>
      /\ \/ need' = position + amt[r] /\ complete' = TRUE /\ blind' = (OnTheWay \ {r} # {})
         \/ need' = amt[r] /\ complete' = FALSE /\ blind' = TRUE
  BY DEF AskApproval, ReadNeed, ReadPart, NeedOf
<1>4. need' \in Nat /\ complete' \in BOOLEAN /\ blind' \in BOOLEAN
  <2>1. need' \in Nat
    BY <1>1, <1>3
  <2>2. complete' \in BOOLEAN
    BY <1>3
  <2>3. blind' \in BOOLEAN
    BY ONLY <1>3
  <2> QED BY <2>1, <2>2, <2>3
<1>5. ~blind' => need' = position + amt[r] /\ \A s \in Errand : s # r => ~OnItsWay(s)
  BY <1>3 DEF OnTheWay, OnItsWay
<1> QED
  BY <1>1, <1>2, <1>3, <1>4, <1>5, ReadKeepsCover

\* The timer reads what the open rows need.
LEMMA KeeperReadsKeepsCover ==
  ASSUME ErrandTyped, ErrandTyped', AllInOrder, CoverInv, KeeperReads
  PROVE  CoverInv'
<1>1. position \in Nat
  BY DEF ErrandTyped, PurseTyped
<1>2. /\ \A s \in Errand : at'[s] = at[s]
      /\ UNCHANGED <<position, kind, amt, live>>
  BY DEF KeeperReads, moneyVars, askVars
<1>3. /\ holder = Nobody /\ holder' = Keeper
      /\ UNCHANGED <<allowance, undercut, unchecked>>
      /\ need' = position + 0 /\ complete' = TRUE /\ blind' = (OnTheWay # {})
  BY DEF KeeperReads, ReadNeed, NeedOf
<1>4. need' \in Nat /\ complete' \in BOOLEAN /\ blind' \in BOOLEAN
  BY <1>1, <1>3
<1>5. ~blind' => need' = position + 0 /\ \A s \in Errand : ~OnItsWay(s)
  BY <1>3 DEF OnTheWay, OnItsWay
<1>6. Keeper \notin Errand
  BY NameAssumption
<1> QED
  BY <1>2, <1>3, <1>4, <1>5, <1>6, ReadKeepsCover

\* A run lets go of the lock, when the allowance is set or before.
LEMMA RunEndsKeepsCover ==
  ASSUME ErrandTyped, ErrandTyped', AllInOrder, CoverInv,
         holder' = Nobody, need' = 0, complete' = TRUE, blind' = FALSE, UNCHANGED unchecked,
         \/ /\ holder # Nobody
            /\ allowance' = AllowanceFor(allowance, need, complete)
            /\ undercut' = blind \/ undercut' = (undercut \/ blind)
            /\ \A s \in Errand : Counted(s)' => Counted(s) \/ s = holder
         \/ /\ UNCHANGED <<allowance, undercut>>
            /\ \A s \in Errand : Counted(s)' => Counted(s),
         position' = position, \A s \in Errand : amt'[s] = amt[s],
         \A s \in Errand : OnItsWay(s)' => OnItsWay(s),
         \A s \in Errand : at'[s] # "approving",
         \A s \in Errand : Counted(s)' => at[s] # "backed"
  PROVE  CoverInv'
<1>1. /\ position \in Nat /\ amt \in [Errand -> Nat] /\ allowance \in Nat /\ need \in Nat
      /\ blind \in BOOLEAN /\ undercut \in BOOLEAN
  BY DEF ErrandTyped, PurseTyped, AskTyped, CoverInv, CoverTyped
<1>2. AllowanceFor(allowance, need, complete) \in Nat /\ need <= AllowanceFor(allowance, need, complete)
  BY <1>1, AllowanceCovers
<1>3. CoverTyped'
  BY <1>1, <1>2 DEF CoverInv, CoverTyped
<1>4. BackedAlone'
  BY DEF CoverInv, BackedAlone
<1>5. LockKnows'
  BY NameAssumption DEF LockKnows
<1>6. CountedAlone'
  <2>1. \A s \in Errand : Counted(s)' => OnItsWay(s)'
    BY DEF Counted, OnItsWay, Opening
  <2>2. CASE UNCHANGED <<allowance, undercut>> /\ \A s \in Errand : Counted(s)' => Counted(s)
    BY <2>2 DEF CoverInv, CountedAlone
  <2>3. ASSUME /\ holder # Nobody
               /\ allowance' = AllowanceFor(allowance, need, complete)
               /\ undercut' = blind \/ undercut' = (undercut \/ blind),
               ~undercut'
        PROVE  /\ position' <= allowance'
               /\ \A r \in Errand : Counted(r)' =>
                    /\ position' + amt'[r] <= allowance'
                    /\ \A s \in Errand : Counted(s)' => s = r
    <3>1. ~blind
      BY <1>1, <2>3
    <3>2. /\ position <= need
          /\ \A r \in Errand : OnItsWay(r) => at[r] = "backed" \/ (r = holder /\ position + amt[r] <= need)
      BY <2>3, <3>1 DEF CoverInv, LockKnows
    <3>3. \A r \in Errand : Counted(r)' => r = holder /\ position + amt[r] <= need
      BY <2>1, <3>2
    <3>4. position' <= allowance'
      BY <1>1, <1>2, <2>3, <3>2
    <3>5. \A r \in Errand : Counted(r)' => position' + amt'[r] <= allowance'
      BY <1>1, <1>2, <2>3, <3>3
    <3> QED BY <3>3, <3>4, <3>5
  <2> QED BY <2>2, <2>3 DEF CountedAlone
<1> QED
  BY <1>3, <1>4, <1>5, <1>6 DEF CoverInv

\* The approve of an opening is mined, or its run ends with it.
LEMMA ApproveKeepsCover ==
  ASSUME ErrandTyped, ErrandTyped', AllInOrder, CoverInv, NEW r \in Errand, OnlyOf(r), Approve(r)
  PROVE  CoverInv'
<1>1. /\ at[r] = "approving" /\ position' = position /\ amt' = amt /\ kind' = kind /\ live' = live
      /\ holder' = Nobody /\ need' = 0 /\ complete' = TRUE /\ blind' = FALSE /\ UNCHANGED unchecked
  BY DEF Approve, SetAllowance, LoseRun, moneyVars, askVars
<1>2. at'[r] \in {"approved", Over}
  BY DEF Approve, Go, ErrandTyped, AskTyped
<1>3. holder = r /\ holder # Nobody /\ (\A s \in Errand \ {r} : at[s] # "approving")
  BY <1>1, NameAssumption DEF CoverInv, LockKnows
<1>4. live[r] = 0
  BY <1>1 DEF AllInOrder, InOrder, Untouched, Early
<1>5. \A s \in Errand \ {r} : /\ OnItsWay(s)' <=> OnItsWay(s)
                              /\ Counted(s)' <=> Counted(s)
                              /\ at'[s] = at[s]
  BY DEF OnlyOf, Alone, OnItsWay, Counted
<1>6. OnItsWay(r)' => OnItsWay(r)
  BY <1>1 DEF OnItsWay, Opening
<1>7. \A s \in Errand : at'[s] # "approving"
  BY <1>2, <1>3, <1>5, StepNames DEF Step
<1>8. \A s \in Errand : Counted(s)' => at[s] # "backed"
  <2>1. \A s \in Errand : at[s] = "backed" => ~Counted(s)
    BY DEF AllInOrder, InOrder, Untouched, Early, Counted, ErrandTyped, PurseTyped
  <2> QED BY <1>1, <1>5, <2>1
<1>9. at'[r] = Over => ~Counted(r)'
  BY <1>1, <1>4, StepNames DEF Counted, Step
<1>10. CASE SetAllowance(r)
  <2>1. /\ allowance' = AllowanceFor(allowance, need, complete) /\ undercut' = blind
        /\ \A s \in Errand : Counted(s)' => Counted(s) \/ s = holder
    BY <1>3, <1>5, <1>10 DEF SetAllowance
  <2> QED BY <1>1, <1>3, <1>5, <1>6, <1>7, <1>8, <2>1, RunEndsKeepsCover
<1>11. CASE LoseRun /\ Go(r, Over)
  <2>1. at'[r] = Over
    BY <1>11 DEF Go, ErrandTyped, AskTyped
  <2>2. \A s \in Errand : Counted(s)' => Counted(s)
    BY <1>5, <1>9, <2>1
  <2>3. \/ allowance' = AllowanceFor(allowance, need, complete) /\ undercut' = (undercut \/ blind)
        \/ UNCHANGED <<allowance, undercut>>
    BY <1>11 DEF LoseRun
  <2>4. \A s \in Errand : OnItsWay(s)' => OnItsWay(s)
    BY <1>5, <1>6
  <2>5. \A s \in Errand : amt'[s] = amt[s]
    BY <1>1
  <2> QED BY ONLY ErrandTyped, ErrandTyped', AllInOrder, CoverInv,
                  <1>1, <1>3, <1>7, <1>8, <2>2, <2>3, <2>4, <2>5, RunEndsKeepsCover
<1> QED
  BY <1>10, <1>11 DEF Approve

\* The timer's run sets the allowance.
LEMMA KeeperSetsKeepsCover ==
  ASSUME ErrandTyped, ErrandTyped', AllInOrder, CoverInv, KeeperSets
  PROVE  CoverInv'
<1>1. /\ position' = position /\ amt' = amt /\ kind' = kind /\ live' = live /\ at' = at
      /\ holder = Keeper /\ holder' = Nobody /\ need' = 0 /\ complete' = TRUE /\ blind' = FALSE
      /\ UNCHANGED unchecked
      /\ allowance' = AllowanceFor(allowance, need, complete) /\ undercut' = blind
  BY DEF KeeperSets, SetAllowance, moneyVars, askVars
<1>2. Keeper # Nobody /\ Keeper \notin Errand
  BY NameAssumption
<1>3. \A s \in Errand : (OnItsWay(s)' <=> OnItsWay(s)) /\ (Counted(s)' <=> Counted(s))
  BY <1>1 DEF OnItsWay, Counted
<1>4. \A s \in Errand : at'[s] # "approving"
  BY <1>1, <1>2 DEF CoverInv, LockKnows
<1>5. \A s \in Errand : Counted(s) => at[s] # "backed"
  BY DEF AllInOrder, InOrder, Untouched, Early, Counted, ErrandTyped, PurseTyped
<1> QED
  BY <1>1, <1>2, <1>3, <1>4, <1>5, RunEndsKeepsCover

\* A restart of the backend leaves all in order, with room, and covered.
LEMMA CrashKeeps ==
  ASSUME ErrandTyped, AllInOrder, CoverInv, RoomKept, Crash
  PROVE  ErrandTyped' /\ AllInOrder' /\ CoverInv' /\ RoomKept'
<1> DEFINE Stays(r) == at[r] \in {Unasked, "moving", "signed"} \/ (kind[r] = "tk" /\ at[r] = "checked")
<1>1. /\ UNCHANGED <<moneyVars, askVars, legVars, tallyVars, hold, raced, failures>>
      /\ cut' = cut \cup {r \in Errand : at'[r] # at[r]}
      /\ at' = [r \in Errand |-> IF Stays(r) THEN at[r] ELSE Over]
      /\ faults < MaxFaults /\ faults' = faults + 1
  BY DEF Crash, Fault
<1> USE DEF moneyVars, askVars, legVars, tallyVars
<1>2. ErrandTyped'
  <2>1. PurseTyped' /\ TallyTyped'
    BY <1>1 DEF ErrandTyped, PurseTyped, TallyTyped
  <2>2. AskTyped'
    BY <1>1 DEF ErrandTyped, AskTyped
  <2>3. TraceTyped'
    BY <1>1, NumberAssumption DEF ErrandTyped, TraceTyped
  <2> QED BY <2>1, <2>2, <2>3 DEF ErrandTyped
<1>3. ASSUME NEW r \in Errand
      PROVE  /\ kind'[r] = kind[r] /\ amt'[r] = amt[r] /\ read'[r] = read[r] /\ paid'[r] = paid[r]
             /\ took'[r] = took[r] /\ written'[r] = written[r] /\ rowed'[r] = rowed[r]
             /\ hold'[r] = hold[r] /\ live'[r] = live[r] /\ failures'[r] = failures[r] /\ raced' = raced
             /\ \/ at'[r] = at[r] /\ Stays(r) /\ (r \in cut => r \in cut')
                \/ at'[r] = Over /\ ~Stays(r) /\ (at[r] # Over => r \in cut') /\ (r \in cut => r \in cut')
  BY <1>1
<1>4. ASSUME NEW r \in Errand PROVE InOrder(r)'
  <2>1. InOrder(r)
    BY DEF AllInOrder
  <2> QED
    BY ONLY <1>3, <2>1, r \in Errand, ErrandTyped, StepNames
       DEF InOrder, RightStage, Untouched, LegsNoted, HeldFor, LiveIsShipped, TookWhatItAsked,
           Opening, Early, Step, ErrandTyped, PurseTyped, AskTyped, TallyTyped, TraceTyped
<1>5. ASSUME NEW r \in Errand, ~raced' PROVE RoomOf(r)' <= RoomOf(r)
  <2>1. InOrder(r)
    BY DEF AllInOrder
  <2> QED
    BY ONLY <1>3, <1>5, <2>1, r \in Errand, ErrandTyped, StepNames
       DEF RoomOf, Active, InOrder, Untouched, TookWhatItAsked, LegsNoted, RightStage,
           Opening, Early, Step, ErrandTyped, PurseTyped, AskTyped, TallyTyped, TraceTyped
<1>6. RoomKept'
  BY <1>1, <1>2, <1>5, RoomShrinks
<1>7. \A s \in Errand : (OnItsWay(s)' => OnItsWay(s)) /\ (Counted(s)' => Counted(s))
  <2> SUFFICES ASSUME NEW s \in Errand PROVE (OnItsWay(s)' => OnItsWay(s)) /\ (Counted(s)' => Counted(s))
    OBVIOUS
  <2> QED BY <1>3, StepNames DEF OnItsWay, Counted, Opening, Step
<1>8. \A s \in Errand : at'[s] # "approving" /\ (Counted(s)' => at[s] # "backed")
  <2>1. \A s \in Errand : at[s] = "backed" => ~Counted(s)
    BY DEF AllInOrder, InOrder, Untouched, Early, Counted, ErrandTyped, PurseTyped
  <2> QED BY <1>3, <1>7, <2>1, StepNames DEF Step
<1>9. CoverInv'
  <2>1. /\ holder' = Nobody /\ need' = 0 /\ complete' = TRUE /\ blind' = FALSE /\ UNCHANGED unchecked
        /\ \/ /\ holder # Nobody
              /\ allowance' = AllowanceFor(allowance, need, complete) /\ undercut' = (undercut \/ blind)
           \/ UNCHANGED <<allowance, undercut>>
    BY DEF Crash, LoseRun
  <2>2. position' = position /\ \A s \in Errand : amt'[s] = amt[s]
    BY <1>1
  <2> QED BY ONLY ErrandTyped, AllInOrder, CoverInv, <1>2, <1>7, <1>8, <2>1, <2>2, RunEndsKeepsCover
<1> QED
  BY <1>2, <1>4, <1>6, <1>9 DEF AllInOrder

\* Midnight leaves all in order, with more room.
LEMMA MidnightKeeps ==
  ASSUME ErrandTyped, AllInOrder, CoverInv, RoomKept, Midnight, UNCHANGED coverVars
  PROVE  ErrandTyped' /\ AllInOrder' /\ CoverInv' /\ RoomKept'
<1> USE DEF Midnight, Fault, askVars, legVars, ghostVars, Zero
<1>1. ErrandTyped'
  BY NumberAssumption DEF ErrandTyped, PurseTyped, AskTyped, TallyTyped, TraceTyped
<1>2. ASSUME NEW r \in Errand PROVE InOrder(r)'
  <2>1. InOrder(r) /\ took'[r] = 0 /\ rowed'[r] = 0 /\ paid[r] \in Nat /\ amt[r] \in Nat
    BY DEF AllInOrder, ErrandTyped, AskTyped, TallyTyped
  <2> QED
    BY <2>1 DEF InOrder, RightStage, Untouched, LegsNoted, HeldFor, LiveIsShipped, TookWhatItAsked
<1>3. ASSUME NEW r \in Errand PROVE RoomOf(r)' <= RoomOf(r)
  BY DEF RoomOf, Active, ErrandTyped, AskTyped, TallyTyped
<1>4. RoomKept'
  BY <1>1, <1>3, RoomShrinks
<1>5. CoverInv'
  <2>1. \A s \in Errand : /\ OnItsWay(s)' => OnItsWay(s) /\ amt'[s] = amt[s]
                          /\ Counted(s)' => Counted(s)
    BY DEF OnItsWay, Counted
  <2>2. position' <= position
    BY DEF ErrandTyped, PurseTyped
  <2> QED BY <1>1, <2>1, <2>2, CoverStays
<1> QED
  BY <1>1, <1>2, <1>4, <1>5 DEF AllInOrder

\* So does a note.
LEMMA DepositKeeps ==
  ASSUME ErrandTyped, AllInOrder, CoverInv, RoomKept, NEW c \in Chain, DepositNote(c), UNCHANGED coverVars
  PROVE  ErrandTyped' /\ AllInOrder' /\ CoverInv' /\ RoomKept'
<1> USE DEF DepositNote, Fault, askVars, legVars, tallyVars, ghostVars
<1>1. ErrandTyped'
  BY NumberAssumption DEF ErrandTyped, PurseTyped, AskTyped, TallyTyped, TraceTyped
<1>2. ASSUME NEW r \in Errand PROVE Alone(r)
  BY DEF Alone
<1>3. ASSUME NEW r \in Errand PROVE Settles(r)
  BY <1>2, AloneSettles DEF AllInOrder
<1>4. RoomKept'
  BY <1>1, <1>3, RoomShrinks DEF Settles
<1>5. CoverInv'
  <2>1. \A s \in Errand : /\ OnItsWay(s)' => OnItsWay(s) /\ amt'[s] = amt[s]
                          /\ Counted(s)' => Counted(s)
    BY DEF OnItsWay, Counted
  <2>2. position' <= position
    BY DEF ErrandTyped, PurseTyped
  <2> QED BY <1>1, <2>1, <2>2, CoverStays
<1> QED
  BY <1>1, <1>3, <1>4, <1>5 DEF AllInOrder, Settles

\* At first nothing is on its way and the box covers what is open.
LEMMA MoneyStarts == MoneyInit => MoneyInv
<1> SUFFICES ASSUME MoneyInit PROVE MoneyInv
  OBVIOUS
<1> USE DEF MoneyInit, Zero, CoverInit
<1>1. Start \in Nat /\ Limit \in Nat /\ MaxFaults \in Nat /\ Start <= Reserve /\ Primary \in Chain
      /\ IsFiniteSet(Errand)
  BY NumberAssumption, ChainAssumption
<1>2. ErrandTyped
  <2>1. PurseTyped
    BY <1>1 DEF PurseTyped
  <2>2. AskTyped
    BY <1>1 DEF AskTyped, Kind
  <2>3. TallyTyped
    BY DEF TallyTyped
  <2>4. TraceTyped
    <3>1. failures \in [Errand -> Nat] /\ cut \subseteq Errand /\ faults \in 0..MaxFaults
      BY <1>1
    <3>2. raced \in BOOLEAN
      OBVIOUS
    <3> QED BY <3>1, <3>2 DEF TraceTyped
  <2> QED BY <2>1, <2>2, <2>3, <2>4 DEF ErrandTyped
<1>3. AllInOrder
  BY StepNames
     DEF AllInOrder, InOrder, RightStage, Untouched, LegsNoted, HeldFor, LiveIsShipped, TookWhatItAsked, Step
<1>4. \A r \in Errand : ~OnItsWay(r) /\ ~Counted(r)
  BY StepNames DEF OnItsWay, Counted, Opening, Step
<1>5. CoverInv
  <2>1. CoverTyped
    BY <1>1 DEF CoverTyped
  <2>2. BackedAlone /\ CountedAlone
    BY <1>1, <1>4 DEF BackedAlone, CountedAlone
  <2>3. LockKnows
    BY NameAssumption DEF LockKnows, Step
  <2> QED BY <2>1, <2>2, <2>3 DEF CoverInv
<1>6. RoomKept
  <2>1. \A r \in Errand : Room[r] = 0
    BY DEF Room, RoomOf
  <2>2. SumFunctionOnSet(Room, Errand) = 0
    BY ONLY <1>1, <2>1, SumZero
  <2> QED BY <1>1, <2>2 DEF RoomKept
<1> QED
  BY <1>2, <1>3, <1>5, <1>6 DEF MoneyInv

\* A move of one request keeps the invariant.
LEMMA MoveOfErrandKeeps ==
  ASSUME MoneyInv, NEW r \in Errand, ErrandTyped', OnlyOf(r), Settles(r), Recedes(r),
         UNCHANGED coverVars, position' <= position \/ InsertRow(r)
  PROVE  MoneyInv'
<1>1. ErrandTyped /\ AllInOrder /\ CoverInv /\ RoomKept
  BY DEF MoneyInv
<1>2. AllInOrder' /\ RoomKept'
  BY <1>1, SettlingKeepsOrder
<1>3. CoverInv'
  BY <1>1, RecedingKeepsCover, InsertKeepsCover
<1> QED
  BY <1>2, <1>3 DEF MoneyInv

\* Every move of money keeps the invariant.
LEMMA MovesKeep == MoneyInv /\ Move /\ UNCHANGED coverVars => MoneyInv'
<1> SUFFICES ASSUME MoneyInv, Move, UNCHANGED coverVars PROVE MoneyInv'
  OBVIOUS
<1>1. ErrandTyped /\ AllInOrder /\ CoverInv /\ RoomKept /\ position \in Nat /\ position <= position
  BY DEF MoneyInv, ErrandTyped, PurseTyped
<1>2. \A r \in Errand : InOrder(r)
  BY <1>1 DEF AllInOrder
<1>3. ASSUME NEW r \in Errand, NEW k \in Kind, NEW c \in Chain, NEW a \in 1..Start, Ask(r, k, c, a)
      PROVE  MoneyInv'
  <2>1. position' = position
    BY <1>3 DEF Ask, moneyVars
  <2> QED BY <1>1, <1>2, <1>3, <2>1, AskStep, MoveOfErrandKeeps
<1>4. ASSUME NEW r \in Errand, Check(r) PROVE MoneyInv'
  <2>1. position' = position
    BY <1>4 DEF Check, moneyVars
  <2>2. ErrandTyped' /\ OnlyOf(r) /\ Recedes(r) /\ AllInOrder' /\ RoomKept'
    BY <1>4, CheckKeeps
  <2>3. CoverInv'
    BY <1>1, <2>1, <2>2, RecedingKeepsCover
  <2> QED BY <2>2, <2>3 DEF MoneyInv
<1>5. ASSUME NEW r \in Errand,
             Take(r) \/ TakeFails(r) \/ Record(r) \/ Give(r) \/ Ship(r) \/ Shipped(r) \/ DockShipped(r)
               \/ Undo(r) \/ CreateTransfer(r) \/ BoxPays(r) \/ Advance(r) \/ Sign(r)
      PROVE  MoneyInv'
  <2>1. position' = position
    BY <1>5 DEF Take, TakeFails, Record, Give, Ship, Shipped, DockShipped, Undo, CreateTransfer, BoxPays, Advance,
                Sign, moneyVars
  <2>2. ErrandTyped' /\ OnlyOf(r) /\ Settles(r) /\ Recedes(r)
    BY <1>1, <1>2, <1>5, TakeStep, TakeFailsStep, RecordStep, GiveStep, ShipStep, ShippedStep,
       DockShippedStep, UndoStep, CreateTransferStep, BoxPaysStep, AdvanceStep, SignStep
  <2> QED BY <1>1, <2>1, <2>2, MoveOfErrandKeeps
<1>6. ASSUME NEW r \in Errand,
             Confirm(r) \/ NeverConfirmed(r) \/ ReadLeg(r) \/ PayLeg(r) \/ NoteLeg(r) \/ LegsEnd(r)
      PROVE  MoneyInv'
  <2>1. position' = position
    BY <1>6 DEF Confirm, NeverConfirmed, ReadLeg, PayLeg, NoteLeg, LegsEnd, moneyVars
  <2>2. ErrandTyped' /\ OnlyOf(r) /\ Settles(r) /\ Recedes(r)
    BY <1>1, <1>2, <1>6, ConfirmStep, NeverConfirmedStep, ReadLegStep, PayLegStep, NoteLegStep, LegsEndStep
  <2> QED BY <1>1, <2>1, <2>2, MoveOfErrandKeeps
<1>7. ASSUME NEW r \in Errand, InsertRow(r) PROVE MoneyInv'
  BY <1>1, <1>2, <1>7, InsertRowStep, MoveOfErrandKeeps
<1>8. ASSUME NEW r \in Errand, CloseAll(r) PROVE MoneyInv'
  <2>1. position' <= position
    BY <1>1, <1>8 DEF CloseAll
  <2> QED BY <1>1, <1>2, <1>8, <2>1, CloseAllStep, MoveOfErrandKeeps
<1>9. ASSUME NEW c \in Chain, DepositNote(c) PROVE MoneyInv'
  BY <1>1, <1>9, DepositKeeps DEF MoneyInv
<1>10. CASE Midnight
  BY <1>1, <1>10, MidnightKeeps DEF MoneyInv
<1> QED
  BY <1>3, <1>4, <1>5, <1>6, <1>7, <1>8, <1>9, <1>10 DEF Move

\* So do the checks and approvals that cover it, and a restart.
LEMMA CoverKeeps == MoneyInv /\ Cover => MoneyInv'
<1> SUFFICES ASSUME MoneyInv, Cover PROVE MoneyInv'
  OBVIOUS
<1>1. ErrandTyped /\ AllInOrder /\ CoverInv /\ RoomKept
  BY DEF MoneyInv
<1>2. ASSUME NEW r \in Errand, Back(r) \/ AskApproval(r) \/ Approve(r) PROVE MoneyInv'
  <2>1. ErrandTyped' /\ OnlyOf(r) /\ Settles(r)
    BY <1>1, <1>2, BackStep, AskApprovalStep, ApproveStep DEF AllInOrder
  <2>2. AllInOrder' /\ RoomKept'
    BY <1>1, <2>1, SettlingKeepsOrder
  <2>3. CoverInv'
    BY <1>1, <1>2, <2>1, BackKeepsCover, AskApprovalKeepsCover, ApproveKeepsCover
  <2> QED BY <2>1, <2>2, <2>3 DEF MoneyInv
<1>3. ASSUME KeeperReads \/ KeeperSets PROVE MoneyInv'
  <2>1. UNCHANGED <<moneyVars, askVars, at, legVars, tallyVars, hold, ghostVars, faults>>
    BY <1>3 DEF KeeperReads, KeeperSets
  <2>2. ErrandTyped' /\ AllInOrder' /\ RoomKept'
    BY <1>1, <2>1 DEF moneyVars, askVars, legVars, tallyVars, ghostVars, ErrandTyped, PurseTyped, AskTyped,
       TallyTyped, TraceTyped, AllInOrder, InOrder, RightStage, Untouched, LegsNoted, HeldFor,
       LiveIsShipped, TookWhatItAsked, RoomKept, Room, RoomOf, Active
  <2>3. CoverInv'
    BY <1>1, <1>3, <2>2, KeeperReadsKeepsCover, KeeperSetsKeepsCover
  <2> QED BY <2>2, <2>3 DEF MoneyInv
<1>4. CASE Crash
  BY <1>1, <1>4, CrashKeeps DEF MoneyInv
<1> QED
  BY <1>2, <1>3, <1>4 DEF Cover

\* The inductive invariant of a customer's money.
THEOREM MoneyInvariant == MoneySpec => []MoneyInv
<1>1. MoneyInit => MoneyInv
  BY MoneyStarts
<1>2. MoneyInv /\ [MoneyNext]_customerVars => MoneyInv'
  <2> SUFFICES ASSUME MoneyInv, [MoneyNext]_customerVars PROVE MoneyInv'
    OBVIOUS
  <2>1. CASE UNCHANGED customerVars
    BY <2>1 DEF customerVars, coverVars, moneyVars, askVars, legVars, tallyVars, ghostVars,
       MoneyInv, ErrandTyped, PurseTyped, AskTyped, TallyTyped, TraceTyped, AllInOrder, InOrder,
       RightStage, Untouched, LegsNoted, HeldFor, LiveIsShipped, TookWhatItAsked, RoomKept, Room, RoomOf,
       Active, CoverInv, CoverTyped, BackedAlone, CountedAlone, LockKnows, OnItsWay, Counted
  <2> QED
    BY <2>1, MovesKeep, CoverKeeps DEF MoneyNext
<1> QED
  BY <1>1, <1>2, PTL DEF MoneySpec

\* Every variable of a customer's requests and of the cover has its type.
THEOREM MoneyTypes == MoneySpec => []MoneyTypeOK
<1>1. MoneyInv => MoneyTypeOK
  BY MoneyTyped DEF MoneyInv, CoverInv
<1> QED
  BY <1>1, MoneyInvariant, PTL

\* What the customer moves in a day is within the daily limit, unless two
\* requests were under way at one check, a dollar was moved without a row, or a
\* request took more than it asked for.
THEOREM LimitKeptHolds == MoneySpec => []LimitKept
<1>1. MoneyInv => LimitKept
  <2> SUFFICES ASSUME MoneyInv, ~raced PROVE ~(Total(took) > Limit)
    BY DEF LimitKept, MoneyInv, ErrandTyped, TraceTyped
  <2>1. IsFiniteSet(Errand) /\ Limit \in Nat
    BY ChainAssumption, NumberAssumption
  <2>2. ErrandTyped /\ SumFunctionOnSet(Room, Errand) <= Limit
    BY DEF MoneyInv, RoomKept
  <2>3. took \in [Errand -> Nat] /\ \A r \in Errand : Room[r] = RoomOf(r) /\ Room[r] \in Nat
    BY <2>2, RoomTyped DEF ErrandTyped, TallyTyped
  <2>4. ASSUME NEW r \in Errand PROVE took[r] <= RoomOf(r)
    <3>1. InOrder(r)
      BY DEF MoneyInv, AllInOrder
    <3> QED
      BY ONLY <2>2, <3>1, ~raced, r \in Errand, StepNames
         DEF RoomOf, Active, InOrder, RightStage, Untouched, LegsNoted, TookWhatItAsked,
             Opening, Early, Step, ErrandTyped, AskTyped, TallyTyped, TraceTyped
  <2>5. \A r \in Errand : took[r] \in Int /\ Room[r] \in Int /\ took[r] <= Room[r]
    BY <2>3, <2>4
  <2>6. SumFunctionOnSet(took, Errand) <= SumFunctionOnSet(Room, Errand)
    BY ONLY <2>1, <2>5, SumMonotone
  <2>7. SumFunctionOnSet(took, Errand) \in Int /\ SumFunctionOnSet(Room, Errand) \in Int
    BY ONLY <2>1, <2>5, SumInt
  <2>8. Total(took) = SumFunctionOnSet(took, Errand)
    BY <2>3, SumOfAll DEF Total
  <2> QED
    BY ONLY <2>1, <2>2, <2>6, <2>7, <2>8
<1> QED
  BY <1>1, MoneyInvariant, PTL

\* An opening that ends leaves none of the customer's dollars with the treasury,
\* but for a failure of the shipping and of the refund, or a cut.
THEOREM OpeningIsUndoneHolds == MoneySpec => []OpeningIsUndone
<1>1. MoneyInv => OpeningIsUndone
  BY DEF MoneyInv, AllInOrder, InOrder, HeldFor, OpeningIsUndone
<1> QED
  BY <1>1, MoneyInvariant, PTL

\* At most one leg of a withdrawal is paid and not on record.
THEOREM LegsOnRecordHolds == MoneySpec => []LegsOnRecord
<1>1. MoneyInv => LegsOnRecord
  BY DEF MoneyInv, AllInOrder, InOrder, LegsNoted, LegsOnRecord
<1> QED
  BY <1>1, MoneyInvariant, PTL

\* Aqua can pull what the strategies may pay out, unless a check or the last run
\* of ensureApprovals was blind.
THEOREM CanPayOutHolds == MoneySpec => []CanPayOut
<1>1. MoneyInv => CanPayOut
  <2> SUFFICES ASSUME MoneyInv PROVE CanPayOut
    OBVIOUS
  <2>1. /\ position \in Nat /\ live \in [Errand -> Nat] /\ amt \in [Errand -> Nat]
        /\ allowance \in Nat /\ Reserve \in Nat /\ IsFiniteSet(Errand)
    <3>1. ErrandTyped /\ CoverTyped
      BY DEF MoneyInv, CoverInv
    <3> QED
      BY ONLY <3>1, ReserveAssumption, ChainAssumption DEF ErrandTyped, PurseTyped, AskTyped, CoverTyped
  <2>2. \A r \in Errand : live[r] > 0 => OnItsWay(r) /\ Counted(r) /\ live[r] = amt[r]
    <3> SUFFICES ASSUME NEW r \in Errand, live[r] > 0 PROVE OnItsWay(r) /\ Counted(r) /\ live[r] = amt[r]
      OBVIOUS
    <3>1. LiveIsShipped(r)
      BY DEF MoneyInv, AllInOrder, InOrder
    <3> QED BY <2>1, <3>1 DEF LiveIsShipped, OnItsWay, Counted
  <2>3. OnAqua = position + SumFunctionOnSet(live, Errand)
    BY <2>1, SumOfAll DEF OnAqua, Total
  <2>4. ASSUME NEW cap \in Nat, position <= cap,
               \A r \in Errand : live[r] > 0 => /\ position + live[r] <= cap
                                                /\ \A s \in Errand : live[s] > 0 => s = r
        PROVE  OnAqua <= cap
    <3>1. CASE \A r \in Errand : live[r] = 0
      <4>1. SumFunctionOnSet(live, Errand) = 0
        BY ONLY <2>1, <3>1, SumZero
      <4> QED BY <2>1, <2>3, <2>4, <4>1
    <3>2. ASSUME NEW r \in Errand, live[r] # 0 PROVE OnAqua <= cap
      <4>1. live[r] > 0 /\ position + live[r] <= cap /\ \A s \in Errand \ {r} : live[s] = 0
        BY <2>1, <2>4, <3>2
      <4>2. SumFunctionOnSet(live, Errand) = live[r] + SumFunctionOnSet(live, Errand \ {r})
        <5>1. \A s \in Errand : live[s] \in Int
          BY <2>1
        <5> QED BY ONLY <2>1, <5>1, r \in Errand, SumRemove
      <4>3. SumFunctionOnSet(live, Errand \ {r}) = 0
        <5>1. IsFiniteSet(Errand \ {r})
          BY <2>1, FS_Subset
        <5> QED BY ONLY <5>1, <4>1, SumZero
      <4> QED BY <2>1, <2>3, <4>1, <4>2, <4>3
    <3> QED BY <3>1, <3>2
  <2>5. ~unchecked => OnAqua <= Reserve
    <3> SUFFICES ASSUME ~unchecked PROVE OnAqua <= Reserve
      OBVIOUS
    <3>1. BackedAlone
      BY DEF MoneyInv, CoverInv
    <3>2. /\ position <= Reserve
          /\ \A r \in Errand : live[r] > 0 => /\ position + live[r] <= Reserve
                                           /\ \A s \in Errand : live[s] > 0 => s = r
      BY <2>2, <3>1 DEF BackedAlone
    <3> QED BY ONLY <2>1, <2>4, <3>2
  <2>6. ~undercut => OnAqua <= allowance
    <3> SUFFICES ASSUME ~undercut PROVE OnAqua <= allowance
      OBVIOUS
    <3>1. CountedAlone
      BY DEF MoneyInv, CoverInv
    <3>2. /\ position <= allowance
          /\ \A r \in Errand : live[r] > 0 => /\ position + live[r] <= allowance
                                           /\ \A s \in Errand : live[s] > 0 => s = r
      BY <2>2, <3>1 DEF CountedAlone
    <3> QED BY ONLY <2>1, <2>4, <3>2
  <2> QED
    BY <2>5, <2>6 DEF CanPayOut, Payable
<1> QED
  BY <1>1, MoneyInvariant, PTL
=============================================================================
