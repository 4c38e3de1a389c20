------------------------ MODULE Withdrawals_proofs ------------------------
(***************************************************************************)
(* Proofs about Vault and about Withdrawals, which implements it: for any  *)
(* set of customers, requests and amounts, any rates and scales and any    *)
(* length of time.                                                         *)
(***************************************************************************)
EXTENDS Withdrawals, Sums, TLAPS

-----------------------------------------------------------------------------
\* Integer division

\* What is cut off by a division is less than the divisor.
LEMMA DivCuts ==
  ASSUME NEW a \in Nat, NEW b \in Nat \ {0}
  PROVE  a \div b \in Nat /\ (a \div b) * b <= a /\ a < (a \div b) * b + b
OBVIOUS

\* Products of naturals grow with their factors.
LEMMA TimesMonotone ==
  ASSUME NEW a \in Nat, NEW b \in Nat, NEW c \in Nat, NEW d \in Nat, a <= c, b <= d
  PROVE  a * b \in Nat /\ c * d \in Nat /\ a * b <= c * d
OBVIOUS

LEMMA TimesAssociates ==
  ASSUME NEW a \in Nat, NEW b \in Nat, NEW c \in Nat
  PROVE  (a * b) * c = a * (c * b) /\ (a * b) * c = (c * a) * b
OBVIOUS

\* And so do quotients with what is divided.
LEMMA DivMonotone ==
  ASSUME NEW a \in Nat, NEW c \in Nat, NEW b \in Nat \ {0}, a <= c
  PROVE  a \div b <= c \div b
<1> DEFINE q == a \div b
           r == c \div b
<1>1. q \in Nat /\ r \in Nat /\ q * b <= a /\ c < r * b + b
  BY DivCuts
<1> HIDE DEF q, r
<1>2. SUFFICES ASSUME r + 1 <= q PROVE FALSE
  BY <1>1 DEF q, r
<1>3. (r + 1) * b <= q * b
  BY <1>1, <1>2, TimesMonotone
<1>4. (r + 1) * b = r * b + b
  BY <1>1
<1> QED
  BY <1>1, <1>3, <1>4

-----------------------------------------------------------------------------
\* The vault

\* The rate never falls, and an accrual takes it to where it was projected.
LEMMA RateGrows ==
  ASSUME VaultTypeOK
  PROVE  /\ ProjectedExchangeRate \in Nat \ {0}
         /\ exchangeRate <= ProjectedExchangeRate
<1> DEFINE a == exchangeRate * apyBps * (now - lastAccrualTs)
<1>1. a \in Nat
  BY DEF VaultTypeOK
<1>2. a \div Year \in Nat
  BY <1>1, DivCuts, VaultAssumption
<1> QED
  BY <1>2 DEF ProjectedExchangeRate, VaultTypeOK

LEMMA AccrualIsProjected ==
  ASSUME VaultTypeOK, Accrue, apyBps' \in Nat, now' = now
  PROVE  /\ exchangeRate' = ProjectedExchangeRate
         /\ ProjectedExchangeRate' = ProjectedExchangeRate
<1>1. exchangeRate' = ProjectedExchangeRate /\ exchangeRate' \in Nat
  BY RateGrows DEF Accrue
<1>2. exchangeRate' * apyBps' * (now' - lastAccrualTs') = 0
  <2>1. now' - lastAccrualTs' = 0
    BY DEF Accrue, VaultTypeOK
  <2>2. \A a, b \in Nat : a * b \in Nat /\ a * 0 = 0
    OBVIOUS
  <2>3. exchangeRate' * apyBps' \in Nat
    BY <1>1, <2>2, Zenon
  <2> QED
    BY <2>1, <2>2, <2>3
<1>3. 0 \div Year = 0
  BY DivCuts, VaultAssumption
<1>4. ProjectedExchangeRate' = exchangeRate' + ((exchangeRate' * apyBps' * (now' - lastAccrualTs')) \div Year)
  BY DEF ProjectedExchangeRate
<1> QED
  BY <1>1, <1>2, <1>3, <1>4

\* Both roundings are in the vault's favour.
LEMMA RoundsDown ==
  ASSUME VaultTypeOK
  PROVE  /\ \A amount \in Nat : /\ SharesFor(amount) \in Nat
                                /\ SharesFor(amount) * ProjectedExchangeRate <= amount * Ray
         /\ \A s \in Nat : /\ ValueOf(s) \in Nat
                           /\ ValueOf(s) * Ray <= s * ProjectedExchangeRate
<1>1. ASSUME NEW amount \in Nat
      PROVE  /\ SharesFor(amount) \in Nat
             /\ SharesFor(amount) * ProjectedExchangeRate <= amount * Ray
  <2>1. amount * Ray \in Nat
    BY VaultAssumption
  <2> QED
    BY <2>1, DivCuts, RateGrows DEF SharesFor
<1>2. ASSUME NEW s \in Nat
      PROVE  /\ ValueOf(s) \in Nat
             /\ ValueOf(s) * Ray <= s * ProjectedExchangeRate
  <2>1. s * ProjectedExchangeRate \in Nat
    BY RateGrows
  <2> QED
    BY <2>1, DivCuts, VaultAssumption DEF ValueOf
<1> QED
  BY <1>1, <1>2

\* What an accrual leaves of the types.
LEMMA AccrueTypes ==
  ASSUME VaultTypeOK, Accrue, now' = now
  PROVE  /\ exchangeRate' \in Nat \ {0} /\ lastAccrualTs' \in Nat /\ lastAccrualTs' <= now'
         /\ promised' \in Nat /\ earned' \in [User -> Nat]
<1> DEFINE rise == ProjectedExchangeRate - exchangeRate
<1>1. rise \in Nat
  BY RateGrows DEF VaultTypeOK
<1>2. \A u \in User : earned[u] + shares[u] * rise \in Nat
  BY <1>1 DEF VaultTypeOK
<1>3. promised + totalShares * rise \in Nat
  BY <1>1 DEF VaultTypeOK
<1> QED
  BY <1>2, <1>3, RateGrows DEF Accrue, VaultTypeOK

LEMMA VaultTypeStep ==
  ASSUME VaultTypeOK, [VaultNext]_vaultVars
  PROVE  VaultTypeOK'
<1>1. ASSUME NEW u \in User, NEW amount \in Usdc, DepositFor(u, amount)
      PROVE  VaultTypeOK'
  <2>1. amount \in Nat /\ SharesFor(amount) \in Nat
    BY VaultAssumption, RoundsDown
  <2> QED
    BY <1>1, <2>1, AccrueTypes DEF DepositFor, VaultTypeOK
<1>2. ASSUME NEW u \in User, NEW s \in 1..shares[u], WithdrawTo(u, s)
      PROVE  VaultTypeOK'
  <2>1. s \in Nat /\ s <= shares[u] /\ shares[u] \in Nat /\ ValueOf(s) \in Nat
    BY RoundsDown DEF VaultTypeOK
  <2> QED
    BY <1>2, <2>1, AccrueTypes DEF WithdrawTo, CanWithdraw, VaultTypeOK
<1>3. ASSUME NEW amount \in Usdc, FundYieldReserve(amount)
      PROVE  VaultTypeOK'
  BY <1>3, VaultAssumption DEF FundYieldReserve, rateVars, VaultTypeOK
<1>4. ASSUME NEW bps \in Apy, SetApyBps(bps)
      PROVE  VaultTypeOK'
  BY <1>4, AccrueTypes, VaultAssumption DEF SetApyBps, AccruesFirst, shareVars, VaultTypeOK
<1>5. CASE Tick
  BY <1>5 DEF Tick, rateVars, shareVars, flowVars, VaultTypeOK
<1>6. CASE UNCHANGED vaultVars
  BY <1>6 DEF vaultVars, rateVars, shareVars, flowVars, VaultTypeOK
<1> QED
  BY <1>1, <1>2, <1>3, <1>4, <1>5, <1>6 DEF VaultNext

LEMMA VaultTypeInit ==
  ASSUME VaultInit PROVE VaultTypeOK
BY VaultAssumption DEF VaultInit, VaultTypeOK

-----------------------------------------------------------------------------
\* FairShare

\* An accrual adds to the shares' worth what it adds to what they gained.
LEMMA FairAccrual ==
  ASSUME VaultTypeOK, FairShare, Accrue, NEW u \in User
  PROVE  paidOut[u] * Ray + shares[u] * ProjectedExchangeRate <= paidIn[u] * Ray + earned'[u]
<1> DEFINE s == shares[u]
           P == ProjectedExchangeRate
<1>1. earned'[u] = earned[u] + s * (P - exchangeRate)
  BY DEF Accrue, VaultTypeOK
<1>2. P \in Nat /\ s \in Nat /\ exchangeRate \in Nat /\ earned[u] \in Nat
  BY RateGrows DEF VaultTypeOK
<1>3. paidOut[u] * Ray \in Nat /\ paidIn[u] * Ray \in Nat
  BY VaultAssumption DEF VaultTypeOK
<1>4. paidOut[u] * Ray + s * exchangeRate <= paidIn[u] * Ray + earned[u]
  BY DEF FairShare
<1> HIDE DEF s, P
<1>5. s * (P - exchangeRate) = s * P - s * exchangeRate
  BY <1>2
<1>6. s * P \in Nat /\ s * exchangeRate \in Nat
  BY <1>2
<1>7. paidOut[u] * Ray + s * P <= paidIn[u] * Ray + earned'[u]
  BY <1>1, <1>2, <1>3, <1>4, <1>5, <1>6
<1> QED
  BY <1>7 DEF s, P

\* Bought or redeemed shares leave the balance of a customer on the right side,
\* because they are rounded.
LEMMA FairTrade ==
  ASSUME NEW out \in Nat, NEW in \in Nat, NEW s \in Nat, NEW gain \in Nat, NEW rate \in Nat,
         out * Ray + s * rate <= in * Ray + gain,
         NEW k \in Nat, NEW v \in Nat
  PROVE  /\ k * rate <= v * Ray => out * Ray + (s + k) * rate <= (in + v) * Ray + gain
         /\ k <= s /\ v * Ray <= k * rate => (out + v) * Ray + (s - k) * rate <= in * Ray + gain
<1>1. /\ (s + k) * rate = s * rate + k * rate
      /\ (s - k) * rate = s * rate - k * rate
  OBVIOUS
<1>2. /\ (in + v) * Ray = in * Ray + v * Ray
      /\ (out + v) * Ray = out * Ray + v * Ray
  BY VaultAssumption
<1>3. /\ out * Ray \in Nat /\ in * Ray \in Nat /\ v * Ray \in Nat
      /\ s * rate \in Nat /\ k * rate \in Nat
  BY VaultAssumption
<1> QED
  BY <1>1, <1>2, <1>3

LEMMA FairStep ==
  ASSUME VaultTypeOK, FairShare, [VaultNext]_vaultVars
  PROVE  FairShare'
<1> USE DEF VaultTypeOK
<1>1. ASSUME NEW u \in User, NEW amount \in Usdc, DepositFor(u, amount)
      PROVE  FairShare'
  <2> SUFFICES ASSUME NEW x \in User
               PROVE  paidOut'[x] * Ray + shares'[x] * exchangeRate' <= paidIn'[x] * Ray + earned'[x]
    BY DEF FairShare
  <2>1. exchangeRate' = ProjectedExchangeRate /\ paidOut' = paidOut
    BY <1>1 DEF DepositFor, Accrue
  <2>2. paidOut[x] * Ray + shares[x] * exchangeRate' <= paidIn[x] * Ray + earned'[x]
    BY <1>1, <2>1, FairAccrual DEF DepositFor
  <2>3. CASE x # u
    <3>1. shares'[x] = shares[x] /\ paidIn'[x] = paidIn[x]
      BY <1>1, <2>3 DEF DepositFor
    <3> QED
      BY <2>1, <2>2, <3>1
  <2>4. CASE x = u
    <3>1. shares'[x] = shares[x] + SharesFor(amount) /\ paidIn'[x] = paidIn[x] + amount
      BY <1>1, <2>4 DEF DepositFor
    <3>2. amount \in Nat /\ SharesFor(amount) \in Nat /\ SharesFor(amount) * exchangeRate' <= amount * Ray
      BY <2>1, RoundsDown, VaultAssumption
    <3>3. earned'[x] \in Nat /\ exchangeRate' \in Nat
      BY <1>1, AccrueTypes DEF DepositFor
    <3>4. paidOut[x] * Ray + (shares[x] + SharesFor(amount)) * exchangeRate' <= (paidIn[x] + amount) * Ray + earned'[x]
      BY <2>2, <3>2, <3>3, FairTrade
    <3> QED
      BY <2>1, <3>1, <3>4
  <2> QED
    BY <2>3, <2>4
<1>2. ASSUME NEW u \in User, NEW s \in 1..shares[u], WithdrawTo(u, s)
      PROVE  FairShare'
  <2> SUFFICES ASSUME NEW x \in User
               PROVE  paidOut'[x] * Ray + shares'[x] * exchangeRate' <= paidIn'[x] * Ray + earned'[x]
    BY DEF FairShare
  <2>1. exchangeRate' = ProjectedExchangeRate /\ paidIn' = paidIn
    BY <1>2 DEF WithdrawTo, Accrue
  <2>2. paidOut[x] * Ray + shares[x] * exchangeRate' <= paidIn[x] * Ray + earned'[x]
    BY <1>2, <2>1, FairAccrual DEF WithdrawTo
  <2>3. CASE x # u
    <3>1. shares'[x] = shares[x] /\ paidOut'[x] = paidOut[x]
      BY <1>2, <2>3 DEF WithdrawTo
    <3> QED
      BY <2>1, <2>2, <3>1
  <2>4. CASE x = u
    <3>1. shares'[x] = shares[x] - s /\ paidOut'[x] = paidOut[x] + ValueOf(s)
      BY <1>2, <2>4 DEF WithdrawTo
    <3>2. s \in Nat /\ s <= shares[x] /\ ValueOf(s) \in Nat /\ ValueOf(s) * Ray <= s * exchangeRate'
      BY <2>1, <2>4, RoundsDown
    <3>3. earned'[x] \in Nat /\ exchangeRate' \in Nat
      BY <1>2, AccrueTypes DEF WithdrawTo
    <3>4. (paidOut[x] + ValueOf(s)) * Ray + (shares[x] - s) * exchangeRate' <= paidIn[x] * Ray + earned'[x]
      BY <2>2, <3>2, <3>3, FairTrade
    <3> QED
      BY <2>1, <3>1, <3>4
  <2> QED
    BY <2>3, <2>4
<1>3. ASSUME NEW amount \in Usdc, FundYieldReserve(amount)
      PROVE  FairShare'
  BY <1>3 DEF FundYieldReserve, rateVars, FairShare
<1>4. ASSUME NEW bps \in Apy, SetApyBps(bps)
      PROVE  FairShare'
  <2>1. Accrue /\ exchangeRate' = ProjectedExchangeRate /\ UNCHANGED <<shares, paidIn, paidOut>>
    BY <1>4 DEF SetApyBps, AccruesFirst, Accrue, shareVars
  <2> QED
    BY <2>1, FairAccrual DEF FairShare
<1>5. CASE Tick
  BY <1>5 DEF Tick, rateVars, shareVars, flowVars, FairShare
<1>6. CASE UNCHANGED vaultVars
  BY <1>6 DEF vaultVars, rateVars, shareVars, flowVars, FairShare
<1> QED
  BY <1>1, <1>2, <1>3, <1>4, <1>5, <1>6 DEF VaultNext

LEMMA FairInit ==
  ASSUME VaultInit PROVE FairShare
BY VaultAssumption DEF VaultInit, FairShare

-----------------------------------------------------------------------------
\* EveryoneCanLeave

\* The shares of the customers are all the shares there are, and the vault holds
\* what they were worth at the last accrual, but for what they gained beyond
\* what the reserve was given.
SharesAddUp == totalShares = SumFunctionOnSet(shares, User)
ReserveCovers == totalShares * exchangeRate + funded * Ray <= held * Ray + promised
Solvent == SharesAddUp /\ ReserveCovers

LEMMA SolventInit ==
  ASSUME VaultInit PROVE Solvent
<1>1. \A u \in User : shares[u] = 0
  BY DEF VaultInit
<1>2. SumFunctionOnSet(shares, User) = 0
  BY <1>1, SumZero, VaultAssumption
<1> QED
  BY <1>2, VaultAssumption DEF VaultInit, Solvent, SharesAddUp, ReserveCovers

\* An accrual books what the shares gain as promised.
LEMMA SolventAccrual ==
  ASSUME VaultTypeOK, ReserveCovers, Accrue
  PROVE  totalShares * exchangeRate' + funded * Ray <= held * Ray + promised'
<1> DEFINE s == totalShares
           P == ProjectedExchangeRate
<1>1. promised' = promised + s * (P - exchangeRate) /\ exchangeRate' = P
  BY DEF Accrue
<1>2. P \in Nat /\ s \in Nat /\ exchangeRate \in Nat /\ promised \in Nat
  BY RateGrows DEF VaultTypeOK
<1>3. funded * Ray \in Nat /\ held * Ray \in Nat
  BY VaultAssumption DEF VaultTypeOK
<1>4. s * exchangeRate + funded * Ray <= held * Ray + promised
  BY DEF ReserveCovers
<1> HIDE DEF s, P
<1>5. s * (P - exchangeRate) = s * P - s * exchangeRate
  BY <1>2
<1>6. s * P \in Nat /\ s * exchangeRate \in Nat
  BY <1>2
<1>7. s * P + funded * Ray <= held * Ray + promised'
  BY <1>1, <1>2, <1>3, <1>4, <1>5, <1>6
<1> QED
  BY <1>1, <1>7 DEF s, P

\* Bought or redeemed shares are covered, because they are rounded.
LEMMA SolventTrade ==
  ASSUME NEW s \in Nat, NEW rate \in Nat, NEW f \in Nat, NEW h \in Nat, NEW p \in Nat,
         s * rate + f * Ray <= h * Ray + p,
         NEW k \in Nat, NEW v \in Nat
  PROVE  /\ k * rate <= v * Ray => (s + k) * rate + f * Ray <= (h + v) * Ray + p
         /\ k <= s /\ v <= h /\ v * Ray <= k * rate => (s - k) * rate + f * Ray <= (h - v) * Ray + p
<1>1. /\ (s + k) * rate = s * rate + k * rate
      /\ (s - k) * rate = s * rate - k * rate
  OBVIOUS
<1>2. /\ (h + v) * Ray = h * Ray + v * Ray
      /\ (h - v) * Ray = h * Ray - v * Ray
  BY VaultAssumption
<1>3. /\ h * Ray \in Nat /\ v * Ray \in Nat /\ f * Ray \in Nat
      /\ s * rate \in Nat /\ k * rate \in Nat
  BY VaultAssumption
<1> QED
  BY <1>1, <1>2, <1>3

LEMMA SharesMove ==
  ASSUME VaultTypeOK, SharesAddUp, NEW u \in User, NEW d \in Int,
         shares' = [shares EXCEPT ![u] = @ + d], totalShares' = totalShares + d
  PROVE  SharesAddUp'
<1>1. /\ IsFiniteSet(User) /\ shares \in [User -> Int] /\ u \in User /\ d \in Int
      /\ shares' = [shares EXCEPT ![u] = @ + d]
  BY VaultAssumption DEF VaultTypeOK
<1>2. SumFunctionOnSet(shares', User) = SumFunctionOnSet(shares, User) + d
  BY ONLY <1>1, SumStep
<1> QED
  BY <1>2 DEF SharesAddUp

LEMMA SolventStep ==
  ASSUME VaultTypeOK, Solvent, [VaultNext]_vaultVars
  PROVE  Solvent'
<1> USE DEF Solvent
<1>1. ASSUME NEW u \in User, NEW amount \in Usdc, DepositFor(u, amount)
      PROVE  Solvent'
  <2> DEFINE k == SharesFor(amount)
  <2>1. amount \in Nat /\ k \in Nat /\ k * exchangeRate' <= amount * Ray
    BY <1>1, RoundsDown, VaultAssumption DEF DepositFor, Accrue
  <2>2. /\ shares' = [shares EXCEPT ![u] = @ + k] /\ totalShares' = totalShares + k
        /\ held' = held + amount /\ funded' = funded
    BY <1>1 DEF DepositFor
  <2>3. totalShares * exchangeRate' + funded * Ray <= held * Ray + promised'
    BY <1>1, SolventAccrual DEF DepositFor
  <2>4. /\ totalShares \in Nat /\ funded \in Nat /\ held \in Nat
        /\ exchangeRate' \in Nat /\ promised' \in Nat
    BY <1>1, AccrueTypes DEF DepositFor, VaultTypeOK
  <2>5. SharesAddUp'
    <3>1. k \in Int
      BY <2>1
    <3> HIDE DEF k
    <3> QED BY <2>2, <3>1, SharesMove
  <2> HIDE DEF k
  <2>6. (totalShares + k) * exchangeRate' + funded * Ray <= (held + amount) * Ray + promised'
    BY <2>1, <2>3, <2>4, SolventTrade
  <2> QED
    BY <2>2, <2>5, <2>6 DEF ReserveCovers
<1>2. ASSUME NEW u \in User, NEW s \in 1..shares[u], WithdrawTo(u, s)
      PROVE  Solvent'
  <2> DEFINE v == ValueOf(s)
             d == -s
  <2>1. s \in Nat /\ v \in Nat /\ v * Ray <= s * exchangeRate' /\ s <= totalShares /\ v <= held
    <3>1. s \in Nat
      BY DEF VaultTypeOK
    <3> QED BY <1>2, <3>1, RoundsDown DEF WithdrawTo, CanWithdraw, Accrue
  <2>2. /\ shares' = [shares EXCEPT ![u] = @ - s] /\ totalShares' = totalShares - s
        /\ held' = held - v /\ funded' = funded
    BY <1>2 DEF WithdrawTo
  <2>3. totalShares * exchangeRate' + funded * Ray <= held * Ray + promised'
    BY <1>2, SolventAccrual DEF WithdrawTo
  <2>4. /\ totalShares \in Nat /\ funded \in Nat /\ held \in Nat
        /\ exchangeRate' \in Nat /\ promised' \in Nat
    BY <1>2, AccrueTypes DEF WithdrawTo, VaultTypeOK
  <2>5. d \in Int /\ totalShares' = totalShares + d /\ shares' = [shares EXCEPT ![u] = @ + d]
    <3>1. shares[u] - s = shares[u] + d /\ totalShares - s = totalShares + d /\ d \in Int
      BY <2>1, <2>4 DEF VaultTypeOK
    <3> QED BY <2>2, <3>1
  <2> HIDE DEF v, d
  <2>6. SharesAddUp'
    BY <2>5, SharesMove
  <2>7. (totalShares - s) * exchangeRate' + funded * Ray <= (held - v) * Ray + promised'
    BY <2>1, <2>3, <2>4, SolventTrade
  <2> QED
    BY <2>2, <2>6, <2>7 DEF ReserveCovers
<1>3. ASSUME NEW amount \in Usdc, FundYieldReserve(amount)
      PROVE  Solvent'
  <2>1. SharesAddUp'
    BY <1>3 DEF FundYieldReserve, SharesAddUp
  <2>2. amount \in Nat /\ totalShares * exchangeRate \in Nat /\ promised \in Nat
    BY VaultAssumption DEF VaultTypeOK
  <2>3. /\ (held + amount) * Ray = held * Ray + amount * Ray
        /\ (funded + amount) * Ray = funded * Ray + amount * Ray
        /\ held * Ray \in Nat /\ funded * Ray \in Nat /\ amount * Ray \in Nat
    BY <2>2, VaultAssumption DEF VaultTypeOK
  <2>4. totalShares * exchangeRate + (funded + amount) * Ray <= (held + amount) * Ray + promised
    BY <2>2, <2>3 DEF ReserveCovers
  <2> QED
    BY <1>3, <2>1, <2>4 DEF FundYieldReserve, rateVars, ReserveCovers
<1>4. ASSUME NEW bps \in Apy, SetApyBps(bps)
      PROVE  Solvent'
  BY <1>4, SolventAccrual DEF SetApyBps, AccruesFirst, shareVars, SharesAddUp, ReserveCovers
<1>5. CASE Tick
  BY <1>5 DEF Tick, rateVars, shareVars, flowVars, SharesAddUp, ReserveCovers
<1>6. CASE UNCHANGED vaultVars
  BY <1>6 DEF vaultVars, rateVars, shareVars, flowVars, SharesAddUp, ReserveCovers
<1> QED
  BY <1>1, <1>2, <1>3, <1>4, <1>5, <1>6 DEF VaultNext

LEMMA SolventIsEnough ==
  ASSUME VaultTypeOK, Solvent
  PROVE  EveryoneCanLeave
<1> DEFINE P == ProjectedExchangeRate
           value == [u \in User |-> PreviewValue(u)]
           all == SumFunctionOnSet(value, User)
<1>1. P \in Nat /\ totalShares \in Nat /\ held \in Nat /\ exchangeRate \in Nat /\ promised \in Nat /\ exchangeRate <= P
      /\ held * Ray \in Nat /\ funded * Ray \in Nat /\ Ray \in Nat \ {0}
  BY RateGrows, VaultAssumption DEF VaultTypeOK
<1>2. ASSUME NEW u \in User
      PROVE  value[u] \in Nat /\ shares[u] \in Nat /\ value[u] * Ray <= shares[u] * P
  <2>1. shares[u] \in Nat /\ value[u] = ValueOf(shares[u])
    BY DEF VaultTypeOK, ValueOf, PreviewValue
  <2> QED
    BY <2>1, RoundsDown
<1>3. SumFunction(value) = all
  BY SumOfAll
<1> HIDE DEF P, value, all
<1>4. all * Ray <= totalShares * P /\ all \in Nat
  <2>1. SumFunctionOnSet(value, User) * Ray <= SumFunctionOnSet(shares, User) * P
    BY <1>1, <1>2, SumScale, VaultAssumption
  <2>2. SumFunctionOnSet(value, User) \in Nat
    BY <1>2, SumNat, VaultAssumption
  <2> QED
    BY <2>1, <2>2 DEF all, Solvent, SharesAddUp
<1>5. ASSUME promised + totalShares * (P - exchangeRate) <= funded * Ray
      PROVE  all <= held
  <2>1. totalShares * (P - exchangeRate) = totalShares * P - totalShares * exchangeRate
    BY <1>1
  <2>2. totalShares * P \in Nat /\ totalShares * exchangeRate \in Nat /\ all * Ray \in Nat
    BY <1>1, <1>4
  <2>3. all * Ray <= held * Ray
    BY <1>1, <1>4, <1>5, <2>1, <2>2 DEF Solvent, ReserveCovers
  <2>4. ASSUME held + 1 <= all PROVE FALSE
    <3>1. (held + 1) * Ray <= all * Ray
      BY <1>1, <1>4, <2>4, TimesMonotone
    <3>2. (held + 1) * Ray = held * Ray + Ray
      BY <1>1
    <3> QED
      BY <1>1, <2>2, <2>3, <3>1, <3>2
  <2> QED
    BY <1>1, <1>4, <2>4
<1> QED
  BY <1>3, <1>5 DEF EveryoneCanLeave, P, value

-----------------------------------------------------------------------------
\* ValueNeverFalls

\* The projected rate never falls, whatever happens.
LEMMA ProjectionGrows ==
  ASSUME VaultTypeOK, [VaultNext]_vaultVars
  PROVE  ProjectedExchangeRate' \in Nat /\ ProjectedExchangeRate <= ProjectedExchangeRate'
<1> USE DEF VaultTypeOK
<1>1. ProjectedExchangeRate \in Nat
  BY RateGrows
<1>2. CASE Accrue /\ apyBps' \in Nat /\ now' = now
  BY <1>1, <1>2, AccrualIsProjected
<1>3. CASE UNCHANGED <<exchangeRate, apyBps, lastAccrualTs, now>>
  BY <1>1, <1>3 DEF ProjectedExchangeRate
<1>4. CASE Tick
  <2> DEFINE k == exchangeRate * apyBps
             t == now - lastAccrualTs
  <2>1. k \in Nat /\ t \in Nat
    OBVIOUS
  <2>2. ProjectedExchangeRate = exchangeRate + ((k * t) \div Year)
    BY DEF ProjectedExchangeRate
  <2>3. ProjectedExchangeRate' = exchangeRate + ((k * (t + 1)) \div Year)
    <3>1. now' - lastAccrualTs' = t + 1 /\ exchangeRate' = exchangeRate /\ apyBps' = apyBps
      BY <1>4 DEF Tick, rateVars
    <3> QED
      BY <3>1 DEF ProjectedExchangeRate
  <2> HIDE DEF k, t
  <2>4. k * t \in Nat /\ k * (t + 1) \in Nat /\ k * t <= k * (t + 1)
    BY <2>1, TimesMonotone
  <2>5. (k * t) \div Year <= (k * (t + 1)) \div Year
    BY <2>4, DivMonotone, VaultAssumption
  <2>6. (k * t) \div Year \in Nat /\ (k * (t + 1)) \div Year \in Nat
    BY <2>4, DivCuts, VaultAssumption
  <2> QED
    BY <2>2, <2>3, <2>5, <2>6
<1>5. ASSUME NEW u \in User, NEW amount \in Usdc, DepositFor(u, amount)
      PROVE  Accrue /\ apyBps' \in Nat /\ now' = now
  BY <1>5 DEF DepositFor
<1>6. ASSUME NEW u \in User, NEW s \in 1..shares[u], WithdrawTo(u, s)
      PROVE  Accrue /\ apyBps' \in Nat /\ now' = now
  BY <1>6 DEF WithdrawTo
<1>7. ASSUME NEW bps \in Apy, SetApyBps(bps)
      PROVE  Accrue /\ apyBps' \in Nat /\ now' = now
  BY <1>7, VaultAssumption DEF SetApyBps, AccruesFirst
<1>8. ASSUME NEW amount \in Usdc, FundYieldReserve(amount)
      PROVE  UNCHANGED <<exchangeRate, apyBps, lastAccrualTs, now>>
  BY <1>8 DEF FundYieldReserve, rateVars
<1>9. CASE UNCHANGED vaultVars
  BY <1>3, <1>9 DEF vaultVars, rateVars
<1> QED
  BY <1>2, <1>3, <1>4, <1>5, <1>6, <1>7, <1>8, <1>9 DEF VaultNext

LEMMA ValueStep ==
  ASSUME VaultTypeOK, [VaultNext]_vaultVars, NEW u \in User, shares'[u] >= shares[u]
  PROVE  PreviewValue(u)' >= PreviewValue(u)
<1> DEFINE a == shares[u]
           b == shares'[u]
           P == ProjectedExchangeRate
           Q == ProjectedExchangeRate'
<1>1. a \in Nat /\ b \in Nat /\ a <= b
  BY VaultTypeStep DEF VaultTypeOK
<1>2. P \in Nat /\ Q \in Nat /\ P <= Q
  BY RateGrows, ProjectionGrows
<1>3. PreviewValue(u) = (a * P) \div Ray /\ PreviewValue(u)' = (b * Q) \div Ray
  BY DEF PreviewValue
<1> HIDE DEF a, b, P, Q
<1>4. a * P \in Nat /\ b * Q \in Nat /\ a * P <= b * Q
  BY <1>1, <1>2, TimesMonotone
<1>5. (a * P) \div Ray <= (b * Q) \div Ray
  BY <1>4, DivMonotone, VaultAssumption
<1>6. (a * P) \div Ray \in Nat /\ (b * Q) \div Ray \in Nat
  BY <1>4, DivCuts, VaultAssumption
<1> QED
  BY <1>3, <1>5, <1>6

-----------------------------------------------------------------------------
\* Withdrawals implements Vault

LEMMA TypeInit ==
  ASSUME Init PROVE TypeOK
<1>1. ASSUME NEW k \in {"all", "send"}, NEW amounts \in SUBSET (Usdc \cup {0}), NEW q \in NewCalls(k, amounts)
      PROVE  q \in CallType
  <2>1. PICK u \in User, to \in User, a \in amounts :
          q = [pc |-> "new", kind |-> k, u |-> u, to |-> to, wanted |-> a, shares |-> NotRead, value |-> NotRead,
               rate |-> 0, mixed |-> FALSE, debit |-> "none", credit |-> "none", paid |-> 0]
    BY DEF NewCalls
  <2>2. a \in Usdc \cup {0} /\ k \in {"all", "send"}
    OBVIOUS
  <2> QED
    BY <2>1, <2>2 DEF CallType, Pc, TxStatus, NotRead
<1>2. call \in [Call -> CallType]
  <2>1. \A c \in Call : call[c] \in NewCalls("all", {0}) \cup NewCalls("send", Usdc \ {0})
    BY DEF Init
  <2>2. call = [c \in Call |-> call[c]]
    BY DEF Init
  <2> QED
    BY <1>1, <2>1, <2>2
<1>3. mempool \in Seq(Call)
  BY DEF Init
<1> QED
  BY <1>2, <1>3, VaultTypeInit DEF Init, TypeOK

\* A step of a call leaves the vault alone.
LEMMA StepLeavesVault ==
  ASSUME NEW c \in Call, Step(c)
  PROVE  UNCHANGED vaultVars
BY DEF Step, Start, ReadShares, ReadValue, SendDebit, WaitDebit, SendCredit, WaitCredit, Record, Stops

\* What the chain does to the vault is one of the vault's functions.
LEMMA NextIsVaultNext ==
  ASSUME TypeOK, [Next]_vars
  PROVE  [VaultNext]_vaultVars
<1>1. ASSUME NEW c \in Call, Step(c)
      PROVE  [VaultNext]_vaultVars
  BY <1>1, StepLeavesVault
<1>2. CASE Mine
  <2> DEFINE c == Head(mempool)
  <2>1. c \in Call
    BY <1>2 DEF Mine, TypeOK
  <2>2. PICK u \in User : MineDebit(c, u) \/ MineCredit(c, u)
    BY <1>2 DEF Mine
  <2>3. ASSUME WithdrawTo(u, call[c].shares)
        PROVE  VaultNext
    BY <2>3 DEF VaultNext, WithdrawTo, CanWithdraw
  <2>4. ASSUME DepositFor(u, call[c].wanted)
        PROVE  VaultNext
    <3>1. call[c].wanted \in Usdc
      BY <2>1, <2>4 DEF DepositFor, TypeOK, CallType
    <3> QED
      BY <2>4, <3>1 DEF VaultNext
  <2> QED
    BY <2>2, <2>3, <2>4 DEF MineDebit, MineCredit
<1>3. ASSUME NEW u \in User, Deposit(u)
      PROVE  VaultNext
  BY <1>3 DEF Deposit, VaultNext
<1>4. CASE Treasury
  BY <1>4 DEF Treasury, VaultNext
<1>5. CASE UNCHANGED vars
  BY <1>5 DEF vars
<1> QED
  BY <1>1, <1>2, <1>3, <1>4, <1>5 DEF Next

-----------------------------------------------------------------------------
\* TypeOK

\* A change of a box is noted by the calls between their reads of it, and
\* changes nothing else of them.
LEMMA MixingKeepsCalls ==
  ASSUME TypeOK, NEW u \in User
  PROVE  /\ Mixing(u) \in [Call -> CallType]
         /\ \A c \in Call : \E b \in BOOLEAN : Mixing(u)[c] = [call[c] EXCEPT !.mixed = b]
<1>1. ASSUME NEW c \in Call
      PROVE  /\ Mixing(u)[c] \in CallType
             /\ \E b \in BOOLEAN : Mixing(u)[c] = [call[c] EXCEPT !.mixed = b]
  <2>1. call[c] \in CallType /\ call[c] = [call[c] EXCEPT !.mixed = call[c].mixed]
    BY DEF TypeOK, CallType
  <2>2. [call[c] EXCEPT !.mixed = TRUE] \in CallType
    BY <2>1 DEF CallType
  <2>3. Mixing(u)[c] \in {call[c], [call[c] EXCEPT !.mixed = TRUE]}
    BY DEF Mixing
  <2>4. call[c].mixed \in BOOLEAN
    BY <2>1 DEF CallType
  <2> QED
    BY <2>1, <2>2, <2>3, <2>4
<1>2. DOMAIN Mixing(u) = Call /\ Mixing(u) = [c \in Call |-> Mixing(u)[c]]
  BY DEF Mixing
<1> QED
  BY <1>1, <1>2

\* The updates of a call's record that the actions make.
LEMMA CallUpdates ==
  ASSUME NEW q \in CallType
  PROVE  /\ \A pc \in Pc : [q EXCEPT !.pc = pc] \in CallType
         /\ \A n \in Nat, pc \in Pc : [q EXCEPT !.shares = n, !.pc = pc] \in CallType
         /\ \A n, m \in Nat, pc \in Pc : [q EXCEPT !.value = n, !.rate = m, !.pc = pc] \in CallType
         /\ \A n \in Nat, pc \in Pc, t \in TxStatus : [q EXCEPT !.pc = pc, !.shares = n, !.debit = t] \in CallType
         /\ \A pc \in Pc, t \in TxStatus : [q EXCEPT !.pc = pc, !.credit = t] \in CallType
         /\ \A t \in TxStatus : [q EXCEPT !.debit = t] \in CallType /\ [q EXCEPT !.credit = t] \in CallType
         /\ \A n \in Nat, t \in TxStatus : [q EXCEPT !.debit = t, !.paid = n] \in CallType
         /\ [q EXCEPT !.pc = "stopped", !.shares = NotRead, !.value = NotRead, !.rate = 0, !.mixed = FALSE] \in CallType
<1>1. \A pc \in Pc : [q EXCEPT !.pc = pc] \in CallType
  BY DEF CallType
<1>2. \A n \in Nat, pc \in Pc : [q EXCEPT !.shares = n, !.pc = pc] \in CallType
  BY DEF CallType
<1>3. \A n, m \in Nat, pc \in Pc : [q EXCEPT !.value = n, !.rate = m, !.pc = pc] \in CallType
  BY DEF CallType
<1>4. \A n \in Nat, pc \in Pc, t \in TxStatus : [q EXCEPT !.pc = pc, !.shares = n, !.debit = t] \in CallType
  BY DEF CallType
<1>5. \A pc \in Pc, t \in TxStatus : [q EXCEPT !.pc = pc, !.credit = t] \in CallType
  BY DEF CallType
<1>6. \A t \in TxStatus : [q EXCEPT !.debit = t] \in CallType /\ [q EXCEPT !.credit = t] \in CallType
  BY DEF CallType
<1>7. \A n \in Nat, t \in TxStatus : [q EXCEPT !.debit = t, !.paid = n] \in CallType
  BY DEF CallType
<1>8. [q EXCEPT !.pc = "stopped", !.shares = NotRead, !.value = NotRead, !.rate = 0, !.mixed = FALSE] \in CallType
  BY DEF CallType, Pc, NotRead
<1> QED
  BY <1>1, <1>2, <1>3, <1>4, <1>5, <1>6, <1>7, <1>8

LEMMA CallReplaced ==
  ASSUME NEW calls \in [Call -> CallType], NEW c \in Call, NEW q \in CallType
  PROVE  [calls EXCEPT ![c] = q] \in [Call -> CallType]
OBVIOUS

\* A step replaces the record of one call by one of the same type.
LEMMA StepTypes ==
  ASSUME TypeOK, NEW c \in Call, Step(c)
  PROVE  call' \in [Call -> CallType] /\ mempool' \in Seq(Call)
<1>1. call[c] \in CallType /\ call \in [Call -> CallType] /\ mempool \in Seq(Call)
  BY DEF TypeOK
<1>2. shares \in [User -> Nat] /\ call[c].u \in User
  BY <1>1 DEF TypeOK, VaultTypeOK, CallType
<1>3. PreviewValue(call[c].u) \in Nat /\ ProjectedExchangeRate \in Nat
  <2>1. VaultTypeOK
    BY DEF TypeOK
  <2>2. shares[call[c].u] * ProjectedExchangeRate \in Nat
    BY <1>2, <2>1, RateGrows
  <2> QED
    BY <2>1, <2>2, RateGrows, DivCuts, VaultAssumption DEF PreviewValue
<1> DEFINE Kept == call' \in [Call -> CallType] /\ mempool' \in Seq(Call)
<1>4. CASE Start(c)
  BY <1>1, <1>4, CallUpdates DEF Start, Goto, GoOn, Pc
<1>5. CASE ReadShares(c)
  <2>1. PICK pc \in Pc : call' = [call EXCEPT ![c] = [call[c] EXCEPT !.shares = shares[call[c].u], !.pc = pc]]
    BY <1>5 DEF ReadShares, GoOn, Pc
  <2>2. [call[c] EXCEPT !.shares = shares[call[c].u], !.pc = pc] \in CallType
    BY <1>1, <1>2, CallUpdates
  <2> QED
    BY <1>1, <1>5, <2>1, <2>2 DEF ReadShares
<1>6. CASE ReadValue(c)
  <2>1. PICK pc \in Pc : call' = [call EXCEPT ![c] = [call[c] EXCEPT
                 !.value = PreviewValue(call[c].u), !.rate = ProjectedExchangeRate, !.pc = pc]]
    BY <1>6 DEF ReadValue, GoOn, Pc
  <2>2. [call[c] EXCEPT !.value = PreviewValue(call[c].u), !.rate = ProjectedExchangeRate, !.pc = pc] \in CallType
    BY <1>1, <1>3, CallUpdates
  <2> QED
    BY <1>1, <1>6, <2>1, <2>2 DEF ReadValue
<1>7. CASE SendDebit(c)
  <2>1. Burn(call[c]) \in Nat
    BY <1>2, <1>7 DEF SendDebit, CanWithdraw
  <2> QED
    <3>1. PICK pc \in Pc : call' = [call EXCEPT ![c] = [call[c] EXCEPT !.pc = pc, !.shares = Burn(call[c]), !.debit = "pending"]]
      BY <1>7 DEF SendDebit, GoOn, Pc
    <3>2. "pending" \in TxStatus
      BY DEF TxStatus
    <3>3. [call[c] EXCEPT !.pc = pc, !.shares = Burn(call[c]), !.debit = "pending"] \in CallType
      BY <1>1, <2>1, <3>2, CallUpdates
    <3>4. mempool' \in Seq(Call)
      BY <1>1, <1>7 DEF SendDebit
    <3> QED
      BY <1>1, <3>1, <3>3, <3>4, CallReplaced
<1>8. CASE WaitDebit(c)
  <2>1. PICK pc \in Pc : call' = [call EXCEPT ![c] = [call[c] EXCEPT !.pc = pc]]
    <3>1. PICK pc : Goto(c, pc) /\ pc \in Pc
      BY <1>8 DEF WaitDebit, Pc
    <3> QED
      BY <3>1 DEF Goto, GoOn
  <2>2. [call[c] EXCEPT !.pc = pc] \in CallType
    BY <1>1, CallUpdates
  <2> QED
    BY <1>1, <1>8, <2>1, <2>2, CallReplaced DEF WaitDebit
<1>9. CASE SendCredit(c)
  <2>1. PICK pc \in Pc : call' = [call EXCEPT ![c] = [call[c] EXCEPT !.pc = pc, !.credit = "pending"]]
    BY <1>9 DEF SendCredit, GoOn, Pc
  <2>2. "pending" \in TxStatus
    BY DEF TxStatus
  <2>3. [call[c] EXCEPT !.pc = pc, !.credit = "pending"] \in CallType
    BY <1>1, <2>2, CallUpdates
  <2>4. mempool' \in Seq(Call)
    BY <1>1, <1>9 DEF SendCredit
  <2> QED
    BY <1>1, <2>1, <2>3, <2>4, CallReplaced
<1>10. CASE WaitCredit(c)
  BY <1>1, <1>10, CallUpdates DEF WaitCredit, Goto, GoOn, Pc
<1>11. CASE Record(c)
  BY <1>1, <1>11, CallUpdates DEF Record, Goto, GoOn, Pc
<1>12. CASE Stops(c)
  BY <1>1, <1>12, CallUpdates DEF Stops, Goto, GoOn, Pc
<1> QED
  BY <1>4, <1>5, <1>6, <1>7, <1>8, <1>9, <1>10, <1>11, <1>12 DEF Step

LEMMA TypeStep ==
  ASSUME TypeOK, [Next]_vars
  PROVE  TypeOK'
<1>1. VaultTypeOK'
  BY NextIsVaultNext, VaultTypeStep DEF TypeOK
<1> SUFFICES call' \in [Call -> CallType] /\ mempool' \in Seq(Call)
  BY <1>1 DEF TypeOK
<1>2. ASSUME NEW c \in Call, Step(c)
      PROVE  call' \in [Call -> CallType] /\ mempool' \in Seq(Call)
  BY <1>2, StepTypes
<1>3. CASE Mine
  <2> DEFINE c == Head(mempool)
  <2>1. c \in Call /\ mempool' \in Seq(Call)
    BY <1>3 DEF Mine, TypeOK
  <2>2. PICK u \in User : MineDebit(c, u) \/ MineCredit(c, u)
    BY <1>3 DEF Mine
  <2>3. Mixing(u) \in [Call -> CallType] /\ call \in [Call -> CallType]
    BY MixingKeepsCalls DEF TypeOK
  <2> HIDE DEF c
  <2>4. CASE WithdrawTo(u, call[c].shares) /\ call' = [Mixing(u) EXCEPT ![c] = [@ EXCEPT !.debit = "success", !.paid = ValueOf(call[c].shares)]]
    <3>1. call[c].shares \in Nat
      BY <2>4 DEF WithdrawTo, CanWithdraw, TypeOK, VaultTypeOK
    <3>2. ValueOf(call[c].shares) \in Nat /\ "success" \in TxStatus
      BY <3>1, RoundsDown DEF TypeOK, TxStatus
    <3>3. [Mixing(u)[c] EXCEPT !.debit = "success", !.paid = ValueOf(call[c].shares)] \in CallType
      BY <2>1, <2>3, <3>2, CallUpdates
    <3> QED
      BY <2>1, <2>3, <2>4, <3>3, CallReplaced
  <2>5. CASE call' = [call EXCEPT ![c] = [call[c] EXCEPT !.debit = "reverted"]]
    <3>1. "reverted" \in TxStatus
      BY DEF TxStatus
    <3>2. [call[c] EXCEPT !.debit = "reverted"] \in CallType
      BY <2>1, <2>3, <3>1, CallUpdates
    <3> QED
      BY <2>1, <2>3, <2>5, <3>2, CallReplaced
  <2>6. CASE call' = [Mixing(u) EXCEPT ![c] = [@ EXCEPT !.credit = "success"]]
    <3>1. "success" \in TxStatus
      BY DEF TxStatus
    <3>2. [Mixing(u)[c] EXCEPT !.credit = "success"] \in CallType
      BY <2>1, <2>3, <3>1, CallUpdates
    <3> QED
      BY <2>1, <2>3, <2>6, <3>2, CallReplaced
  <2>7. CASE call' = [call EXCEPT ![c] = [call[c] EXCEPT !.credit = "reverted"]]
    <3>1. "reverted" \in TxStatus
      BY DEF TxStatus
    <3>2. [call[c] EXCEPT !.credit = "reverted"] \in CallType
      BY <2>1, <2>3, <3>1, CallUpdates
    <3> QED
      BY <2>1, <2>3, <2>7, <3>2, CallReplaced
  <2> QED
    BY <2>1, <2>2, <2>4, <2>5, <2>6, <2>7 DEF MineDebit, MineCredit, GoOn
<1>4. ASSUME NEW u \in User, Deposit(u)
      PROVE  call' \in [Call -> CallType] /\ mempool' \in Seq(Call)
  BY <1>4, MixingKeepsCalls DEF Deposit, TypeOK
<1>5. CASE Treasury
  BY <1>5 DEF Treasury, TypeOK
<1>6. CASE UNCHANGED vars
  BY <1>6 DEF vars, TypeOK
<1> QED
  BY <1>2, <1>3, <1>4, <1>5, <1>6 DEF Next

-----------------------------------------------------------------------------
\* The part of a box that a send burns

\* Of S shares worth V at rate r, b are burned for w: neither one share too few
\* nor one unit too much.
LEMMA BurnIsProportionate ==
  ASSUME NEW S \in Nat, NEW r \in Nat \ {0}, NEW w \in Nat, NEW V, V = (S * r) \div Ray, w <= V,
         NEW b, b = IF w = V THEN S ELSE (S * w) \div V
  PROVE  w * Ray < (b + 1) * r /\ b * r <= (w + 1) * Ray
<1>1. V \in Nat /\ V * Ray <= S * r /\ S * r < V * Ray + Ray /\ S * r \in Nat
  BY DivCuts, VaultAssumption
<1>2. CASE w = V
  <2>1. b = S /\ (S + 1) * r = S * r + r /\ (w + 1) * Ray = V * Ray + Ray
    BY <1>1, <1>2, VaultAssumption
  <2>2. V * Ray \in Nat
    BY <1>1, VaultAssumption
  <2> QED
    BY <1>1, <1>2, <2>1, <2>2, VaultAssumption
<1>3. CASE w # V
  <2>1. V \in Nat \ {0} /\ w < V /\ b = (S * w) \div V /\ S * w \in Nat
    BY <1>1, <1>3
  <2>2. b \in Nat /\ b * V <= S * w /\ S * w < b * V + V
    BY <2>1, DivCuts
  <2>3. b <= S
    <3>1. SUFFICES ASSUME S + 1 <= b PROVE FALSE
      BY <2>2
    <3>2. (S + 1) * V <= b * V
      BY <2>1, <2>2, <3>1, TimesMonotone
    <3>3. S * w <= S * V /\ S * V \in Nat
      BY <2>1, TimesMonotone
    <3>4. (S + 1) * V = S * V + V
      BY <2>1
    <3> QED
      BY <2>1, <2>2, <3>2, <3>3, <3>4
  <2>4. w * Ray < (b + 1) * r
    <3>1. SUFFICES ASSUME (b + 1) * r <= w * Ray PROVE FALSE
      <4>1. (b + 1) * r \in Nat /\ w * Ray \in Nat
        BY <2>2, VaultAssumption
      <4> QED
        BY <4>1
    <3>2. ((b + 1) * r) * S <= (w * Ray) * S
      <4>1. (b + 1) * r \in Nat /\ w * Ray \in Nat
        BY <2>2, VaultAssumption
      <4> QED
        BY <3>1, <4>1, TimesMonotone
    <3>3. (b + 1) * (V * Ray) <= (b + 1) * (S * r)
      <4>1. V * Ray \in Nat /\ b + 1 \in Nat
        BY <1>1, <2>2, VaultAssumption
      <4> QED
        BY <1>1, <4>1, TimesMonotone
    <3>4. ((b + 1) * r) * S = (b + 1) * (S * r) /\ (w * Ray) * S = (S * w) * Ray
      <4>1. b + 1 \in Nat
        BY <2>2
      <4> QED
        BY <4>1, TimesAssociates, VaultAssumption
    <3>5. (b + 1) * (V * Ray) = (b * V + V) * Ray
      BY <1>1, <2>2, VaultAssumption
    <3>6. (S * w + 1) * Ray <= (b * V + V) * Ray
      <4>1. b * V + V \in Nat /\ S * w + 1 <= b * V + V
        BY <2>1, <2>2
      <4> QED
        BY <2>1, <4>1, TimesMonotone, VaultAssumption
    <3>7. (S * w + 1) * Ray = (S * w) * Ray + Ray /\ (S * w) * Ray \in Nat
      BY <2>1, VaultAssumption
    <3>8. (b * V + V) * Ray \in Nat /\ (b + 1) * (S * r) \in Nat
      <4>1. b * V + V \in Nat /\ b + 1 \in Nat
        BY <2>1, <2>2
      <4>2. \A x, y \in Nat : x * y \in Nat
        OBVIOUS
      <4> QED
        BY <1>1, <4>1, <4>2, VaultAssumption, Zenon
    <3>9. (b * V + V) * Ray <= (S * w) * Ray
      BY <3>2, <3>3, <3>4, <3>5, <3>7, <3>8
    <3> QED
      BY <3>6, <3>7, <3>8, <3>9, VaultAssumption
  <2>5. b * r <= (w + 1) * Ray
    <3>1. SUFFICES ASSUME (w + 1) * Ray + 1 <= b * r PROVE FALSE
      <4>1. b * r \in Nat /\ (w + 1) * Ray \in Nat
        BY <2>2, VaultAssumption
      <4> QED
        BY <4>1
    <3>2. S > 0
      <4>1. SUFFICES ASSUME S = 0 PROVE FALSE
        OBVIOUS
      <4>2. b = 0
        BY <2>2, <2>3, <4>1
      <4>3. 0 * r = 0 /\ (w + 1) * Ray \in Nat
        BY VaultAssumption
      <4> QED
        BY <3>1, <4>2, <4>3
    <3>3. ((w + 1) * Ray + 1) * S <= (b * r) * S
      <4>1. (w + 1) * Ray + 1 \in Nat /\ b * r \in Nat
        BY <2>2, VaultAssumption
      <4> QED
        BY <3>1, <4>1, TimesMonotone
    <3>4. (b * r) * S = b * (S * r)
      BY <2>2
    <3>5. b * (S * r) <= b * (V * Ray + Ray)
      <4>1. V * Ray + Ray \in Nat /\ S * r <= V * Ray + Ray
        BY <1>1, VaultAssumption
      <4> QED
        BY <1>1, <2>2, <4>1, TimesMonotone
    <3>6. b * (V * Ray + Ray) = (b * V + b) * Ray
      BY <1>1, <2>2, VaultAssumption
    <3>7. (b * V + b) * Ray <= (S * w + S) * Ray
      <4>1. b * V + b \in Nat /\ S * w + S \in Nat /\ b * V + b <= S * w + S
        BY <1>1, <2>1, <2>2, <2>3
      <4> QED
        BY <4>1, TimesMonotone, VaultAssumption
    <3>8. ((w + 1) * Ray + 1) * S = (S * w + S) * Ray + S
      BY VaultAssumption
    <3>9. (S * w + S) * Ray \in Nat /\ (b * V + b) * Ray \in Nat
      BY <1>1, <2>1, <2>2, VaultAssumption
    <3> QED
      BY <3>2, <3>3, <3>4, <3>5, <3>6, <3>7, <3>8, <3>9
  <2> QED
    BY <2>4, <2>5
<1> QED
  BY <1>2, <1>3

\* Burned later, they pay for w but for one unit and one share.
LEMMA BurnPays ==
  ASSUME NEW s \in Nat, NEW r \in Nat, NEW P \in Nat, r <= P, NEW w \in Nat, NEW v \in Nat,
         w * Ray < (s + 1) * r, s * P < v * Ray + Ray
  PROVE  (w - v - 1) * Ray < P
<1>1. (s + 1) * r <= (s + 1) * P
  BY TimesMonotone
<1>2. (s + 1) * P = s * P + P /\ (s + 1) * r \in Nat /\ s * P \in Nat
  BY Z3
<1>3. (w - v - 1) * Ray = w * Ray - v * Ray - Ray /\ w * Ray \in Nat /\ v * Ray \in Nat
  BY VaultAssumption
<1> QED
  BY <1>1, <1>2, <1>3, VaultAssumption

-----------------------------------------------------------------------------
\* Calls are sound

LEMMA AmountsAreNat ==
  ASSUME NEW q \in CallType
  PROVE  q.wanted \in Nat /\ q.paid \in Nat
<1>1. q.wanted \in Usdc \cup {0} /\ q.paid \in Nat
  BY DEF CallType
<1>2. \A a \in Usdc : a \in Nat
  BY VaultAssumption
<1> QED
  BY <1>1, <1>2

LEMMA SoundInit ==
  ASSUME Init PROVE \A c \in Call : Sound(call[c])
<1> SUFFICES ASSUME NEW c \in Call
             PROVE  Sound(call[c])
  OBVIOUS
<1>1. call[c] \in NewCalls("all", {0}) \cup NewCalls("send", Usdc \ {0})
  BY DEF Init
<1>2. /\ call[c].pc = "new" /\ call[c].rate = 0
      /\ call[c].debit = "none" /\ call[c].credit = "none"
  BY <1>1 DEF NewCalls
<1>3. 0 <= ProjectedExchangeRate
  BY VaultTypeInit, RateGrows DEF Init
<1> QED
  <2>1. call[c].shares = NotRead /\ call[c].value = NotRead
    BY <1>1 DEF NewCalls
  <2> QED
    BY <1>2, <1>3, <2>1 DEF Sound, Ordered, PastRate, Informed, Prepared, Sent, Paid

\* What the vault does disturbs no call, but one between its reads whose box it
\* changes; and that one is marked.
LEMMA Undisturbed ==
  ASSUME TypeOK, [VaultNext]_vaultVars, NEW q \in CallType, Sound(q),
         shares'[q.u] = shares[q.u] \/ ~HalfRead(q) \/ q.mixed
  PROVE  Sound(q)'
<1>1. /\ ProjectedExchangeRate \in Nat /\ ProjectedExchangeRate' \in Nat
      /\ ProjectedExchangeRate <= ProjectedExchangeRate'
  BY ProjectionGrows, RateGrows DEF TypeOK
<1>2. PastRate(q)'
  BY <1>1 DEF PastRate, Sound, CallType
<1>3. Informed(q)'
  BY DEF Informed, HalfRead, Quoted, Sound
<1>4. Paid(q)'
  <2>1. (q.wanted - q.paid - 1) * Ray \in Int
    <3>1. q.wanted \in Nat /\ q.paid \in Nat /\ Ray \in Nat
      BY AmountsAreNat, VaultAssumption
    <3>2. q.wanted - q.paid - 1 \in Int
      BY <3>1
    <3> QED
      BY <3>1, <3>2
  <2>2. Covered(q) => Covered(q)'
    BY <1>1, <2>1 DEF Covered
  <2> QED
    BY <2>2 DEF Paid, Sound
<1> QED
  BY <1>2, <1>3, <1>4 DEF Sound, Ordered, Prepared, Sent, Quoted, Proportionate

LEMMA MarkedIsSound ==
  ASSUME NEW q \in CallType, Sound(q)
  PROVE  Sound([q EXCEPT !.mixed = TRUE])
<1> DEFINE r == [q EXCEPT !.mixed = TRUE]
<1>1. /\ r.pc = q.pc /\ r.kind = q.kind /\ r.debit = q.debit /\ r.credit = q.credit
      /\ r.rate = q.rate /\ r.mixed = TRUE /\ r.shares = q.shares /\ r.value = q.value
  BY DEF CallType
<1> HIDE DEF r
<1>2. Sound(r)
  BY <1>1 DEF Sound, Ordered, PastRate, Informed, Prepared, Sent, Paid
<1> QED
  BY <1>2 DEF r

\* The records a step makes.
LEMMA StartSound ==
  ASSUME NEW q \in CallType, Sound(q), q.pc = "new", NEW r, r = [q EXCEPT !.pc = "read"]
  PROVE  Sound(r)
BY DEF CallType, Sound, Ordered, PastRate, Informed, Prepared, Sent, Paid

LEMMA ReadSharesSound ==
  ASSUME TypeOK, NEW q \in CallType, Sound(q), q.pc = "read", q.shares = NotRead,
         NEW pc, pc = IF q.kind = "all" /\ shares[q.u] = 0 THEN "done" ELSE IF q.value = NotRead THEN "read" ELSE "send",
         NEW r, r = [q EXCEPT !.shares = shares[q.u], !.pc = pc]
  PROVE  Sound(r)
<1>1. /\ r.pc = pc /\ r.kind = q.kind /\ r.u = q.u /\ r.shares = shares[q.u] /\ r.value = q.value
      /\ r.rate = q.rate /\ r.mixed = q.mixed /\ r.debit = q.debit /\ r.credit = q.credit
  BY DEF CallType
<1>2. shares[q.u] # NotRead /\ q.kind \in {"all", "send"}
  BY DEF TypeOK, VaultTypeOK, CallType, NotRead
<1>3. q.debit = "none"
  BY DEF Sound, Ordered
<1>4. Ordered(r) /\ PastRate(r)
  BY <1>1, <1>2, <1>3 DEF Sound, Ordered, PastRate
<1>5. Informed(r)
  BY <1>1 DEF Sound, Informed
<1>6. Prepared(r)
  BY <1>1, <1>2 DEF Sound, Informed, Prepared, Quoted
<1> QED
  BY <1>1, <1>3, <1>4, <1>5, <1>6 DEF Sound, Sent, Paid

LEMMA ReadValueSound ==
  ASSUME TypeOK, NEW q \in CallType, Sound(q), q.pc = "read", q.kind = "all" => q.shares # NotRead,
         NEW r, r = [q EXCEPT !.value = PreviewValue(q.u), !.rate = ProjectedExchangeRate,
                              !.pc = IF q.shares = NotRead THEN "read" ELSE "send"]
  PROVE  Sound(r)
<1>1. /\ r.pc = (IF q.shares = NotRead THEN "read" ELSE "send") /\ r.kind = q.kind /\ r.u = q.u
      /\ r.shares = q.shares /\ r.value = PreviewValue(q.u) /\ r.rate = ProjectedExchangeRate
      /\ r.mixed = q.mixed /\ r.debit = q.debit /\ r.credit = q.credit
  BY DEF CallType
<1>2. ProjectedExchangeRate \in Nat \ {0} /\ q.kind \in {"all", "send"}
  BY RateGrows DEF TypeOK, CallType
<1>3. q.debit = "none"
  BY DEF Sound, Ordered
<1>4. Ordered(r)
  BY <1>1, <1>3 DEF Sound, Ordered
<1>5. PastRate(r)
  BY <1>1, <1>2 DEF PastRate
<1>6. Quoted(r, shares[q.u])
  BY <1>1, <1>2 DEF Quoted, PreviewValue
<1>7. Informed(r) /\ Prepared(r)
  BY <1>1, <1>2, <1>6 DEF Sound, Informed, Prepared
<1> QED
  BY <1>1, <1>3, <1>4, <1>5, <1>7 DEF Sound, Sent, Paid

LEMMA SendDebitSound ==
  ASSUME TypeOK, NEW q \in CallType, Sound(q), q.pc = "send", q.kind = "send" => q.wanted <= q.value,
         CanWithdraw(q.u, Burn(q)), NEW pc \in {"wait", "stopped"},
         NEW r, r = [q EXCEPT !.pc = pc, !.shares = Burn(q), !.debit = "pending"]
  PROVE  Sound(r)
<1>1. /\ r.pc = pc /\ r.kind = q.kind /\ r.u = q.u /\ r.shares = Burn(q) /\ r.value = q.value /\ r.wanted = q.wanted
      /\ r.rate = q.rate /\ r.mixed = q.mixed /\ r.debit = "pending" /\ r.credit = q.credit
  BY DEF CallType
<1>2. q.kind \in {"all", "send"} /\ q.debit = "none" /\ q.rate \in Nat
  BY DEF Sound, Ordered, CallType
<1>3. Ordered(r) /\ PastRate(r)
  BY <1>1, <1>2 DEF Sound, Ordered, PastRate
<1>4. Informed(r) /\ Prepared(r) /\ Paid(r)
  BY <1>1 DEF Informed, Prepared, Paid
<1>5. ASSUME ~q.mixed, q.kind = "all"
      PROVE  Quoted(r, r.shares)
  BY <1>1, <1>5 DEF Sound, Prepared, Quoted, Burn
<1>6. ASSUME ~q.mixed, q.kind = "send"
      PROVE  Proportionate(r)
  <2>1. /\ q.shares \in Nat /\ q.rate \in Nat \ {0} /\ q.wanted \in Nat
        /\ q.value = (q.shares * q.rate) \div Ray
    BY <1>2, <1>6, VaultAssumption DEF Sound, Prepared, Quoted, CallType
  <2>2. Burn(q) = IF q.wanted = q.value THEN q.shares ELSE (q.shares * q.wanted) \div q.value
    BY <1>6 DEF Burn
  <2>3. q.wanted <= q.value
    BY <1>6
  <2>4. q.wanted * Ray < (Burn(q) + 1) * q.rate /\ Burn(q) * q.rate <= (q.wanted + 1) * Ray
    BY <2>1, <2>2, <2>3, BurnIsProportionate
  <2> QED
    BY <1>1, <2>4 DEF Proportionate
<1> QED
  BY <1>1, <1>2, <1>3, <1>4, <1>5, <1>6 DEF Sound, Sent

\* After its debit is sent, a step of a call changes its pc and its credit.
LEMMA LaterSound ==
  ASSUME NEW q \in CallType, Sound(q), NEW r \in CallType,
         r.pc \notin {"new", "read", "send"}, Ordered(r),
         \A f \in {"kind", "u", "wanted", "shares", "value", "rate", "mixed", "debit", "paid"} : r[f] = q[f]
  PROVE  Sound(r)
<1>1. /\ r.kind = q.kind /\ r.wanted = q.wanted /\ r.shares = q.shares /\ r.value = q.value
      /\ r.rate = q.rate /\ r.mixed = q.mixed /\ r.debit = q.debit /\ r.paid = q.paid
  OBVIOUS
<1> QED
  BY <1>1 DEF Sound, PastRate, Informed, Prepared, Sent, Paid, Quoted, Proportionate, Covered

\* A mined debit pays what was quoted, at the rate of the block.
LEMMA DebitPaidSound ==
  ASSUME TypeOK, NEW q \in CallType, Sound(q), q.debit = "pending", q.shares \in Nat,
         NEW r, r = [q EXCEPT !.debit = "success", !.paid = ValueOf(q.shares)]
  PROVE  Sound(r)
<1>1. /\ r.pc = q.pc /\ r.kind = q.kind /\ r.wanted = q.wanted /\ r.shares = q.shares /\ r.value = q.value
      /\ r.rate = q.rate /\ r.mixed = q.mixed /\ r.debit = "success" /\ r.credit = q.credit
      /\ r.paid = ValueOf(q.shares)
  BY DEF CallType
<1>2. r.pc \notin {"new", "read", "send"} /\ q.kind \in {"all", "send"}
  BY <1>1 DEF Sound, Ordered, CallType
<1>3. Ordered(r) /\ PastRate(r)
  BY <1>1, <1>2 DEF Sound, Ordered, PastRate
<1> DEFINE s == q.shares
           P == ProjectedExchangeRate
<1>4. P \in Nat \ {0} /\ q.rate \in Nat /\ q.rate <= P /\ s \in Nat
  BY RateGrows DEF TypeOK, Sound, PastRate, CallType
<1>5. ValueOf(s) = (s * P) \div Ray
  BY DEF ValueOf
<1> HIDE DEF s, P
<1>6. s * P \in Nat /\ s * q.rate \in Nat /\ s * q.rate <= s * P
  BY <1>4, TimesMonotone
<1>7. ASSUME ~q.mixed, q.kind = "all"
      PROVE  r.paid >= r.value
  <2>1. q.value = (s * q.rate) \div Ray
    BY <1>7 DEF Sound, Sent, Quoted, s
  <2>2. (s * q.rate) \div Ray <= (s * P) \div Ray
    BY <1>6, DivMonotone, VaultAssumption
  <2>3. (s * q.rate) \div Ray \in Nat /\ (s * P) \div Ray \in Nat
    BY <1>6, DivCuts, VaultAssumption
  <2> QED
    BY <1>1, <1>5, <2>1, <2>2, <2>3 DEF s
<1>8. ASSUME ~q.mixed, q.kind = "send"
      PROVE  Covered(r)
  <2>1. Proportionate(q) /\ q.wanted \in Usdc \cup {0}
    BY <1>8 DEF Sound, Sent, CallType
  <2>2. q.wanted \in Nat
    BY <2>1, VaultAssumption
  <2>3. ValueOf(s) \in Nat /\ s * P < ValueOf(s) * Ray + Ray
    BY <1>5, <1>6, DivCuts, VaultAssumption
  <2>4. q.wanted * Ray < (s + 1) * q.rate /\ s * q.rate <= (q.wanted + 1) * Ray
    BY <2>1 DEF Proportionate, s
  <2>5. (q.wanted - ValueOf(s) - 1) * Ray < P
    BY <1>4, <2>2, <2>3, <2>4, BurnPays
  <2> QED
    BY <1>1, <2>4, <2>5 DEF Covered, s, P
<1> QED
  BY <1>1, <1>2, <1>3, <1>7, <1>8 DEF Sound, Informed, Prepared, Sent, Paid

\* A reverted debit, and either outcome of a credit.
LEMMA RevertSound ==
  ASSUME NEW q \in CallType, Sound(q), q.debit = "pending", NEW r, r = [q EXCEPT !.debit = "reverted"]
  PROVE  Sound(r)
BY DEF CallType, Sound, Ordered, PastRate, Informed, Prepared, Sent, Paid

LEMMA CreditMinedSound ==
  ASSUME NEW q \in CallType, Sound(q), q.credit = "pending", NEW t \in {"success", "reverted"},
         NEW r, r = [q EXCEPT !.credit = t]
  PROVE  Sound(r)
<1>1. /\ r.pc = q.pc /\ r.kind = q.kind /\ r.wanted = q.wanted /\ r.shares = q.shares /\ r.value = q.value
      /\ r.rate = q.rate /\ r.mixed = q.mixed /\ r.debit = q.debit /\ r.credit = t
      /\ r.paid = q.paid /\ r.u = q.u
  BY DEF CallType
<1>2. Ordered(r)
  BY <1>1 DEF Sound, Ordered
<1>3. PastRate(r) /\ Informed(r) /\ Prepared(r)
  BY <1>1 DEF Sound, PastRate, Informed, Prepared, Quoted
<1>4. Sent(r) /\ Paid(r)
  BY <1>1 DEF Sound, Sent, Paid, Quoted, Proportionate, Covered
<1> QED
  BY <1>2, <1>3, <1>4 DEF Sound

LEMMA StopSound ==
  ASSUME TypeOK, NEW q \in CallType, Sound(q), q.debit = "none",
         NEW r, r = [q EXCEPT !.pc = "stopped", !.shares = NotRead, !.value = NotRead, !.rate = 0, !.mixed = FALSE]
  PROVE  Sound(r)
<1>1. r.pc = "stopped" /\ r.kind = q.kind /\ r.rate = 0 /\ r.debit = "none" /\ r.credit = q.credit
  BY DEF CallType
<1>2. 0 <= ProjectedExchangeRate
  BY RateGrows DEF TypeOK
<1> QED
  BY <1>1, <1>2 DEF Sound, Ordered, PastRate, Informed, Prepared, Sent, Paid

\* If the record a call has next is sound, the call is.
LEMMA SoundNext ==
  ASSUME NEW c \in Call, NEW r, r = call'[c], Sound(r)'
  PROVE  Sound(call[c])'
BY DEF Sound, Ordered, PastRate, Informed, Prepared, Sent, Paid, Quoted, Proportionate, Covered

LEMMA StepSound ==
  ASSUME TypeOK, NEW c \in Call, Sound(call[c]), Step(c)
  PROVE  \E r \in CallType : call' = [call EXCEPT ![c] = r] /\ Sound(r)
<1> DEFINE q == call[c]
<1>1. q \in CallType
  BY DEF TypeOK
<1>2. \A r : call' = [call EXCEPT ![c] = r] => r \in CallType
  BY StepTypes DEF TypeOK
<1>3. CASE Start(c)
  BY <1>1, <1>2, <1>3, StartSound DEF Start, Goto, GoOn, At
<1>4. CASE ReadShares(c)
  <2> DEFINE pc == IF q.kind = "all" /\ shares[q.u] = 0 THEN "done" ELSE IF q.value = NotRead THEN "read" ELSE "send"
             r == [q EXCEPT !.shares = shares[q.u], !.pc = pc]
  <2>1. call' = [call EXCEPT ![c] = r] /\ q.pc = "read" /\ q.shares = NotRead
    BY <1>4 DEF ReadShares, GoOn, At
  <2>2. Sound(r)
    BY <1>1, <2>1, ReadSharesSound
  <2> QED
    BY <1>2, <2>1, <2>2
<1>5. CASE ReadValue(c)
  <2> DEFINE r == [q EXCEPT !.value = PreviewValue(q.u), !.rate = ProjectedExchangeRate,
                            !.pc = IF q.shares = NotRead THEN "read" ELSE "send"]
  <2>1. call' = [call EXCEPT ![c] = r] /\ q.pc = "read" /\ (q.kind = "all" => q.shares # NotRead)
    BY <1>5 DEF ReadValue, GoOn, At
  <2>2. Sound(r)
    BY <1>1, <2>1, ReadValueSound
  <2> QED
    BY <1>2, <2>1, <2>2
<1>6. CASE SendDebit(c)
  <2>1. PICK pc \in {"wait", "stopped"} : call' = [call EXCEPT ![c] = [q EXCEPT !.pc = pc, !.shares = Burn(q), !.debit = "pending"]]
    BY <1>6 DEF SendDebit, GoOn
  <2> DEFINE r == [q EXCEPT !.pc = pc, !.shares = Burn(q), !.debit = "pending"]
  <2>2. q.pc = "send" /\ (q.kind = "send" => q.wanted <= q.value) /\ CanWithdraw(q.u, Burn(q))
    BY <1>6 DEF SendDebit, At
  <2>3. Sound(r)
    BY <1>1, <2>2, SendDebitSound
  <2> QED
    BY <1>2, <2>1, <2>3
<1>7. ASSUME NEW r \in CallType, call' = [call EXCEPT ![c] = r],
             r.pc \notin {"new", "read", "send"}, Ordered(r),
             \A f \in {"kind", "u", "wanted", "shares", "value", "rate", "mixed", "debit", "paid"} : r[f] = q[f]
      PROVE  \E s \in CallType : call' = [call EXCEPT ![c] = s] /\ Sound(s)
  BY <1>1, <1>7, LaterSound
<1>8. CASE WaitDebit(c)
  <2>1. PICK pc \in {"stopped", "record", "credit"} :
          call' = [call EXCEPT ![c] = [q EXCEPT !.pc = pc]] /\ (pc = "stopped" \/ q.kind = "all" \/ q.debit = "success")
          /\ (pc = "record" => q.kind = "all")
    BY <1>8 DEF WaitDebit, Goto, GoOn, Accepts
  <2> DEFINE r == [q EXCEPT !.pc = pc]
  <2>2. r \in CallType
    BY <1>2, <2>1
  <2>3. Ordered(r)
    BY <1>1, <2>1 DEF Sound, Ordered, CallType
  <2> QED
    BY <1>1, <1>7, <2>1, <2>2, <2>3 DEF CallType
<1>9. CASE SendCredit(c)
  <2>1. PICK pc \in {"waitcredit", "stopped"} : call' = [call EXCEPT ![c] = [q EXCEPT !.pc = pc, !.credit = "pending"]]
    BY <1>9 DEF SendCredit, GoOn
  <2> DEFINE r == [q EXCEPT !.pc = pc, !.credit = "pending"]
  <2>2. r \in CallType /\ q.pc = "credit"
    BY <1>2, <1>9, <2>1 DEF SendCredit, At
  <2>3. Ordered(r)
    BY <1>1, <2>1, <2>2 DEF Sound, Ordered, CallType
  <2> QED
    BY <1>1, <1>7, <2>1, <2>2, <2>3 DEF CallType
<1>10. CASE WaitCredit(c)
  <2> DEFINE pc == IF q.credit = "success" THEN "record" ELSE "stopped"
             r == [q EXCEPT !.pc = pc]
  <2>1. call' = [call EXCEPT ![c] = r] /\ q.pc = "waitcredit"
    BY <1>10 DEF WaitCredit, Goto, GoOn, At
  <2>2. r \in CallType
    BY <1>2, <2>1
  <2>3. Ordered(r)
    BY <1>1, <2>1 DEF Sound, Ordered, CallType
  <2> QED
    BY <1>1, <1>7, <2>1, <2>2, <2>3 DEF CallType
<1>11. CASE Record(c)
  <2> DEFINE r == [q EXCEPT !.pc = "done"]
  <2>1. call' = [call EXCEPT ![c] = r] /\ q.pc = "record"
    BY <1>11 DEF Record, Goto, GoOn, At
  <2>2. r \in CallType
    BY <1>2, <2>1
  <2>3. Ordered(r)
    BY <1>1, <2>1 DEF Sound, Ordered, CallType
  <2> QED
    BY <1>1, <1>7, <2>1, <2>2, <2>3 DEF CallType
<1>12. CASE Stops(c) /\ q.debit = "none"
  <2> DEFINE r == [q EXCEPT !.pc = "stopped", !.shares = NotRead, !.value = NotRead, !.rate = 0, !.mixed = FALSE]
  <2>1. call' = [call EXCEPT ![c] = r]
    BY <1>12 DEF Stops, GoOn
  <2>2. Sound(r)
    BY <1>1, <1>12, StopSound
  <2> QED
    BY <1>2, <2>1, <2>2
<1>13. CASE Stops(c) /\ q.debit # "none"
  <2> DEFINE r == [q EXCEPT !.pc = "stopped"]
  <2>1. call' = [call EXCEPT ![c] = r]
    BY <1>13 DEF Stops, Goto, GoOn
  <2>2. r \in CallType
    BY <1>2, <2>1
  <2>3. Ordered(r)
    BY <1>1, <2>1 DEF Sound, Ordered, CallType
  <2> QED
    BY <1>1, <1>7, <2>1, <2>2, <2>3 DEF CallType
<1> QED
  BY <1>3, <1>4, <1>5, <1>6, <1>8, <1>9, <1>10, <1>11, <1>12, <1>13 DEF Step

LEMMA MineSound ==
  ASSUME TypeOK, \A x \in Call : Sound(call[x]), NEW c \in Call, NEW u \in User, MineDebit(c, u) \/ MineCredit(c, u)
  PROVE  \E r \in CallType :
           /\ Sound(r)
           /\ \/ call' = [call EXCEPT ![c] = r] /\ UNCHANGED shares
              \/ /\ call' = [Mixing(u) EXCEPT ![c] = r]
                 /\ \A v \in User : v # u => shares'[v] = shares[v]
                 /\ r.u = u /\ HalfRead(r) => r.mixed
<1> DEFINE q == call[c]
           m == Mixing(u)[c]
<1>1. q \in CallType /\ Sound(q) /\ m \in CallType
  BY MixingKeepsCalls DEF TypeOK
<1>2. m = IF q.u = u /\ HalfRead(q) THEN [q EXCEPT !.mixed = TRUE] ELSE q
  BY DEF Mixing
<1>3. Sound(m) /\ m.debit = q.debit /\ m.credit = q.credit /\ (m.u = u /\ HalfRead(m) => m.mixed)
  BY <1>1, <1>2, MarkedIsSound DEF CallType, HalfRead
<1>4. CASE q.debit = "pending" /\ WithdrawTo(u, q.shares)
           /\ call' = [Mixing(u) EXCEPT ![c] = [@ EXCEPT !.debit = "success", !.paid = ValueOf(q.shares)]]
  <2> DEFINE r == [q EXCEPT !.debit = "success", !.paid = ValueOf(q.shares)]
  <2>1. q.shares \in Nat
    BY <1>4 DEF WithdrawTo, CanWithdraw, TypeOK, VaultTypeOK
  <2>2. Sound(r)
    BY <1>1, <1>4, <2>1, DebitPaidSound
  <2>3. m = q /\ ~HalfRead(r)
    BY <1>1, <1>2, <1>4 DEF HalfRead, Sound, Ordered, CallType
  <2>4. ValueOf(q.shares) \in Nat /\ "success" \in TxStatus
    BY <2>1, RoundsDown DEF TypeOK, TxStatus
  <2>5. r \in CallType
    BY <1>1, <2>4, CallUpdates
  <2>6. call' = [Mixing(u) EXCEPT ![c] = r]
    BY <1>4, <2>3 DEF Mixing
  <2>7. \A v \in User : v # u => shares'[v] = shares[v]
    BY <1>4 DEF WithdrawTo, TypeOK, VaultTypeOK
  <2> QED
    BY <2>2, <2>3, <2>5, <2>6, <2>7
<1>5. CASE q.debit = "pending" /\ call' = [call EXCEPT ![c] = [q EXCEPT !.debit = "reverted"]] /\ UNCHANGED vaultVars
  <2>1. Sound([q EXCEPT !.debit = "reverted"])
    BY <1>1, <1>5, RevertSound
  <2>2. [q EXCEPT !.debit = "reverted"] \in CallType
    BY <1>1, CallUpdates DEF TxStatus
  <2> QED
    BY <1>5, <2>1, <2>2 DEF vaultVars, shareVars
<1>6. CASE q.credit = "pending" /\ DepositFor(u, q.wanted) /\ call' = [Mixing(u) EXCEPT ![c] = [@ EXCEPT !.credit = "success"]]
  <2> DEFINE r == [m EXCEPT !.credit = "success"]
  <2>1. Sound(r)
    BY <1>1, <1>3, <1>6, CreditMinedSound
  <2>2. r \in CallType
    BY <1>1, CallUpdates DEF TxStatus
  <2>3. r.u = u /\ HalfRead(r) => r.mixed
    BY <1>1, <1>3 DEF HalfRead, CallType
  <2>4. call' = [Mixing(u) EXCEPT ![c] = r]
    BY <1>6 DEF Mixing
  <2>5. \A v \in User : v # u => shares'[v] = shares[v]
    BY <1>6 DEF DepositFor, TypeOK, VaultTypeOK
  <2> QED
    BY <2>1, <2>2, <2>3, <2>4, <2>5
<1>7. CASE q.credit = "pending" /\ call' = [call EXCEPT ![c] = [q EXCEPT !.credit = "reverted"]] /\ UNCHANGED vaultVars
  <2>1. Sound([q EXCEPT !.credit = "reverted"])
    BY <1>1, <1>7, CreditMinedSound
  <2>2. [q EXCEPT !.credit = "reverted"] \in CallType
    BY <1>1, CallUpdates DEF TxStatus
  <2> QED
    BY <1>7, <2>1, <2>2 DEF vaultVars, shareVars
<1> QED
  BY <1>4, <1>5, <1>6, <1>7 DEF MineDebit, MineCredit, GoOn

LEMMA SoundStep ==
  ASSUME IndInv, [Next]_vars, NEW x \in Call
  PROVE  Sound(call[x])'
<1>1. TypeOK /\ [VaultNext]_vaultVars /\ (\A y \in Call : call[y] \in CallType /\ Sound(call[y]))
  BY NextIsVaultNext DEF IndInv, TypeOK
<1>2. ASSUME NEW r \in CallType, r = call'[x], Sound(r), r.u \in User,
             shares'[r.u] = shares[r.u] \/ ~HalfRead(r) \/ r.mixed
      PROVE  Sound(call[x])'
  BY <1>1, <1>2, Undisturbed, SoundNext
\* A call whose box changes is as it was, or marked.
<1>3. ASSUME NEW u \in User, call'[x] = Mixing(u)[x], \A v \in User : v # u => shares'[v] = shares[v]
      PROVE  Sound(call[x])'
  <2>1. Mixing(u)[x] = IF call[x].u = u /\ HalfRead(call[x]) THEN [call[x] EXCEPT !.mixed = TRUE] ELSE call[x]
    BY DEF Mixing
  <2>2. CASE call[x].u = u /\ HalfRead(call[x])
    <3> DEFINE r == [call[x] EXCEPT !.mixed = TRUE]
    <3>1. r = call'[x] /\ r \in CallType /\ r.mixed
      BY <1>1, <1>3, <2>1, <2>2 DEF CallType
    <3>2. Sound(r)
      BY <1>1, MarkedIsSound
    <3>3. r.u \in User
      BY <3>1 DEF CallType
    <3> QED
      BY <1>2, <3>1, <3>2, <3>3
  <2>3. CASE ~(call[x].u = u /\ HalfRead(call[x]))
    <3>1. call[x].u \in User
      BY <1>1 DEF CallType
    <3> QED
      BY <1>1, <1>2, <1>3, <2>1, <2>3, <3>1
  <2> QED
    BY <2>2, <2>3
<1>4. ASSUME call'[x] = call[x], UNCHANGED shares
      PROVE  Sound(call[x])'
  <2>1. call[x].u \in User
    BY <1>1 DEF CallType
  <2> QED
    BY <1>1, <1>2, <1>4, <2>1
<1>5. ASSUME NEW c \in Call, Step(c)
      PROVE  Sound(call[x])'
  <2>1. UNCHANGED shares
    BY <1>5, StepLeavesVault DEF vaultVars, shareVars
  <2>2. PICK r \in CallType : call' = [call EXCEPT ![c] = r] /\ Sound(r)
    BY <1>1, <1>5, StepSound
  <2>3. CASE x = c
    <3>1. r = call'[x] /\ r.u \in User
      BY <1>1, <2>2, <2>3 DEF CallType, TypeOK
    <3> QED
      BY <1>2, <2>1, <2>2, <3>1
  <2>4. CASE x # c
    <3>1. call'[x] = call[x]
      BY <2>2, <2>4 DEF TypeOK
    <3> QED
      BY <1>4, <2>1, <3>1
  <2> QED
    BY <2>3, <2>4
<1>6. CASE Mine
  <2>1. PICK c \in Call, u \in User : MineDebit(c, u) \/ MineCredit(c, u)
    BY <1>1, <1>6 DEF Mine, TypeOK
  <2>2. PICK r \in CallType :
           /\ Sound(r)
           /\ \/ call' = [call EXCEPT ![c] = r] /\ UNCHANGED shares
              \/ /\ call' = [Mixing(u) EXCEPT ![c] = r]
                 /\ \A v \in User : v # u => shares'[v] = shares[v]
                 /\ r.u = u /\ HalfRead(r) => r.mixed
    BY <1>1, <2>1, MineSound
  <2>3. r.u \in User /\ Mixing(u) \in [Call -> CallType] /\ call \in [Call -> CallType]
    BY <1>1, MixingKeepsCalls DEF CallType, TypeOK
  <2>4. CASE x = c
    <3>1. r = call'[x]
      BY <2>2, <2>3, <2>4
    <3> QED
      BY <1>2, <2>2, <2>3, <3>1
  <2>5. CASE x # c
    <3>1. \/ call'[x] = call[x] /\ UNCHANGED shares
          \/ call'[x] = Mixing(u)[x] /\ \A v \in User : v # u => shares'[v] = shares[v]
      BY <2>2, <2>3, <2>5
    <3> QED
      BY <1>3, <1>4, <3>1
  <2> QED
    BY <2>4, <2>5
<1>7. ASSUME NEW u \in User, Deposit(u)
      PROVE  Sound(call[x])'
  <2>1. \A v \in User : v # u => shares'[v] = shares[v]
    BY <1>1, <1>7 DEF Deposit, DepositFor, TypeOK, VaultTypeOK
  <2> QED
    BY <1>3, <1>7, <2>1 DEF Deposit
<1>8. CASE Treasury
  <2>1. UNCHANGED shares
    BY <1>8 DEF Treasury, FundYieldReserve, SetApyBps, Tick, shareVars
  <2> QED
    BY <1>4, <1>8, <2>1 DEF Treasury
<1>9. CASE UNCHANGED vars
  BY <1>4, <1>9 DEF vars, vaultVars, shareVars
<1> QED
  BY <1>5, <1>6, <1>7, <1>8, <1>9 DEF Next

-----------------------------------------------------------------------------
\* Theorems

LEMMA IndInvInit ==
  ASSUME Init PROVE IndInv
BY TypeInit, FairInit, SoundInit DEF IndInv, Init

LEMMA IndInvStep ==
  ASSUME IndInv, [Next]_vars
  PROVE  IndInv'
<1>1. TypeOK' /\ FairShare'
  BY TypeStep, NextIsVaultNext, FairStep DEF IndInv, TypeOK
<1>2. \A x \in Call : Sound(call[x])'
  BY SoundStep
<1> QED
  BY <1>1, <1>2 DEF IndInv

THEOREM Inductive == Spec => []IndInv
<1>1. Init => IndInv
  BY IndInvInit
<1>2. IndInv /\ [Next]_vars => IndInv'
  BY IndInvStep
<1> QED
  BY <1>1, <1>2, PTL DEF Spec

\* Every variable of the vault and of the withdrawals in front of it keeps its
\* type: no balance and no reserve goes below zero.
THEOREM TypeCorrect == Spec => []TypeOK
<1>1. IndInv => TypeOK
  BY DEF IndInv
<1> QED
  BY <1>1, Inductive, PTL

\* However deposits, withdrawals, sends and rate changes round and interleave, no
\* customer takes out more than they paid in and their shares gained.
THEOREM FairShareHolds == Spec => []FairShare
<1>1. IndInv => FairShare
  BY DEF IndInv
<1> QED
  BY <1>1, Inductive, PTL

\* While the reserve was given what the shares gained, the vault holds what all
\* customers could take out at once.
THEOREM EveryoneCanLeaveHolds == Spec => []EveryoneCanLeave
<1>1. Init => Solvent
  BY SolventInit DEF Init
<1>2. IndInv /\ Solvent /\ [Next]_vars => Solvent'
  BY NextIsVaultNext, SolventStep DEF IndInv, TypeOK
<1>3. IndInv /\ Solvent => EveryoneCanLeave
  BY SolventIsEnough DEF IndInv, TypeOK
<1> QED
  BY <1>1, <1>2, <1>3, Inductive, PTL DEF Spec

\* A customer's value falls by their own withdrawals only.
THEOREM ValueNeverFallsHolds == Spec => ValueNeverFalls
<1>1. IndInv /\ [Next]_vars => [KeepsValue]_vaultVars
  BY NextIsVaultNext, ValueStep DEF IndInv, TypeOK, KeepsValue
<1> QED
  BY <1>1, Inductive, PTL DEF Spec, ValueNeverFalls

\* A credit follows a successful debit, and is recorded when it succeeded.
THEOREM CreditIsBackedHolds == Spec => []CreditIsBacked
<1>1. IndInv => CreditIsBacked
  BY DEF IndInv, Sound, Ordered, CreditIsBacked
<1> QED
  BY <1>1, Inductive, PTL

\* What a send burns of the sender's box pays for what the other one gets, within
\* one share and one unit.
THEOREM CreditIsCoveredHolds == Spec => []CreditIsCovered
<1>1. IndInv => CreditIsCovered
  BY DEF IndInv, Sound, Paid, CreditIsCovered
<1> QED
  BY <1>1, Inductive, PTL

\* A withdrawal that succeeded paid at least what is recorded and handed out.
THEOREM RecordedWasPaidHolds == Spec => []RecordedWasPaid
<1>1. IndInv => RecordedWasPaid
  BY DEF IndInv, Sound, Paid, RecordedWasPaid
<1> QED
  BY <1>1, Inductive, PTL

\* What runs in front of the vault uses it by its functions only.
THEOREM ImplementsVault == Spec => VaultSpec
<1>1. Init => VaultInit
  BY DEF Init
<1>2. IndInv /\ [Next]_vars => [VaultNext]_vaultVars
  BY NextIsVaultNext DEF IndInv
<1> QED
  BY <1>1, <1>2, Inductive, PTL DEF Spec, VaultSpec
===========================================================================
