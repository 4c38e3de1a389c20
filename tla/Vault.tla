------------------------------- MODULE Vault -------------------------------
(***************************************************************************)
(* The vault (contracts/src/TakarabakoVault.sol): customers' USDC as shares*)
(* whose rate grows with time, paid from a reserve the treasury tops up.   *)
(* One action per external function, each a transaction; integers round    *)
(* down as in Solidity.  Arithmetic does not overflow: 2^256 is far above  *)
(* any rate, balance and time.                                             *)
(***************************************************************************)
EXTENDS Integers, FiniteSets, FiniteSetsExt

CONSTANTS User,
          Usdc,     \* amounts that are deposited or put in the reserve
          Apy,      \* the values apyBps is given
          Ray,      \* RAY
          Year      \* BPS_DENOMINATOR * SECONDS_PER_YEAR

ASSUME VaultAssumption ==
  /\ IsFiniteSet(User)
  /\ Usdc \subseteq Nat /\ Apy \subseteq Nat
  /\ Ray \in Nat \ {0} /\ Year \in Nat \ {0}

VARIABLES exchangeRate, apyBps, lastAccrualTs,
          shares, totalShares,
          held,        \* usdc.balanceOf(vault)
          now,         \* block.timestamp
          paidIn,      \* history: what was deposited for a user,
          paidOut,     \* withdrawn of theirs,
          earned,      \* and what their shares gained, times Ray
          funded,      \* history: what the reserve was given
          promised     \* and what all shares gained, times Ray

rateVars == <<exchangeRate, apyBps, lastAccrualTs>>
shareVars == <<shares, totalShares, held>>
flowVars == <<paidIn, paidOut, earned, funded, promised>>
vaultVars == <<rateVars, shareVars, now, flowVars>>

VaultTypeOK ==
  /\ exchangeRate \in Nat \ {0} /\ apyBps \in Nat
  /\ lastAccrualTs \in Nat /\ now \in Nat /\ lastAccrualTs <= now
  /\ shares \in [User -> Nat] /\ totalShares \in Nat
  /\ held \in Nat /\ funded \in Nat /\ promised \in Nat
  /\ paidIn \in [User -> Nat] /\ paidOut \in [User -> Nat] /\ earned \in [User -> Nat]

VaultInit ==
  /\ exchangeRate = Ray /\ apyBps \in Apy
  /\ lastAccrualTs = 0 /\ now = 0
  /\ shares = [u \in User |-> 0] /\ totalShares = 0 /\ held = 0
  /\ paidIn = [u \in User |-> 0] /\ paidOut = [u \in User |-> 0] /\ earned = [u \in User |-> 0]
  /\ funded = 0 /\ promised = 0

-----------------------------------------------------------------------------
\* _projectedExchangeRate: linear since the last accrual.
ProjectedExchangeRate == exchangeRate + ((exchangeRate * apyBps * (now - lastAccrualTs)) \div Year)
PreviewValue(u) == (shares[u] * ProjectedExchangeRate) \div Ray

\* _accrue
Accrue ==
  LET rise == ProjectedExchangeRate - exchangeRate
  IN /\ exchangeRate' = ProjectedExchangeRate
     /\ lastAccrualTs' = now
     /\ earned' = [u \in User |-> earned[u] + shares[u] * rise]
     /\ promised' = promised + totalShares * rise

\* Shares for an amount, and the amount for shares.
SharesRoundedUp(amount) == (amount * Ray + ProjectedExchangeRate - 1) \div ProjectedExchangeRate
SharesFor(amount) == (amount * Ray) \div ProjectedExchangeRate
ValueAtLastAccrual(s) == (s * exchangeRate) \div Ray
ValueRoundedUp(s) == (s * ProjectedExchangeRate + Ray - 1) \div Ray
ValueOf(s) == (s * ProjectedExchangeRate) \div Ray

DepositFor(u, amount) ==
  /\ amount > 0
  /\ Accrue
  /\ shares' = [shares EXCEPT ![u] = @ + SharesFor(amount)]
  /\ totalShares' = totalShares + SharesFor(amount)
  /\ held' = held + amount
  /\ paidIn' = [paidIn EXCEPT ![u] = @ + amount]
  /\ UNCHANGED <<apyBps, now, paidOut, funded>>

\* Reverts when the reserve does not cover it.
CanWithdraw(u, s) == s \in 1..shares[u] /\ s <= totalShares /\ ValueOf(s) <= held

WithdrawTo(u, s) ==
  /\ CanWithdraw(u, s)
  /\ Accrue
  /\ shares' = [shares EXCEPT ![u] = @ - s]
  /\ totalShares' = totalShares - s
  /\ held' = held - ValueOf(s)
  /\ paidOut' = [paidOut EXCEPT ![u] = @ + ValueOf(s)]
  /\ UNCHANGED <<apyBps, now, paidIn, funded>>

FundYieldReserve(amount) ==
  /\ held' = held + amount
  /\ funded' = funded + amount
  /\ UNCHANGED <<rateVars, shares, totalShares, now, paidIn, paidOut, earned, promised>>

\* The old rate counts up to now, the new one from here.
NoAccrual == UNCHANGED <<exchangeRate, lastAccrualTs, earned, promised>>
AccruesFirst == Accrue

SetApyBps(bps) ==
  /\ AccruesFirst
  /\ apyBps' = bps
  /\ UNCHANGED <<shareVars, now, paidIn, paidOut, funded>>

Tick ==
  /\ now' = now + 1
  /\ UNCHANGED <<rateVars, shareVars, flowVars>>

-----------------------------------------------------------------------------
VaultNext ==
  \/ \E u \in User, amount \in Usdc : DepositFor(u, amount)
  \/ \E u \in User : \E s \in 1..shares[u] : WithdrawTo(u, s)
  \/ \E amount \in Usdc : FundYieldReserve(amount)
  \/ \E bps \in Apy : SetApyBps(bps)
  \/ Tick

VaultSpec == VaultInit /\ [][VaultNext]_vaultVars

-----------------------------------------------------------------------------
\* Properties

\* No sequence of deposits and withdrawals, however they round, gives a customer
\* more than they paid in and their shares gained while they held them.
FairShare ==
  \A u \in User : paidOut[u] * Ray + shares[u] * exchangeRate <= paidIn[u] * Ray + earned[u]

\* As long as the reserve was given what the shares gained so far, all customers
\* can take out everything at once.
EveryoneCanLeave ==
  promised + totalShares * (ProjectedExchangeRate - exchangeRate) <= funded * Ray =>
    SumFunction([u \in User |-> PreviewValue(u)]) <= held

\* A customer's value falls by their own withdrawals only: not by a new rate of
\* interest, which does not reach back, nor by anybody else's transaction.
KeepsValue == \A u \in User : shares'[u] >= shares[u] => PreviewValue(u)' >= PreviewValue(u)
ValueNeverFalls == [][KeepsValue]_vaultVars
=============================================================================
