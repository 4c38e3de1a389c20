# Takarabako in TLA+

Takarabako turns cash put into a kiosk into a USDC balance in a vault contract,
with a receipt token for the notes in the box (tkCASH), yield positions on 1inch
Aqua, a bridge between the chains it runs on, and a treasury operated by people
and by an agent within limits. This directory holds TLA+ models of the parts of
it that move money over several steps, what TLC checks of them, and what TLAPS
proves. Paths below are relative to the repository.

The code is one Node process (`backend/`), Postgres, Redis, a few contracts
(`contracts/`), the kiosk's own bridge (`device-agent/`) and a web app
(`frontend/`). Almost every operation is the same shape: read a row, decide,
send a transaction, store its hash, wait, store the outcome. What is hard is
what happens between those steps: another request on the same row, a crash, an
answer that is lost although the transaction was mined.

## Inventory

| Component | State | Operations | Talks to | Hard because | Correct when |
|---|---|---|---|---|---|
| Deposit queue (`depositQueue.ts`, `accounts.ts`, `routes/deposit.ts`) | `deposits` rows, BullMQ jobs | accept a note, queue it, send `depositFor`, wait, confirm, mark failed | Redis, vault, tkCASH, kiosk events | retries and crashes around a send; late `queue.add`; in-memory "failed" event | a confirmed note was paid, sent once after its hash is stored, minted once; every note settles |
| tkCASH (`TakarabakoCashReceipt.sol`, `cashReceipt.ts`) | kiosks with reserves, balances, allowlist, daily limit | cash in, redeem, attest, freeze, transfer; `redeemAll` over several boxes | deposit queue, withdrawals, ops | multi-step burn on stale reads; day rollover | supply is the sum of the reserves and of the balances; limits hold; records are honest |
| Bridge (`bridge.ts`, `cctp.ts`, `routes/bridgeRoutes.ts`) | `bridge_transfers` rows | withdraw, burn, attest, mint, credit | two chains, Circle | two runs per transfer, stored hashes, give-up rule | no leg without the one before, none twice; transfers arrive |
| Aqua positions (`aqua.ts`, `closeFlow.ts`, `yieldPositions.ts`) | `aqua_positions` rows, shipped strategies | open, close, resume | Aqua, vault, withdrawals | concurrent closers, lost payout answers | paid at most once, the fixed value, after docking |
| Proposals (`proposals.ts`, `policy.ts`, `mandate.ts`, `opsAgent.ts`, `treasury.ts`) | `ops_proposals` rows | file, approve, reject, execute | agent, operators, chain | check, then act, by several callers | carried out once; caps and mandate; rows tell what happened |
| Vault (`TakarabakoVault.sol`, Hedera variant) | shares, yield reserve | deposit for, withdraw, fund, set APY | everything that pays | rounding, rate growth against the reserve | solvent; nobody gains by rounding |
| Position manager (`AquaPositionManager.sol`) | balances during one transaction | open, close, dock | wallets, Aqua | what an aborted or partial call leaves | nothing of the owner stays behind |
| Withdrawals (`routes/withdraw.ts`) | `withdrawals` rows | close positions, withdraw per chain, burn, record | Aqua, vault, tkCASH, limits | partial failure between legs | what left is recorded |
| Daily limit, transfers (`limits.ts`, `transfers.ts`, `routes/walletRoutes.ts`) | sums over history | check, send balance, send tkCASH | vault, wallets | check, then act; rows that come after the money; two-legged move | limit holds per day; what left is recorded |
| Cover of Aqua (`aqua.ts` assertBacked, ensureApprovals; `allowances.ts`) | Aqua's allowance, a lock in memory | check the cover, size the allowance, on a timer too | wallet, Aqua, openings | sized from rows that are written last | what is on Aqua can be paid out |
| Deposit sessions, receipts (`history.ts`, `receiptEmail.ts`) | `deposit_sessions` rows | open, finish, email | deposit queue, mailer | finish racing the last note; claim, then send | one email per finished session, and none forgotten |
| Ops monitor, integrity (`opsMonitor.ts`, `integrity.ts`) | last events, seen findings | evaluate, raise | chain events, agent | marked seen before raised; a hash written after its event | each mint without a note raised |
| Chain events (`chainEvents.ts`, `logIndexer.ts`, `routes/webhooks.ts`) | `chain_events`, cursors | deliver, scan | monitor, dashboard | repeated delivery, failure between store and fan-out | each event heard once |
| Machine signatures, kiosks (`machine.ts`, `kiosks.ts`, `device-agent/machine.js`) | a nonce on the device, the rows that used it | sign, verify, register | deposit route | looked up before it is used up; a Pi that counts from an old file | a nonce is verified on one row |
| Kiosk bridge (`device-agent/`, `lib/kiosk.ts`, `KioskApp.tsx`) | session, event list, cookie | login, logout, note, stream | backend, acceptor, screen | three copies of who is logged in; a swallowed note is reported once | a note goes to who stood there; the slot closes; each note reaches the backend or the screen |
| Sessions and sign-in (`sessions.ts`, `depositCode.ts`, `accountsFlow.ts`, `privy.ts`) | Redis records with expiry | create, slide, redeem a code | Privy, kiosk | expiry | a code works once |
| Self-custody positions (`selfCustody.ts`, `selfPositions.ts`, `SelfCustodyPanel.tsx`) | `self_positions` rows | prepare, sign, record, close, exit | customer's wallet | the wallet acts without us, the page may be left | rows follow the chain |
| Cash-out on Dash (`dashOut.ts`) | none | quote, sell | Dash service, wallet | what came back is the difference of two reads | only what a close returned is sold |
| Chains (`chain.ts`, `multibaas.ts`) | nonce queue | send, wait, read | all of the above | nonces, lost answers | sends are in order |
| Pure arithmetic, chat, dashboards, frontend | none of their own | | | | |

`PROJECT.json` lists every component with its files and status, and under
`hazards` every place where one of these things bites, with the property that
would notice.

## Modules

The theorems about Bridge, SelfCustody, Visits and Withdrawals are in modules of those
names with `_proofs`, the others in `CashIn_proofs` (DepositQueue, CashReceipt, Kiosk),
`Customer_proofs` (AquaClose, CustomerMoney) and `Ops_proofs` (Proposals, Monitor);
`Sums.tla` has the laws of sums over finite sets. Where components share a module of
theorems, all but the first put a word of their own before `Init`, `Next`, `Spec` and
`TypeOK` (`ReceiptSpec`, `MoneyInit`). `MCX.tla` adds TLC's symmetry sets, and in
Bridge, CashReceipt, Kiosk and Monitor the run's constraint `Focus`.

**DepositQueue** is a note from `POST /deposit` to its tkCASH. `status`, `txHash`
and `tkHash` are the columns of `deposits`; `http` is where the request stands,
`late` a `queue.add` that lost the race against its 3 s timer and may still land;
`job` and `made` are BullMQ's state and attempt count; `wpc`, `wid`, `whash` the
worker's step, job and `hash`; `handler` a pending final "failed" event; `mintPc`
the detached `recordCashIn`; `tx` and `mints` the chain. One action per statement
of `processDeposit` after which something else can happen, each of which may
throw (`WorkerThrows`), a send whose answer is lost (`SendLosesReply`), `Crash`,
and BullMQ's recovery of a stalled job. Revert and success of a transaction are the
chain's choice (`Mine`).

**Bridge** is `advanceTransfer`, run by the request that created a transfer and
by the worker, each on its own copy of the row (`run`). `row` is what Postgres
has, `chain` the transactions of each leg, `overlap` and `lost` history: that two
runs were on a transfer at once, and that a broadcast hash never reached
Postgres. The four legs share their send, store, wait and save actions, as they
share their form in the code. `Tick` is the worker's query, oldest first (`older`)
and no more than its limit (`BatchLimit`, 20 in the code), `WorkerTakes` the loop over
what it selected (`batch`). `Relay` is somebody else who hands Circle's message to the
destination chain.

**AquaClose** is `closePosition` with `dockRemaining` and `payOut`, any number of
requests on any number of positions. `closeTx` is `close_tx` (`NotSent` for null,
`Claimed` for "pending", else the transaction). **PayoutPromise** is what that
promises a customer: open, fixed, paid, closed, and at most one payment, of the fixed value,
for good. `KeepsPromise` states that AquaClose implements it under the mapping
`Phase`, `Received`.

**Proposals** is `createProposal`, `approveProposal` and `rejectProposal` over
rows whose amounts count against one cap, with the agent's own limit (`OwnLimit`)
inside it. `call` is what each run in flight knows. `overlap` remembers in which
stages two calls were at once; the properties about limits are stated for the
runs in which the relevant stages did not overlap.

**CashReceipt** is the tkCASH contract, an action per external function, and
`redeemAll` with the withdrawal leg that records what it burned, as a process of
reads and transactions beside everything else. A note is minted against the kiosk it was
taken by, which may be one the backend does not know (`Unknown`), and `redeemAll`
visits only those it knows. `unrecorded` is what was burned of
a holder less what withdrawals claim was; `sent` and `highest` are what a holder
sent today under a limit, and the highest limit of today. The mint that a deposit
causes is in DepositQueue.

**Vault** is `TakarabakoVault.sol`, an action per external function, with integers
that round down as Solidity's do. `paidIn`, `paidOut`, `earned`, `funded` and
`promised` are history: what each customer paid in, was paid and gained, what the
reserve was given, and what all shares gained. `Ray` and `Year` are the contract's
own constants, small for TLC.

**Withdrawals** extends it with the code in front: `withdrawAllOnChain` of
`POST /withdraw` and `sendBalance`, a `call` each, as reads, a transaction, a wait
and a record. `mempool` holds the treasury's transactions in the order of their
nonces; what a call read may be old when its transaction is mined, which reverts
when the vault refuses it or for want of gas. `mixed` is history: the box changed
between a call's two reads of it.

**CustomerMoney** is everything one customer can do with the money of their box
at once: a send, an opening on Aqua, a bridge transfer, a tkCASH send signed in
the wallet and a withdrawal over several chains, up to the daily limit that all of
them ask (`Check` is `assertWithinLimit`, `Used` its sum over the rows of today).
An `Errand` is one request; `at` is where it stands (`Unasked` before, `Over` after);
`paid` is what it moved and `written` what its rows say, `took` and `rowed` the same
of today. `hold` is the customer's money that the treasury has for an opening, `live`
what it has on Aqua without a row. History: `raced` that a check did not see all that
moves, `cut` the requests that ended between two steps, `failures` those of an
opening and its undo. A bridge transfer's box may pay, pay again after a hash was
lost, and have its row marked failed all the same (`BoxPays`, `Advance`). How one chain
call settles is the business of the other modules; here it works, fails, or is done and
reported as failed.

**AquaCover**, which it extends, is what keeps those openings payable:
`assertBacked`, `allowanceAction`, and `ensureApprovals` under its lock, run by
openings and by the five minute timer (`Keeper`). `need` and `complete` are what the
run that has the lock has read; `undercut` and `unchecked` say that the last sizing,
or some check, was made beside an opening without a row, or without all balances.

**Visits** is one customer's visits to the cash slot: the note the Pi signs with
its counter (`nonce` in memory, `file` on its disk), what `checkMachine` finds,
the visit `POST /deposit` finds open, the row behind its unique index, and the
receipt that a finish and every settled note try (`try`, `of`): read whether notes
are left, claim, send. A note settles in one step here (`Settle`); the many of it are
DepositQueue's, where `SettledForGood` shows that it then stays settled. One answered
503 may be carried out all the same (`Requeue`).

**Kiosk** is the terminal: the screen, the web app's server with its cookie and
its two logout legs, the bridge's session (`box`, `fresh`), the listener that polls it
(`polled`) and the note from the slot to its row. A page may be loaded at any time: it
forgets what the old one waited for and posts a logout of its own (`PageLoad`, under
`NoVisit`). A login may fail at the page or be cut off while the server goes on
(`LoginFails`, `LoginUnseen`). Calls that time out may land later (`landing`). History:
`owner`, who may have stood there when a note was stacked; `swapped`, that the bridge's
session changed hands under it; `orphan`, the visits the page let go of without a logout
of their own.

**SelfCustody** is a position of the customer's own wallet: prepared and written
as pending, signed strategy by strategy (or in one transaction of the manager
contract) by a page that may be left at any step, mined whenever, checked and
recorded as open or closed; and the exit that sells what came back (`before`,
`expected`). A manager's close docks all or nothing.

**Monitor** is a tkCASH mint on its way to an alarm: the indexer's pass with its
cursor and MultiBaas's webhook requests as two kinds of `Reader`, `chain_events`
(`stored`), the listeners, the check against signed notes, and its alerts. `hashed`
is the hash `recordCashIn` writes after the event is out. `faded` and `old` are the
notes and mints that have left the check's window of 7 days, `Stray` the mints on a
chain that is not their kiosk's home, which its check does not ask for. All mints are of one
amount, so that the sum in a finding's wording is their number (`Wording`). `unsaid`
is history: the alerts that were due and not written.

The components meet at few points: a note goes from the Kiosk through Visits to
DepositQueue, which ends in the vault and in a tkCASH mint that the Monitor hears
of; a withdrawal (CustomerMoney) closes positions (AquaClose, any number of
requests), empties the boxes (Withdrawals, on the Vault it extends) and burns tkCASH
(CashReceipt). Each module models what it sees of the
others as those calls' outcomes: success, failure, or success with a lost answer.

## Runs

| Run | Question | Instance |
|---|---|---|
| `DepositQueue_safety` | Is a confirmed note paid, sent once after its hash is stored, minted once, and does every note settle? | 1 note, 3 attempts, 2 crashes |
| `DepositQueue_v_double` | Can a retry pay twice? (it can) | 1 note, 2 attempts, 1 crash |
| `Bridge_safety` | Is every leg backed by the one before, sent once unless runs overlap or a hash is lost, and does what left arrive? | 1 transfer of either kind with 2 runs, or 2 transfers with 1 run each and a tick that takes 1; one revert, fault or crash |
| `AquaClose_safety` | Is a closed position paid once, with the fixed value, after docking? | 1 position, 2 strategies, 3 requests, values 0, 5, 6 |
| `Proposals_safety` | Is a proposal carried out once, within the limits, and its row true? | 2 proposals, 2 calls, amounts 1 and 2, cap 3, own limit 2, any number of midnights and crashes |
| `CashReceipt_safety` | Are tokens backed box by box, burns complete and honestly recorded, and does the daily limit hold? | 2 boxes the backend knows and 1 it does not, 2 holders, 2 withdrawals, 2 units, limits 0 to 2, 2 midnights |
| `Withdrawals_safety` | Is the vault fair and solvent however it rounds, and was what is credited and recorded paid? | 2 customers, 2 requests, deposits and top-ups of 3 units, 6 in all, rates 0 and 1, 2 ticks |
| `CustomerMoney_safety` | Does the daily limit hold over every kind of request, is an opening undone, are a withdrawal's legs on record, and can Aqua pull what it may have to pay out? | 2 chains with a dollar each, 2 requests of any kind, limit 3, 2 failures, restarts, notes or midnights |
| `Visits_safety` | Is a device nonce verified once, and is a visit's receipt sent once and not forgotten? | 2 visits, 2 notes, 1 restart or error |
| `Kiosk_safety` | Is a note credited to who stood there, does the slot close, and is a note that was taken known? | 2 visits, 1 note, page loads, 1 lost call or restart |
| `SelfCustody_safety` | Do rows tell what is on chain, and does an exit sell only what its close returned? | 2 positions of 2 strategies, 2 reverts, lost answers or transfers |
| `Monitor_safety` | Is an event heard once, none skipped, and every mint without a note counted by an alert? | 1 kiosk with a note and 2 mints without one, a third mint pushed on the other chain, 2 pushes, 1 restart, failed write or short answer |

### Why the bounds are enough

Notes and positions do not share state except through the worker, so
one of each shows everything that can happen to one; that a second note cannot
disturb the first is proved (`CashIn_proofs`). Bridge transfers share the worker's
limit, and two of them with a limit of 1 are one that starves and the one that starves it. Three attempts are the first,
one in the middle and the last. The code starts at most two runs of one bridge
transfer, and two transactions per leg are one that went wrong and its repetition.
Three requests on a position are a claimant, a resumer and one that comes in
between; three payouts let a stale request undo what a retry has done. Two calls
are enough for every check that is read before another's write, which is why
Proposals, Withdrawals and CustomerMoney have two. In the vault the scales are 2, so
that every deposit and withdrawal after a tick rounds, and the rate takes the values
2 to 4, by one accrual or by two. In CustomerMoney everything comes in dollars, one
in each box, one in tkCASH and one on Aqua; with a limit of 3 one request never
exceeds it and two together may, and the reserve of 2 covers one opening beside the position
there is, and not two. Two faults let an opening fail and its undo fail too. Two visits are
one and the next that replaces it, two notes the one that races the finish and the one
that races that. At the kiosk one lost call or one restart is what `RightCustomer` is
about; it does not hold for two. In Monitor a batch of two blocks splits three mints, and
a kiosk with three has alerts that count one, two or all of them, before and after a
note's hash is written or a mint has left the window. Crashes are
bounded to one or two where history counts them, not in Proposals nor in the proofs.

Four runs have a constraint `Focus`, in their MC modules; the theorems need none.
The two halves of CashReceipt, several boxes and limits, do not interact: a
withdrawal burns, a limit holds a transfer; left out are the states that are deep in both,
and those with a second box frozen. In Bridge two transfers are created in one order, and
while there are two, no two runs are on one of them and no hash is lost; where two runs
are on one, one leg at most goes twice. At the Kiosk logins begin in one order, and a page
load's logout is alone in flight, before a call has failed. In Monitor a note's hash is
written before it leaves the window, at most two checks run at once, and when a pushed
mint is there, at most one is on the indexed chain.

Deadlock checking is off: every one of these systems may come to rest, with all
its notes settled or its bounds used up. Every bound is a constant: `MaxAttempts`
is the code's own; `MaxCrashes`, `MaxFaults`, `MaxTx`, `MaxPayouts`, `MaxDays`,
`MaxSupply`, `MaxTime`, `MaxIn`, `MaxBase` and `MaxPushes` are only there for
TLC. Proposals needs none.

### Fairness

DepositQueue: weak fairness of the worker, of each request, each failed-event
handler and each mint, because the event loop serves whatever is ready and a wait
for a receipt ends with viem's own timeout (the step that throws is part of the
fair action). None for new notes, for the chain, and for crashes. Bridge: weak
fairness of every run, of the mining of every transaction, of the worker's tick, which
its interval timer fires for ever, and of its loop over what the tick selected. There is
none for a single transfer, as the code has none: the query takes the oldest 20. A message
that Circle does not sign for ever is not considered (`NotAttested` is one of the
bounded faults). Without the chain nothing could arrive; failures are bounded in that run. Kiosk: weak fairness of the listener's
poll, which runs on a timer, of the clock that passes `expiresAt`, and of the
report of a note the bridge has taken up, a request with an end. None for people,
logout calls and restarts. The liveness formulas name their exceptions: a note may
be left behind by a crash (`NoteSettles`), a transfer by an overlapping run, a
lost hash or a revert, or by as many older ones of that kind as the query takes
(`Arrives`), a note at the kiosk by a restart or a key file that cannot be written
(`NoteIsKnown`).

## Where the code and its words differ

The first has a counterexample of TLC's and an entry under `findings`; the others
show in the exceptions their properties make.

* *No retry can pay twice* (`depositQueue.ts`, header). The hash is stored after
  the send returns; a crash or a lost answer in between, and the retry sends
  again (`DepositQueue_v_double`). `NeverResent` says what does hold: never after a hash is stored.
* *sending -> confirmed | failed* (`accounts.ts`). A job that confirmed its note and then throws on its last
  attempt has the note marked failed: "failed" does not mean unpaid, and
  `ConfirmedIsPaid` is a property of confirmed notes only.
* *Steps whose transaction hash is stored are skipped, so nothing burns twice*
  (`bridge.ts`). True of one run without a crash (`OncePerLeg`); the worker and the
  starting request may both burn, and so may a restart between the send and the
  store of its hash, which is why it excepts `overlap` and `lost`.
* *Burn the customer's whole tkCASH balance* (`cashReceipt.ts`). Only against the kiosks
  in the backend's list, while `depositQueue.ts` mints against whichever machine took the
  note; what a kiosk outside the list holds is not burned. `RedeemedInFull` says that nothing
  else is left.
* *A kiosk's cash lives on one chain* (`integrity.ts`). The check reads the events of the kiosk's
  home chain, while a note is minted on the chain its customer uses; a mint on another
  chain (`Stray`) is in no check of its kiosk.
* *Hard limits, enforced in code* (`policy.ts`). Two decisions at once both pass
  the check, and so do two calls of the agent in one turn, which run in parallel;
  `WithinLimits` says what holds otherwise.
* *Redeems every real vault share via a real on-chain call* (`withdraw.ts`). The
  receipt is awaited, its status ignored: a withdrawal that reverted is recorded and
  handed out. `RecordedWasPaid` says what holds of one that
  succeeded. The comment in `chain.ts` that nothing moves the rate between the reads
  is harmless: the rate grows with time, in the customer's favour, and another
  request for the same box is what `mixed` excepts.
* *A manager position cannot be pending-and-live: its open is one transaction*
  (`selfPositions.ts`). It is, when the page is left between the signing and the
  recording; and one whose page is left half-way through docking stays open and
  cannot be closed from the app, as the close rebuilds docks for all of it.
* *Make sure it is allowed to, and no more than that, before any of them is
  shipped* (`aqua.ts`, of Aqua and an opening's strategies). The lock ends with the approve: until the opening has its
  row the timer, or another opening, sizes the allowance without it.

### What the exceptions of the properties say

* Bridge. A transfer with a hash that reverted, or that was lost, is never finished, and the
  query goes on selecting it: 20 such transfers keep the worker from every later one
  (`Blocked`).
* CustomerMoney. Two requests that check before either has its row are both let through. An
  opening counts against the limit by its `yield_events` row, written after a price is
  read again, so a feed that fails loses it; a tkCASH send that nobody confirms never
  counts, nor does a bridge transfer marked failed although its box had paid; one whose
  withdraw leg went twice took more than it asked for; a withdrawal asks for what is in
  boxes and positions, and takes what an opening's undo has put back meanwhile. A send
  whose second leg fails leaves the money in the treasury with no row and no undo
  (`OpeningIsUndone` is about openings, which have one). An opening whose row is
  refused stays on Aqua and is in no later sum (`CanPayOut` speaks of the
  dollars there, with or without a row; `undercut` and `unchecked` are its exceptions).
* Visits. A visit closed by the next one, and a note answered 503 and not carried
  out after all, never lead to a receipt; a restart or a refusal between claim and
  send loses it; a late note can join a visit whose receipt is out. Two notes signed
  at once carry one nonce, and the second is recorded as not verified.
* Kiosk. A login whose answer fails at the page, or that a page load cuts off, leaves the
  bridge a session that nobody logs out, or is about to give it one; so do a logout that
  never reached the web app's server and one that came with another's cookie, which a page
  load's logout may have cleared. The next note may then be that visit's (`orphan`). A
  note in the slot while the session changes hands is credited to the new one (`swapped`). Two
  failures, one at each place, leave a session behind as well. A note that comes when
  nobody is logged in is answered 409 and forgotten; after a logout the bridge did not get,
  notes go out with a dead token. When `signNote` cannot write its key file, or the bridge
  is restarted, the note is in no feed and on no row: only the listener's log has it.
* SelfCustody. A shipping transaction mined after its position was closed stays
  live; closing keeps no hashes. One page at a time is on a position here: `recordClose` answers
  success for a row that is closed already, so a second page's exit may sell as well.
* AquaClose. A node that lags may still show docked strategies as shipped, which delays a
  close. One that does not yet show a strategy shipped moments before the close is not
  modelled.
* Monitor. A mint whose event is checked before `recordCashIn` has written its hash raises a
  false alarm, which may have the kiosk paused. A wording that was said is not said again:
  an alert that has gone out of date, because a note in it got its hash or a mint of it
  left the window, silences a new finding of the same sum; so does one that was marked as
  seen and not written (`unsaid`), until a restart. The cursor goes to the head at once, so
  what a lagging node leaves out is never read; and without a cursor the indexer starts 5000
  blocks before the head, what is older it never reads. An event stored and not emitted
  when the process dies is never told.

## Proofs

All by TLAPS, for any number of notes, transfers, positions, requests, strategies,
proposals, calls, holders, boxes and customers, any amounts and rates, and any bounds.
Every safety invariant and every action property that a passing run checks is a
theorem here. The assumptions are the named ASSUMEs on constants: bounds and amounts
are naturals, null values and the names of steps are no members of the sets beside
them, sets that are summed over or worked off (rows of a day, holders, customers,
chains, strategies) are finite, and what is on Aqua at first is backed
(`Start <= Reserve`).

### Sums

The totals of the models (`usedToday`, the day's proposals, the supply, all shares)
are folds over sets of any size. `Sums` proves what is needed of them from the
definition of `SumFunctionOnSet`: the recursive function behind the fold exists
(`SolutionExists`) and two of its solutions agree (`SolutionsAgree`), by induction
over the subsets of a finite set (`SubsetInduction`, stated for a set of good
subsets, as a theorem with an operator parameter could not be used). From these:
any element may be taken out first (`SumRemove`), one value that changes changes the sum
by as much (`SumChange`, `SumStep`), sums are monotone (`SumMonotone`, `SumSubset`,
`SumPart`) and may be bounded summand by summand in other units (`SumScale`).

### The way of a note: CashIn_proofs

DepositQueue: `TypeCorrect`, `ConfirmedIsPaidHolds`, `MintedOnceAndBackedHolds`,
`CompletedIsSettledHolds`, `NeverResentHolds`, `SettledForGoodHolds`. None of
these is inductive: that a confirmed note is paid depends on what the worker
knows at each step after its read of the row (`WorkerKnows`), which other actions
must not disturb: no one else stores hashes (`OneJobInHand`: the active job is the
worker's), a status never returns to queued, and the chain never changes a mined
transaction. `MintedOnceAndBacked` needs that a mint only starts when the worker
is about to return for good (`MintIsLast`), `CompletedIsSettled` that a job and a
pending event exist only for notes with a row (`RowFirst`). `SettledForGood` is the
promise to Visits: what the queue settled is out of the worker's reach (`OutOfReach`),
by its stored hash or as no attempt is left (`FailedLast`), and no step changes that. `IndInv` in
`DepositQueue.tla` is the conjunction; one lemma per group of actions shows that
it is preserved.

CashReceipt: `ReceiptTypes`, `Backed`, `NeverOverclaimed`, `LimitOfTheDay`,
`AllRedeemed`. `ReceiptInv` has four parts that hardly touch each other. The ledger:
supply is the sum of the balances and of the boxes' reserves, so each function is a
`SumStep` on both sides. The claims: what is `unrecorded` of a holder covers the claims
of all withdrawals of that holder that have burned and not written yet, as a sum over
the runs, since two may belong to one holder. The day: what was sent under a limit is
within the highest limit since midnight. The progress of a run (`OnTrack`): while nobody
disturbs it, what it has still to burn is what the holder has left, and the kiosks from the
one it looks at on, the unknown ones included, hold the cash for it (`Rest`); behind the last
known one that is what the unknown ones hold.

Kiosk: `KioskTypes`, `RightCustomerHolds`. Whose note it is goes wrong when the
bridge's session is that of another visit than the screen's. `KioskInv` says how that
may come about: the screen shows or awaits one visit at a time, and every other login under
way is one the page let go of (`OneAtATime`); of all but those, a session that outlives its
visit's logout has cost a failure at the backend and one at the bridge or on the way to
it (`LeftOpenIsPaid`); a row comes after its note (`RowIsLate`), and what a note
carries is rightful or excused from where it is on (`NotesRightful`).

Visits, in `Visits_proofs`: `TypeCorrect`, `VerifiedOnceHolds`, `ReceiptOnceHolds`,
`ReceiptNotForgottenHolds`. Once on record as verified is the unique index's doing,
and rows come late (`RowIsLate`). That a receipt goes out once is one claim
(`ClaimIsOne`). That it is not forgotten is a property of nobody's absence, and
`SomebodyComes` carries it: for a finished visit that is not excused there is a note
still to settle, or somebody looking whose look will find that there is none; whoever looks and
finds a note left leaves the visit to that note, and whoever settles the last one looks.

### The customer's money: Customer_proofs

AquaClose: `TypeCorrect`, `PaidAtMostOnceHolds`, `ClosedIsPaidHolds`,
`DockedBeforePaidHolds`, `PayoutFixedHolds`. The argument is that `close_tx`
partitions the cases: null means that no live payout is out, a hash that only
this one is (`RecordKnows`); "pending" is held by at most one request, and while
it has not sent nothing is live (`ClaimHeld`); what a request believes about a
hash is current or about a reverted transaction (`HashKnown`). `ValueKnown`
carries the recorded value into every payout and `DockingOver` that whoever is
past docking found nothing shipped. `KeepsPromiseHolds` says that AquaClose implements PayoutPromise.
From the same invariant: claiming an open position is `Fix`, mining its only live
payout successfully is `Pay` (it is closing then: a closed one has its success
already), the first finish is `Close`, and every other step changes nothing of
what the customer sees. That transactions are named by numbers up to the bound
(`Numbered`) is a small invariant beside it.

CustomerMoney with AquaCover: `MoneyTypes`, `LimitKeptHolds`, `OpeningIsUndoneHolds`,
`LegsOnRecordHolds`, `CanPayOutHolds`. `MoneyInv` has three parts.

* Every request is in order (`InOrder`): it is at a step of its kind, nothing of it has moved
  before its first (`Untouched`), a leg is paid before its row and not two of them
  (`LegsNoted`), the treasury holds for an opening what it has not shipped or given
  back (`HeldFor`). One lemma per step, about the request that makes it; the others are left alone.
* The room under the limit (`RoomKept`): a request needs what it asked for while it is under
  way and what it took when it is over, and all of that together is within the limit
  unless a check raced. `LimitKept` itself is not inductive, since a request that has
  passed its check has taken nothing yet. No step needs more room but a check
  that passes; if it is not a race nothing else is under way and what left today is on today's
  rows, which is what the check adds up. A box that pays more than was asked, and a row that
  is marked failed after it paid, are what a later check cannot see (`raced`). A row lost yesterday does no harm today, so `Unrecorded`
  compares what left today with today's rows, and the property is stronger for it.
* The cover (`BackedAlone`, `CountedAlone`, `LockKnows`): as long as no check was blind at most
  one opening is between its check and its row, and the position and it together are
  covered by the wallet, and by the allowance once a run has counted it; a run that holds
  the lock, and was not blind, has read a need that covers all but what comes after it.
  `AllowanceCovers` says that `allowanceAction` never leaves less than the need.

Withdrawals and Vault, in `Withdrawals_proofs`: `TypeCorrect`, `FairShareHolds`,
`ValueNeverFallsHolds`, `EveryoneCanLeaveHolds`,
`CreditIsBackedHolds`, `CreditIsCoveredHolds`, `RecordedWasPaidHolds`, and
`ImplementsVault`: the requests change the vault by its functions only, so that
`FairShare` and `ValueNeverFalls` are proved of the vault's steps (`FairStep`,
`ValueStep`) and hold here. Both rest on integer division: what it cuts off is less
than the divisor (`DivCuts`), so both roundings are in the vault's favour
(`RoundsDown`), and it is monotone (`DivMonotone`). `EveryoneCanLeave` needs the
same of all customers at once (`Solvent`): the shares at the current rate are worth no more
than the vault's money, for as long as the reserve was given what they gained. `Sound` is the invariant of one
call: while it is between its reads, what it has read is true of its box or it is
marked (`Informed`); then its value is that of its shares at a rate of the past
(`Prepared`, `PastRate`); what it burns is proportionate (`BurnIsProportionate`: not one
share too few, not one unit too much); and the rate has only grown when it is mined
(`DebitPaidSound`). `Ordered` carries `CreditIsBacked`.

SelfCustody, in `SelfCustody_proofs`: `TypeCorrect`, `OpenIsWholeHolds`, `ClosedIsEmptyHolds`,
`ClosedIsFinalHolds`, `OnlyReturnedIsSoldHolds`, for any number of positions and
strategies. What a page has signed and what was mined differ; `CheckedWhole` and
`CheckedEmpty` say what a check that has passed stays true of, `SignedOnce` that no
strategy is opened twice, `RowFirst` that nothing is signed without a row. An exit
rests on `ExitIsWhole` and `ReadIsTrue`: what it has read of wallet and position is
true, up to what this close gives back, as long as nobody else moves base token.

Bridge, in `Bridge_proofs`: `TypeCorrect`, `BackedHolds`, `OncePerLegHolds`,
`FailedIsUntouchedHolds`, for any number of transfers, crashes and faults, with two
runs on each. `Sound` says of one transfer that its row and its runs know only what
the chains have done: a hash is of a transaction of that leg, a state that its legs
have succeeded (`SaysTrue`); the chains only go forward (`Grows`), so what one run
does disturbs no other, and `Backed` follows. `Orderly` holds while a transfer is
`Undisturbed`: one run is on it, its copy is true in what it may still look at
(`CopyTrue`, with `Ahead`), and what was broadcast is in the row or in the hand of the
run that stores it (`Known`). So a leg about to be sent was never sent, and a run
that gives up by its copy gives up something untouched: the legs after the burn
need the burn (`Sound`).

### Those who watch: Ops_proofs

Proposals: `TypeCorrect`, `CarriedOutOnceHolds`, `RowTellsTruthHolds`, `WithinLimitsHolds`,
with any number of rows, calls, midnights and crashes. What makes it work is the
conditional update of the claim: a row that is still pending was claimed by
nobody (`ClaimHeld`) and nothing was done with it (`UndecidedIsUntouched`), so one
call holds it from there, knowing whether it has acted. The refusal by policy has
no such condition; `OneDecides` says when it is harmless: while no two calls were
deciding at once, what the one found pending is so still, or was rejected by a
click, and nobody has claimed it. For the limits (`LimitsInv`) the day's total is compared with
the sum over the rows: what was carried out is on the rows, or in the hand of the one
call that is deciding, and the total that call has read is still that of the rows.

Monitor: `MonitorTypes`, `HeardOnceHolds`, `NothingSkippedHolds`, `RoguesAreReportedHolds`.
The insert into `chain_events` that counts once is what each listener's hearing goes
back to (`EachToldOnce`); a pass has in hand or in the table all that was mined in
its blocks and up to its cursor (`BatchKept`), and what a check has read is what is there
(`ReadsKnown`): of two checks of a kiosk the one that read later knows what the other knew,
but for what has left the window. A check and an alert stand in the same relation
(`ClaimsKnown`), and a wording that was seen is an alert's or was to be one's
(`SeenWasSaid`). So a check that finds its sum already said was preceded by an alert for
all it knows, or by one of that sum that is out of date. `AllCounted` is the invariant
that this keeps: the mints whose checks have ended are answered by one alert, together
with those that a check in progress has read, if it has not read all of them (`Answered`).

### What is only model-checked

Liveness (`NoteSettles`, `Arrives`, `SlotCloses`, `NoteIsKnown`): the prover knows no
fairness. And `NoDoublePay`, which does not hold. The other way round, `SettledForGood`
is proved and in no run, and so are `CompletedIsSettled`, `ClosedIsPaid`, `PayoutFixed`
and `CreditIsBacked`, where `ConfirmedIsPaid`, `KeepsPromise` and `CreditIsCovered` say more.

## Not modelled

Amounts and prices beyond what a property compares; FX and position arithmetic
(floating point); message texts, mail and PDF layout; signatures and
authentication; user interface; language models. Several backend processes at
once: the code keeps its nonce queue and its flags in memory and is run as one.
BullMQ's limit on how often a job may stall. ERC20 allowances and contract
ownership, which the contracts inherit. In Proposals the kinds of action are one,
since each has its own cap and they do not interact. Swaps against the strategies,
which move what AquaCover sums. The other rules of `integrity.ts` and
`opsMonitor.ts`, each a comparison of sums; the amounts of mints, and notes marked failed,
which the check leaves out, so that a mint of theirs would be one more false alarm. The serial
framing and the pulse counting of the acceptors. The receipt a customer asks for,
with its rate limit.

More than half of the implementation's lines are pages, three-dimensional scenes,
style and wording in `frontend/` and `device-agent/public/`, and most of the rest
outside the modules above is reads for a dashboard, prompts, or arithmetic on
prices. They keep no state whose order could go wrong, so the share of lines
that a model stands for stays low, however much of the money's way is covered.

## Plan

Done: the way of a note (Kiosk, Visits, DepositQueue), of a customer's money
(CustomerMoney with AquaCover, Withdrawals on Vault, AquaClose with PayoutPromise,
Bridge, CashReceipt, SelfCustody), and those who watch (Proposals, Monitor).

What is left, in this order:

1. More theorems like `SettledForGood` about the components' meeting points: what a
   module assumes of another as a call's outcome, proved of that other.
2. The other reconcile rules as operators over a kiosk's history.
3. The pulse counter of the GPIO acceptor.
