# FairBet Lab: a verification project

FairBet Lab is a betting platform built on Django, PostgreSQL (READ COMMITTED,
row locks), Celery and Channels. Users register and are verified, deposit play
money, redeem bonuses, place simple and combined bets and cash them out;
operators run the events; every sensitive operation leaves a row in a
hash-chained audit log, and background tasks watch logins and withdrawals.

This directory holds TLA+ models of the parts of it that keep state, TLC
instances that check them, and TLAPS proofs of what holds for every size. Paths
below are relative to `src/`.

## 1. Inventory

| part | source | state it keeps | operations that change it |
|---|---|---|---|
| wallet ledger | `apps/wallet/services.py`, `models.py` | `Transaction`, `LedgerEntry`, `WalletIdempotencyRecord`; a balance is the sum of the entries of an account | `deposit_simulated`, `withdraw_simulated`, `internal_transfer`, `record_bet_placement`, `record_bet_settlement_won/lost/void`, `record_bet_cashout` |
| bonuses | `apps/wallet/bonus_services.py` | `BonusCampaign`, `UserBonus` | `seed_default_bonus_campaigns`, `redeem_bonus_code` |
| deposit limits | `apps/wallet/services.py` 633-743 | the deposits of the last day, week, month | `_check_deposit_limits` |
| betting | `apps/betting/services.py`, `views_web.py` | `Bet`, `BetSelection` | `place_simple_bet`, `place_acca_bet`, `settle_bet`, `settle_acca_bet`, `cash_out_bet`, `settle_event_markets` |
| audit chain | `apps/compliance/services.py` | `AuditLog` | `append_audit_event`; `verify_audit_chain` reads |
| compliance tasks | `apps/compliance/tasks.py` | `SuspiciousActivity` | `check_shared_ip_task`, `check_suspicious_activity_on_transaction_task`, the receivers that queue them, the review of an alert |
| events and markets | `apps/markets/*` | `Event.status`, `suspended_until`, scores, `Market.is_active`, `Selection.odds` | `suspend_event_markets`, `reopen_event_markets`, `auto_transition_events`, `simulate_match_progress`, the signals of a saved event |
| back office | `apps/backoffice/views.py` | none of its own | `event_control_view`, `event_settle_view`, `resolver_alerta_view`; reports read |
| accounts and KYC | `apps/accounts/*` | `CustomUser`, `PerfilKYC`, the counter of failed logins in the cache | registration, confirmation of the email, `verificar_kyc_async`, `VerificarKYCView`, `LimitesView`, `AutoexclusionView`, `check_and_increment_login_fails`, the admin form |
| payments API | `apps/payments/views.py` | none | the same wallet services through other endpoints |
| live channel | `apps/realtime/*` | none | forwards group messages to browsers |

How they interact. The web views call the services, each of which is one
`transaction.atomic` block; there is no `ATOMIC_REQUESTS`, so what a view or a
service does outside a block is committed statement by statement. Betting calls
the wallet's `record_bet_*` inside its own block. The wallet and betting append
to the audit chain inside theirs. Saving a withdrawal queues its analysis from
inside the transaction, a login queues the search of its address after its audit
row. Saving an event runs signals which broadcast and switch markets off. A
suspension queues a Celery task with a delay; beat runs the clock and the
simulator. The accounts use no block at all: a request loads a profile, decides,
and saves the row with all its columns.

Hard behaviours, and where they are listed one by one: `hazards` of
`PROJECT.json`. In short:

* balances are sums over committed rows, so every check of funds depends on the
  lock of the user's row; the order "lock, look up the key, check, post" is the
  whole of the concurrency control of the wallet;
* idempotency keys are looked up under the lock in the wallet but before the
  transaction in betting, where only a unique constraint stands behind them;
* a stale tail is read before the wait for its lock in the audit chain;
* a settlement and a cash-out race for one bet;
* combined bets and audit rows wait for several locks;
* operators, the simulator, the clock and delayed tasks save parts of an event
  they loaded earlier, and a signal reacts to each save;
* staff, the verification task, the user and the login save one profile from
  copies of different ages; a registration writes two rows and a mail, each on
  its own;
* tasks run before the commit they are about, after one another's results, or
  never.

What makes each part correct. Wallet: no account is overdrawn, every transaction
is balanced, a key pays once, limits hold, the services look atomic. Audit: the
verification always accepts the committed chain. Betting: stakes held are those
of the open bets, a closed bet is final, money follows the bets, a key names one
bet, the services look atomic. Events: an event that is over stays over unless an
operator says otherwise, suspended markets come back, a settlement settles, a
window lasts. Accounts: nobody is verified, and no money comes in, without the
steps that lead there; a DNI has one profile; a block is not lifted by what came
later; the excluded do not bet. Compliance: what the tasks exist to notice is
noticed, and nobody is accused of what was undone.

## 2. Modules and how they correspond to the code

```
Ledger <-- AtomicWallet  <-- Wallet   <-- WalletProofs, MCWallet
   ^------ AtomicBetting <.. Betting  <-- BettingProofs <-- BettingMoney
   ^------------------------ Betting  <-- MCBetting
           Arithmetic    <-- Betting, ArithmeticProofs
           ArithmeticProofs <-- WalletProofs, BettingProofs
           AuditChain  <-- AuditChainProofs, MCAuditChain
           Markets     <-- MarketsProofs,    MCMarkets
           Kyc         <-- KycProofs,        MCKyc
           Alerts      <-- AlertsProofs,     MCAlerts
```

`<--` is EXTENDS, `<..` is INSTANCE under a refinement mapping.

**Ledger** is the double entry: `balance` (accounts of a user, as sums of their
entries), `house` (the other side, whose balance no code reads), the entries of
every service as vectors over the accounts, and `Post`. Amounts are whole units
of `0.0001`.

**AtomicWallet** is the abstract specification: what a caller of the wallet
relies on. A request either applies in one step, on a state in which its key is
unused and its funds are there, or it changes nothing. `txs` is the table of
transactions, `idem` the idempotency records, `redeemed` the `UserBonus` rows,
`deposited` the sum inside the window of each deposit limit.

**Wallet** is the code. A worker takes a request (`Receive`, with the guards that
are read before the block: verified email, KYC, amount bounds), waits for the
user's row (`LockUser`), and under it replays a known key or reports a conflict
(`Replay`), refuses (`Refuse`), or accepts and computes its entries (`Accept`);
`Commit` makes the writes visible and frees the lock, `Rollback` is any error,
integrity error or lost worker at any point. Emails, profiles, campaigns and
windows change around it (`VerifyEmail`, `ChangeKyc`, `DeactivateCampaign`,
`PassTime`). The lookup of the key and the check of the funds are one step
because both happen under the row lock that every writer of them takes; that
this is so is proved, as `PlanStillValid`, and a fault that drops the lock breaks
it. Deposits made through `apps/payments` are the same requests.

**AuditChain** is `append_audit_event` inside any transaction. `log` holds the
committed rows, `draft[w]` those of a transaction that has not committed, which
nobody else sees. `ReadTail` reads the highest visible sequence, `LockTail` waits
for that very row, `Insert` waits for a clashing row of another transaction and
`Conflict` is the `IntegrityError` that undoes the block. `verify_audit_chain` is
`Verified`. A digest is an arbitrary function of the previous digest and the
payload; nothing in the proof needs it to be injective.

**AtomicBetting** is what betting promises about money: a ticket is bought at one
instant (`Buy`), with funds that are there, at most once per key, and closed at
one instant (`Close`), once, its stake leaving `PENDING_BETS` for whatever is
paid. Lost, void, won and cashed out differ only in what is paid.

**Betting** is the bets and the money they move. A placement locks its selections
in the order of their ids (`LockLeg`), checks event, market and suspension
(`CheckLegs`), inserts the bet (`InsertBet`, which waits for an uncommitted bet
with the same key), then waits for the user's row (`LockUser`), where funds are
checked, and commits. A settlement or cash-out locks its bet (`LockBet`), decides
(`Decide`), locks the user, commits (`CommitOutcome`). Locks are kept to the end
of the transaction. `Reprice`, `OpenOrClose`, `ClockPasses` change the rows that
placements read without locking. Odds are integers in units of `1/OddsScale` and
`quantize` is `RoundHalfEven` of **Arithmetic**, because the limit of a return and
the value of a cash-out depend on the rounding; the current odds of a cash-out are
whatever the form brings (`views_web.py:125`, here `CashOutOdds`); the loop that multiplies the odds
of the legs is its `Product`, a fold. `Tickets` maps the rows to the slips of
AtomicBetting.

**Markets** is the life of one event. A panel of the back office loads the event
(`Open`: `held` is the copy in memory) and then changes its status
(`ChangeStatus`, where the `pre_save` signal reads the stored status into
`previous`, `SaveStatus`, and `DeactivateMarkets` for the `post_save` signal:
three statements, no transaction), toggles a market, reports a critical event
(`Suspend`), or enters the result (`Settle`). `SimulatorReads`/`Goal` are the
simulator, `AutoStart`/`AutoFinish` the clock task, `TaskReads`/`TaskReopens` a
delayed reopening, which checks the status outside its transaction. `LoseTask` is
such a task that never ends: its message or its worker is lost, or one of its
saves, each of which broadcasts inside the transaction, raises and all of them
are undone. There is no retry and no `acks_late`; what stays is `LostTask`, a mark
that only the properties read. `Leave` is a request that fails or whose
broadcast raises between the save and the update.
`Settle` is one step because it is one transaction: the save of the event, the
signal inside it, and the loop over the markets that are still active then. A
market that another panel switches on between these two statements is seen by
the loop (`late`); a market the signal has just switched off is row-locked and
is not.

**Kyc** is the user and his profile. A request on an existing profile is two
steps: `Load` keeps the row in `copy[w]` and decides on it (`Accepted`), `Save`
writes the copy back with every column, changed as `Changed` says; staff, limits,
self-exclusion, the login and the admin form all save this way, so a column
changed in between is lost, as it is in the code. The verification task waits for
the registry (`TakeTask`), then loads the profile (`ReadPending`) and saves it. A
registration is `Validate`, `CreateUser`, `CreateProfile` (or `Collide`, a unique
constraint) and `Mail`; confirming the email is `OpenLink`, `Confirm`, `Queue`.
`Mistype`, `Count`, `SetFails`, `LoadToBlock`, `ClearFails` are the counter of
wrong passwords, whose increments can be lost. `Abandon` ends a request, or a task
with its worker, between any two statements. `Deposit` and `PlaceBet` are there for their guards. Of three
deposit limits one is kept; the registration's checks of the DNI digit and of
the age only refuse and are left out. The admin form can also rename or move a
profile; that is not modelled. `vettedBy` and `lapsed` are history: who verified a
user, and whose verification was lost with its request or task, or undone by a
later save.

**Alerts** is the compliance tasks. `LogIn` is the committed audit row of a login,
`QueueCheck` the task after it; `Withdraw` is the saved row of a withdrawal with
its task, inside a transaction that `End` commits or undoes later. `TakeLogin`,
`Look`, `CreateSharedIp`, `Trace` and `TakeWithdrawal`, `Weigh`, `Trace` are the
statements of the two tasks: other tasks, logins and reviews come between them.
`Lose` is a worker lost, or a statement that fails, with its task (there is no
`acks_late` and no retry); `Review` is a decision of the back office or the admin
form. `Age`, `AgeDeposit` and `AgeStake` let logins, deposits and bets grow older
than the 24 hours the tasks look at. The analysis of a withdrawal fixes its time
limit once (`OpenWindow`): it has read the deposits since then when `Weigh` sums
the bets since then, more of which may have come. `had` and `expired` are history:
the deposits before the withdrawal, and what was older than a day when its
analysis read them.

## 3. Runs

All passing runs are exhaustive on their instance. Deadlock is checked in every
run but those of Kyc and Alerts, where the bounded clock, logins and withdrawals
run out and the system is at rest.

| run | instance | shows |
|---|---|---|
| `wallet_money` | 1 user, 2 workers, 2 keys, amounts 1 and 2, 2 campaigns, 3 transactions | types; `PlanStillValid`, `NoOverdraft`, `DoubleEntry`, `OneRedemptionPerCode`, `DepositsWithinLimits` |
| `wallet_keys` | 1 user, 2 workers, 2 keys, 1 campaign, 2 transactions, fair | `OneTransactionPerKey`, refinement `AtomicSpec`, `AnswersOwnRequest`, `EveryRequestEnds` |
| `audit` | 3 transactions, 2 payloads, 3 rows, fair | `ChainValid`, `GrowsAtTheEnd`, `EveryAppendEnds` |
| `betting_money` | simple bets on 2 selections, 2 workers, a shared key and a bonus bet, 2 bets, cash-outs at odds of 1.0, 1.5 and 5.4 for bets made at 1.5 | `NoOverdraft`, `StakesHeld`, `CashOutBelowWin`, `OneBetPerKey`, `FinalForever`, refinement `KeepsPromise` |
| `betting_acca` | a combined bet on two legs paid with bonus and wallet, fair | `MoneyFollowsBets`, `NoWaitingCircle`, `EveryRequestEnds` |
| `markets` | 1 operator, simulator, clock, 1 market, 2 delayed tasks, times 0 to 3, fair | `OnlyOperatorsRevive`, `EveryReopeningHappens` |
| `kyc_vetting` | 2 users with one DNI, 2 web workers, 1 task worker, 2 mistakes block, times 1 and 2, fair | `VerifiedAreVetted`, `DepositorsAreVetted`, `OneProfilePerDni`, `PendingIsExplained`, `BlockOutlivesLaterRequests`, `RaisesWaitForCooldown`, `QueuedIsProcessed` |
| `alerts` | 2 users, 1 address, 2 logins or withdrawals together, deposits and bets of 4, at most 8 of each, 2 task workers, fair | `SharedAddressNoticed`, `WithdrawalNoticedInTime`, `AlertsAreOfCommitted`, `SharedAddressIsNoticedInTime` |
| `betting_quote` | violation | a bet accepted at other odds than quoted |
| `markets_settle` | violation | a settled event whose bets stay `PLACED` |
| `markets_window` | violation | a bet inside the window of a critical event |
| `kyc_excluded` | violation | a bet of a user who excluded himself |

Why the bounds are enough. Every race in this code is between two transactions on
one user, one bet, one key or one profile; two workers realise it. In the wallet
and in betting one user suffices because users share nothing but the house's
account, which no guard reads; registrations compete for a DNI and logins for an
address, so Kyc and Alerts have two. The audit chain is shared by all, so it has
three workers: one holding the tail, one waiting with a stale one, one behind
both. `MaxTx = 3` lets a first deposit, its bonus and a spending of both follow
each other, and two deposits that together pass the limit be tried; `MaxBets = 2`
lets the stake of one bet be won and staked again on another, and two requests
with one key meet. A stake of 2 at odds of 1.5 wins 3; at current odds of 1.0, 1.5 and
5.4 it is cashed out at 2.7, which is rounded to all of the win, at 1.8, which is
rounded to 2, and at 0.5, a tie that is rounded to nothing and refused. Two tasks
are the smallest overlap of suspensions; in `markets` the windows differ and
`MaxTime = 3` lets the longer begin inside the shorter and both expire, in
`markets_window` they are equal, so that a window that began later also ends later. In `kyc_vetting` the task worker and two
requests can hold copies of three ages of one profile; `MaxFails = 2` is the
smallest counter that one lost increment changes. In `alerts` a login's search can
be overtaken by the other login at each of its statements, and a second deposit or
bet can come between the statements of an analysis, or before and after the first
has grown old; the two tasks touch nothing in common but the table of alerts, so
`MaxRows = 2` mixes them by one row of each. The theorems below
carry the safety results to every size. Bounds that cut behaviour off: `MaxTx`,
`MaxRows`, `MaxBets`, `MaxTime`, `MaxMoney` only
stop new work from being begun.

### What the violations show

* `betting_quote`: `place_simple_bet` computes the expected odds and does not
  compare them, while ADR-0009 (`docs/adr/0009-politica-recotizacion.md:18`) and
  `apps/betting/tests.py:67` say that a changed quotation is refused.
* `markets_settle`: `settle_event_markets` saves the event as `FINISHED` at line 330,
  which runs the signal that deactivates its markets, and then iterates the
  active ones. None is left, so no bet is settled, and the operator reads that
  all of them were (`apps/backoffice/views.py:412`).
* `markets_window`: `reopen_event_markets` clears `suspended_until` whatever window
  is open. A goal suspends the event, an operator reports a critical event one
  unit later, and the task of the goal, due at its own time, sets
  `suspended_until` to null and switches the markets on while the second window has
  one unit left; a bet is admitted there.
* `kyc_excluded`: no placement reads the profile; `puede_apostar` has no caller
  among the services, while `AutoexclusionView` promises that an excluded user
  cannot bet (`apps/accounts/views.py:275`).

### Seen while modelling, without a run of their own

* `place_acca_bet` lacks the check of the email that `place_simple_bet` has at line 37.
* `_validate_stake` bounds the return at the odds of the client
  (`betting/services.py:22`), the bet is made at the odds of the moment.
* A second request shortens an exclusion, and staff end it with
  `VerificarKYCView`, though `serializers.py:288` says it cannot be reverted.
* `models.py:59` calls `BLOCKED` irreversible; a request that loaded the row before
  the block undoes it when it saves. `BlockOutlivesLaterRequests` says that nothing
  else does, apart from the admin form.
* A later suspension overwrites the window of an earlier one, also when it is
  shorter (`markets/services.py:51`): a goal's five seconds inside a critical
  event's thirty leave the event open to bets as soon as its markets are on.
* `markets/services.py:60` leaves a reopening that could not be queued to "el cron
  o manual", but nothing scheduled reopens markets: these, and those of a task
  that is lost, stay off until an operator turns each of them on.
* Two changes of limits from one loaded row both pass the cooldown, and the second
  replaces the first. `RaisesWaitForCooldown` says that only the save over an
  unseen row, or the admin form, raises a limit inside the cooldown.
* A registration that fails at the profile leaves a user without one.
* A confirmed email whose task could not be queued is never verified: the second
  visit of the link finds the email confirmed and queues nothing. The same holds
  when the task is lost, or when a change of limits writes back a row it loaded
  before the verification. `PendingIsExplained` says that these and the admin form
  are the only ways to stay `PENDING`, `QueuedIsProcessed` that everybody else is
  verified or decided on in the end, and for good.
* A withdrawal whose task overtakes its commit is never weighed
  (`docs/ensayo_arquitectura.md:23` describes the control without this exception).
  So is one whose task is lost, and one whose task runs so late that all the
  deposits from before it are a day old. `WithdrawalNoticedInTime` says that a
  withdrawal by somebody who never bet is missed in these three ways only.
* A pending alert of a user for an address keeps later coincidences with other
  users from being recorded (`compliance/tasks.py:51` speaks of identical ones).
* The `LIMIT_EXCEEDED` alert is written in the transaction that its own error
  undoes (`wallet/services.py:673-689`).

## 4. Fairness

* Wallet, Betting, AuditChain: weak fairness of a worker that has begun. It is a
  running process; its loss is a `Rollback`, `Fail` or `Abort`, which no fairness
  forces. Strong fairness of acquiring a lock: PostgreSQL queues the waiters of a
  row and of a unique key, so one that is eligible again and again is served.
  Nothing makes clients send requests.
* Markets: weak fairness of the clock and of the tasks that are due. A task that
  is queued is delivered and goes on, unless it is lost (`LoseTask`): nothing runs
  it again, and `EveryReopeningHappens` names that very task as its exception. The
  case of a broker that cannot be reached, which the code swallows, is the second
  disjunct of `Suspend`, where no task exists.
  Operators, goals and automatic transitions are not fair.
* Kyc, Alerts: weak fairness of a task worker, since Celery delivers what is in
  the queue. Requests are not fair: each may end at any statement (`Abandon`), a
  login may leave no task. A task that is taken may be lost, in Kyc at any
  statement (`Abandon`, which records it in `lapsed`) and in Alerts (`Lose`); the
  properties name these as exceptions.

## 5. Proofs

Theorems hold for every value of the constants under the assumptions named in the
modules: the null values are no keys and no workers; amounts are positive and
stakes, limits and opening balances not negative; there are finitely many users
and selections; odds are positive (the panel admits none below 1.01) and the house
factor of a cash-out is at most one (`HOUSE_FACTOR` is 0.9); kinds of workers are
disjoint. Every safety property the passing runs check is a theorem.

* **ArithmeticProofs.** What the proofs about money need of sums, products and
  rounding. A fold takes its elements in an order nobody knows, so the first fact
  is that any element may be taken out first (`SumRemove`); from it come the sum
  with a new element, with a changed one, and the bounds. `RoundsToNearest` says
  what rounding half to even is, `RoundingIsMonotone` that it never turns two
  fractions round, ties included. The library's induction theorems take an
  operator as a parameter, which no prover here can instantiate; each induction is
  written instead as a set of the good cases whose complement has no smallest
  member (`SmallestNat`, `SmallestSet`).
* **WalletProofs.** The inductive invariant is `TypeOK /\ LockInv /\ JobInv /\
  PlanStillValid`. `PlanStillValid` alone is not inductive: another worker's commit
  could use the key or the money. `LockInv`, a worker past `LockUser` owns its
  user's row, excludes that. It gives `PlansStayValid`; with it `Commit` refines
  the atomic step (`KeepsPromise`), and from the refinement, on the small abstract
  state, follow `Solvency`, `KeysUsedOnce`, `CodesPayOnce`, `LimitsHold`.
  `AnswersAreOwn` is the answer a client gets, replays included. `BooksBalance` is
  the double entry: a commit moves the sum of one user's accounts by the opposite
  of what it moves the house. `PlansBalance` says that the check of
  `_validate_transaction_is_balanced` never undoes a transaction: the entries add up
  for every request, a transfer of an account to itself included.
* **AuditChainProofs.** `ChainStaysValid` and `GrowthAtTheEnd`. The rows a
  transaction sees have no gap, hence the row behind a stale tail is already taken
  by somebody; hence only one transaction at a time has uncommitted rows, and they
  are behind every committed one. That the unique constraint on the sequence, not
  the lock of the tail, is what keeps the chain is visible in the proof.
* **BettingProofs.** `ClosedForEver`: between decision and commit the worker holds
  the row of its bet, so the bet it found `PLACED` still is, and no other step
  writes a bet. On top of it, what a worker carries to its commit is what it
  decided on: `DraftOK` (the new bet has the owner, key and stake of its request;
  the closed one is the locked row with its outcome) and `KeyOK` (nobody else has,
  or is about to have, the key of a bet in flight). They give `KeysNameOneBet` and,
  step by step, `PromiseKept`: a commit is a `Buy` or a `Close`, every other step
  leaves tickets and money alone. `NobodyWaitsInCircles`: whoever has a user's row
  waits for nobody (`Tidy`), so whoever has a bet or an inserted key waits for
  somebody who ends; what remains of a circle waits for selections, each held by
  somebody who waits for a greater one (`LegsInOrder`), and finitely many
  selections have a greatest. This is the safety half of `EveryRequestEnds`.
* **BettingMoney.** `WellTyped` needs more than the types: a total and a payout are
  rounded products, and natural numbers only because every row, draft and request
  keeps its legs together with their odds and results (`TInv`). The sums are in
  `MInv`: for every user, `PENDING_BETS` is the opening plus the stakes of his placed
  bets, wallet and bonus are the opening plus the net of all his bets, and no
  account is negative. A commit changes one row of one user, so one term of each
  of his sums and none of anybody else's; that the row it closes was placed with
  this stake is `RInv` of BettingProofs, and that a stake is covered, bonus and all, is
  checked under the user's row. `StakesAreHeld`, `MoneyIsFollowed` and
  `NobodyOverdraws` are its three parts. `CashOutsStayBelow`: the current odds of a
  cash-out are at least one and the house factor at most one, so the fraction it
  rounds is at most the one a win rounds. `PostingsBalance` is `PlansBalance` for
  bets.
* **MarketsProofs.** `TypeCorrect` (a request that is under way holds an event) and
  `EndedIsLeftToOperators`.
* **KycProofs.** `VerifiedWereVetted` needs that the copies in hand are vetted as
  well as the rows, because a stale save can make a copy the row; and that a task
  exists only for a confirmed email. `DepositorsWereVetted` follows with the
  deposits that are under way. `DniNamesOneProfile` needs that no save changes a
  DNI. `BlocksOutlive` is the case analysis of every save. `RaisesWait` needs
  `CooldownInv`: a change of limits about to be saved was accepted for the copy in
  hand, and only time has passed since. `PendingStaysExplained` has an invariant of
  its own, `PInv`, with what each worker's place says about its job: every step that
  makes a profile `PENDING`, or takes away what explains it, leaves another
  explanation or a mark in `lapsed`.
* **AlertsProofs.** `LoginsAreCompared`: of two logins of one address, the search
  of the later one (`LaterNotices`) begins with both rows there; the invariant follows that search
  through its statements (what it found names the other user, so it ends with an
  alert of its own or with one that was pending). `WithdrawalsAreWeighed` and
  `UndoneLeavesNoAlert` follow a withdrawal from the row the task saw. The first
  needs that a window once opened holds what it was opened on: its deposits are at
  least those from before the withdrawal less `expired`, and its stakes never pass
  what the user has staked.

Only model-checked: the liveness properties (`EveryRequestEnds`, `EveryAppendEnds`,
`EveryReopeningHappens`, `QueuedIsProcessed`, `SharedAddressIsNoticedInTime`), since
fairness and `ENABLED` are out of the prover's reach.

## 6. Not modelled

* Scores and the creation of an event; the floating-point odds of the simulator.
* The transaction of a settlement over many bets and users. Its loop runs over
  the active markets, and the save that precedes it has switched them off
  (`markets_settle`); only a market that an operator turns on again for an event
  that was over before comes to it.
* `verify_compliance_chain_periodic_task`: nothing schedules it; the check it
  calls is `Verified` in AuditChain.
* The alert that is undone with the deposit it refuses: it leaves no trace.
* The DNI digit, the age, JWT and sessions; `RegistroIdempotencia`, which no code
  uses; the admin form's change of a profile's user or DNI.
* WebSocket consumers, reports, listings, templates, generated admin screens:
  they decide nothing. Formatting, pagination and translation everywhere.

## 7. Where to go on

Ledger, AtomicWallet, Wallet, AuditChain, Betting, Markets, AtomicBetting, Kyc and
Alerts were written in this order, from the part that everything posts to
towards the parts that call it. Open: the settlement transaction, once its loop
finds the markets again; Kyc's three limits composed with Wallet's windows, which
are constant there; scores in Markets; the freedom from circles of waiting also
for the audit chain, whose transactions wait for a tail and for each other's
insertions; and the value of the odds of a combined bet, of which only the type is
proved.
