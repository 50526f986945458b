------------------------------ MODULE Betting -------------------------------
(***************************************************************************)
(* The bets of apps/betting, their stakes and their payouts.               *)
(*                                                                         *)
(* Placement, settlement and cash-out run as concurrent transactions.      *)
(* A placement locks its selections in the order of their ids, a           *)
(* settlement or a cash-out locks its bet; all of them then move money     *)
(* under the lock of the user's row (record_bet_* of apps/wallet), where   *)
(* Wallet.tla shows that checking and posting are one step.  What decides  *)
(* about the odds, the suspension and the status of the event lives in     *)
(* rows that a placement reads but does not lock.                          *)
(*                                                                         *)
(* Odds are integers, in units of 1/OddsScale.                             *)
(***************************************************************************)
EXTENDS Ledger, Arithmetic, FiniteSetsExt, Sequences

CONSTANTS
    Selections,      \* ids of selections, ordered
    MarketOf,        \* the market of each selection
    OddsValues, OddsScale,
    CashOutOdds,     \* current odds that the form of a cash-out may bring
    Keys, NoKey,     \* idempotency keys of bets
    Stakes, MinStake, MaxPayout,
    HouseFactor,     \* in units of 1/OddsScale
    Opening,         \* balances the users start with
    Offered,         \* placements that clients send in this instance
    Workers, NoWorker,
    MaxBets          \* bound on the bets

VARIABLES
    verified,        \* users with is_email_verified
    odds,            \* Selection.odds
    open,            \* selections whose event, market and own flags admit bets
    starting,        \* selections whose event starts within ten minutes
    bets,            \* the committed Bet rows with their BetSelections
    selectionLock, betLock, userLock,
    pc, job,         \* a worker's place and its request
    draft            \* the bet as the worker's transaction leaves it

market == <<verified, odds, open, starting>>
locks == <<selectionLock, betLock, userLock>>
session == <<locks, pc, job, draft>>
vars == <<balance, house, market, bets, session>>

Terminal == {"WON", "LOST", "VOID", "CASHED_OUT"}

LegResult == {"PENDING", "WON", "LOST", "VOID"}

Placement ==
    [op: {"place_simple_bet"}, user: Users,
     legs: {{s} : s \in Selections}, stake: Stakes, expected: OddsValues,
     key: Keys \cup {NoKey}, useBonus: BOOLEAN]
        \cup
    [op: {"place_acca_bet"}, user: Users,
     legs: {L \in SUBSET Selections : Cardinality(L) \in 2 .. 5},
     stake: Stakes, expected: OddsValues,
     key: Keys \cup {NoKey}, useBonus: BOOLEAN]

ASSUME WorkerAssumption == NoWorker \notin Workers

ASSUME SelectionAssumption == Selections \subseteq Nat /\ IsFiniteSet(Selections)

\* The panel admits no odds below 1.01, and the simulator clamps its own.  The
\* house never multiplies a cash-out by more than one (HOUSE_FACTOR is 0.9).
ASSUME OddsAssumption ==
    /\ OddsValues \subseteq Nat \ {0}
    /\ OddsScale \in Nat \ {0}
    /\ CashOutOdds \subseteq Nat
    /\ HouseFactor \in 0 .. OddsScale

\* No account of a user starts overdrawn.
ASSUME OpeningAssumption == Opening \in [Users -> [UserAccounts -> Nat]]

ASSUME OfferedAssumption == Offered \subseteq Placement

ASSUME StakeAssumption == Stakes \subseteq Nat

ASSUME BoundAssumption == MaxBets \in Nat

BetIds == 1 .. MaxBets

-----------------------------------------------------------------------------
(***************************************************************************)
(* Odds, payouts and limits.                                               *)
(***************************************************************************)
\* The product of the odds of some legs, each in units of 1/OddsScale; no
\* legs count 1.0000.
Combined(at, legs) ==
    RoundHalfEven(OddsScale * Product(at, legs),
                  Product([s \in legs |-> OddsScale], legs))

Winnings(stake, total) == RoundHalfEven(stake * total, OddsScale)

\* Fault: the current odds are divided by the total ones.
CashOutInverted(stake, total, current) ==
    RoundHalfEven(stake * current * HouseFactor, total * OddsScale)

CashOutValue(stake, total, current) ==
    RoundHalfEven(stake * total * HouseFactor, current * OddsScale)

\* _validate_stake, with the odds the client saw.
StakeAllowed(stake, expected) ==
    /\ stake >= MinStake
    /\ stake <= RoundHalfEven(MaxPayout * OddsScale, expected)

-----------------------------------------------------------------------------
(***************************************************************************)
(* Requests, and what is checked before their transaction opens.           *)
(***************************************************************************)
IsPlacement(r) == r.op \in {"place_simple_bet", "place_acca_bet"}

KeyTaken(key) == key # NoKey /\ \E i \in DOMAIN bets : bets[i].key = key

\* A known key ends the request here with the bet that has it.
Admitted(r) ==
    /\ r.op = "place_simple_bet" => r.user \in verified
    /\ ~KeyTaken(r.key)
    /\ StakeAllowed(r.stake, r.expected)

\* settle_event_markets looks for bets that are PLACED, and settles simple
\* bets one way and combined bets with a result for every leg, unless one of
\* them is lost already.
SettlementsOf(i) ==
    IF bets[i].type = "SINGLE"
    THEN [op: {"settle_bet"}, bet: {i}, status: {"WON", "LOST", "VOID"}]
    ELSE [op: {"settle_acca_bet"}, bet: {i},
          results: {f \in [bets[i].legs -> LegResult] :
                       \/ \E s \in bets[i].legs : f[s] = "LOST"
                       \/ \A s \in bets[i].legs : f[s] # "PENDING"}]

\* The current odds are those of the client's form, whatever the odds of the
\* selections are by then; below 1.0000 they are refused.
CashOutsOf(i) ==
    [op: {"cash_out_bet"}, bet: {i},
     current: {c \in CashOutOdds : c >= OddsScale}]

Requests ==
    {r \in Offered : Admitted(r)}
        \cup UNION {SettlementsOf(i) \cup CashOutsOf(i) :
                       i \in {j \in DOMAIN bets : bets[j].status = "PLACED"}}

-----------------------------------------------------------------------------
(***************************************************************************)
(* What a transaction makes of its bet.                                    *)
(***************************************************************************)
\* Fault: the status is never moved from PENDING to PLACED.
NewBetPending(r) ==
    [user |-> r.user, type |-> IF r.op = "place_simple_bet"
                               THEN "SINGLE" ELSE "ACCA",
     legs |-> r.legs, at |-> [s \in r.legs |-> odds[s]],
     results |-> [s \in r.legs |-> "PENDING"],
     key |-> r.key, stake |-> r.stake, expected |-> r.expected,
     total |-> Combined(odds, r.legs), status |-> "PENDING", payout |-> 0]

NewBet(r) ==
    [user |-> r.user, type |-> IF r.op = "place_simple_bet"
                               THEN "SINGLE" ELSE "ACCA",
     legs |-> r.legs, at |-> [s \in r.legs |-> odds[s]],
     results |-> [s \in r.legs |-> "PENDING"],
     key |-> r.key, stake |-> r.stake, expected |-> r.expected,
     total |-> Combined(odds, r.legs), status |-> "PLACED", payout |-> 0]

SettledSimple(bet, status) ==
    [bet EXCEPT !.status = status,
                !.payout = CASE status = "WON"  -> Winnings(bet.stake, bet.total)
                             [] status = "LOST" -> 0
                             [] status = "VOID" -> bet.stake]

SettledAcca(bet, results) ==
    LET counted == {s \in bet.legs : results[s] # "VOID"}
        total == Combined(bet.at, counted)
    IN  IF \E s \in bet.legs : results[s] = "LOST"
        THEN [bet EXCEPT !.status = "LOST", !.results = results]
        ELSE [bet EXCEPT !.status = "WON", !.results = results,
                         !.total = total,
                         !.payout = Winnings(bet.stake, total)]

CashedOutAt(bet, current) ==
    [bet EXCEPT !.status = "CASHED_OUT",
                !.payout = CashOutValue(bet.stake, bet.total, current)]

Outcome(r, bet) ==
    CASE r.op = "settle_bet"      -> SettledSimple(bet, r.status)
      [] r.op = "settle_acca_bet" -> SettledAcca(bet, r.results)
      [] r.op = "cash_out_bet"    -> CashedOutAt(bet, r.current)

\* Fault: the status is checked before the lock only.
DecidableAtAnyStatus(r, bet) ==
    r.op = "cash_out_bet" =>
        /\ \A s \in bet.legs : bet.results[s] # "LOST"
        /\ bet.legs \cap starting = {}

\* The checks of a settlement or cash-out on the locked bet.
Decidable(r, bet) ==
    /\ bet.status = "PLACED"
    /\ r.op = "cash_out_bet" =>
           /\ \A s \in bet.legs : bet.results[s] # "LOST"
           /\ bet.legs \cap starting = {}

\* normalize_money admits no zero amount.
Payable(bet) == bet.status \in {"WON", "CASHED_OUT"} => bet.payout > 0

\* The checks of a placement on the locked selections.
Available(r) ==
    /\ r.legs \subseteq open
    /\ \A s, t \in r.legs : MarketOf[s] = MarketOf[t] => s = t

\* Fault: min(amount, bonus_balance) is forgotten.
WholeFromBonus(r) == IF r.useBonus THEN r.stake ELSE 0

FromBonus(r) ==
    IF r.useBonus THEN Min({r.stake, balance[r.user]["BONUS"]}) ELSE 0

Funded(r) ==
    r.stake <= balance[r.user]["USER_WALLET"]
                   + (IF r.useBonus THEN balance[r.user]["BONUS"] ELSE 0)

EntriesOf(r, bet) ==
    CASE bet.status = "PLACED" ->
             PlacementEntries(bet.stake - FromBonus(r), FromBonus(r))
      [] bet.status = "WON"  -> WonEntries(bet.stake, bet.payout)
      [] bet.status = "CASHED_OUT" -> CashoutEntries(bet.stake, bet.payout)
      [] bet.status = "LOST" -> LostEntries(bet.stake)
      [] bet.status = "VOID" -> VoidEntries(bet.stake)

-----------------------------------------------------------------------------
(***************************************************************************)
(* The transactions.                                                       *)
(***************************************************************************)
NoBet == [status |-> "NONE"]

NoJob == [op |-> "none"]

Holds(w) == {s \in Selections : selectionLock[s] = w}

UserOf(w) == draft[w].user

Free(lock, w) == [x \in DOMAIN lock |-> IF lock[x] = w THEN NoWorker ELSE lock[x]]

\* Commit and rollback free every lock of the transaction.
Finish(w) ==
    /\ pc' = [pc EXCEPT ![w] = "idle"]
    /\ job' = [job EXCEPT ![w] = NoJob]
    /\ draft' = [draft EXCEPT ![w] = NoBet]
    /\ selectionLock' = Free(selectionLock, w)
    /\ betLock' = Free(betLock, w)
    /\ userLock' = Free(userLock, w)

Receive(w) ==
    /\ pc[w] = "idle"
    /\ \E r \in Requests :
           /\ IsPlacement(r) => Len(bets) < MaxBets
           /\ job' = [job EXCEPT ![w] = r]
           /\ pc' = [pc EXCEPT ![w] = IF IsPlacement(r) THEN "legs" ELSE "bet"]
    /\ UNCHANGED <<balance, house, market, bets, locks, draft>>

\* Fault: no order_by, the rows are locked as the query finds them.
LockLegUnordered(w) ==
    /\ pc[w] = "legs"
    /\ \E s \in job[w].legs \ Holds(w) :
           /\ selectionLock[s] = NoWorker
           /\ selectionLock' = [selectionLock EXCEPT ![s] = w]
    /\ UNCHANGED <<balance, house, market, bets, betLock, userLock,
                   pc, job, draft>>

\* SELECT ... FOR UPDATE ... ORDER BY id locks one row after the other.
LockLeg(w) ==
    /\ pc[w] = "legs"
    /\ job[w].legs \ Holds(w) # {}
    /\ LET s == Min(job[w].legs \ Holds(w))
       IN  /\ selectionLock[s] = NoWorker
           /\ selectionLock' = [selectionLock EXCEPT ![s] = w]
    /\ UNCHANGED <<balance, house, market, bets, betLock, userLock,
                   pc, job, draft>>

CheckLegs(w) ==
    /\ pc[w] = "legs"
    /\ job[w].legs \subseteq Holds(w)
    /\ Available(job[w])
    /\ draft' = [draft EXCEPT ![w] = NewBet(job[w])]
    /\ pc' = [pc EXCEPT ![w] = "insert"]
    /\ UNCHANGED <<balance, house, market, bets, locks, job>>

\* Fault: idempotency_key without unique=True.
InsertBetUnchecked(w) ==
    /\ pc[w] = "insert"
    /\ pc' = [pc EXCEPT ![w] = "pay"]
    /\ UNCHANGED <<balance, house, market, bets, locks, job, draft>>

\* The unique key makes the insertion wait for another one of the same key.
InsertBet(w) ==
    /\ pc[w] = "insert"
    /\ ~KeyTaken(job[w].key)
    /\ \A v \in Workers \ {w} :
           ~(/\ pc[v] \in {"pay", "post"}
             /\ IsPlacement(job[v])
             /\ job[v].key = job[w].key /\ job[w].key # NoKey)
    /\ pc' = [pc EXCEPT ![w] = "pay"]
    /\ UNCHANGED <<balance, house, market, bets, locks, job, draft>>

\* Fault: the bet is read without FOR UPDATE.
LockBetNotWaiting(w) ==
    /\ pc[w] = "bet"
    /\ pc' = [pc EXCEPT ![w] = "decide"]
    /\ UNCHANGED <<balance, house, market, bets, locks, job, draft>>

LockBet(w) ==
    /\ pc[w] = "bet"
    /\ betLock[job[w].bet] = NoWorker
    /\ betLock' = [betLock EXCEPT ![job[w].bet] = w]
    /\ pc' = [pc EXCEPT ![w] = "decide"]
    /\ UNCHANGED <<balance, house, market, bets, selectionLock, userLock,
                   job, draft>>

Decide(w) ==
    /\ pc[w] = "decide"
    /\ Decidable(job[w], bets[job[w].bet])
    /\ Payable(Outcome(job[w], bets[job[w].bet]))
    /\ draft' = [draft EXCEPT ![w] = Outcome(job[w], bets[job[w].bet])]
    /\ pc' = [pc EXCEPT ![w] = "pay"]
    /\ UNCHANGED <<balance, house, market, bets, locks, job>>

LockUser(w) ==
    /\ pc[w] = "pay"
    /\ userLock[UserOf(w)] = NoWorker
    /\ userLock' = [userLock EXCEPT ![UserOf(w)] = w]
    /\ pc' = [pc EXCEPT ![w] = "post"]
    /\ UNCHANGED <<balance, house, market, bets, selectionLock, betLock,
                   job, draft>>

CommitPlacement(w) ==
    /\ pc[w] = "post"
    /\ IsPlacement(job[w])
    /\ Funded(job[w])
    /\ Len(bets) < MaxBets
    /\ bets' = Append(bets, draft[w])
    /\ Post(UserOf(w), EntriesOf(job[w], draft[w]))
    /\ Finish(w)
    /\ UNCHANGED market

CommitOutcome(w) ==
    /\ pc[w] = "post"
    /\ ~IsPlacement(job[w])
    /\ bets' = [bets EXCEPT ![job[w].bet] = draft[w]]
    /\ Post(UserOf(w), EntriesOf(job[w], draft[w]))
    /\ Finish(w)
    /\ UNCHANGED market

\* A check fails, a constraint does, or the worker is lost: all is undone.
Fail(w) ==
    /\ pc[w] # "idle"
    /\ Finish(w)
    /\ UNCHANGED <<balance, house, market, bets>>

\* The checks that end a request when it comes to them.
Refuse(w) ==
    /\ \/ /\ pc[w] = "legs" /\ job[w].legs \subseteq Holds(w)
          /\ ~Available(job[w])
       \/ pc[w] = "insert" /\ KeyTaken(job[w].key)
       \/ /\ pc[w] = "decide"
          /\ ~(/\ Decidable(job[w], bets[job[w].bet])
               /\ Payable(Outcome(job[w], bets[job[w].bet])))
       \/ /\ pc[w] = "post" /\ IsPlacement(job[w])
          /\ ~(Funded(job[w]) /\ Len(bets) < MaxBets)
    /\ Finish(w)
    /\ UNCHANGED <<balance, house, market, bets>>

-----------------------------------------------------------------------------
(***************************************************************************)
(* What the rest of the system does to the rows that are read here.        *)
(***************************************************************************)
\* New odds, from the panel or the simulator: an UPDATE of the selection.
Reprice(s) ==
    /\ selectionLock[s] = NoWorker
    /\ \E o \in OddsValues : odds' = [odds EXCEPT ![s] = o]
    /\ UNCHANGED <<balance, house, verified, open, starting, bets, session>>

\* The event's status, its suspension and the market's flag: rows that no
\* placement locks.
OpenOrClose(s) ==
    /\ open' = (IF s \in open THEN open \ {s} ELSE open \cup {s})
    /\ UNCHANGED <<balance, house, verified, odds, starting, bets, session>>

\* Ten minutes before the start, and the event going live.
ClockPasses(s) ==
    /\ starting' = (IF s \in starting THEN starting \ {s}
                    ELSE starting \cup {s})
    /\ UNCHANGED <<balance, house, verified, odds, open, bets, session>>

VerifyEmail(u) ==
    /\ verified' = verified \cup {u}
    /\ UNCHANGED <<balance, house, odds, open, starting, bets, session>>

Init ==
    /\ balance = Opening
    /\ house = 0
    /\ verified = {}
    /\ odds \in [Selections -> OddsValues]
    /\ open = Selections
    /\ starting = {}
    /\ bets = << >>
    /\ selectionLock = [s \in Selections |-> NoWorker]
    /\ betLock = [i \in BetIds |-> NoWorker]
    /\ userLock = [u \in Users |-> NoWorker]
    /\ pc = [w \in Workers |-> "idle"]
    /\ job = [w \in Workers |-> NoJob]
    /\ draft = [w \in Workers |-> NoBet]

\* The steps that may have to wait for another transaction.
Acquire(w) == LockLeg(w) \/ InsertBet(w) \/ LockBet(w) \/ LockUser(w)

Work(w) ==
    \/ Acquire(w) \/ CheckLegs(w) \/ Decide(w)
    \/ CommitPlacement(w) \/ CommitOutcome(w) \/ Refuse(w)

Next ==
    \/ \E w \in Workers : Receive(w) \/ Work(w) \/ Fail(w)
    \/ \E s \in Selections : Reprice(s) \/ OpenOrClose(s) \/ ClockPasses(s)
    \/ \E u \in Users : VerifyEmail(u)

Spec == Init /\ [][Next]_vars

\* PostgreSQL serves the waiters of a row and of a key in turn.
Fairness ==
    \A w \in Workers : WF_vars(Work(w)) /\ SF_vars(Acquire(w))

FairSpec == Spec /\ Fairness

-----------------------------------------------------------------------------
(***************************************************************************)
(* Properties.                                                             *)
(***************************************************************************)
Bet ==
    [user: Users, type: {"SINGLE", "ACCA"}, legs: SUBSET Selections,
     at: UNION {[L -> OddsValues] : L \in SUBSET Selections},
     results: UNION {[L -> LegResult] : L \in SUBSET Selections},
     key: Keys \cup {NoKey}, stake: Stakes, expected: OddsValues,
     total: Nat, status: Terminal \cup {"PLACED"}, payout: Nat]

TypeOK ==
    /\ LedgerTypeOK
    /\ verified \subseteq Users
    /\ odds \in [Selections -> OddsValues]
    /\ open \subseteq Selections /\ starting \subseteq Selections
    /\ bets \in Seq(Bet) /\ Len(bets) <= MaxBets
    /\ selectionLock \in [Selections -> Workers \cup {NoWorker}]
    /\ betLock \in [BetIds -> Workers \cup {NoWorker}]
    /\ userLock \in [Users -> Workers \cup {NoWorker}]
    /\ \A w \in Workers :
           /\ pc[w] \in {"idle", "legs", "insert", "bet", "decide", "pay", "post"}
           /\ pc[w] \in {"insert", "pay", "post"} => draft[w] \in Bet

\* A bet that was won, lost, voided or cashed out never changes again, also
\* when a settlement and a cash-out ran at once (ADR-0004).
FinalForever ==
    [][\A i \in DOMAIN bets :
          bets[i].status \in Terminal => /\ i \in DOMAIN bets'
                                         /\ bets'[i] = bets[i]]_bets

BetsOf(u) == {i \in DOMAIN bets : bets[i].user = u}

\* PENDING_BETS holds the stakes of exactly the bets that are still placed:
\* no stake is lost, released twice or kept after the bet is closed.
StakesHeld ==
    \A u \in Users :
        balance[u]["PENDING_BETS"] =
            Opening[u]["PENDING_BETS"]
              + SumFunctionOnSet([i \in DOMAIN bets |-> bets[i].stake],
                                 {i \in BetsOf(u) : bets[i].status = "PLACED"})

\* A user has what is left after paying every stake once and receiving every
\* payout once.
MoneyFollowsBets ==
    \A u \in Users :
        balance[u]["USER_WALLET"] + balance[u]["BONUS"] =
            Opening[u]["USER_WALLET"] + Opening[u]["BONUS"]
              + SumFunctionOnSet([i \in DOMAIN bets |->
                                     bets[i].payout - bets[i].stake], BetsOf(u))

\* Placements at once never spend the same money twice.
NoOverdraft ==
    \A u \in Users, a \in UserAccounts : balance[u][a] >= 0

\* Whoever cashes out gets something, and never more than the win would have
\* paid: the rounding of the two amounts does not turn them round, whatever
\* current odds the request brings.
CashOutBelowWin ==
    \A i \in DOMAIN bets :
        bets[i].status = "CASHED_OUT" =>
            bets[i].payout \in 1 .. Winnings(bets[i].stake, bets[i].total)

\* A key names one bet, though it is looked up before the transaction opens.
OneBetPerKey ==
    \A i, j \in DOMAIN bets :
        bets[i].key # NoKey /\ bets[i].key = bets[j].key => i = j

\* The slips as a customer sees them.
Tickets ==
    [i \in DOMAIN bets |->
        [owner |-> bets[i].user, key |-> bets[i].key, stake |-> bets[i].stake,
         state |-> IF bets[i].status = "PLACED" THEN "open" ELSE "closed",
         paid |-> bets[i].payout]]

Promise == INSTANCE AtomicBetting WITH tickets <- Tickets

\* Placements, settlements and cash-outs, with their look-ups before the
\* transaction, their locks and their rollbacks, act on slips and money as if
\* each of them happened at one instant.
KeepsPromise == Promise!TSpec

\* Every request ends: the locks on selections, bets and users are taken in
\* an order in which nobody waits for ever.
EveryRequestEnds == \A w \in Workers : pc[w] # "idle" ~> pc[w] = "idle"

\* A transaction waits for the one that has the next row it needs, or that is
\* about to insert its key.
WaitsFor(w, v) ==
    \/ /\ pc[w] = "legs" /\ ~(job[w].legs \subseteq Holds(w))
       /\ selectionLock[Min(job[w].legs \ Holds(w))] = v
    \/ /\ pc[w] = "insert" /\ v # w /\ job[w].key # NoKey
       /\ pc[v] \in {"pay", "post"} /\ IsPlacement(job[v])
       /\ job[v].key = job[w].key
    \/ pc[w] = "bet" /\ betLock[job[w].bet] = v
    \/ pc[w] = "pay" /\ userLock[UserOf(w)] = v

\* Rows of selections, bets and users and new keys are taken in an order
\* in which no group of transactions waits for one another only: among any of
\* them there is one that waits for none of the others.
NoWaitingCircle ==
    \A D \in SUBSET Workers :
        D # {} => \E w \in D : \A v \in D : ~WaitsFor(w, v)

\* What tests.py and ADR-0009 say of a changed quotation: the bet is refused
\* unless the odds are the ones the client confirmed.
AcceptedAtQuotedOdds ==
    \A i \in DOMAIN bets :
        bets[i].status = "PLACED" => bets[i].total = bets[i].expected
=============================================================================
