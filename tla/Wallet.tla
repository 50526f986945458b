------------------------------- MODULE Wallet -------------------------------
(***************************************************************************)
(* The services of apps/wallet as concurrent requests.                     *)
(*                                                                         *)
(* A worker runs one request at a time: the guards before the atomic       *)
(* block, the lock on the user's row, the reads and checks under the lock, *)
(* and the writes, which other transactions see only when the block        *)
(* commits (READ COMMITTED).  Each is a separate step, so anything may     *)
(* happen in between; an error or a lost worker at any of them rolls the   *)
(* block back.                                                             *)
(***************************************************************************)
EXTENDS AtomicWallet, Functions

CONSTANTS
    Workers,         \* web processes serving requests
    NoWorker, NoJob,
    CampaignType,    \* BonusCampaign.bonus_type of each code
    FirstDepositMin,
    MaxTx            \* bound on the committed transactions

VARIABLES
    emailVerified,   \* CustomUser.is_email_verified, as a set of users
    kyc,             \* PerfilKYC.status, as the guards tell it apart
    active,          \* the campaigns with is_active
    userLock,        \* the worker holding SELECT ... FOR UPDATE on the user
    pc, job,         \* the worker's place and its request
    plan,            \* the entries the worker computed from what it read
    reply            \* the transaction returned to the client, 0 for none

profile == <<emailVerified, kyc, active>>
session == <<userLock, pc, job, plan, reply>>
vars == <<tables, profile, session>>

\* BARRED stands for BLOCKED and for a self-exclusion in force, UNVERIFIED
\* for every other status that is not VERIFIED, a missing profile included.
KycStatus == {"UNVERIFIED", "VERIFIED", "BARRED"}

BonusTypes == {"WELCOME", "FIRST_DEPOSIT", "RESPONSIBLE_GAMING"}

ASSUME WorkerAssumption == NoWorker \notin Workers

ASSUME CampaignAssumption ==
    /\ CampaignType \in [Campaigns -> BonusTypes]
    /\ FirstDepositMin \in Nat
    /\ MaxTx \in Nat

NoEffect == [a \in Accounts |-> 0]

-----------------------------------------------------------------------------
(***************************************************************************)
(* Guards evaluated before the transaction opens, on unlocked rows.        *)
(***************************************************************************)
Admitted(r) ==
    /\ r.op = "deposit" => /\ r.user \in emailVerified
                           /\ kyc[r.user] = "VERIFIED"
                           /\ r.amount \in MinDeposit .. MaxDeposit
    /\ r.op = "withdraw" => /\ r.user \in emailVerified
                            /\ r.amount >= MinWithdraw

IsDepositOf(i, u) == txs[i].op = "deposit" /\ txs[i].user = u

FirstDepositQualifies(u) ==
    \E i \in 1 .. Len(txs) :
        /\ IsDepositOf(i, u)
        /\ \A j \in 1 .. (i - 1) : ~IsDepositOf(j, u)
        /\ txs[i].amount >= FirstDepositMin

HasLimit(u) == DOMAIN Limit[u] # {}

\* _validate_campaign_eligibility, and the campaign's own is_active.
Eligible(u, c) ==
    /\ c \in active
    /\ CampaignType[c] = "WELCOME" => kyc[u] # "BARRED"
    /\ CampaignType[c] = "FIRST_DEPOSIT" => FirstDepositQualifies(u)
    /\ CampaignType[c] = "RESPONSIBLE_GAMING" => /\ kyc[u] # "BARRED"
                                                 /\ HasLimit(u)

Granted(r) ==
    /\ Funded(r)
    /\ r.op = "redeem" => Eligible(r.user, r.campaign)

-----------------------------------------------------------------------------
(***************************************************************************)
(* A request's life.                                                       *)
(***************************************************************************)
\* Fault: the worker forgets its request and stays inside the block.
FinishWithinBlock(w, answer) ==
    /\ reply' = [reply EXCEPT ![w] = answer]
    /\ job' = [job EXCEPT ![w] = NoJob]
    /\ UNCHANGED <<pc, userLock, plan>>

\* Fault: the row lock outlives the block.
FinishHoldingLock(w, answer) ==
    /\ pc' = [pc EXCEPT ![w] = "idle"]
    /\ reply' = [reply EXCEPT ![w] = answer]
    /\ job' = [job EXCEPT ![w] = NoJob]
    /\ plan' = [plan EXCEPT ![w] = NoEffect]
    /\ UNCHANGED userLock

\* The end of the atomic block, by commit or rollback, frees its locks.
Finish(w, answer) ==
    /\ pc' = [pc EXCEPT ![w] = "idle"]
    /\ reply' = [reply EXCEPT ![w] = answer]
    /\ userLock' = [u \in Users |-> IF userLock[u] = w
                                    THEN NoWorker ELSE userLock[u]]
    /\ job' = [job EXCEPT ![w] = NoJob]
    /\ plan' = [plan EXCEPT ![w] = NoEffect]

\* redeem_bonus_code first runs seed_default_bonus_campaigns, which sets
\* is_active on every default campaign.
Receive(w) ==
    /\ pc[w] = "idle"
    /\ Len(txs) < MaxTx
    /\ \E r \in Offered :
           /\ Admitted(r)
           /\ job' = [job EXCEPT ![w] = r]
           /\ active' = IF r.op = "redeem" THEN Campaigns ELSE active
    /\ pc' = [pc EXCEPT ![w] = "begin"]
    /\ reply' = [reply EXCEPT ![w] = 0]
    /\ UNCHANGED <<tables, emailVerified, kyc, userLock, plan>>

\* Fault: the user's row is read without FOR UPDATE.
LockUserNotWaiting(w) ==
    /\ pc[w] = "begin"
    /\ pc' = [pc EXCEPT ![w] = "check"]
    /\ UNCHANGED <<tables, profile, userLock, job, plan, reply>>

\* _lock_users_in_order waits until no other transaction holds the row.
LockUser(w) ==
    /\ pc[w] = "begin"
    /\ userLock[job[w].user] = NoWorker
    /\ userLock' = [userLock EXCEPT ![job[w].user] = w]
    /\ pc' = [pc EXCEPT ![w] = "check"]
    /\ UNCHANGED <<tables, profile, job, plan, reply>>

\* Fault: a known key is replayed whatever the payload.
ReplayAnyPayload(w) ==
    /\ pc[w] = "check"
    /\ Recorded(job[w])
    /\ Finish(w, idem[job[w].user][job[w].key])
    /\ UNCHANGED <<tables, profile>>

\* The key is known: the stored transaction for the same payload, an
\* IdempotencyConflict for another one.
Replay(w) ==
    /\ pc[w] = "check"
    /\ Recorded(job[w])
    /\ LET tx == idem[job[w].user][job[w].key]
       IN  Finish(w, IF txs[tx] = job[w] THEN tx ELSE 0)
    /\ UNCHANGED <<tables, profile>>

Refuse(w) ==
    /\ pc[w] = "check"
    /\ ~Recorded(job[w])
    /\ ~Granted(job[w])
    /\ Finish(w, 0)
    /\ UNCHANGED <<tables, profile>>

Accept(w) ==
    /\ pc[w] = "check"
    /\ ~Recorded(job[w])
    /\ Granted(job[w])
    /\ plan' = [plan EXCEPT ![w] = EntriesOf(job[w])]
    /\ pc' = [pc EXCEPT ![w] = "post"]
    /\ UNCHANGED <<tables, profile, userLock, job, reply>>

\* The unique constraints on (user, key) and on (user, campaign) hold.
Unique(r) ==
    /\ ~Recorded(r)
    /\ r.op = "redeem" => <<r.user, r.campaign>> \notin redeemed

Commit(w) ==
    /\ pc[w] = "post"
    /\ Unique(job[w])
    /\ Record(job[w], plan[w])
    /\ Finish(w, Len(txs) + 1)
    /\ UNCHANGED profile

\* An IntegrityError of a unique constraint or of the audit append, or the
\* loss of the worker or of its connection.
Rollback(w) ==
    /\ pc[w] # "idle"
    /\ Finish(w, 0)
    /\ UNCHANGED <<tables, profile>>

-----------------------------------------------------------------------------
(***************************************************************************)
(* What other components do to the rows the guards read.                   *)
(***************************************************************************)
VerifyEmail(u) ==
    /\ emailVerified' = emailVerified \cup {u}
    /\ UNCHANGED <<tables, kyc, active, session>>

ChangeKyc(u) ==
    /\ \E s \in KycStatus : kyc' = [kyc EXCEPT ![u] = s]
    /\ UNCHANGED <<tables, emailVerified, active, session>>

\* An administrator's UPDATE waits for a redemption that locked the row.
DeactivateCampaign(c) ==
    /\ \A w \in Workers : ~(/\ pc[w] = "post"
                            /\ job[w].op = "redeem"
                            /\ job[w].campaign = c)
    /\ active' = active \ {c}
    /\ UNCHANGED <<tables, emailVerified, kyc, session>>

PassTime(u) == Elapse(u) /\ UNCHANGED <<profile, session>>

Init ==
    /\ AtomicInit
    /\ emailVerified = {}
    /\ kyc = [u \in Users |-> "UNVERIFIED"]
    /\ active = Campaigns
    /\ userLock = [u \in Users |-> NoWorker]
    /\ pc = [w \in Workers |-> "idle"]
    /\ job = [w \in Workers |-> NoJob]
    /\ plan = [w \in Workers |-> NoEffect]
    /\ reply = [w \in Workers |-> 0]

Serve(w) ==
    \/ LockUser(w) \/ Replay(w) \/ Refuse(w) \/ Accept(w) \/ Commit(w)

Next ==
    \/ \E w \in Workers : Receive(w) \/ Serve(w) \/ Rollback(w)
    \/ \E u \in Users : VerifyEmail(u) \/ ChangeKyc(u) \/ PassTime(u)
    \/ \E c \in Campaigns : DeactivateCampaign(c)

Spec == Init /\ [][Next]_vars

\* A worker that runs keeps running, and PostgreSQL queues the waiters of a
\* row lock, so a waiter that can be served again and again is served.
Fairness ==
    \A w \in Workers : /\ SF_vars(LockUser(w))
                       /\ WF_vars(Serve(w))

FairSpec == Spec /\ Fairness

-----------------------------------------------------------------------------
(***************************************************************************)
(* Properties.                                                             *)
(***************************************************************************)
\* The type invariant of the tables and of the workers' local state.
TypeOK ==
    /\ TablesTypeOK
    /\ emailVerified \subseteq Users
    /\ kyc \in [Users -> KycStatus]
    /\ active \subseteq Campaigns
    /\ userLock \in [Users -> Workers \cup {NoWorker}]
    /\ pc \in [Workers -> {"idle", "begin", "check", "post"}]
    /\ job \in [Workers -> Request \cup {NoJob}]
    /\ \A w \in Workers : pc[w] # "idle" => job[w] \in Request
    /\ plan \in [Workers -> Effect]
    /\ reply \in [Workers -> Nat]

\* What a service read and checked before writing is still true when it
\* commits: the key unused, the funds there, the entries the right ones.
PlanStillValid ==
    \A w \in Workers : pc[w] = "post" =>
        /\ ~Recorded(job[w])
        /\ Funded(job[w])
        /\ plan[w] = EntriesOf(job[w])

\* No account of a user is ever overdrawn, whatever withdrawals, transfers
\* and placements run at once: the balance a service checks is still there
\* when it posts its entries (_ensure_sufficient_balance under the lock).
NoOverdraft ==
    \A u \in Users, a \in UserAccounts : balance[u][a] >= 0

Owned(u) ==
    balance[u]["USER_WALLET"] + balance[u]["PENDING_BETS"] + balance[u]["BONUS"]

\* The sum of all accounts is zero: every transaction is balanced and all of
\* its legs are posted (ADR-0003).
DoubleEntry ==
    house + SumFunctionOnSet([u \in Users |-> Owned(u)], Users) = 0

\* A key of a user leads to one transaction at most, however often and
\* however concurrently the client repeats the request.
OneTransactionPerKey ==
    \A i, j \in 1 .. Len(txs) :
        (txs[i].key # NoKey /\ txs[i].key = txs[j].key
            /\ txs[i].user = txs[j].user) => i = j

\* A promotional code pays a user once.
OneRedemptionPerCode ==
    \A i, j \in 1 .. Len(txs) :
        (txs[i].op = "redeem" /\ txs[j].op = "redeem"
            /\ txs[i].user = txs[j].user
            /\ txs[i].campaign = txs[j].campaign) => i = j

\* The deposits inside a window never add up to more than the user's limit,
\* concurrent deposits included (_check_deposit_limits).
DepositsWithinLimits ==
    \A u \in Users : \A w \in DOMAIN Limit[u] : deposited[u][w] <= Limit[u][w]

\* A client is only ever answered with the transaction of its own request,
\* replays of a key included (409 for another payload).
AnswersOwnRequest ==
    [][\A w \in Workers :
         (reply'[w] # reply[w] /\ reply'[w] # 0) => txs'[reply'[w]] = job[w]]_vars

\* Every request that reaches the atomic block ends: no lock is kept for ever.
EveryRequestEnds ==
    \A w \in Workers : pc[w] # "idle" ~> pc[w] = "idle"
=============================================================================
