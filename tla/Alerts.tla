------------------------------- MODULE Alerts -------------------------------
(***************************************************************************)
(* The compliance tasks (apps/compliance/tasks.py) and the alerts that     *)
(* they leave for review.                                                  *)
(*                                                                         *)
(* A login commits its row of the audit chain and then queues the search   *)
(* for other users of its address.  A withdrawal queues its analysis when  *)
(* its row is saved, inside the transaction, so the task may look for a    *)
(* row that nobody else sees yet.  Tasks run statement by statement; one   *)
(* whose worker is lost is not delivered again.                            *)
(***************************************************************************)
EXTENDS Integers, Sequences

CONSTANTS
    Users, Ips, TaskWorkers,
    Players,                     \* the users who move money in this instance
    Amounts,                     \* of deposits and of stakes
    MaxRows,                     \* bound on logins and withdrawals together
    MaxMoney                     \* bound on the deposits, and on the bets

VARIABLES
    logins,        \* the USER_LOGIN rows of the audit chain
    withdrawals,   \* Transactions of kind WITHDRAWAL
    deposited,     \* DEPOSIT credits of each user
    wagered,       \* BET_PLACEMENT debits of USER_WALLET
    oldDeposits,   \* the part of them that is older than 24 hours
    oldStakes,
    alerts,        \* SuspiciousActivity
    pc, job, found \* a task worker's place, its task and what it has read

money == <<deposited, wagered, oldDeposits, oldStakes>>
facts == <<logins, withdrawals, money>>
local == <<pc, job, found>>
vars == <<facts, alerts, local>>

\* The two ways of closing an alert, REVISADO and FALSO_POSITIVO, are one here.
Status == {"PENDIENTE", "REVISADO"}

\* A task is known by what it examines: the index of a login or a withdrawal.
CheckSharedIp(i) == [task |-> "check_shared_ip_task", of |-> i]
CheckWithdrawal(i) ==
    [task |-> "check_suspicious_activity_on_transaction_task", of |-> i]
NoTask == [task |-> "none"]

SharedIp(u, ip, others) ==
    [reason |-> "SHARED_IP", user |-> u, about |-> ip, others |-> others,
     status |-> "PENDIENTE", trace |-> "none"]

DepWd(u, i) ==
    [reason |-> "DEP_WD", user |-> u, about |-> i, others |-> {},
     status |-> "PENDIENTE", trace |-> "none"]

ASSUME PlayersAssumption == Players \subseteq Users

ASSUME AmountAssumption == Amounts \subseteq Nat

-----------------------------------------------------------------------------
(***************************************************************************)
(* Logins and money.                                                       *)
(***************************************************************************)
LogIn(u, ip) ==
    /\ Len(logins) + Len(withdrawals) < MaxRows
    /\ logins' = Append(logins, [user |-> u, ip |-> ip, age |-> "day",
                                 check |-> "unsent"])
    /\ UNCHANGED <<withdrawals, money, alerts, local>>

\* A login whose process ends before this step is never checked.
QueueCheck(i) ==
    /\ logins[i].check = "unsent"
    /\ logins' = [logins EXCEPT ![i].check = "queued"]
    /\ UNCHANGED <<withdrawals, money, alerts, local>>

\* 24 hours pass since a login.
Age(i) ==
    /\ logins[i].age = "day"
    /\ logins' = [logins EXCEPT ![i].age = "older"]
    /\ UNCHANGED <<withdrawals, money, alerts, local>>

Deposit(u, amount) ==
    /\ deposited[u] + amount <= MaxMoney
    /\ deposited' = [deposited EXCEPT ![u] = @ + amount]
    /\ UNCHANGED <<logins, withdrawals, wagered, oldDeposits, oldStakes, alerts,
                   local>>

Wager(u, amount) ==
    /\ wagered[u] + amount <= MaxMoney
    /\ wagered' = [wagered EXCEPT ![u] = @ + amount]
    /\ UNCHANGED <<logins, withdrawals, deposited, oldDeposits, oldStakes, alerts,
                   local>>

\* 24 hours pass since the oldest of the deposits, or of the bets, that were
\* still within the day.
AgeDeposit(u, amount) ==
    /\ oldDeposits[u] + amount <= deposited[u]
    /\ oldDeposits' = [oldDeposits EXCEPT ![u] = @ + amount]
    /\ UNCHANGED <<logins, withdrawals, deposited, wagered, oldStakes, alerts,
                   local>>

AgeStake(u, amount) ==
    /\ oldStakes[u] + amount <= wagered[u]
    /\ oldStakes' = [oldStakes EXCEPT ![u] = @ + amount]
    /\ UNCHANGED <<logins, withdrawals, deposited, wagered, oldDeposits, alerts,
                   local>>

\* History: `had' are the deposits that preceded the withdrawal, `expired' what
\* was older than a day when its analysis read them.
Withdraw(u) ==
    /\ Len(logins) + Len(withdrawals) < MaxRows
    /\ withdrawals' =
           Append(withdrawals, [user |-> u, state |-> "open", check |-> "queued",
                                had |-> deposited[u], expired |-> 0])
    /\ UNCHANGED <<logins, money, alerts, local>>

End(i, outcome) ==
    /\ withdrawals[i].state = "open"
    /\ withdrawals' = [withdrawals EXCEPT ![i].state = outcome]
    /\ UNCHANGED <<logins, money, alerts, local>>

-----------------------------------------------------------------------------
(***************************************************************************)
(* The tasks.                                                              *)
(***************************************************************************)
Goto(w, place) == pc' = [pc EXCEPT ![w] = place]

Begin(w, task, what, place) ==
    /\ job' = [job EXCEPT ![w] = task]
    /\ found' = [found EXCEPT ![w] = what]
    /\ Goto(w, place)

Return(w) ==
    /\ job' = [job EXCEPT ![w] = NoTask]
    /\ found' = [found EXCEPT ![w] = {}]
    /\ Goto(w, "idle")

\* Fault: rows later than the login's own are looked at.
OthersLater(i) ==
    {logins[j].user : j \in {k \in i + 1 .. Len(logins) :
        /\ logins[k].age = "day"
        /\ logins[k].ip = logins[i].ip
        /\ logins[k].user # logins[i].user}}

\* Fault: the user himself is not excluded.
OthersWithSelf(i) ==
    {logins[j].user : j \in {k \in DOMAIN logins :
        logins[k].age = "day" /\ logins[k].ip = logins[i].ip}}

\* Fault: one other row is not yet a coincidence.
OthersBeyondOne(i) ==
    LET rows == {k \in DOMAIN logins :
                    /\ logins[k].age = "day" /\ logins[k].ip = logins[i].ip
                    /\ logins[k].user # logins[i].user}
    IN  {logins[k].user : k \in {j \in rows : rows # {j}}}

\* coincident_events: other users of the address.
Others(i) ==
    {logins[j].user : j \in {k \in DOMAIN logins :
        /\ logins[k].age = "day"
        /\ logins[k].ip = logins[i].ip
        /\ logins[k].user # logins[i].user}}

TakeLogin(w, i) ==
    /\ pc[w] = "idle" /\ logins[i].check = "queued"
    /\ IF Others(i) = {}
       THEN /\ logins' = [logins EXCEPT ![i].check = "done"]
            /\ UNCHANGED local
       ELSE /\ logins' = [logins EXCEPT ![i].check = "running"]
            /\ Begin(w, CheckSharedIp(i), Others(i), "look")
    /\ UNCHANGED <<withdrawals, money, alerts>>

PendingAlert(u, ip) ==
    \E k \in DOMAIN alerts :
        /\ alerts[k].reason = "SHARED_IP" /\ alerts[k].user = u
        /\ alerts[k].about = ip /\ alerts[k].status = "PENDIENTE"

\* A pending alert of the user for the address is enough, whoever it names.
Look(w) ==
    LET login == logins[job[w].of]
    IN  /\ pc[w] = "look"
        /\ IF PendingAlert(login.user, login.ip)
           THEN /\ logins' = [logins EXCEPT ![job[w].of].check = "done"]
                /\ Return(w)
           ELSE Goto(w, "create") /\ UNCHANGED <<logins, job, found>>
        /\ UNCHANGED <<withdrawals, money, alerts>>

CreateSharedIp(w) ==
    LET login == logins[job[w].of]
    IN  /\ pc[w] = "create"
        /\ alerts' = Append(alerts, SharedIp(login.user, login.ip, found[w]))
        /\ logins' = [logins EXCEPT ![job[w].of].check = "done"]
        /\ found' = [found EXCEPT ![w] = Len(alerts')]
        /\ Goto(w, "trace")
        /\ UNCHANGED <<withdrawals, money, job>>

\* time_limit is fixed once: the deposits since then are read, and the bets
\* from before it will not count.
OpenWindow(w, i) ==
    LET u == withdrawals[i].user
    IN  /\ withdrawals' = [withdrawals EXCEPT ![i].check = "running",
                                              ![i].expired = oldDeposits[u]]
        /\ Begin(w, CheckWithdrawal(i),
                 [deposits |-> deposited[u] - oldDeposits[u],
                  stakesBefore |-> oldStakes[u]],
                 "weigh")

\* Fault: the task is handed the row instead of its id.
TakeWithdrawalUnseen(w, i) ==
    /\ pc[w] = "idle" /\ withdrawals[i].check = "queued"
    /\ OpenWindow(w, i)
    /\ UNCHANGED <<logins, money, alerts>>

\* What is not committed, or undone, is not there: the task returns.
TakeWithdrawal(w, i) ==
    /\ pc[w] = "idle" /\ withdrawals[i].check = "queued"
    /\ IF withdrawals[i].state = "committed"
       THEN OpenWindow(w, i)
       ELSE /\ withdrawals' = [withdrawals EXCEPT ![i].check = "early"]
            /\ UNCHANGED local
    /\ UNCHANGED <<logins, money, alerts>>

\* Fault: a user without bets has no ratio and is left out.
QuickWithRatio(totalDeposited, totalWagered) ==
    /\ totalDeposited > 0 /\ totalWagered > 0
    /\ totalWagered * 5 < totalDeposited * 4

\* total_wagered < total_deposited * 0.8, the deposits read before the bets.
Quick(totalDeposited, totalWagered) ==
    totalDeposited > 0 /\ totalWagered * 5 < totalDeposited * 4

Weigh(w) ==
    LET i == job[w].of
        user == withdrawals[i].user
    IN  /\ pc[w] = "weigh"
        /\ withdrawals' = [withdrawals EXCEPT ![i].check = "done"]
        /\ IF Quick(found[w].deposits, wagered[user] - found[w].stakesBefore)
           THEN /\ alerts' = Append(alerts, DepWd(user, i))
                /\ found' = [found EXCEPT ![w] = Len(alerts')]
                /\ Goto(w, "trace") /\ UNCHANGED job
           ELSE Return(w) /\ UNCHANGED alerts
        /\ UNCHANGED <<logins, money>>

\* The SUSPICIOUS_ACTIVITY_DETECTED row, in a transaction of its own.
Trace(w) ==
    /\ pc[w] = "trace"
    /\ alerts' = [alerts EXCEPT ![found[w]].trace = "written"]
    /\ Return(w)
    /\ UNCHANGED facts

\* A worker is lost, or a statement of its task fails, with the task.
Lose(w) ==
    /\ pc[w] # "idle"
    /\ IF pc[w] \in {"look", "create"}
       THEN logins' = [logins EXCEPT ![job[w].of].check = "lost"]
       ELSE UNCHANGED logins
    /\ IF pc[w] = "weigh"
       THEN withdrawals' = [withdrawals EXCEPT ![job[w].of].check = "lost"]
       ELSE UNCHANGED withdrawals
    /\ Return(w)
    /\ UNCHANGED <<money, alerts>>

\* The panel closes an alert, the admin form also opens it again.
Review(k, status) ==
    /\ alerts[k].status # status
    /\ alerts' = [alerts EXCEPT ![k].status = status]
    /\ UNCHANGED <<facts, local>>

-----------------------------------------------------------------------------
Init ==
    /\ logins = << >> /\ withdrawals = << >> /\ alerts = << >>
    /\ deposited = [u \in Users |-> 0]
    /\ wagered = [u \in Users |-> 0]
    /\ oldDeposits = [u \in Users |-> 0]
    /\ oldStakes = [u \in Users |-> 0]
    /\ pc = [w \in TaskWorkers |-> "idle"]
    /\ job = [w \in TaskWorkers |-> NoTask]
    /\ found = [w \in TaskWorkers |-> {}]

TaskStep(w) ==
    \/ \E i \in DOMAIN logins : TakeLogin(w, i)
    \/ \E i \in DOMAIN withdrawals : TakeWithdrawal(w, i)
    \/ Look(w) \/ CreateSharedIp(w) \/ Weigh(w) \/ Trace(w)

Next ==
    \/ \E u \in Users, ip \in Ips : LogIn(u, ip)
    \/ \E i \in DOMAIN logins : QueueCheck(i) \/ Age(i)
    \/ \E u \in Players, amount \in Amounts :
           \/ Deposit(u, amount) \/ AgeDeposit(u, amount)
           \/ Wager(u, amount) \/ AgeStake(u, amount)
    \/ \E u \in Players : Withdraw(u)
    \/ \E i \in DOMAIN withdrawals, outcome \in {"committed", "undone"} :
           End(i, outcome)
    \/ \E w \in TaskWorkers : TaskStep(w) \/ Lose(w)
    \/ \E k \in DOMAIN alerts, status \in Status : Review(k, status)

Spec == Init /\ [][Next]_vars

\* A task that was handed to the broker is delivered, and runs or is lost.
FairSpec == Spec /\ \A w \in TaskWorkers : WF_vars(TaskStep(w))

-----------------------------------------------------------------------------
(***************************************************************************)
(* Properties.                                                             *)
(***************************************************************************)
Checks == {"unsent", "queued", "running", "done", "lost"}

TypeOK ==
    /\ \A i \in DOMAIN logins :
           logins[i] \in [user: Users, ip: Ips, age: {"day", "older"}, check: Checks]
    /\ \A i \in DOMAIN withdrawals :
           withdrawals[i] \in
               [user: Users, state: {"open", "committed", "undone"},
                check: Checks \cup {"early"}, had: Nat, expired: Nat]
    /\ deposited \in [Users -> Nat] /\ wagered \in [Users -> Nat]
    /\ \A u \in Users :
           oldDeposits[u] \in 0 .. deposited[u] /\ oldStakes[u] \in 0 .. wagered[u]
    /\ \A k \in DOMAIN alerts :
           /\ alerts[k].user \in Users /\ alerts[k].status \in Status
           /\ alerts[k].reason = "SHARED_IP" =>
                  alerts[k].others \subseteq Users \ {alerts[k].user}
    /\ \A w \in TaskWorkers :
           /\ pc[w] \in {"look", "create"} =>
                  logins[job[w].of].check = "running"
           /\ pc[w] = "weigh" => withdrawals[job[w].of].check = "running"
           /\ pc[w] = "trace" => found[w] \in DOMAIN alerts

Coincide(i, j) ==
    /\ logins[i].ip = logins[j].ip /\ logins[i].user # logins[j].user
    /\ logins[i].age = "day" /\ logins[j].age = "day"

Noticed(i, j) ==
    \E k \in DOMAIN alerts :
        /\ alerts[k].reason = "SHARED_IP" /\ alerts[k].about = logins[i].ip
        /\ alerts[k].user \in {logins[i].user, logins[j].user}

\* Two users of one address whose searches are over have left an alert on one
\* of them: whichever logged in later was searched for with both rows there.
SharedAddressNoticed ==
    \A i, j \in DOMAIN logins :
        Coincide(i, j) /\ logins[i].check = "done" /\ logins[j].check = "done"
            => Noticed(i, j)

\* Two users who have just logged in from one address are noticed, unless a
\* task is lost or the day is over first.
Searched(i, j) ==
    /\ {i, j} \subseteq DOMAIN logins /\ Coincide(i, j)
    /\ logins[i].check = "queued" /\ logins[j].check = "queued"

Settled(i, j) ==
    /\ {i, j} \subseteq DOMAIN logins
    /\ \/ Noticed(i, j) \/ ~Coincide(i, j)
       \/ logins[i].check = "lost" \/ logins[j].check = "lost"

SharedAddressIsNoticedInTime ==
    \A i, j \in 1 .. MaxRows : Searched(i, j) ~> Settled(i, j)

\* A user who withdraws what he deposited and never bet is noticed, except
\* when the task came before the commit or was lost, or so late that every
\* deposit from before the withdrawal was a day old.
WithdrawalNoticedInTime ==
    \A i \in DOMAIN withdrawals :
        (/\ withdrawals[i].check = "done"
         /\ withdrawals[i].had > withdrawals[i].expired
         /\ wagered[withdrawals[i].user] = 0)
        => \E k \in DOMAIN alerts :
               alerts[k].reason = "DEP_WD" /\ alerts[k].about = i

\* An alert accuses nobody of a withdrawal that was undone.
AlertsAreOfCommitted ==
    \A k \in DOMAIN alerts :
        alerts[k].reason = "DEP_WD" =>
            withdrawals[alerts[k].about].state = "committed"
=============================================================================
