---------------------------- MODULE AlertsProofs ----------------------------
(***************************************************************************)
(* What Alerts promises, for any number of users, addresses, logins,       *)
(* withdrawals and workers.                                                *)
(***************************************************************************)
EXTENDS Alerts, TLAPS

Login == [user: Users, ip: Ips, age: {"day", "older"}, check: Checks]

Withdrawal ==
    [user: Users, state: {"open", "committed", "undone"},
     check: Checks \cup {"early"}, had: Nat, expired: Nat]

Alert ==
    [reason: {"SHARED_IP", "DEP_WD"}, user: Users, about: Ips \cup Nat,
     others: SUBSET Users, status: Status, trace: {"none", "written"}]

Money ==
    /\ deposited \in [Users -> Nat] /\ wagered \in [Users -> Nat]
    /\ oldDeposits \in [Users -> Nat] /\ oldStakes \in [Users -> Nat]
    /\ \A u \in Users :
           oldDeposits[u] <= deposited[u] /\ oldStakes[u] <= wagered[u]

Rows ==
    /\ logins \in Seq(Login)
    /\ withdrawals \in Seq(Withdrawal)
    /\ alerts \in Seq(Alert)
    /\ Money
    /\ DOMAIN pc = TaskWorkers /\ DOMAIN job = TaskWorkers
    /\ DOMAIN found = TaskWorkers

Searching(w) == pc[w] \in {"look", "create"}

\* What the analysis of a withdrawal has read when its window was opened: the
\* deposits from before the withdrawal that are not expired are in it, and no
\* more stakes are left out of it than were placed.
Window(read, row) ==
    /\ read.deposits \in Nat /\ read.stakesBefore \in Nat
    /\ row.had > row.expired => read.deposits > 0
    /\ read.stakesBefore <= wagered[row.user]

\* What a worker holds agrees with the rows.
Holding(w) ==
    /\ Searching(w) =>
           /\ job[w].of \in DOMAIN logins
           /\ logins[job[w].of].check = "running"
           /\ found[w] \subseteq Users \ {logins[job[w].of].user}
    /\ pc[w] = "weigh" =>
           /\ job[w].of \in DOMAIN withdrawals
           /\ withdrawals[job[w].of].check = "running"
           /\ withdrawals[job[w].of].state = "committed"
           /\ Window(found[w], withdrawals[job[w].of])
    /\ pc[w] = "trace" => found[w] \in DOMAIN alerts

Jobs == \A w \in TaskWorkers : Holding(w)

\* No task has two workers.
Alone ==
    \A v, w \in TaskWorkers :
        v # w =>
            /\ Searching(v) /\ Searching(w) => job[v].of # job[w].of
            /\ pc[v] = "weigh" /\ pc[w] = "weigh" => job[v].of # job[w].of

AlertsInv ==
    \A k \in DOMAIN alerts :
        /\ alerts[k].others \subseteq Users \ {alerts[k].user}
        /\ alerts[k].reason = "DEP_WD" =>
               /\ alerts[k].about \in DOMAIN withdrawals
               /\ withdrawals[alerts[k].about].state = "committed"

\* The later of two logins saw the earlier.
LaterNotices ==
    \A i, j \in DOMAIN logins :
        i < j /\ Coincide(i, j) /\ logins[j].check = "done" => Noticed(i, j)

Weighed ==
    \A i \in DOMAIN withdrawals :
        /\ withdrawals[i].had <= deposited[withdrawals[i].user]
        /\ (/\ withdrawals[i].check = "done"
            /\ withdrawals[i].had > withdrawals[i].expired
            /\ wagered[withdrawals[i].user] = 0)
           => \E k \in DOMAIN alerts :
                  alerts[k].reason = "DEP_WD" /\ alerts[k].about = i

IInv == Rows /\ Jobs /\ Alone /\ AlertsInv /\ LaterNotices /\ Weighed

-----------------------------------------------------------------------------
(***************************************************************************)
(* Updates of one column of one row, and appended rows.                    *)
(***************************************************************************)
LEMMA Replaced ==
    ASSUME NEW S, NEW s \in Seq(S), NEW i \in DOMAIN s, NEW e \in S
    PROVE  /\ [s EXCEPT ![i] = e] \in Seq(S)
           /\ DOMAIN [s EXCEPT ![i] = e] = DOMAIN s
           /\ \A k \in DOMAIN s : [s EXCEPT ![i] = e][k] = IF k = i THEN e ELSE s[k]
  OBVIOUS

LEMMA LoginColumn ==
    ASSUME logins \in Seq(Login), NEW i \in DOMAIN logins, NEW c \in Checks,
           logins' = [logins EXCEPT ![i].check = c]
    PROVE  /\ logins' \in Seq(Login) /\ DOMAIN logins' = DOMAIN logins
           /\ \A k \in DOMAIN logins :
                  /\ logins'[k].user = logins[k].user
                  /\ logins'[k].ip = logins[k].ip
                  /\ logins'[k].age = logins[k].age
                  /\ logins'[k].check = IF k = i THEN c ELSE logins[k].check
  <1> DEFINE e == [logins[i] EXCEPT !.check = c]
  <1>1. logins[i] \in Login
    OBVIOUS
  <1>2. /\ e \in Login /\ e.check = c
        /\ e.user = logins[i].user /\ e.ip = logins[i].ip /\ e.age = logins[i].age
    BY <1>1 DEF Login
  <1>3. logins' = [logins EXCEPT ![i] = e]
    OBVIOUS
  <1> HIDE DEF e
  <1> QED
    BY <1>2, <1>3, Replaced

LEMMA LoginAges ==
    ASSUME logins \in Seq(Login), NEW i \in DOMAIN logins,
           logins' = [logins EXCEPT ![i].age = "older"]
    PROVE  /\ logins' \in Seq(Login) /\ DOMAIN logins' = DOMAIN logins
           /\ \A k \in DOMAIN logins :
                  /\ logins'[k].user = logins[k].user
                  /\ logins'[k].ip = logins[k].ip
                  /\ logins'[k].age = "day" => logins[k].age = "day"
                  /\ logins'[k].check = logins[k].check
  <1> DEFINE e == [logins[i] EXCEPT !.age = "older"]
  <1>1. logins[i] \in Login
    OBVIOUS
  <1>2. /\ e \in Login /\ e.age = "older"
        /\ e.user = logins[i].user /\ e.ip = logins[i].ip /\ e.check = logins[i].check
    BY <1>1 DEF Login
  <1>3. logins' = [logins EXCEPT ![i] = e]
    OBVIOUS
  <1> HIDE DEF e
  <1> QED
    BY <1>2, <1>3, Replaced

LEMMA WithdrawalColumn ==
    ASSUME withdrawals \in Seq(Withdrawal), NEW i \in DOMAIN withdrawals,
           NEW c \in Checks \cup {"early"},
           withdrawals' = [withdrawals EXCEPT ![i].check = c]
    PROVE  /\ withdrawals' \in Seq(Withdrawal)
           /\ DOMAIN withdrawals' = DOMAIN withdrawals
           /\ \A k \in DOMAIN withdrawals :
                  /\ withdrawals'[k].user = withdrawals[k].user
                  /\ withdrawals'[k].had = withdrawals[k].had
                  /\ withdrawals'[k].expired = withdrawals[k].expired
                  /\ withdrawals'[k].state = withdrawals[k].state
                  /\ withdrawals'[k].check =
                         IF k = i THEN c ELSE withdrawals[k].check
  <1> DEFINE e == [withdrawals[i] EXCEPT !.check = c]
  <1>1. withdrawals[i] \in Withdrawal
    OBVIOUS
  <1>2. /\ e \in Withdrawal /\ e.check = c
        /\ e.user = withdrawals[i].user /\ e.had = withdrawals[i].had
        /\ e.expired = withdrawals[i].expired /\ e.state = withdrawals[i].state
    BY <1>1 DEF Withdrawal
  <1>3. withdrawals' = [withdrawals EXCEPT ![i] = e]
    OBVIOUS
  <1> HIDE DEF e
  <1> QED
    BY <1>2, <1>3, Replaced

LEMMA WithdrawalOpened ==
    ASSUME withdrawals \in Seq(Withdrawal), NEW i \in DOMAIN withdrawals,
           NEW old \in Nat,
           withdrawals' = [withdrawals EXCEPT ![i].check = "running",
                                              ![i].expired = old]
    PROVE  /\ withdrawals' \in Seq(Withdrawal)
           /\ DOMAIN withdrawals' = DOMAIN withdrawals
           /\ withdrawals'[i].expired = old
           /\ \A k \in DOMAIN withdrawals :
                  /\ withdrawals'[k].user = withdrawals[k].user
                  /\ withdrawals'[k].had = withdrawals[k].had
                  /\ k # i => withdrawals'[k].expired = withdrawals[k].expired
                  /\ withdrawals'[k].state = withdrawals[k].state
                  /\ withdrawals'[k].check =
                         IF k = i THEN "running" ELSE withdrawals[k].check
  <1> DEFINE e == [withdrawals[i] EXCEPT !.check = "running", !.expired = old]
  <1>1. withdrawals[i] \in Withdrawal
    OBVIOUS
  <1>2. /\ e \in Withdrawal /\ e.check = "running" /\ e.expired = old
        /\ e.user = withdrawals[i].user /\ e.had = withdrawals[i].had
        /\ e.state = withdrawals[i].state
    BY <1>1 DEF Withdrawal, Checks
  <1>3. withdrawals' = [withdrawals EXCEPT ![i] = e]
    BY <1>1 DEF Withdrawal
  <1> HIDE DEF e
  <1>4. PICK row \in Withdrawal : row = e
    BY <1>2
  <1>5. PICK rows : rows = [withdrawals EXCEPT ![i] = row]
    OBVIOUS
  <1>6. /\ rows \in Seq(Withdrawal) /\ DOMAIN rows = DOMAIN withdrawals
        /\ \A k \in DOMAIN withdrawals :
               rows[k] = IF k = i THEN row ELSE withdrawals[k]
    BY <1>5, Replaced
  <1>7. withdrawals' = rows
    BY <1>3, <1>4, <1>5
  <1>8. QED  BY <1>2, <1>4, <1>6, <1>7

LEMMA WithdrawalEnds ==
    ASSUME withdrawals \in Seq(Withdrawal), NEW i \in DOMAIN withdrawals,
           NEW s \in {"committed", "undone"}, withdrawals[i].state = "open",
           withdrawals' = [withdrawals EXCEPT ![i].state = s]
    PROVE  /\ withdrawals' \in Seq(Withdrawal)
           /\ DOMAIN withdrawals' = DOMAIN withdrawals
           /\ \A k \in DOMAIN withdrawals :
                  /\ withdrawals'[k].user = withdrawals[k].user
                  /\ withdrawals'[k].had = withdrawals[k].had
                  /\ withdrawals'[k].expired = withdrawals[k].expired
                  /\ withdrawals'[k].check = withdrawals[k].check
                  /\ withdrawals[k].state = "committed" =>
                         withdrawals'[k].state = "committed"
  <1> DEFINE e == [withdrawals[i] EXCEPT !.state = s]
  <1>1. withdrawals[i] \in Withdrawal
    OBVIOUS
  <1>2. /\ e \in Withdrawal /\ e.state = s
        /\ e.user = withdrawals[i].user /\ e.had = withdrawals[i].had
        /\ e.expired = withdrawals[i].expired /\ e.check = withdrawals[i].check
    BY <1>1 DEF Withdrawal
  <1>3. withdrawals' = [withdrawals EXCEPT ![i] = e]
    OBVIOUS
  <1> HIDE DEF e
  <1> QED
    BY <1>2, <1>3, Replaced

LEMMA AlertTraced ==
    ASSUME alerts \in Seq(Alert), NEW i \in DOMAIN alerts,
           \/ alerts' = [alerts EXCEPT ![i].trace = "written"]
           \/ \E s \in Status : alerts' = [alerts EXCEPT ![i].status = s]
    PROVE  /\ alerts' \in Seq(Alert) /\ DOMAIN alerts' = DOMAIN alerts
           /\ \A k \in DOMAIN alerts :
                  /\ alerts'[k].user = alerts[k].user
                  /\ alerts'[k].reason = alerts[k].reason
                  /\ alerts'[k].about = alerts[k].about
                  /\ alerts'[k].others = alerts[k].others
  <1>1. CASE alerts' = [alerts EXCEPT ![i].trace = "written"]
    <2> DEFINE e == [alerts[i] EXCEPT !.trace = "written"]
    <2>1. alerts[i] \in Alert
      OBVIOUS
    <2>2. /\ e \in Alert /\ e.trace = "written"
          /\ e.user = alerts[i].user /\ e.reason = alerts[i].reason /\ e.about = alerts[i].about /\ e.others = alerts[i].others
      BY <2>1 DEF Alert
    <2>3. alerts' = [alerts EXCEPT ![i] = e]
      BY <1>1
    <2> HIDE DEF e
    <2> QED
      BY <2>2, <2>3, Replaced
  <1>2. ASSUME NEW s \in Status, alerts' = [alerts EXCEPT ![i].status = s]
        PROVE  /\ alerts' \in Seq(Alert) /\ DOMAIN alerts' = DOMAIN alerts
               /\ \A k \in DOMAIN alerts :
                      /\ alerts'[k].user = alerts[k].user
                      /\ alerts'[k].reason = alerts[k].reason
                      /\ alerts'[k].about = alerts[k].about
                      /\ alerts'[k].others = alerts[k].others
    <2> DEFINE e == [alerts[i] EXCEPT !.status = s]
    <2>1. alerts[i] \in Alert
      OBVIOUS
    <2>2. /\ e \in Alert /\ e.status = s
          /\ e.user = alerts[i].user /\ e.reason = alerts[i].reason /\ e.about = alerts[i].about /\ e.others = alerts[i].others
      BY <2>1 DEF Alert
    <2>3. alerts' = [alerts EXCEPT ![i] = e]
      BY <1>2
    <2> HIDE DEF e
    <2> QED
      BY <2>2, <2>3, Replaced
  <1>3. QED  BY <1>1, <1>2

LEMMA Appended ==
    ASSUME NEW S, NEW s \in Seq(S), NEW e \in S
    PROVE  /\ Append(s, e) \in Seq(S)
           /\ DOMAIN s = 1 .. Len(s) /\ Len(s) \in Nat
           /\ DOMAIN Append(s, e) = 1 .. Len(s) + 1
           /\ DOMAIN Append(s, e) = DOMAIN s \cup {Len(s) + 1}
           /\ Len(Append(s, e)) = Len(s) + 1
           /\ Append(s, e)[Len(s) + 1] = e
           /\ \A k \in DOMAIN s : Append(s, e)[k] = s[k]
  OBVIOUS

-----------------------------------------------------------------------------
(***************************************************************************)
(* What no step takes back.                                                *)
(***************************************************************************)
LoginsGrow ==
    /\ DOMAIN logins \subseteq DOMAIN logins'
    /\ \A k \in DOMAIN logins :
           /\ logins'[k].user = logins[k].user
           /\ logins'[k].ip = logins[k].ip
           /\ logins'[k].age = "day" => logins[k].age = "day"

WithdrawalsGrow ==
    /\ DOMAIN withdrawals \subseteq DOMAIN withdrawals'
    /\ \A k \in DOMAIN withdrawals :
           /\ withdrawals'[k].user = withdrawals[k].user
           /\ withdrawals'[k].had = withdrawals[k].had
           /\ withdrawals[k].check # "queued" =>
                  withdrawals'[k].expired = withdrawals[k].expired
           /\ withdrawals[k].state = "committed" =>
                  withdrawals'[k].state = "committed"

AlertsGrow ==
    /\ DOMAIN alerts \subseteq DOMAIN alerts'
    /\ \A k \in DOMAIN alerts :
           /\ alerts'[k].user = alerts[k].user
           /\ alerts'[k].reason = alerts[k].reason
           /\ alerts'[k].about = alerts[k].about
           /\ alerts'[k].others = alerts[k].others

MoneyGrows ==
    \A u \in Users : deposited[u] <= deposited'[u] /\ wagered[u] <= wagered'[u]

Grow == LoginsGrow /\ WithdrawalsGrow /\ AlertsGrow /\ MoneyGrows

LEMMA NoticedStays ==
    ASSUME LoginsGrow, AlertsGrow, NEW i \in DOMAIN logins,
           NEW j \in DOMAIN logins, Noticed(i, j)
    PROVE  Noticed(i, j)'
  BY DEF LoginsGrow, AlertsGrow, Noticed

LEMMA CoincidedBefore ==
    ASSUME LoginsGrow, NEW i \in DOMAIN logins, NEW j \in DOMAIN logins,
           Coincide(i, j)'
    PROVE  Coincide(i, j)
  BY DEF LoginsGrow, Coincide

\* At most one search, x, ends in a step.
LEMMA LaterKept ==
    ASSUME LaterNotices, Rows, Rows', LoginsGrow, AlertsGrow, NEW x,
           \A k \in DOMAIN logins' :
               logins'[k].check = "done" =>
                   /\ k \in DOMAIN logins
                   /\ \/ logins[k].check = "done"
                      \/ /\ k = x
                         /\ \A i \in DOMAIN logins :
                                i < x /\ Coincide(i, x) => Noticed(i, x)'
    PROVE  LaterNotices'
  <1> SUFFICES ASSUME NEW i \in DOMAIN logins', NEW j \in DOMAIN logins',
                      i < j, Coincide(i, j)', logins'[j].check = "done"
               PROVE  Noticed(i, j)'
    BY DEF LaterNotices
  <1>1. j \in DOMAIN logins
    OBVIOUS
  <1>2. i \in DOMAIN logins
    BY <1>1 DEF Rows
  <1>3. Coincide(i, j)
    BY <1>1, <1>2, CoincidedBefore
  <1>4. CASE logins[j].check = "done"
    BY <1>1, <1>2, <1>3, <1>4, NoticedStays DEF LaterNotices
  <1>5. CASE logins[j].check # "done"
    BY <1>1, <1>2, <1>3, <1>5
  <1>6. QED  BY <1>4, <1>5

LEMMA LaterUndisturbed ==
    ASSUME LaterNotices, Rows, Rows', LoginsGrow, AlertsGrow,
           \A k \in DOMAIN logins' :
               logins'[k].check = "done" =>
                   k \in DOMAIN logins /\ logins[k].check = "done"
    PROVE  LaterNotices'
  <1> DEFINE x == 0
  <1>1. \A k \in DOMAIN logins' :
            logins'[k].check = "done" =>
                /\ k \in DOMAIN logins
                /\ \/ logins[k].check = "done"
                   \/ /\ k = x
                      /\ \A i \in DOMAIN logins :
                             i < x /\ Coincide(i, x) => Noticed(i, x)'
    OBVIOUS
  <1> HIDE DEF x
  <1>2. QED  BY <1>1, LaterKept

LEMMA AlertsKept ==
    ASSUME AlertsInv, WithdrawalsGrow, AlertsGrow,
           \A k \in DOMAIN alerts' \ DOMAIN alerts :
               /\ alerts'[k].others \subseteq Users \ {alerts'[k].user}
               /\ alerts'[k].reason = "DEP_WD" =>
                      /\ alerts'[k].about \in DOMAIN withdrawals
                      /\ withdrawals[alerts'[k].about].state = "committed"
    PROVE  AlertsInv'
  BY DEF AlertsInv, WithdrawalsGrow, AlertsGrow

LEMMA WeighedKept ==
    ASSUME Weighed, Rows, Rows', Grow,
           \A k \in DOMAIN withdrawals' \ DOMAIN withdrawals :
               /\ withdrawals'[k].check # "done"
               /\ withdrawals'[k].had <= deposited'[withdrawals'[k].user],
           \A k \in DOMAIN withdrawals :
               withdrawals'[k].check = "done" =>
                   \/ withdrawals[k].check = "done"
                   \/ (/\ withdrawals'[k].had > withdrawals'[k].expired
                       /\ wagered[withdrawals[k].user] = 0)
                      => \E a \in DOMAIN alerts' :
                            alerts'[a].reason = "DEP_WD" /\ alerts'[a].about = k
    PROVE  Weighed'
  <1> SUFFICES ASSUME NEW k \in DOMAIN withdrawals'
               PROVE  /\ withdrawals'[k].had <= deposited'[withdrawals'[k].user]
                      /\ (/\ withdrawals'[k].check = "done"
                          /\ withdrawals'[k].had > withdrawals'[k].expired
                          /\ wagered'[withdrawals'[k].user] = 0)
                         => \E a \in DOMAIN alerts' :
                               alerts'[a].reason = "DEP_WD" /\ alerts'[a].about = k
    BY DEF Weighed
  <1>1. CASE k \notin DOMAIN withdrawals
    BY <1>1
  <1>2. CASE k \in DOMAIN withdrawals
    <2>1. /\ withdrawals'[k].user = withdrawals[k].user
          /\ withdrawals'[k].had = withdrawals[k].had
      BY <1>2 DEF Grow, WithdrawalsGrow
    <2>2. withdrawals[k].user \in Users /\ withdrawals[k].had \in Nat
      <3>1. withdrawals[k] \in Withdrawal
        BY <1>2 DEF Rows
      <3>2. QED  BY <3>1 DEF Withdrawal
    <2> DEFINE u == withdrawals[k].user
    <2>3. /\ deposited[u] <= deposited'[u] /\ wagered[u] <= wagered'[u]
          /\ deposited[u] \in Nat /\ wagered[u] \in Nat
          /\ deposited'[u] \in Nat /\ wagered'[u] \in Nat
      BY <2>2 DEF Grow, MoneyGrows, Rows, Money
    <2>4. withdrawals[k].had <= deposited[u]
      BY <1>2 DEF Weighed
    <2>5. withdrawals'[k].had <= deposited'[withdrawals'[k].user]
      BY <2>1, <2>2, <2>3, <2>4
    <2>6. ASSUME withdrawals'[k].check = "done",
                 withdrawals'[k].had > withdrawals'[k].expired,
                 wagered'[withdrawals'[k].user] = 0
          PROVE  \E a \in DOMAIN alerts' :
                     alerts'[a].reason = "DEP_WD" /\ alerts'[a].about = k
      <3>1. wagered[u] = 0
        BY <2>1, <2>3, <2>6
      <3>2. CASE withdrawals[k].check = "done"
        <4>1. withdrawals'[k].expired = withdrawals[k].expired
          BY <1>2, <3>2 DEF Grow, WithdrawalsGrow
        <4>2. QED
          BY <1>2, <2>1, <2>6, <3>1, <3>2, <4>1 DEF Weighed, Grow, AlertsGrow
      <3>3. CASE withdrawals[k].check # "done"
        BY <1>2, <2>1, <2>6, <3>1, <3>3
      <3>4. QED  BY <3>2, <3>3
    <2>7. QED  BY <2>5, <2>6
  <1>3. QED  BY <1>1, <1>2

-----------------------------------------------------------------------------
(***************************************************************************)
(* Steps that no task takes.                                               *)
(***************************************************************************)
LEMMA WithdrawalRow ==
    ASSUME Rows, NEW i \in DOMAIN withdrawals
    PROVE  withdrawals[i].user \in Users /\ withdrawals[i].had \in Nat /\ i \in Nat
  <1>1. withdrawals[i] \in Withdrawal /\ i \in Nat
    BY DEF Rows
  <1>2. QED  BY <1>1 DEF Withdrawal

LEMMA WindowStays ==
    ASSUME Rows, Rows', Grow, NEW w \in TaskWorkers, Holding(w), pc[w] = "weigh",
           found'[w] = found[w], job'[w].of = job[w].of
    PROVE  Window(found[w], withdrawals[job[w].of])'
  <1> DEFINE i == job[w].of
  <1>1. /\ i \in DOMAIN withdrawals /\ Window(found[w], withdrawals[i])
        /\ withdrawals[i].check = "running"
    BY DEF Holding
  <1>2. /\ withdrawals'[i].user = withdrawals[i].user
        /\ withdrawals'[i].had = withdrawals[i].had
        /\ withdrawals'[i].expired = withdrawals[i].expired
    BY <1>1 DEF Grow, WithdrawalsGrow
  <1>3. withdrawals[i].user \in Users
    BY <1>1, WithdrawalRow
  <1> DEFINE u == withdrawals[i].user
  <1>4. wagered[u] \in Nat /\ wagered'[u] \in Nat /\ wagered[u] <= wagered'[u]
    BY <1>3 DEF Rows, Money, Grow, MoneyGrows
  <1>5. QED  BY <1>1, <1>2, <1>4 DEF Window

\* A step that no worker takes, and that ends no task that is running.
LEMMA JobsStay ==
    ASSUME Rows, Jobs, Rows', Grow, UNCHANGED local,
           \A k \in DOMAIN logins :
               logins[k].check = "running" => logins'[k].check = "running",
           \A k \in DOMAIN withdrawals :
               withdrawals[k].check = "running" =>
                   withdrawals'[k].check = "running"
    PROVE  Jobs'
  <1> SUFFICES ASSUME NEW w \in TaskWorkers  PROVE  Holding(w)'
    BY DEF Jobs
  <1>1. Holding(w) /\ UNCHANGED <<pc, job, found>>
    BY DEF Jobs, local
  <1>2. pc[w] = "weigh" => Window(found[w], withdrawals[job[w].of])'
    BY <1>1, WindowStays
  <1>3. QED
    BY <1>1, <1>2
       DEF Holding, Searching, Grow, LoginsGrow, WithdrawalsGrow, AlertsGrow

LEMMA CalmStep ==
    ASSUME IInv, Rows', Grow, UNCHANGED local, DOMAIN alerts' = DOMAIN alerts,
           \A k \in DOMAIN logins :
               logins[k].check = "running" => logins'[k].check = "running",
           \A k \in DOMAIN logins' :
               logins'[k].check = "done" =>
                   k \in DOMAIN logins /\ logins[k].check = "done",
           \A k \in DOMAIN withdrawals :
               withdrawals'[k].check = withdrawals[k].check,
           \A k \in DOMAIN withdrawals' \ DOMAIN withdrawals :
               /\ withdrawals'[k].check # "done"
               /\ withdrawals'[k].had <= deposited'[withdrawals'[k].user]
    PROVE  IInv'
  <1>1. LaterNotices'
    BY LaterKept DEF IInv, Grow
  <1>2. AlertsInv'
    BY AlertsKept DEF IInv, Grow
  <1>3. Weighed'
    BY WeighedKept DEF IInv
  <1>4. Alone'
    BY DEF IInv, Alone, Searching, local
  <1>5. Jobs'
    BY JobsStay DEF IInv
  <1>6. QED  BY <1>1, <1>2, <1>3, <1>4, <1>5 DEF IInv

LEMMA Still ==
    /\ UNCHANGED logins => LoginsGrow
    /\ UNCHANGED withdrawals => WithdrawalsGrow
    /\ UNCHANGED alerts => AlertsGrow
    /\ Rows /\ UNCHANGED money => MoneyGrows /\ Money'
  BY DEF LoginsGrow, WithdrawalsGrow, AlertsGrow, MoneyGrows, Rows, Money, money

LEMMA LogInKeeps ==
    ASSUME IInv, NEW u \in Users, NEW ip \in Ips, LogIn(u, ip)
    PROVE  IInv'
  <1> DEFINE e == [user |-> u, ip |-> ip, age |-> "day", check |-> "unsent"]
  <1>1. e \in Login
    BY DEF Login, Checks
  <1>2. logins' = Append(logins, e)
    BY DEF LogIn
  <1>3. /\ logins' \in Seq(Login) /\ DOMAIN logins' = DOMAIN logins \cup {Len(logins) + 1}
        /\ logins'[Len(logins) + 1] = e
        /\ \A k \in DOMAIN logins : logins'[k] = logins[k]
    BY <1>1, <1>2, Appended DEF IInv, Rows
  <1>4. e.check = "unsent"
    OBVIOUS
  <1> HIDE DEF e
  <1>5. Rows'
    BY <1>3, Still DEF LogIn, IInv, Rows, local
  <1>6. LoginsGrow
    BY <1>3 DEF LoginsGrow
  <1>7. Grow
    BY <1>6, Still DEF Grow, IInv, LogIn
  <1>8. QED
    BY <1>3, <1>4, <1>5, <1>7, CalmStep DEF LogIn

LEMMA LoginRowKeeps ==
    ASSUME IInv, NEW i \in DOMAIN logins, QueueCheck(i) \/ Age(i)
    PROVE  IInv'
  <1>1. /\ UNCHANGED <<withdrawals, money, alerts, local>>
        /\ Rows
    BY DEF QueueCheck, Age, IInv
  <1>2. CASE QueueCheck(i)
    <2>1. /\ logins' \in Seq(Login) /\ DOMAIN logins' = DOMAIN logins
          /\ \A k \in DOMAIN logins :
                 /\ logins'[k].user = logins[k].user
                 /\ logins'[k].ip = logins[k].ip
                 /\ logins'[k].age = logins[k].age
                 /\ logins'[k].check = IF k = i THEN "queued" ELSE logins[k].check
      BY <1>1, <1>2, LoginColumn DEF QueueCheck, Checks, Rows
    <2>2. logins[i].check = "unsent"
      BY <1>2 DEF QueueCheck
    <2>3. Rows' /\ Grow
      BY <1>1, <2>1, Still DEF Rows, Grow, LoginsGrow, local
    <2>4. QED  BY <1>1, <2>1, <2>2, <2>3, CalmStep
  <1>3. CASE Age(i)
    <2>1. /\ logins' \in Seq(Login) /\ DOMAIN logins' = DOMAIN logins
          /\ \A k \in DOMAIN logins :
                 /\ logins'[k].user = logins[k].user
                 /\ logins'[k].ip = logins[k].ip
                 /\ logins'[k].age = "day" => logins[k].age = "day"
                 /\ logins'[k].check = logins[k].check
      BY <1>1, <1>3, LoginAges DEF Age, Rows
    <2>2. Rows' /\ Grow
      BY <1>1, <2>1, Still DEF Rows, Grow, LoginsGrow, local
    <2>3. QED  BY <1>1, <2>1, <2>2, CalmStep
  <1>4. QED  BY <1>2, <1>3

LEMMA MoneyKeeps ==
    ASSUME IInv, NEW u \in Users, NEW amount \in Amounts,
           \/ Deposit(u, amount) \/ AgeDeposit(u, amount)
           \/ Wager(u, amount) \/ AgeStake(u, amount)
    PROVE  IInv'
  <1>1. /\ UNCHANGED <<logins, withdrawals, alerts, local>>
        /\ Rows /\ Money /\ amount \in Nat
    BY AmountAssumption DEF Deposit, AgeDeposit, Wager, AgeStake, IInv, Rows
  <1>2. Money' /\ MoneyGrows
    <2>1. CASE Deposit(u, amount)
      BY <1>1, <2>1 DEF Deposit, Money, MoneyGrows
    <2>2. CASE AgeDeposit(u, amount)
      BY <1>1, <2>2 DEF AgeDeposit, Money, MoneyGrows
    <2>3. CASE Wager(u, amount)
      BY <1>1, <2>3 DEF Wager, Money, MoneyGrows
    <2>4. CASE AgeStake(u, amount)
      BY <1>1, <2>4 DEF AgeStake, Money, MoneyGrows
    <2>5. QED  BY <2>1, <2>2, <2>3, <2>4
  <1>3. Rows'
    BY <1>1, <1>2 DEF Rows, local
  <1>4. Grow
    BY <1>1, <1>2, Still DEF Grow
  <1>5. QED  BY <1>1, <1>3, <1>4, CalmStep

LEMMA WithdrawKeeps ==
    ASSUME IInv, NEW u \in Users, Withdraw(u)
    PROVE  IInv'
  <1> DEFINE e == [user |-> u, state |-> "open", check |-> "queued",
                   had |-> deposited[u], expired |-> 0]
  <1>1. e \in Withdrawal
    BY DEF Withdrawal, Checks, IInv, Rows, Money
  <1>2. withdrawals' = Append(withdrawals, e)
    BY DEF Withdraw
  <1>3. /\ withdrawals' \in Seq(Withdrawal)
        /\ DOMAIN withdrawals' = DOMAIN withdrawals \cup {Len(withdrawals) + 1}
        /\ withdrawals'[Len(withdrawals) + 1] = e
        /\ \A k \in DOMAIN withdrawals : withdrawals'[k] = withdrawals[k]
    BY <1>1, <1>2, Appended DEF IInv, Rows
  <1>4. e.check = "queued" /\ e.had = deposited[u] /\ e.user = u
    OBVIOUS
  <1> HIDE DEF e
  <1>5. /\ UNCHANGED <<logins, money, alerts, local>>
        /\ Rows
    BY DEF Withdraw, IInv
  <1>6. Rows'
    BY <1>3, <1>5, Still DEF Rows, local
  <1>7. WithdrawalsGrow
    BY <1>3 DEF WithdrawalsGrow
  <1>8. Grow
    BY <1>5, <1>7, Still DEF Grow
  <1>9. deposited'[u] \in Nat /\ e.had <= deposited'[u]
    BY <1>4, <1>5, <1>6 DEF Rows, Money, money
  <1>10. QED
    BY <1>3, <1>4, <1>5, <1>6, <1>8, <1>9, CalmStep

LEMMA EndKeeps ==
    ASSUME IInv, NEW i \in DOMAIN withdrawals,
           NEW s \in {"committed", "undone"}, End(i, s)
    PROVE  IInv'
  <1>1. /\ UNCHANGED <<logins, money, alerts, local>>
        /\ Rows
    BY DEF End, IInv
  <1>2. /\ withdrawals' \in Seq(Withdrawal)
        /\ DOMAIN withdrawals' = DOMAIN withdrawals
        /\ \A k \in DOMAIN withdrawals :
               /\ withdrawals'[k].user = withdrawals[k].user
               /\ withdrawals'[k].had = withdrawals[k].had
               /\ withdrawals'[k].expired = withdrawals[k].expired
               /\ withdrawals'[k].check = withdrawals[k].check
               /\ withdrawals[k].state = "committed" =>
                      withdrawals'[k].state = "committed"
    BY <1>1, WithdrawalEnds DEF End, Rows
  <1>3. Rows' /\ Grow
    BY <1>1, <1>2, Still DEF Rows, Grow, WithdrawalsGrow, local
  <1>4. QED  BY <1>1, <1>2, <1>3, CalmStep

LEMMA ReviewKeeps ==
    ASSUME IInv, NEW k \in DOMAIN alerts, NEW s \in Status, Review(k, s)
    PROVE  IInv'
  <1>1. /\ UNCHANGED <<facts, local>> /\ Rows
    BY DEF Review, IInv
  <1>2. /\ alerts' \in Seq(Alert) /\ DOMAIN alerts' = DOMAIN alerts
        /\ \A a \in DOMAIN alerts :
               /\ alerts'[a].user = alerts[a].user
               /\ alerts'[a].reason = alerts[a].reason
               /\ alerts'[a].about = alerts[a].about
               /\ alerts'[a].others = alerts[a].others
    BY <1>1, AlertTraced DEF Review, Rows
  <1>3. Rows' /\ Grow
    BY <1>1, <1>2, Still DEF Rows, Grow, AlertsGrow, local, facts
  <1>4. QED  BY <1>1, <1>2, <1>3, CalmStep DEF facts

-----------------------------------------------------------------------------
(***************************************************************************)
(* Steps of a task.  The other workers keep their places.                  *)
(***************************************************************************)
OthersWait(w) ==
    \A v \in TaskWorkers \ {w} :
        pc'[v] = pc[v] /\ job'[v] = job[v] /\ found'[v] = found[v]

LEMMA BeginFacts ==
    ASSUME Rows, NEW w \in TaskWorkers, NEW t, NEW f, NEW place, Begin(w, t, f, place)
    PROVE  /\ DOMAIN pc' = TaskWorkers /\ DOMAIN job' = TaskWorkers
           /\ DOMAIN found' = TaskWorkers
           /\ pc'[w] = place /\ job'[w] = t /\ found'[w] = f
           /\ OthersWait(w)
  BY DEF Begin, Goto, Rows, OthersWait

LEMMA ReturnFacts ==
    ASSUME Rows, NEW w \in TaskWorkers, Return(w)
    PROVE  /\ DOMAIN pc' = TaskWorkers /\ DOMAIN job' = TaskWorkers
           /\ DOMAIN found' = TaskWorkers
           /\ pc'[w] = "idle" /\ OthersWait(w)
  BY DEF Return, Goto, Rows, OthersWait

LEMMA OthersStay ==
    ASSUME Rows, NEW i \in DOMAIN logins
    PROVE  /\ Others(i) \subseteq Users \ {logins[i].user}
           /\ \A j \in DOMAIN logins : Coincide(j, i) => Others(i) # {}
  <1>1. \A k \in DOMAIN logins : logins[k] \in Login
    BY DEF Rows
  <1>2. \A k \in DOMAIN logins : logins[k].user \in Users
    BY <1>1 DEF Login
  <1>3. QED  BY <1>2 DEF Others, Coincide

LEMMA WorkerStep ==
    ASSUME IInv, Rows', Grow, NEW w \in TaskWorkers, OthersWait(w), Holding(w)',
           \A k \in DOMAIN logins :
               logins[k].check = "running" /\ logins'[k].check # "running" =>
                   Searching(w) /\ job[w].of = k,
           \A k \in DOMAIN withdrawals :
               withdrawals[k].check = "running" /\ withdrawals'[k].check # "running" =>
                   pc[w] = "weigh" /\ job[w].of = k,
           Searching(w)' =>
               \/ Searching(w) /\ job'[w].of = job[w].of
               \/ logins[job'[w].of].check # "running",
           pc'[w] = "weigh" => withdrawals[job'[w].of].check # "running"
    PROVE  Jobs' /\ Alone'
  <1>1. ASSUME NEW v \in TaskWorkers \ {w}  PROVE  Holding(v)'
    <2>1. /\ pc'[v] = pc[v] /\ job'[v] = job[v] /\ found'[v] = found[v]
          /\ Holding(v)
      BY DEF OthersWait, IInv, Jobs
    <2>2. Searching(v) /\ Searching(w) => job[v].of # job[w].of
      BY DEF IInv, Alone
    <2>3. pc[v] = "weigh" /\ pc[w] = "weigh" => job[v].of # job[w].of
      BY DEF IInv, Alone
    <2>4. pc[v] = "weigh" => Window(found[v], withdrawals[job[v].of])'
      BY <2>1, WindowStays DEF IInv
    <2>5. QED
      BY <2>1, <2>2, <2>3, <2>4
         DEF Holding, Searching, Grow, LoginsGrow, WithdrawalsGrow, AlertsGrow
  <1>2. Jobs'
    BY <1>1 DEF Jobs
  <1>3. ASSUME NEW v \in TaskWorkers \ {w}
        PROVE  /\ Searching(v)' /\ Searching(w)' => job'[v].of # job'[w].of
               /\ pc'[v] = "weigh" /\ pc'[w] = "weigh" => job'[v].of # job'[w].of
    <2>1. pc'[v] = pc[v] /\ job'[v] = job[v] /\ Holding(v)
      BY DEF OthersWait, IInv, Jobs
    <2>2. Searching(v) /\ Searching(w) => job[v].of # job[w].of
      BY DEF IInv, Alone
    <2>3. QED  BY <2>1, <2>2 DEF Holding, Searching
  <1>4. ASSUME NEW u \in TaskWorkers \ {w}, NEW v \in TaskWorkers \ {w}, u # v
        PROVE  /\ Searching(u)' /\ Searching(v)' => job'[u].of # job'[v].of
               /\ pc'[u] = "weigh" /\ pc'[v] = "weigh" => job'[u].of # job'[v].of
    BY <1>4 DEF OthersWait, IInv, Alone, Searching
  <1>5. Alone'
    BY <1>3, <1>4 DEF Alone
  <1>6. QED  BY <1>2, <1>5

LEMMA TakeLoginKeeps ==
    ASSUME IInv, NEW w \in TaskWorkers, NEW i \in DOMAIN logins, TakeLogin(w, i)
    PROVE  IInv'
  <1>1. /\ UNCHANGED <<withdrawals, money, alerts>> /\ Rows
        /\ logins[i].check = "queued"
    BY DEF TakeLogin, IInv
  <1>2. ASSUME NEW c \in {"done", "running"},
               logins' = [logins EXCEPT ![i].check = c]
        PROVE  /\ logins' \in Seq(Login) /\ DOMAIN logins' = DOMAIN logins
               /\ \A k \in DOMAIN logins :
                      /\ logins'[k].user = logins[k].user
                      /\ logins'[k].ip = logins[k].ip
                      /\ logins'[k].age = logins[k].age
                      /\ logins'[k].check = IF k = i THEN c ELSE logins[k].check
               /\ Grow
    <2>1. c \in Checks
      BY DEF Checks
    <2>2. /\ logins' \in Seq(Login) /\ DOMAIN logins' = DOMAIN logins
          /\ \A k \in DOMAIN logins :
                 /\ logins'[k].user = logins[k].user
                 /\ logins'[k].ip = logins[k].ip
                 /\ logins'[k].age = logins[k].age
                 /\ logins'[k].check = IF k = i THEN c ELSE logins[k].check
      BY <1>1, <1>2, <2>1, LoginColumn DEF Rows
    <2>3. QED  BY <1>1, <2>2, Still DEF Grow, LoginsGrow
  <1>3. CASE Others(i) = {}
    <2>1. logins' = [logins EXCEPT ![i].check = "done"] /\ UNCHANGED local
      BY <1>3 DEF TakeLogin
    <2>2. Rows'
      BY <1>1, <1>2, <2>1, Still DEF Rows, local
    <2>3. \A k \in DOMAIN logins : Coincide(k, i) => Noticed(k, i)'
      BY <1>1, <1>3, OthersStay
    <2>4. LaterNotices'
      BY <1>1, <1>2, <2>1, <2>2, <2>3, LaterKept DEF IInv, Grow
    <2>5. AlertsInv' /\ Weighed'
      BY <1>1, <1>2, <2>1, <2>2, AlertsKept, WeighedKept DEF IInv, Grow
    <2>6. Alone'
      BY <2>1 DEF IInv, Alone, Searching, local
    <2>7. Jobs'
      BY <1>1, <1>2, <2>1, <2>2, JobsStay DEF IInv
    <2>8. QED  BY <2>2, <2>4, <2>5, <2>6, <2>7 DEF IInv
  <1>4. CASE Others(i) # {}
    <2>1. /\ logins' = [logins EXCEPT ![i].check = "running"]
          /\ Begin(w, CheckSharedIp(i), Others(i), "look")
      BY <1>4 DEF TakeLogin
    <2>2. /\ DOMAIN pc' = TaskWorkers /\ DOMAIN job' = TaskWorkers
          /\ DOMAIN found' = TaskWorkers
          /\ pc'[w] = "look" /\ job'[w] = CheckSharedIp(i)
          /\ found'[w] = Others(i) /\ OthersWait(w)
      BY <1>1, <2>1, BeginFacts
    <2>3. job'[w].of = i
      BY <2>2 DEF CheckSharedIp
    <2>4. Rows'
      BY <1>1, <1>2, <2>1, <2>2, Still DEF Rows
    <2>5. LaterNotices'
      <3>1. \A k \in DOMAIN logins' :
                logins'[k].check = "done" =>
                    k \in DOMAIN logins /\ logins[k].check = "done"
        BY <1>2, <2>1
      <3>2. QED  BY <1>1, <1>2, <2>1, <2>4, <3>1, LaterUndisturbed DEF IInv, Grow
    <2>6. AlertsInv' /\ Weighed'
      BY <1>1, <1>2, <2>1, <2>4, AlertsKept, WeighedKept DEF IInv, Grow
    <2>7. found'[w] \subseteq Users \ {logins'[i].user}
      BY <1>1, <1>2, <2>1, <2>2, OthersStay
    <2>8. Holding(w)'
      BY <1>1, <1>2, <2>1, <2>2, <2>3, <2>7 DEF Holding, Searching
    <2>9. Jobs' /\ Alone'
      BY <1>1, <1>2, <2>1, <2>2, <2>3, <2>4, <2>8, WorkerStep
    <2>10. QED  BY <2>4, <2>5, <2>6, <2>9 DEF IInv
  <1>5. QED  BY <1>3, <1>4

LEMMA LookKeeps ==
    ASSUME IInv, NEW w \in TaskWorkers, Look(w)
    PROVE  IInv'
  <1>0. PICK i : i = job[w].of
    OBVIOUS
  <1>1. /\ UNCHANGED <<withdrawals, money, alerts>> /\ Rows
        /\ Searching(w) /\ Holding(w)
        /\ i \in DOMAIN logins /\ logins[i].check = "running"
    BY <1>0 DEF Look, IInv, Jobs, Holding, Searching
  <1>2. CASE PendingAlert(logins[i].user, logins[i].ip)
    <2>1. logins' = [logins EXCEPT ![i].check = "done"] /\ Return(w)
      BY <1>0, <1>2 DEF Look
    <2>2. /\ logins' \in Seq(Login) /\ DOMAIN logins' = DOMAIN logins
          /\ \A k \in DOMAIN logins :
                 /\ logins'[k].user = logins[k].user
                 /\ logins'[k].ip = logins[k].ip
                 /\ logins'[k].age = logins[k].age
                 /\ logins'[k].check = IF k = i THEN "done" ELSE logins[k].check
      BY <1>1, <2>1, LoginColumn DEF Rows, Checks
    <2>3. /\ DOMAIN pc' = TaskWorkers /\ DOMAIN job' = TaskWorkers
          /\ DOMAIN found' = TaskWorkers /\ pc'[w] = "idle" /\ OthersWait(w)
      BY <1>1, <2>1, ReturnFacts
    <2>4. Rows' /\ Grow
      BY <1>1, <2>2, <2>3, Still DEF Rows, Grow, LoginsGrow
    <2>5. \A k \in DOMAIN logins : Coincide(k, i) => Noticed(k, i)'
      <3> SUFFICES ASSUME NEW k \in DOMAIN logins, Coincide(k, i)
                   PROVE  Noticed(k, i)'
        OBVIOUS
      <3>1. PICK a \in DOMAIN alerts :
                /\ alerts[a].reason = "SHARED_IP"
                /\ alerts[a].user = logins[i].user
                /\ alerts[a].about = logins[i].ip
        BY <1>2 DEF PendingAlert
      <3>2. /\ logins'[k].ip = logins[i].ip /\ logins'[i].user = logins[i].user
            /\ alerts' = alerts
        BY <1>1, <2>2 DEF Coincide
      <3>3. QED  BY <3>1, <3>2 DEF Noticed
    <2>6. LaterNotices'
      <3>1. \A k \in DOMAIN logins' :
                logins'[k].check = "done" =>
                    k \in DOMAIN logins /\ (logins[k].check = "done" \/ k = i)
        BY <2>2
      <3>2. QED  BY <1>1, <2>4, <2>5, <3>1, LaterKept DEF IInv, Grow
    <2>7. AlertsInv' /\ Weighed'
      BY <1>1, <2>4, AlertsKept, WeighedKept DEF IInv, Grow
    <2>8. Jobs' /\ Alone'
      BY <1>0, <1>1, <2>2, <2>3, <2>4, WorkerStep DEF Holding, Searching
    <2>9. QED  BY <2>4, <2>6, <2>7, <2>8 DEF IInv
  <1>3. CASE ~PendingAlert(logins[i].user, logins[i].ip)
    <2>1. Goto(w, "create") /\ UNCHANGED <<logins, job, found>>
      BY <1>0, <1>3 DEF Look
    <2>2. Rows' /\ OthersWait(w) /\ pc'[w] = "create"
      BY <1>1, <2>1, Still DEF Goto, Rows, OthersWait
    <2>3. Grow
      BY <1>1, <2>1, Still DEF Grow
    <2>4. LaterNotices'
      BY <2>1, <2>2, <2>3, LaterUndisturbed DEF IInv, Grow
    <2>5. AlertsInv' /\ Weighed'
      BY <1>1, <2>2, <2>3, AlertsKept, WeighedKept DEF IInv, Grow
    <2>6. Holding(w)'
      BY <1>1, <2>1, <2>2 DEF Holding, Searching
    <2>7. Jobs' /\ Alone'
      BY <1>1, <2>1, <2>2, <2>3, <2>6, WorkerStep DEF Searching
    <2>8. QED  BY <2>2, <2>4, <2>5, <2>7 DEF IInv
  <1>4. QED  BY <1>2, <1>3

\* The row an alert is appended with.
LEMMA AlertAppended ==
    ASSUME Rows, NEW e \in Alert, alerts' = Append(alerts, e)
    PROVE  /\ alerts' \in Seq(Alert) /\ AlertsGrow
           /\ Len(alerts') \in DOMAIN alerts'
           /\ alerts'[Len(alerts')] = e
           /\ \A k \in DOMAIN alerts' \ DOMAIN alerts : alerts'[k] = e
  <1>1. /\ alerts' \in Seq(Alert) /\ Len(alerts) \in Nat
        /\ DOMAIN alerts' = DOMAIN alerts \cup {Len(alerts) + 1}
        /\ Len(alerts') = Len(alerts) + 1
        /\ alerts'[Len(alerts) + 1] = e
        /\ \A k \in DOMAIN alerts : alerts'[k] = alerts[k]
    BY Appended DEF Rows
  <1>2. QED  BY <1>1 DEF AlertsGrow

LEMMA LoginRow ==
    ASSUME Rows, NEW i \in DOMAIN logins
    PROVE  logins[i].user \in Users /\ logins[i].ip \in Ips
  <1>1. logins[i] \in Login
    BY DEF Rows
  <1>2. QED  BY <1>1 DEF Login

LEMMA CreateSharedIpKeeps ==
    ASSUME IInv, NEW w \in TaskWorkers, CreateSharedIp(w)
    PROVE  IInv'
  <1>0. PICK i : i = job[w].of
    OBVIOUS
  <1>1. /\ UNCHANGED <<withdrawals, money, job>> /\ Rows
        /\ Searching(w) /\ i \in DOMAIN logins /\ logins[i].check = "running"
        /\ found[w] \subseteq Users \ {logins[i].user}
    BY <1>0 DEF CreateSharedIp, IInv, Jobs, Holding, Searching
  <1>2. PICK e : e = SharedIp(logins[i].user, logins[i].ip, found[w])
    OBVIOUS
  <1>3. /\ e \in Alert /\ e.reason = "SHARED_IP" /\ e.user = logins[i].user
        /\ e.about = logins[i].ip /\ e.others = found[w]
    BY <1>1, <1>2, LoginRow DEF SharedIp, Alert, Status
  <1>4. alerts' = Append(alerts, e)
    BY <1>0, <1>2 DEF CreateSharedIp
  <1>5. /\ alerts' \in Seq(Alert) /\ AlertsGrow
        /\ Len(alerts') \in DOMAIN alerts' /\ alerts'[Len(alerts')] = e
        /\ \A k \in DOMAIN alerts' \ DOMAIN alerts : alerts'[k] = e
    BY <1>1, <1>3, <1>4, AlertAppended
  <1>6. /\ logins' \in Seq(Login) /\ DOMAIN logins' = DOMAIN logins
        /\ \A k \in DOMAIN logins :
               /\ logins'[k].user = logins[k].user
               /\ logins'[k].ip = logins[k].ip
               /\ logins'[k].age = logins[k].age
               /\ logins'[k].check = IF k = i THEN "done" ELSE logins[k].check
    BY <1>0, <1>1, LoginColumn DEF CreateSharedIp, Rows, Checks
  <1>7. /\ pc' = [pc EXCEPT ![w] = "trace"]
        /\ found' = [found EXCEPT ![w] = Len(alerts')]
    BY DEF CreateSharedIp, Goto
  <1>8. /\ DOMAIN pc' = TaskWorkers /\ DOMAIN found' = TaskWorkers
        /\ pc'[w] = "trace" /\ found'[w] = Len(alerts') /\ OthersWait(w)
    BY <1>1, <1>7 DEF Rows, OthersWait
  <1>9. Rows' /\ Grow
    BY <1>1, <1>5, <1>6, <1>8, Still DEF Rows, Grow, LoginsGrow
  <1>10. \A k \in DOMAIN logins : Coincide(k, i) => Noticed(k, i)'
    <2> SUFFICES ASSUME NEW k \in DOMAIN logins, Coincide(k, i)
                 PROVE  Noticed(k, i)'
      OBVIOUS
    <2>1. logins'[k].ip = logins[i].ip /\ logins'[i].user = logins[i].user
      BY <1>1, <1>6 DEF Coincide
    <2>2. QED  BY <1>3, <1>5, <2>1 DEF Noticed
  <1>11. LaterNotices'
    <2>1. \A k \in DOMAIN logins' :
              logins'[k].check = "done" =>
                  k \in DOMAIN logins /\ (logins[k].check = "done" \/ k = i)
      BY <1>6
    <2>2. QED  BY <1>1, <1>9, <1>10, <2>1, LaterKept DEF IInv, Grow
  <1>12. AlertsInv'
    BY <1>1, <1>3, <1>5, <1>9, AlertsKept DEF IInv, Grow
  <1>13. Weighed'
    BY <1>1, <1>9, WeighedKept DEF IInv
  <1>14. Holding(w)'
    BY <1>5, <1>8 DEF Holding, Searching
  <1>15. Jobs' /\ Alone'
    BY <1>0, <1>1, <1>6, <1>8, <1>9, <1>14, WorkerStep DEF Searching
  <1>16. QED  BY <1>9, <1>11, <1>12, <1>13, <1>15 DEF IInv

LEMMA TakeWithdrawalKeeps ==
    ASSUME IInv, NEW w \in TaskWorkers, NEW i \in DOMAIN withdrawals,
           TakeWithdrawal(w, i)
    PROVE  IInv'
  <1>1. /\ UNCHANGED <<logins, money, alerts>> /\ Rows
        /\ withdrawals[i].check = "queued"
    BY DEF TakeWithdrawal, IInv
  <1>2. PICK u : u = withdrawals[i].user
    OBVIOUS
  <1>3. /\ u \in Users /\ withdrawals[i].had \in Nat /\ oldDeposits[u] \in Nat
        /\ withdrawals[i].had <= deposited[u]
    BY <1>1, <1>2, WithdrawalRow DEF Rows, Money, IInv, Weighed
  <1>4. ASSUME NEW c \in {"early", "running"},
               withdrawals' \in Seq(Withdrawal),
               DOMAIN withdrawals' = DOMAIN withdrawals,
               \A k \in DOMAIN withdrawals :
                   /\ withdrawals'[k].user = withdrawals[k].user
                   /\ withdrawals'[k].had = withdrawals[k].had
                   /\ k # i => withdrawals'[k].expired = withdrawals[k].expired
                   /\ withdrawals'[k].state = withdrawals[k].state
                   /\ withdrawals'[k].check =
                          IF k = i THEN c ELSE withdrawals[k].check
        PROVE  /\ Grow /\ LaterNotices' /\ AlertsInv'
               /\ Rows' => Weighed'
    <2>1. Grow
      BY <1>1, <1>4, Still DEF Grow, WithdrawalsGrow
    <2>2. LaterNotices'
      BY <1>1 DEF IInv, LaterNotices, Coincide, Noticed
    <2>3. AlertsInv'
      BY <1>1, <2>1, AlertsKept DEF IInv, Grow
    <2>4. Rows' => Weighed'
      <3>1. \A k \in DOMAIN withdrawals :
                withdrawals'[k].check = "done" => withdrawals[k].check = "done"
        BY <1>4
      <3>2. QED  BY <1>1, <1>4, <2>1, <3>1, WeighedKept DEF IInv
    <2>5. QED  BY <2>1, <2>2, <2>3, <2>4
  <1>5. CASE withdrawals[i].state # "committed"
    <2>1. withdrawals' = [withdrawals EXCEPT ![i].check = "early"] /\ UNCHANGED local
      BY <1>5 DEF TakeWithdrawal
    <2>2. /\ withdrawals' \in Seq(Withdrawal)
          /\ DOMAIN withdrawals' = DOMAIN withdrawals
          /\ \A k \in DOMAIN withdrawals :
                 /\ withdrawals'[k].user = withdrawals[k].user
                 /\ withdrawals'[k].had = withdrawals[k].had
                 /\ withdrawals'[k].expired = withdrawals[k].expired
                 /\ withdrawals'[k].state = withdrawals[k].state
                 /\ withdrawals'[k].check =
                        IF k = i THEN "early" ELSE withdrawals[k].check
      BY <1>1, <2>1, WithdrawalColumn DEF Rows
    <2>3. Rows'
      BY <1>1, <2>1, <2>2, Still DEF Rows, local
    <2>4. Grow /\ LaterNotices' /\ AlertsInv' /\ Weighed'
      BY <1>4, <2>2, <2>3
    <2>5. Alone'
      BY <2>1 DEF IInv, Alone, Searching, local
    <2>6. Jobs'
      BY <1>1, <2>1, <2>2, <2>3, <2>4, JobsStay DEF IInv
    <2>7. QED  BY <2>3, <2>4, <2>5, <2>6 DEF IInv
  <1>6. CASE withdrawals[i].state = "committed"
    <2>1. PICK read : read = [deposits |-> deposited[u] - oldDeposits[u],
                              stakesBefore |-> oldStakes[u]]
      OBVIOUS
    <2>2. /\ withdrawals' = [withdrawals EXCEPT ![i].check = "running",
                                                ![i].expired = oldDeposits[u]]
          /\ Begin(w, CheckWithdrawal(i), read, "weigh")
      BY <1>2, <1>6, <2>1 DEF TakeWithdrawal, OpenWindow
    <2>3. /\ withdrawals' \in Seq(Withdrawal)
          /\ DOMAIN withdrawals' = DOMAIN withdrawals
          /\ withdrawals'[i].expired = oldDeposits[u]
          /\ \A k \in DOMAIN withdrawals :
                 /\ withdrawals'[k].user = withdrawals[k].user
                 /\ withdrawals'[k].had = withdrawals[k].had
                 /\ k # i => withdrawals'[k].expired = withdrawals[k].expired
                 /\ withdrawals'[k].state = withdrawals[k].state
                 /\ withdrawals'[k].check =
                        IF k = i THEN "running" ELSE withdrawals[k].check
      BY <1>1, <1>3, <2>2, WithdrawalOpened DEF Rows
    <2>4. /\ DOMAIN pc' = TaskWorkers /\ DOMAIN job' = TaskWorkers
          /\ DOMAIN found' = TaskWorkers /\ pc'[w] = "weigh"
          /\ job'[w] = CheckWithdrawal(i) /\ found'[w] = read /\ OthersWait(w)
      BY <1>1, <2>2, BeginFacts
    <2>5. job'[w].of = i
      BY <2>4 DEF CheckWithdrawal
    <2>6. Rows'
      BY <1>1, <2>3, <2>4, Still DEF Rows
    <2>7. Grow /\ LaterNotices' /\ AlertsInv' /\ Weighed'
      BY <1>4, <2>3, <2>6
    <2>8. Window(found[w], withdrawals[job[w].of])'
      <3>1. /\ deposited[u] \in Nat /\ oldDeposits[u] \in Nat
            /\ oldStakes[u] \in Nat /\ wagered[u] \in Nat
            /\ oldDeposits[u] <= deposited[u] /\ oldStakes[u] <= wagered[u]
        BY <1>1, <1>3 DEF Rows, Money
      <3>2. /\ read.deposits = deposited[u] - oldDeposits[u]
            /\ read.stakesBefore = oldStakes[u]
        BY <2>1
      <3>3. /\ withdrawals'[i].user = u /\ wagered' = wagered
            /\ withdrawals'[i].had = withdrawals[i].had
        BY <1>1, <1>2, <2>3 DEF money
      <3>4. QED
        BY <1>3, <2>3, <2>4, <2>5, <3>1, <3>2, <3>3 DEF Window
    <2>9. Holding(w)'
      BY <1>6, <2>3, <2>4, <2>5, <2>8 DEF Holding, Searching
    <2>10. Jobs' /\ Alone'
      BY <1>1, <2>3, <2>4, <2>5, <2>6, <2>7, <2>9, WorkerStep DEF Searching
    <2>11. QED  BY <2>6, <2>7, <2>10 DEF IInv
  <1>7. QED  BY <1>5, <1>6

LEMMA WeighKeeps ==
    ASSUME IInv, NEW w \in TaskWorkers, Weigh(w)
    PROVE  IInv'
  <1>0. PICK i : i = job[w].of
    OBVIOUS
  <1>1. PICK u : u = withdrawals[i].user
    OBVIOUS
  <1>2. /\ UNCHANGED <<logins, money>> /\ Rows /\ pc[w] = "weigh"
        /\ i \in DOMAIN withdrawals /\ withdrawals[i].state = "committed"
        /\ Window(found[w], withdrawals[i])
    BY <1>0 DEF Weigh, IInv, Jobs, Holding
  <1>3. u \in Users /\ i \in Nat
    BY <1>1, <1>2, WithdrawalRow
  <1>4. /\ withdrawals' \in Seq(Withdrawal)
        /\ DOMAIN withdrawals' = DOMAIN withdrawals
        /\ \A k \in DOMAIN withdrawals :
               /\ withdrawals'[k].user = withdrawals[k].user
               /\ withdrawals'[k].had = withdrawals[k].had
               /\ withdrawals'[k].expired = withdrawals[k].expired
               /\ withdrawals'[k].state = withdrawals[k].state
               /\ withdrawals'[k].check = IF k = i THEN "done" ELSE withdrawals[k].check
    <2>1. withdrawals' = [withdrawals EXCEPT ![i].check = "done"]
      BY <1>0 DEF Weigh
    <2>2. "done" \in Checks
      BY DEF Checks
    <2>3. QED  BY <1>2, <2>1, <2>2, WithdrawalColumn DEF Rows
  <1>5. WithdrawalsGrow
    BY <1>4 DEF WithdrawalsGrow
  <1> DEFINE quick == Quick(found[w].deposits, wagered[u] - found[w].stakesBefore)
  <1>6. CASE quick
    <2>1. PICK e : e = DepWd(u, i)
      OBVIOUS
    <2>2. /\ e \in Alert /\ e.reason = "DEP_WD" /\ e.user = u
          /\ e.about = i /\ e.others = {}
      BY <1>3, <2>1 DEF DepWd, Alert, Status
    <2>3. /\ alerts' = Append(alerts, e) /\ UNCHANGED job
          /\ found' = [found EXCEPT ![w] = Len(alerts')]
          /\ pc' = [pc EXCEPT ![w] = "trace"]
      BY <1>0, <1>1, <1>6, <2>1 DEF Weigh, Goto
    <2>4. /\ alerts' \in Seq(Alert) /\ AlertsGrow
          /\ Len(alerts') \in DOMAIN alerts' /\ alerts'[Len(alerts')] = e
          /\ \A k \in DOMAIN alerts' \ DOMAIN alerts : alerts'[k] = e
      BY <1>2, <2>2, <2>3, AlertAppended
    <2>5. /\ DOMAIN pc' = TaskWorkers /\ DOMAIN found' = TaskWorkers
          /\ pc'[w] = "trace" /\ found'[w] = Len(alerts') /\ OthersWait(w)
      BY <1>2, <2>3 DEF Rows, OthersWait
    <2>6. Rows' /\ Grow
      BY <1>2, <1>4, <1>5, <2>3, <2>4, <2>5, Still DEF Rows, Grow
    <2>7. LaterNotices'
      BY <1>2, <2>6, LaterUndisturbed DEF IInv, Grow
    <2>8. AlertsInv'
      BY <1>2, <2>2, <2>4, <2>6, AlertsKept DEF IInv, Grow
    <2>9. \E a \in DOMAIN alerts' : alerts'[a].reason = "DEP_WD" /\ alerts'[a].about = i
      BY <2>2, <2>4
    <2>10. Weighed'
      <3>1. \A k \in DOMAIN withdrawals :
                withdrawals'[k].check = "done" => withdrawals[k].check = "done" \/ k = i
        BY <1>4
      <3>2. QED  BY <1>2, <1>4, <2>6, <2>9, <3>1, WeighedKept DEF IInv
    <2>11. Holding(w)'
      BY <2>4, <2>5 DEF Holding, Searching
    <2>12. Jobs' /\ Alone'
      BY <1>0, <1>2, <1>4, <2>5, <2>6, <2>11, WorkerStep DEF Searching
    <2>13. QED  BY <2>6, <2>7, <2>8, <2>10, <2>12 DEF IInv
  <1>7. CASE ~quick
    <2>1. Return(w) /\ UNCHANGED alerts
      BY <1>0, <1>1, <1>7 DEF Weigh
    <2>2. /\ DOMAIN pc' = TaskWorkers /\ DOMAIN job' = TaskWorkers
          /\ DOMAIN found' = TaskWorkers /\ pc'[w] = "idle" /\ OthersWait(w)
      BY <1>2, <2>1, ReturnFacts
    <2>3. Rows' /\ Grow
      BY <1>2, <1>4, <1>5, <2>1, <2>2, Still DEF Rows, Grow
    <2>4. LaterNotices'
      BY <1>2, <2>3, LaterUndisturbed DEF IInv, Grow
    <2>5. AlertsInv'
      BY <2>1, <2>3, AlertsKept DEF IInv, Grow
    <2>6. ~(withdrawals[i].had > withdrawals[i].expired /\ wagered[u] = 0)
      <3>1. /\ wagered[u] \in Nat /\ found[w].deposits \in Nat
            /\ found[w].stakesBefore \in Nat /\ found[w].stakesBefore <= wagered[u]
            /\ withdrawals[i].had > withdrawals[i].expired => found[w].deposits > 0
        BY <1>1, <1>2, <1>3 DEF Window, Rows, Money
      <3>2. QED  BY <1>7, <3>1 DEF Quick
    <2>7. Weighed'
      <3>1. \A k \in DOMAIN withdrawals :
                withdrawals'[k].check = "done" => withdrawals[k].check = "done" \/ k = i
        BY <1>4
      <3>2. QED  BY <1>1, <1>2, <1>4, <2>3, <2>6, <3>1, WeighedKept DEF IInv
    <2>8. Jobs' /\ Alone'
      BY <1>0, <1>2, <1>4, <2>2, <2>3, WorkerStep DEF Holding, Searching
    <2>9. QED  BY <2>3, <2>4, <2>5, <2>7, <2>8 DEF IInv
  <1>8. QED  BY <1>6, <1>7

LEMMA TraceKeeps ==
    ASSUME IInv, NEW w \in TaskWorkers, Trace(w)
    PROVE  IInv'
  <1>1. /\ UNCHANGED facts /\ Rows /\ Return(w) /\ pc[w] = "trace"
        /\ found[w] \in DOMAIN alerts
    BY DEF Trace, IInv, Jobs, Holding
  <1>2. /\ alerts' \in Seq(Alert) /\ DOMAIN alerts' = DOMAIN alerts
        /\ \A a \in DOMAIN alerts :
               /\ alerts'[a].user = alerts[a].user
               /\ alerts'[a].reason = alerts[a].reason
               /\ alerts'[a].about = alerts[a].about
               /\ alerts'[a].others = alerts[a].others
    BY <1>1, AlertTraced DEF Trace, Rows
  <1>3. /\ DOMAIN pc' = TaskWorkers /\ DOMAIN job' = TaskWorkers
        /\ DOMAIN found' = TaskWorkers /\ pc'[w] = "idle" /\ OthersWait(w)
    BY <1>1, ReturnFacts
  <1>4. Rows' /\ Grow
    BY <1>1, <1>2, <1>3, Still DEF Rows, Grow, AlertsGrow, facts
  <1>5. UNCHANGED <<logins, withdrawals, money>>
    BY <1>1 DEF facts
  <1>6. LaterNotices'
    BY <1>1, <1>4, <1>5, LaterUndisturbed DEF IInv, Grow
  <1>7. AlertsInv'
    BY <1>2, <1>4, AlertsKept DEF IInv, Grow
  <1>8. Weighed'
    BY <1>1, <1>4, <1>5, WeighedKept DEF IInv
  <1>9. Jobs' /\ Alone'
    BY <1>1, <1>3, <1>4, <1>5, WorkerStep DEF Holding, Searching
  <1>10. QED  BY <1>4, <1>6, <1>7, <1>8, <1>9 DEF IInv

LEMMA LoseKeeps ==
    ASSUME IInv, NEW w \in TaskWorkers, Lose(w)
    PROVE  IInv'
  <1>0. PICK i : i = job[w].of
    OBVIOUS
  <1>1. /\ UNCHANGED <<money, alerts>> /\ Rows /\ Return(w)
        /\ Holding(w)
    BY DEF Lose, IInv, Jobs
  <1>2. /\ logins' \in Seq(Login) /\ DOMAIN logins' = DOMAIN logins /\ LoginsGrow
        /\ \A k \in DOMAIN logins :
               \/ logins'[k].check = logins[k].check
               \/ Searching(w) /\ k = i /\ logins'[k].check = "lost"
    <2>1. CASE Searching(w)
      <3>1. i \in DOMAIN logins /\ logins' = [logins EXCEPT ![i].check = "lost"]
        BY <1>0, <1>1, <2>1 DEF Lose, Holding, Searching
      <3>2. "lost" \in Checks
        BY DEF Checks
      <3>3. /\ logins' \in Seq(Login) /\ DOMAIN logins' = DOMAIN logins
            /\ \A k \in DOMAIN logins :
                   /\ logins'[k].user = logins[k].user
                   /\ logins'[k].ip = logins[k].ip
                   /\ logins'[k].age = logins[k].age
                   /\ logins'[k].check = IF k = i THEN "lost" ELSE logins[k].check
        BY <1>1, <3>1, <3>2, LoginColumn DEF Rows
      <3>4. QED  BY <2>1, <3>3 DEF LoginsGrow
    <2>2. CASE ~Searching(w)
      BY <1>1, <2>2, Still DEF Lose, Searching, Rows
    <2>3. QED  BY <2>1, <2>2
  <1>3. /\ withdrawals' \in Seq(Withdrawal) /\ WithdrawalsGrow
        /\ DOMAIN withdrawals' = DOMAIN withdrawals
        /\ \A k \in DOMAIN withdrawals :
               \/ withdrawals'[k].check = withdrawals[k].check
               \/ pc[w] = "weigh" /\ k = i /\ withdrawals'[k].check = "lost"
    <2>1. CASE pc[w] = "weigh"
      <3>1. /\ i \in DOMAIN withdrawals
            /\ withdrawals' = [withdrawals EXCEPT ![i].check = "lost"]
        BY <1>0, <1>1, <2>1 DEF Lose, Holding
      <3>2. "lost" \in Checks
        BY DEF Checks
      <3>3. /\ withdrawals' \in Seq(Withdrawal)
            /\ DOMAIN withdrawals' = DOMAIN withdrawals
            /\ \A k \in DOMAIN withdrawals :
                   /\ withdrawals'[k].user = withdrawals[k].user
                   /\ withdrawals'[k].had = withdrawals[k].had
                   /\ withdrawals'[k].expired = withdrawals[k].expired
                   /\ withdrawals'[k].state = withdrawals[k].state
                   /\ withdrawals'[k].check =
                          IF k = i THEN "lost" ELSE withdrawals[k].check
        BY <1>1, <3>1, <3>2, WithdrawalColumn DEF Rows
      <3>4. QED  BY <2>1, <3>3 DEF WithdrawalsGrow
    <2>2. CASE pc[w] # "weigh"
      BY <1>1, <2>2, Still DEF Lose, Rows
    <2>3. QED  BY <2>1, <2>2
  <1>4. /\ DOMAIN pc' = TaskWorkers /\ DOMAIN job' = TaskWorkers
        /\ DOMAIN found' = TaskWorkers /\ pc'[w] = "idle" /\ OthersWait(w)
    BY <1>1, ReturnFacts
  <1>5. Rows' /\ Grow
    BY <1>1, <1>2, <1>3, <1>4, Still DEF Rows, Grow
  <1>6. LaterNotices'
    <2>1. \A k \in DOMAIN logins' :
              logins'[k].check = "done" =>
                  k \in DOMAIN logins /\ logins[k].check = "done"
      BY <1>2
    <2>2. QED  BY <1>1, <1>5, <2>1, LaterUndisturbed DEF IInv, Grow
  <1>7. AlertsInv'
    BY <1>1, <1>5, AlertsKept DEF IInv, Grow
  <1>8. Weighed'
    <2>1. \A k \in DOMAIN withdrawals :
              withdrawals'[k].check = "done" => withdrawals[k].check = "done"
      BY <1>3
    <2>2. QED  BY <1>1, <1>3, <1>5, <2>1, WeighedKept DEF IInv
  <1>9. Jobs' /\ Alone'
    BY <1>0, <1>2, <1>3, <1>4, <1>5, WorkerStep DEF Holding, Searching
  <1>10. QED  BY <1>5, <1>6, <1>7, <1>8, <1>9 DEF IInv

-----------------------------------------------------------------------------
(***************************************************************************)
(* The invariant and what it shows.                                        *)
(***************************************************************************)
LEMMA InitHolds == Init => IInv
  BY DEF Init, IInv, Rows, Money, Jobs, Holding, Searching, Alone, AlertsInv,
         LaterNotices, Weighed

LEMMA NextKeeps == IInv /\ [Next]_vars => IInv'
  <1> SUFFICES ASSUME IInv, [Next]_vars  PROVE  IInv'
    OBVIOUS
  <1>1. CASE UNCHANGED vars
    <2>1. UNCHANGED <<logins, withdrawals, deposited, wagered, oldDeposits,
                      oldStakes, alerts, pc, job, found>>
      BY <1>1 DEF vars, facts, money, local
    <2>2. QED
      BY <2>1 DEF IInv, Rows, Money, Jobs, Holding, Window, Searching, Alone,
                  AlertsInv, LaterNotices, Coincide, Noticed, Weighed
  <1>2. ASSUME NEW w \in TaskWorkers, TaskStep(w) \/ Lose(w)  PROVE  IInv'
    BY <1>2, TakeLoginKeeps, TakeWithdrawalKeeps, LookKeeps, CreateSharedIpKeeps,
       WeighKeeps, TraceKeeps, LoseKeeps DEF TaskStep
  <1>3. ASSUME NEW u \in Players, Withdraw(u) \/
                   \E amount \in Amounts :
                       \/ Deposit(u, amount) \/ AgeDeposit(u, amount)
                       \/ Wager(u, amount) \/ AgeStake(u, amount)
        PROVE  IInv'
    BY <1>3, PlayersAssumption, WithdrawKeeps, MoneyKeeps
  <1>4. QED
    BY <1>1, <1>2, <1>3, LogInKeeps, LoginRowKeeps, EndKeeps, ReviewKeeps DEF Next

LEMMA Inductive == Spec => []IInv
  BY InitHolds, NextKeeps, PTL DEF Spec

\* The rows, the tasks and the workers of the compliance module stay inside
\* their types, and a task that is running is held by its worker.
THEOREM TypeCorrect == Spec => []TypeOK
  <1>1. IInv => TypeOK
    <2> SUFFICES ASSUME IInv  PROVE  TypeOK
      OBVIOUS
    <2>1. \A k \in DOMAIN alerts : alerts[k] \in Alert
      BY DEF IInv, Rows
    <2>2. \A k \in DOMAIN alerts :
              /\ alerts[k].user \in Users /\ alerts[k].status \in Status
              /\ alerts[k].others \subseteq Users \ {alerts[k].user}
      BY <2>1 DEF Alert, IInv, AlertsInv
    <2>3. /\ \A i \in DOMAIN logins : logins[i] \in Login
          /\ \A i \in DOMAIN withdrawals : withdrawals[i] \in Withdrawal
          /\ Money
      BY DEF IInv, Rows
    <2>4. QED
      BY <2>2, <2>3 DEF TypeOK, Money, IInv, Jobs, Holding, Searching, Login,
                        Withdrawal
  <1>2. QED  BY <1>1, Inductive, PTL

\* Two users who log in from one address leave an alert on one of them, in
\* whatever order their searches run, unless one is lost: the row of a login
\* is committed before its search is queued.
THEOREM LoginsAreCompared == Spec => []SharedAddressNoticed
  <1>1. IInv => SharedAddressNoticed
    <2> SUFFICES ASSUME IInv, NEW i \in DOMAIN logins, NEW j \in DOMAIN logins,
                        Coincide(i, j), logins[i].check = "done",
                        logins[j].check = "done"
                 PROVE  Noticed(i, j)
      BY DEF SharedAddressNoticed
    <2>1. i \in Nat /\ j \in Nat
      BY DEF IInv, Rows
    <2>2. CASE i < j
      BY <2>2 DEF IInv, LaterNotices
    <2>3. CASE j < i
      <3>1. Noticed(j, i)
        BY <2>3 DEF IInv, LaterNotices, Coincide
      <3>2. QED  BY <3>1 DEF Noticed, Coincide
    <2>4. i # j
      BY DEF Coincide
    <2>5. QED  BY <2>1, <2>2, <2>3, <2>4
  <1>2. QED  BY <1>1, Inductive, PTL

\* A withdrawal of a user who deposited and never bet leaves an alert, unless
\* its task ran before the commit, was lost, or ran when every deposit from
\* before the withdrawal was a day old.
THEOREM WithdrawalsAreWeighed == Spec => []WithdrawalNoticedInTime
  <1>1. IInv => WithdrawalNoticedInTime
    BY DEF IInv, Weighed, WithdrawalNoticedInTime
  <1>2. QED  BY <1>1, Inductive, PTL

\* No alert is about a withdrawal that was undone.
THEOREM UndoneLeavesNoAlert == Spec => []AlertsAreOfCommitted
  <1>1. IInv => AlertsAreOfCommitted
    BY DEF IInv, AlertsInv, AlertsAreOfCommitted
  <1>2. QED  BY <1>1, Inductive, PTL
=============================================================================
