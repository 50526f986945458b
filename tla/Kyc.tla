-------------------------------- MODULE Kyc ---------------------------------
(***************************************************************************)
(* Accounts and their KYC profiles (apps/accounts).                        *)
(*                                                                         *)
(* Every request loads the profile, decides on that copy and saves the     *)
(* whole row, all its columns, without a lock and without a transaction:   *)
(* between the two any other request, the verification task or the admin   *)
(* form may save the same row.  The registration makes the user, the       *)
(* profile and the mail one after the other; confirming the email saves    *)
(* the user and then queues the verification.                              *)
(*                                                                         *)
(* Time is counted from 1.  0 stands for None: no limit, no end of an      *)
(* exclusion, no raise yet.  One of the three deposit windows is kept.     *)
(***************************************************************************)
EXTENDS Integers

CONSTANTS
    Users,           \* user names
    Dnis,
    WebWorkers, TaskWorkers,
    Limits,          \* deposit limits, positive
    Days,            \* lengths of an exclusion, 0 for an indefinite one
    Cooldown,        \* COOLDOWN_HORAS
    MaxFails,        \* wrong passwords that block, 5 in the code
    Offered,         \* requests that clients send in this instance
    MaxTime          \* bound on the clock

VARIABLES
    accounts,        \* users with a CustomUser row
    confirmed,       \* is_email_verified
    profile,         \* the PerfilKYC row of each user
    mailed,          \* users with a verification link in their mail
    queue,           \* verificar_kyc_async tasks waiting, by user
    fails,           \* login_fails_<username> in the cache
    depositors,      \* users who have made a deposit
    bettors,         \* users who have placed a bet
    vettedBy,        \* history: who has verified a user, "task" or "staff"
    lapsed,          \* history: users whose verification was lost, or undone
    now,
    pc, job, copy    \* a worker's place, its request and the row it loaded

rows == <<accounts, confirmed, profile>>
outside == <<mailed, queue, fails, now>>
history == <<depositors, bettors, vettedBy, lapsed>>
local == <<pc, job, copy>>
vars == <<rows, outside, history, local>>

Workers == WebWorkers \cup TaskWorkers

Status == {"PENDING", "VERIFIED", "BLOCKED", "SELF_EXCLUDED"}

NoProfile == [status |-> "NONE"]

NewProfile(dni) ==
    [dni |-> dni, status |-> "PENDING", until |-> 0, limit |-> 0, raisedAt |-> 0]

HasProfile(u) == profile[u].status # "NONE"

\* is_autoexcluido
Excluded(row) ==
    /\ row.status = "SELF_EXCLUDED"
    /\ row.until = 0 \/ now < row.until

-----------------------------------------------------------------------------
(***************************************************************************)
(* Requests: what each one asks of the row it loads, and what it makes of  *)
(* that row.                                                               *)
(***************************************************************************)
Request ==
    [op: {"RegistroView"}, user: Users, dni: Dnis]
        \cup [op: {"VerificarEmailView", "VerificarKYCView", "login_view",
                   "deposit_simulated", "place_simple_bet", "place_acca_bet"},
              user: Users]
        \cup [op: {"LimitesView"}, user: Users, limit: Limits]
        \cup [op: {"AutoexclusionView"}, user: Users, days: Days]
        \cup [op: {"PerfilKYCAdmin"}, user: Users, status: Status,
              limit: Limits \cup {0}, until: 0 .. MaxTime]

ASSUME OfferedAssumption == Offered \subseteq Request

ASSUME BoundAssumption ==
    /\ MaxFails \in Nat \ {0} /\ MaxTime \in Nat \ {0}
    /\ Limits \subseteq Nat \ {0} /\ Days \subseteq Nat
    /\ Cooldown \in Nat

ASSUME WorkerAssumption == WebWorkers \cap TaskWorkers = {}

Task(u) == [op |-> "verificar_kyc_async", user |-> u]

NoJob == [op |-> "none"]

Raises(limit, row) == row.limit = 0 \/ limit > row.limit

\* Fault: staff may verify a blocked user.
AcceptedWhenBlocked(r, row) ==
    /\ r.op = "VerificarKYCView" => row.status # "VERIFIED"
    /\ r.op = "AutoexclusionView" => row.status # "BLOCKED"

\* Fault: a deposit asks for the email only.
AcceptedUnverified(r, row) ==
    r.op = "deposit_simulated" => r.user \in confirmed

\* Fault: the limits may be raised at any time.
AcceptedWithoutCooldown(r, row) ==
    /\ r.op = "VerificarKYCView" => row.status \notin {"BLOCKED", "VERIFIED"}
    /\ r.op = "AutoexclusionView" => row.status # "BLOCKED"

\* The checks of a request on the row it loaded.
Accepted(r, row) ==
    /\ r.op = "VerificarKYCView" => row.status \notin {"BLOCKED", "VERIFIED"}
    /\ r.op = "AutoexclusionView" => row.status # "BLOCKED"
    /\ r.op = "LimitesView" /\ Raises(r.limit, row) /\ row.raisedAt # 0 =>
           now - row.raisedAt >= Cooldown
    /\ r.op = "deposit_simulated" =>
           r.user \in confirmed /\ row.status = "VERIFIED"

\* The row that is saved.
Changed(r, row) ==
    CASE r.op \in {"VerificarKYCView", "verificar_kyc_async"} ->
             [row EXCEPT !.status = "VERIFIED"]
      [] r.op = "AutoexclusionView" ->
             [row EXCEPT !.status = "SELF_EXCLUDED",
                         !.until = IF r.days = 0 THEN 0 ELSE now + r.days]
      [] r.op = "LimitesView" ->
             [row EXCEPT !.limit = r.limit,
                         !.raisedAt = IF Raises(r.limit, row) THEN now ELSE @]
      [] r.op = "login_view" -> [row EXCEPT !.status = "BLOCKED"]
      [] r.op = "PerfilKYCAdmin" ->
             [row EXCEPT !.status = r.status, !.until = r.until,
                         !.limit = r.limit]

\* A row that is not PENDING any more is PENDING again when the admin form says
\* so, or when a change of limits writes back the copy it loaded before.
Unverifies(r, row) ==
    /\ Changed(r, row).status = "PENDING"
    /\ profile[r.user].status # "PENDING"

Verifiers(r) ==
    {v \in {"task", "staff"} :
        \/ v = "task" /\ r.op = "verificar_kyc_async"
        \/ v = "staff" /\ r.op = "VerificarKYCView"
        \/ v = "staff" /\ r.op = "PerfilKYCAdmin" /\ r.status = "VERIFIED"}

-----------------------------------------------------------------------------
(***************************************************************************)
(* Requests on a profile: load it, then save the changed copy.             *)
(***************************************************************************)
Goto(w, place) == pc' = [pc EXCEPT ![w] = place]

Done(w) ==
    /\ pc' = [pc EXCEPT ![w] = "idle"]
    /\ job' = [job EXCEPT ![w] = NoJob]
    /\ copy' = [copy EXCEPT ![w] = NoProfile]

SavesProfile == {"VerificarKYCView", "AutoexclusionView", "LimitesView",
                 "PerfilKYCAdmin"}

Load(w) ==
    /\ w \in WebWorkers /\ pc[w] = "idle"
    /\ \E r \in Offered :
           /\ r.op \in SavesProfile \cup {"deposit_simulated"}
           /\ HasProfile(r.user) /\ Accepted(r, profile[r.user])
           /\ job' = [job EXCEPT ![w] = r]
           /\ copy' = [copy EXCEPT ![w] = profile[r.user]]
           /\ Goto(w, IF r.op \in SavesProfile THEN "save" ELSE "deposit")
    /\ UNCHANGED <<rows, outside, history>>

\* The row is written back with every column of the copy.
Save(w) ==
    /\ pc[w] = "save"
    /\ profile' = [profile EXCEPT ![job[w].user] = Changed(job[w], copy[w])]
    /\ vettedBy' = [vettedBy EXCEPT ![job[w].user] = @ \cup Verifiers(job[w])]
    /\ lapsed' = lapsed \cup
                     {u \in {job[w].user} : Unverifies(job[w], copy[w])}
    /\ IF job[w].op = "login_view"
       THEN Goto(w, "clear") /\ UNCHANGED <<job, copy>>
       ELSE Done(w)
    /\ UNCHANGED <<accounts, confirmed, outside, depositors, bettors>>

\* The wallet opens its transaction after the guards.
Deposit(w) ==
    /\ pc[w] = "deposit"
    /\ depositors' = depositors \cup {job[w].user}
    /\ Done(w)
    /\ UNCHANGED <<rows, outside, bettors, vettedBy, lapsed>>

\* Placements ask for the email (the simple ones) and for nothing else here.
PlaceBet(r) ==
    /\ \/ r.op = "place_simple_bet" /\ r.user \in confirmed
       \/ r.op = "place_acca_bet"
    /\ r.user \in accounts
    /\ bettors' = bettors \cup {r.user}
    /\ UNCHANGED <<rows, outside, depositors, vettedBy, lapsed, local>>

-----------------------------------------------------------------------------
(***************************************************************************)
(* Registration, the email and the verification it starts.                 *)
(***************************************************************************)
DniTaken(dni) == \E u \in Users : HasProfile(u) /\ profile[u].dni = dni

Validate(w) ==
    /\ w \in WebWorkers /\ pc[w] = "idle"
    /\ \E r \in Offered :
           /\ r.op = "RegistroView"
           /\ r.user \notin accounts /\ ~DniTaken(r.dni)
           /\ job' = [job EXCEPT ![w] = r]
           /\ Goto(w, "user")
    /\ UNCHANGED <<rows, outside, history, copy>>

CreateUser(w) ==
    /\ pc[w] = "user"
    /\ job[w].user \notin accounts
    /\ accounts' = accounts \cup {job[w].user}
    /\ Goto(w, "profile")
    /\ UNCHANGED <<confirmed, profile, outside, history, job, copy>>

\* Fault: dni without unique=True.
CreateProfileUnchecked(w) ==
    /\ pc[w] = "profile"
    /\ profile' = [profile EXCEPT ![job[w].user] = NewProfile(job[w].dni)]
    /\ Goto(w, "mail")
    /\ UNCHANGED <<accounts, confirmed, outside, history, job, copy>>

CreateProfile(w) ==
    /\ pc[w] = "profile"
    /\ ~HasProfile(job[w].user) /\ ~DniTaken(job[w].dni)
    /\ profile' = [profile EXCEPT ![job[w].user] = NewProfile(job[w].dni)]
    /\ Goto(w, "mail")
    /\ UNCHANGED <<accounts, confirmed, outside, history, job, copy>>

\* A unique constraint refuses the row; the rows made before it stay.
Collide(w) ==
    /\ \/ pc[w] = "user" /\ job[w].user \in accounts
       \/ pc[w] = "profile" /\ (HasProfile(job[w].user) \/ DniTaken(job[w].dni))
    /\ Done(w)
    /\ UNCHANGED <<rows, outside, history>>

\* Fault: the verification is queued by the registration.
MailAndQueue(w) ==
    /\ pc[w] = "mail"
    /\ mailed' = mailed \cup {job[w].user}
    /\ queue' = [queue EXCEPT ![job[w].user] = @ + 1]
    /\ Done(w)
    /\ UNCHANGED <<rows, fails, now, history>>

Mail(w) ==
    /\ pc[w] = "mail"
    /\ mailed' = mailed \cup {job[w].user}
    /\ Done(w)
    /\ UNCHANGED <<rows, queue, fails, now, history>>

OpenLink(w) ==
    /\ w \in WebWorkers /\ pc[w] = "idle"
    /\ \E r \in Offered :
           /\ r.op = "VerificarEmailView"
           /\ r.user \in mailed \ confirmed
           /\ job' = [job EXCEPT ![w] = r]
           /\ Goto(w, "confirm")
    /\ UNCHANGED <<rows, outside, history, copy>>

\* Fault: the view answers before it queues the verification.
ConfirmAndAnswer(w) ==
    /\ pc[w] = "confirm"
    /\ confirmed' = confirmed \cup {job[w].user}
    /\ Done(w)
    /\ UNCHANGED <<accounts, profile, outside, history>>

Confirm(w) ==
    /\ pc[w] = "confirm"
    /\ confirmed' = confirmed \cup {job[w].user}
    /\ Goto(w, "queue")
    /\ UNCHANGED <<accounts, profile, outside, history, job, copy>>

Queue(w) ==
    /\ pc[w] = "queue"
    /\ queue' = [queue EXCEPT ![job[w].user] = @ + 1]
    /\ Done(w)
    /\ UNCHANGED <<rows, mailed, fails, now, history>>

\* Fault: the task asks for the email before the confirmation is visible.
TakeTaskAndGiveUp(w) ==
    /\ w \in TaskWorkers /\ pc[w] = "idle"
    /\ \E u \in Users :
           /\ queue[u] > 0
           /\ queue' = [queue EXCEPT ![u] = @ - 1]
    /\ UNCHANGED <<rows, mailed, fails, now, history, local>>

\* The task begins with the call of the registry, five seconds long ...
TakeTask(w) ==
    /\ w \in TaskWorkers /\ pc[w] = "idle"
    /\ \E u \in Users :
           /\ queue[u] > 0
           /\ queue' = [queue EXCEPT ![u] = @ - 1]
           /\ job' = [job EXCEPT ![w] = Task(u)]
    /\ Goto(w, "wait")
    /\ UNCHANGED <<rows, mailed, fails, now, history, copy>>

\* ... and leaves a profile alone that is not PENDING by then.
ReadPending(w) ==
    /\ pc[w] = "wait"
    /\ IF profile[job[w].user].status = "PENDING"
       THEN /\ copy' = [copy EXCEPT ![w] = profile[job[w].user]]
            /\ Goto(w, "save")
            /\ UNCHANGED job
       ELSE Done(w)
    /\ UNCHANGED <<rows, outside, history>>

-----------------------------------------------------------------------------
(***************************************************************************)
(* Wrong passwords.  The counter is read and written back, and the profile *)
(* is loaded once more when the count is reached.                          *)
(***************************************************************************)
Mistype(w) ==
    /\ w \in WebWorkers /\ pc[w] = "idle"
    /\ \E r \in Offered :
           /\ r.op = "login_view"
           /\ r.user \in accounts /\ profile[r.user].status # "BLOCKED"
           /\ job' = [job EXCEPT ![w] = r]
           /\ Goto(w, "count")
    /\ UNCHANGED <<rows, outside, history, copy>>

\* What was read of the counter decides where the request goes on.
Count(w) ==
    /\ pc[w] = "count"
    /\ Goto(w, IF fails[job[w].user] + 1 >= MaxFails THEN "block" ELSE "set")
    /\ copy' = [copy EXCEPT ![w] =
                   [status |-> "NONE", fails |-> fails[job[w].user] + 1]]
    /\ UNCHANGED <<rows, outside, history, job>>

SetFails(w) ==
    /\ pc[w] = "set"
    /\ fails' = [fails EXCEPT ![job[w].user] = copy[w].fails]
    /\ Done(w)
    /\ UNCHANGED <<rows, mailed, queue, now, history>>

\* Fault: no hasattr, a user without a profile is saved as well.
LoadToBlockUnchecked(w) ==
    /\ pc[w] = "block"
    /\ copy' = [copy EXCEPT ![w] = profile[job[w].user]]
    /\ Goto(w, IF profile[job[w].user].status = "BLOCKED" THEN "clear" ELSE "save")
    /\ UNCHANGED <<rows, outside, history, job>>

LoadToBlock(w) ==
    /\ pc[w] = "block"
    /\ copy' = [copy EXCEPT ![w] = profile[job[w].user]]
    /\ Goto(w, IF profile[job[w].user].status \in {"NONE", "BLOCKED"}
               THEN "clear" ELSE "save")
    /\ UNCHANGED <<rows, outside, history, job>>

ClearFails(w) ==
    /\ pc[w] = "clear"
    /\ fails' = [fails EXCEPT ![job[w].user] = 0]
    /\ Done(w)
    /\ UNCHANGED <<rows, mailed, queue, now, history>>

\* A login that succeeds, or an hour without a mistake.
ForgetFails(u) ==
    /\ fails[u] > 0
    /\ fails' = [fails EXCEPT ![u] = 0]
    /\ UNCHANGED <<rows, mailed, queue, now, history, local>>

-----------------------------------------------------------------------------
\* The process of a request or of a task ends between two statements: nothing
\* of what it saved is undone, and the rest never happens.  No task is tried
\* again, and a link that has confirmed an email queues nothing more.
Abandon(w) ==
    /\ pc[w] # "idle"
    /\ lapsed' = lapsed \cup
                     {u \in {job[w].user} : \/ pc[w] = "queue"
                                            \/ job[w] = Task(u)}
    /\ Done(w)
    /\ UNCHANGED <<rows, outside, depositors, bettors, vettedBy>>

Tick ==
    /\ now < MaxTime
    /\ now' = now + 1
    /\ UNCHANGED <<rows, mailed, queue, fails, history, local>>

Init ==
    /\ accounts = {} /\ confirmed = {}
    /\ profile = [u \in Users |-> NoProfile]
    /\ mailed = {}
    /\ queue = [u \in Users |-> 0]
    /\ fails = [u \in Users |-> 0]
    /\ depositors = {} /\ bettors = {}
    /\ vettedBy = [u \in Users |-> {}]
    /\ lapsed = {}
    /\ now = 1
    /\ pc = [w \in Workers |-> "idle"]
    /\ job = [w \in Workers |-> NoJob]
    /\ copy = [w \in Workers |-> NoProfile]

WebStep(w) ==
    \/ Load(w) \/ Save(w) \/ Deposit(w)
    \/ Validate(w) \/ CreateUser(w) \/ CreateProfile(w) \/ Collide(w) \/ Mail(w)
    \/ OpenLink(w) \/ Confirm(w) \/ Queue(w)
    \/ Mistype(w) \/ Count(w) \/ SetFails(w) \/ LoadToBlock(w) \/ ClearFails(w)
    \/ Abandon(w)

TaskStep(w) == TakeTask(w) \/ ReadPending(w) \/ Save(w)

Next ==
    \/ \E w \in WebWorkers : WebStep(w)
    \/ \E w \in TaskWorkers : TaskStep(w) \/ Abandon(w)
    \/ \E r \in Offered : PlaceBet(r)
    \/ \E u \in Users : ForgetFails(u)
    \/ Tick

Spec == Init /\ [][Next]_vars

\* The worker takes what is queued and goes on with it, unless it is lost.
Fairness == \A w \in TaskWorkers : WF_vars(TaskStep(w))

FairSpec == Spec /\ Fairness

-----------------------------------------------------------------------------
(***************************************************************************)
(* Properties.                                                             *)
(***************************************************************************)
Profile ==
    [dni: Dnis, status: Status, until: Nat, limit: Limits \cup {0},
     raisedAt: 0 .. MaxTime]

TypeOK ==
    /\ confirmed \subseteq mailed /\ mailed \subseteq accounts
    /\ \A u \in Users : profile[u] \in Profile \cup {NoProfile}
    /\ \A u \in Users : HasProfile(u) => u \in accounts
    /\ queue \in [Users -> Nat] /\ fails \in [Users -> 0 .. MaxFails]
    /\ depositors \subseteq accounts /\ bettors \subseteq accounts
    /\ lapsed \subseteq accounts
    /\ \A w \in Workers :
           /\ pc[w] = "save" => copy[w] \in Profile
           /\ pc[w] # "idle" => job[w].user \in Users

\* Nobody is VERIFIED unless he confirmed his email or staff decided so, also
\* when requests that loaded other rows write theirs back.
VerifiedAreVetted ==
    \A u \in Users :
        profile[u].status = "VERIFIED" =>
            \/ "staff" \in vettedBy[u]
            \/ "task" \in vettedBy[u] /\ u \in confirmed

\* Money comes from users who confirmed their email and whose identity was
\* verified, though the guards of a deposit are read before its transaction
\* and other requests save the rows that they read.
DepositorsAreVetted ==
    \A u \in depositors : u \in confirmed /\ vettedBy[u] # {}

\* A DNI has one profile, though it is looked for before it is inserted.
OneProfilePerDni ==
    \A u, v \in Users :
        HasProfile(u) /\ HasProfile(v) /\ profile[u].dni = profile[v].dni => u = v

\* BLOCKED ends only with the admin form or with a request that had loaded
\* the profile before it was blocked.
BlockOutlivesLaterRequests ==
    [][\A u \in Users :
          profile[u].status = "BLOCKED" /\ profile'[u].status # "BLOCKED" =>
              \E w \in Workers :
                  /\ pc[w] = "save" /\ job[w].user = u
                  /\ copy[w].status # "BLOCKED" \/ job[w].op = "PerfilKYCAdmin"]_vars

\* Within the cooldown after a raise a limit rises only with the admin form or
\* with a request that replaces a row it has not seen: whoever decides on the
\* row that he replaces has waited.
RaisesWaitForCooldown ==
    [][\A u \in Users :
          /\ HasProfile(u) /\ profile[u].raisedAt # 0
          /\ profile'[u].limit # profile[u].limit
          /\ Raises(profile'[u].limit, profile[u])
          /\ now - profile[u].raisedAt < Cooldown
          => \E w \in Workers :
                 /\ pc[w] = "save" /\ job[w].user = u
                 /\ copy[w] # profile[u] \/ job[w].op = "PerfilKYCAdmin"]_vars

AboutToQueue(u) == \E w \in Workers : pc[w] = "queue" /\ job[w].user = u

InVerification(u) == \E w \in Workers : job[w] = Task(u)

\* Whoever has confirmed his email and is PENDING is on his way to be verified:
\* about to be queued, queued, or in the hands of a task.  The only others are
\* those whose request or task was lost, and those whom a later save, of an old
\* copy or of the admin form, made PENDING once more.
PendingIsExplained ==
    \A u \in confirmed :
        profile[u].status = "PENDING" =>
            AboutToQueue(u) \/ queue[u] > 0 \/ InVerification(u) \/ u \in lapsed

\* "Ahora estamos procesando tu KYC" comes true and stays true: in the end no
\* confirmed user is PENDING any more, except by one of those accidents or
\* because the request that is to queue his verification has stopped.
QueuedIsProcessed ==
    \A u \in Users :
        <>[](u \in confirmed /\ profile[u].status = "PENDING" =>
                 AboutToQueue(u) \/ u \in lapsed)

\* What AutoexclusionView tells the user: no bets while the exclusion lasts.
NoBetWhileExcluded ==
    [][\A u \in bettors' \ bettors : ~Excluded(profile[u])]_vars
=============================================================================
