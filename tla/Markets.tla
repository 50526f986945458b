------------------------------- MODULE Markets -------------------------------
(***************************************************************************)
(* The life of one event and of its markets: apps/markets, the operators'  *)
(* panel of apps/backoffice, and settle_event_markets of apps/betting.     *)
(*                                                                         *)
(* Operators, the match simulator, the clock task and the delayed          *)
(* reopening tasks all load the event, decide on what they loaded, and     *)
(* save some of its columns later; none of them keeps a lock in between.   *)
(* Saving the event has a side effect: the signal that deactivates the     *)
(* markets of an event that becomes SUSPENDED, FINISHED or CANCELLED.      *)
(***************************************************************************)
EXTENDS Integers

CONSTANTS
    Markets, Bets,
    BetMarket,       \* the market of each single bet
    Panels,          \* requests of operators served at once
    Simulator,       \* the simulate_match_progress task
    Tasks, NoTask,   \* reopening tasks that may be queued at once
    Windows,         \* lengths of a suspension an operator chooses
    GoalWindow,      \* GOAL_SUSPEND_SECONDS
    StartsAt, EndsAt,
    MaxTime          \* bound on the clock

VARIABLES
    now,
    status,          \* Event.status
    until,           \* Event.suspended_until, 0 for None
    active,          \* the markets with is_active
    task,            \* the reopening tasks handed to Celery
    pc,              \* the place of an actor in its code
    held,            \* the status in the event it has in memory
    previous,        \* _previous_status of that event
    bet              \* the state of each bet

event == <<now, status, until, active>>
panel == <<pc, held, previous>>
vars == <<event, task, panel, bet>>

EventStatus == {"SCHEDULED", "LIVE", "FINISHED", "SUSPENDED", "CANCELLED"}

\* The statuses whose signal deactivates the markets.
Closing == {"SUSPENDED", "FINISHED", "CANCELLED"}

Ended == {"FINISHED", "CANCELLED"}

Actors == Panels \cup {Simulator}

Reopening ==
    [ids: SUBSET Markets, due: 0 .. MaxTime, stage: {"queued", "running"}]

LostTask == [stage |-> "lost"]

ASSUME ActorAssumption == Simulator \notin Panels

ASSUME TaskAssumption == NoTask \notin Reopening \cup {LostTask}

ASSUME BetAssumption == BetMarket \in [Bets -> Markets]

ASSUME TimeAssumption ==
    /\ MaxTime \in Nat /\ StartsAt \in Nat /\ EndsAt \in Nat
    /\ Windows \subseteq Nat \ {0} /\ GoalWindow \in Nat \ {0}

-----------------------------------------------------------------------------
(***************************************************************************)
(* suspend_event_markets and reopen_event_markets.                         *)
(***************************************************************************)
\* Fault: the end of the window is computed backwards.
SuspendBackwards(seconds) ==
    /\ now + seconds <= MaxTime
    /\ until' = now - seconds
    /\ active' = {}
    /\ \/ \E k \in Tasks :
              /\ task[k] = NoTask
              /\ task' = [task EXCEPT ![k] = [ids |-> active,
                                              due |-> now + seconds,
                                              stage |-> "queued"]]
       \/ UNCHANGED task
    /\ UNCHANGED <<now, status>>

\* The markets that are on are switched off and remembered by the task that
\* reopens them.  When the broker cannot be reached there is no task.
Suspend(seconds) ==
    /\ now + seconds <= MaxTime
    /\ until' = now + seconds
    /\ active' = {}
    /\ \/ \E k \in Tasks :
              /\ task[k] = NoTask
              /\ task' = [task EXCEPT ![k] = [ids |-> active,
                                              due |-> now + seconds,
                                              stage |-> "queued"]]
       \/ UNCHANGED task
    /\ UNCHANGED <<now, status>>

\* Fault: a reopening gives way to a later suspension and forgets its markets.
TaskReadsUnlessSuspended(k) ==
    /\ task[k] # NoTask
    /\ task[k].stage = "queued" /\ task[k].due <= now
    /\ task' = [task EXCEPT ![k] =
                   IF status = "LIVE" /\ until <= now
                   THEN [@ EXCEPT !.stage = "running"] ELSE NoTask]
    /\ UNCHANGED <<event, panel, bet>>

\* The task loads the event, and goes on if it is LIVE.
TaskReads(k) ==
    /\ task[k] # NoTask
    /\ task[k].stage = "queued" /\ task[k].due <= now
    /\ task' = [task EXCEPT ![k] =
                   IF status = "LIVE"
                   THEN [@ EXCEPT !.stage = "running"] ELSE NoTask]
    /\ UNCHANGED <<event, panel, bet>>

\* Fault: event.save() without update_fields writes back the LIVE it loaded.
TaskReopensSavingAll(k) ==
    /\ task[k] # NoTask
    /\ task[k].stage = "running"
    /\ active' = active \cup task[k].ids
    /\ until' = 0
    /\ status' = "LIVE"
    /\ task' = [task EXCEPT ![k] = NoTask]
    /\ UNCHANGED <<now, panel, bet>>

TaskReopens(k) ==
    /\ task[k] # NoTask
    /\ task[k].stage = "running"
    /\ active' = active \cup task[k].ids
    /\ until' = 0
    /\ task' = [task EXCEPT ![k] = NoTask]
    /\ UNCHANGED <<now, status, panel, bet>>

\* The worker is lost, or its message was, or one of the saves fails (each of
\* them broadcasts inside the transaction) and all of them are undone.
\* Nothing runs the task again: what stays is a mark for the properties.
LoseTask(k) ==
    /\ task[k] \in Reopening /\ task[k].due <= now
    /\ task' = [task EXCEPT ![k] = LostTask]
    /\ UNCHANGED <<event, panel, bet>>

-----------------------------------------------------------------------------
(***************************************************************************)
(* An operator's request: it loads the event and then does one thing.      *)
(***************************************************************************)
Goto(a, place) == pc' = [pc EXCEPT ![a] = place]

Load(a) ==
    /\ Goto(a, "open")
    /\ held' = [held EXCEPT ![a] = status]
    /\ UNCHANGED previous

\* The end of the request: its event object is gone.
Return(a) ==
    /\ Goto(a, "idle")
    /\ held' = [held EXCEPT ![a] = "none"]
    /\ previous' = [previous EXCEPT ![a] = "none"]

Open(p) ==
    /\ pc[p] = "idle"
    /\ Load(p)
    /\ UNCHANGED <<event, task, bet>>

\* Any status but the one loaded, whatever _get_valid_transitions lists; the
\* pre_save signal reads the status that is stored.
ChangeStatus(p) ==
    /\ pc[p] = "open"
    /\ \E s \in EventStatus \ {held[p]} : held' = [held EXCEPT ![p] = s]
    /\ previous' = [previous EXCEPT ![p] = status]
    /\ Goto(p, "save")
    /\ UNCHANGED <<event, task, bet>>

SaveStatus(p) ==
    /\ pc[p] = "save"
    /\ status' = held[p]
    /\ IF held[p] # previous[p] /\ held[p] \in Closing
       THEN Goto(p, "signal") /\ UNCHANGED <<held, previous>>
       ELSE Return(p)
    /\ UNCHANGED <<now, until, active, task, bet>>

DeactivateMarkets(p) ==
    /\ pc[p] = "signal"
    /\ active' = {}
    /\ Return(p)
    /\ UNCHANGED <<now, status, until, task, bet>>

\* The flag is read in one statement and its negation written in another.
ToggleMarket(p) ==
    /\ pc[p] = "open"
    /\ \E m \in Markets : active' \in {active \cup {m}, active \ {m}}
    /\ Return(p)
    /\ UNCHANGED <<now, status, until, task, bet>>

CriticalEvent(p) ==
    /\ pc[p] = "open" /\ held[p] = "LIVE"
    /\ \E seconds \in Windows : Suspend(seconds)
    /\ Return(p)
    /\ UNCHANGED bet

\* event_settle_view.  The event is saved as FINISHED first, and the signal of
\* that save deactivates the markets unless the event was FINISHED already;
\* then the bets of the markets that are still active are settled.  Late are
\* the markets that another panel activates between the two statements.
Settle(p) ==
    /\ pc[p] = "open" /\ held[p] # "FINISHED"
    /\ \E late \in SUBSET (Markets \ active) :
           /\ late # {} => \E q \in Panels \ {p} : pc[q] = "open"
           /\ LET found == IF status = "FINISHED" THEN active \cup late ELSE late
              IN  bet' = [b \in Bets |->
                             IF bet[b] = "PLACED" /\ BetMarket[b] \in found
                             THEN "SETTLED" ELSE bet[b]]
    /\ status' = "FINISHED"
    /\ active' = {}
    /\ Return(p)
    /\ UNCHANGED <<now, until, task>>

\* The request does nothing more: refused, or its worker is lost, or the
\* broadcast that precedes the signal's update fails.
Leave(a) ==
    /\ pc[a] # "idle"
    /\ Return(a)
    /\ UNCHANGED <<event, task, bet>>

-----------------------------------------------------------------------------
(***************************************************************************)
(* The simulator and the clock.                                            *)
(***************************************************************************)
\* It loads the events that are LIVE and not suspended ...
SimulatorReads ==
    /\ pc[Simulator] = "idle"
    /\ status = "LIVE" /\ until <= now
    /\ Load(Simulator)
    /\ UNCHANGED <<event, task, bet>>

\* ... and suspends one in which it has somebody score.
Goal ==
    /\ pc[Simulator] = "open"
    /\ Suspend(GoalWindow)
    /\ Return(Simulator)
    /\ UNCHANGED bet

Tick ==
    /\ now < MaxTime
    /\ now' = now + 1
    /\ UNCHANGED <<status, until, active, task, panel, bet>>

AutoStart ==
    /\ status = "SCHEDULED" /\ now >= StartsAt
    /\ status' = "LIVE"
    /\ UNCHANGED <<now, until, active, task, panel, bet>>

\* The rows are locked and filtered at once; save and signal commit together.
AutoFinish ==
    /\ status = "LIVE" /\ now >= EndsAt
    /\ status' = "FINISHED"
    /\ active' = {}
    /\ UNCHANGED <<now, until, task, panel, bet>>

-----------------------------------------------------------------------------
(***************************************************************************)
(* A placement, as far as the event is concerned: checked, then committed. *)
(***************************************************************************)
Admissible(b) ==
    /\ status \in {"SCHEDULED", "LIVE"}
    /\ until <= now
    /\ BetMarket[b] \in active

CheckBet(b) ==
    /\ bet[b] = "new"
    /\ Admissible(b)
    /\ bet' = [bet EXCEPT ![b] = "checked"]
    /\ UNCHANGED <<event, task, panel>>

\* The placement commits, or fails for want of money.
EndPlacement(b) ==
    /\ bet[b] = "checked"
    /\ \E s \in {"PLACED", "new"} : bet' = [bet EXCEPT ![b] = s]
    /\ UNCHANGED <<event, task, panel>>

Init ==
    /\ now = 0
    /\ status = "SCHEDULED"
    /\ until = 0
    /\ active = Markets
    /\ task = [k \in Tasks |-> NoTask]
    /\ pc = [a \in Actors |-> "idle"]
    /\ held = [a \in Actors |-> "none"]
    /\ previous = [a \in Actors |-> "none"]
    /\ bet = [b \in Bets |-> "new"]

Operate(p) ==
    \/ Open(p) \/ ChangeStatus(p) \/ SaveStatus(p) \/ DeactivateMarkets(p)
    \/ ToggleMarket(p) \/ CriticalEvent(p) \/ Settle(p)

Next ==
    \/ \E p \in Panels : Operate(p)
    \/ \E a \in Actors : Leave(a)
    \/ SimulatorReads \/ Goal
    \/ \E k \in Tasks : TaskReads(k) \/ TaskReopens(k) \/ LoseTask(k)
    \/ Tick \/ AutoStart \/ AutoFinish
    \/ \E b \in Bets : CheckBet(b) \/ EndPlacement(b)

Spec == Init /\ [][Next]_vars

\* Time passes, and the Celery worker goes on with what is due unless it is
\* lost with it.
Fairness ==
    /\ WF_vars(Tick)
    /\ \A k \in Tasks : WF_vars(TaskReads(k) \/ TaskReopens(k))

FairSpec == Spec /\ Fairness

-----------------------------------------------------------------------------
(***************************************************************************)
(* Properties.                                                             *)
(***************************************************************************)
TypeOK ==
    /\ now \in 0 .. MaxTime
    /\ status \in EventStatus
    /\ until \in 0 .. MaxTime
    /\ active \subseteq Markets
    /\ task \in [Tasks -> Reopening \cup {LostTask, NoTask}]
    /\ pc \in [Actors -> {"idle", "open", "save", "signal"}]
    /\ held \in [Actors -> EventStatus \cup {"none"}]
    /\ previous \in [Actors -> EventStatus \cup {"none"}]
    /\ bet \in [Bets -> {"new", "checked", "PLACED", "SETTLED"}]

\* An event that is over changes its status only by the request of an
\* operator: no clock, goal or delayed reopening revives it, though each of
\* them may save an event that it loaded while it was LIVE.
OnlyOperatorsRevive ==
    [][(status \in Ended /\ status' # status) =>
          \E p \in Panels : pc[p] \in {"open", "save"} /\ pc'[p] # pc[p]]_status

\* A market that a queued reopening is to switch on is on at some later
\* moment, unless the event is no longer LIVE by then or that very task is
\* lost: overlapping suspensions leave no market behind.
EveryReopeningHappens ==
    \A k \in Tasks, m \in Markets :
        (task[k] \in Reopening /\ m \in task[k].ids)
            ~> (m \in active \/ status # "LIVE" \/ task[k] = LostTask)

\* What the operator is told after entering the result: all the bets of the
\* event have been settled.  A panel that goes from its open request to the end
\* of it with the event finished has settled.
EventSettlesItsBets ==
    [][\A p \in Panels :
          (pc[p] = "open" /\ pc'[p] = "idle" /\ status' # status) =>
              \A b \in Bets : bet'[b] # "PLACED"]_vars

\* What the module of the services says of suspended_until: no bet is
\* admitted inside the window of a critical event.  The reopening of a window
\* is queued until the window is over.
WindowIsKept ==
    [][\A b \in Bets : bet[b] = "new" /\ bet'[b] = "checked" =>
          \A k \in Tasks : task[k] \in Reopening => task[k].due <= now]_bet
=============================================================================
