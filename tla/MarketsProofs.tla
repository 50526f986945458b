---------------------------- MODULE MarketsProofs ----------------------------
(***************************************************************************)
(* What holds of an event for every number of markets, operators, delayed  *)
(* tasks and every length of a suspension.                                 *)
(***************************************************************************)
EXTENDS Markets, TLAPS

\* A request that is under way holds an event.
Holding == \A a \in Actors : pc[a] # "idle" => held[a] # "none"

IInv == TypeOK /\ Holding

\* A task that is queued or running is a reopening.
LEMMA TaskType ==
    ASSUME TypeOK, NEW k \in Tasks, task[k] # NoTask,
           task[k].stage \in {"queued", "running"}
    PROVE  task[k] \in Reopening
BY DEF TypeOK, LostTask

LEMMA SuspendType ==
    ASSUME TypeOK, NEW seconds \in Nat \ {0}, Suspend(seconds)
    PROVE  /\ until' \in 0 .. MaxTime /\ active' \subseteq Markets
           /\ task' \in [Tasks -> Reopening \cup {LostTask, NoTask}]
<1>1. now + seconds \in 0 .. MaxTime
  BY TimeAssumption DEF TypeOK, Suspend
<1>2. [ids |-> active, due |-> now + seconds, stage |-> "queued"] \in Reopening
  BY <1>1 DEF TypeOK, Reopening
<1>. QED
  BY <1>1, <1>2 DEF TypeOK, Suspend

\* The parts of the event object that a request keeps or drops.
LEMMA HoldingStep ==
    ASSUME IInv, [Next]_vars
    PROVE  Holding'
<1>. USE DEF IInv, TypeOK, Holding
<1>1. ASSUME NEW p \in Actors, Return(p) PROVE Holding'
  BY <1>1 DEF Return, Goto
<1>2. ASSUME NEW p \in Actors, Load(p) PROVE Holding'
  BY <1>2 DEF Load, Goto, EventStatus
<1>3. ASSUME UNCHANGED panel PROVE Holding'
  BY <1>3 DEF panel
<1>4. ASSUME NEW p \in Panels, ChangeStatus(p) PROVE Holding'
  BY <1>4 DEF ChangeStatus, Goto, EventStatus
<1>5. ASSUME NEW p \in Panels, SaveStatus(p) PROVE Holding'
  <2>1. CASE Return(p)
    BY <1>1, <2>1 DEF Actors
  <2>2. CASE Goto(p, "signal") /\ UNCHANGED <<held, previous>>
    BY <1>5, <2>2 DEF SaveStatus, Goto
  <2>. QED
    BY <1>5, <2>1, <2>2 DEF SaveStatus
<1>6. \/ \E p \in Actors : Return(p) \/ Load(p)
      \/ UNCHANGED panel
      \/ \E p \in Panels : ChangeStatus(p) \/ SaveStatus(p)
  BY DEF Next, Operate, Open, DeactivateMarkets, ToggleMarket, CriticalEvent,
         Settle, Leave, SimulatorReads, Goal, TaskReads, TaskReopens, LoseTask, Tick,
         AutoStart, AutoFinish, CheckBet, EndPlacement, vars, panel, Actors
<1>. QED
  BY <1>1, <1>2, <1>3, <1>4, <1>5, <1>6

LEMMA TypeStep ==
    ASSUME IInv, [Next]_vars
    PROVE  TypeOK'
<1>. USE DEF IInv, TypeOK
<1>1. ASSUME NEW p \in Panels, Open(p) PROVE TypeOK'
  BY <1>1 DEF Open, Load, Goto, event
<1>2. ASSUME NEW p \in Panels, ChangeStatus(p) PROVE TypeOK'
  BY <1>2 DEF ChangeStatus, Goto, event
<1>3. ASSUME NEW p \in Panels, SaveStatus(p) PROVE TypeOK'
  <2>1. held[p] \in EventStatus
    BY <1>3 DEF Holding, SaveStatus, Actors
  <2>. QED
    BY <1>3, <2>1 DEF SaveStatus, Return, Goto
<1>4. ASSUME NEW p \in Panels, DeactivateMarkets(p) PROVE TypeOK'
  BY <1>4 DEF DeactivateMarkets, Return, Goto
<1>5. ASSUME NEW p \in Panels, ToggleMarket(p) PROVE TypeOK'
  BY <1>5 DEF ToggleMarket, Return, Goto
<1>6. ASSUME NEW p \in Panels, CriticalEvent(p) PROVE TypeOK'
  <2>1. PICK seconds \in Windows : Suspend(seconds)
    BY <1>6 DEF CriticalEvent
  <2>2. /\ until' \in 0 .. MaxTime /\ active' \subseteq Markets
        /\ task' \in [Tasks -> Reopening \cup {LostTask, NoTask}]
    BY <2>1, SuspendType, TimeAssumption
  <2>3. UNCHANGED <<now, status, bet>> /\ Return(p)
    BY <1>6, <2>1 DEF CriticalEvent, Suspend
  <2>. QED
    BY <2>2, <2>3 DEF Return, Goto
<1>7. ASSUME NEW p \in Panels, Settle(p) PROVE TypeOK'
  BY <1>7 DEF Settle, Return, Goto, EventStatus
<1>8. ASSUME NEW a \in Actors, Leave(a) PROVE TypeOK'
  BY <1>8 DEF Leave, Return, Goto, event
<1>9. ASSUME SimulatorReads PROVE TypeOK'
  BY <1>9 DEF SimulatorReads, Load, Goto, event, Actors
<1>10. ASSUME Goal PROVE TypeOK'
  <2>1. Suspend(GoalWindow)
    BY <1>10 DEF Goal
  <2>2. /\ until' \in 0 .. MaxTime /\ active' \subseteq Markets
        /\ task' \in [Tasks -> Reopening \cup {LostTask, NoTask}]
    BY <2>1, SuspendType, TimeAssumption
  <2>3. UNCHANGED <<now, status, bet>> /\ Return(Simulator)
    BY <1>10, <2>1 DEF Goal, Suspend
  <2>. QED
    BY <2>2, <2>3 DEF Return, Goto
<1>11. ASSUME NEW k \in Tasks, TaskReads(k) PROVE TypeOK'
  <2>1. task[k] \in Reopening
    BY <1>11, TaskType DEF TaskReads
  <2>2. [task[k] EXCEPT !.stage = "running"] \in Reopening
    BY <2>1 DEF Reopening
  <2>. QED
    BY <1>11, <2>2 DEF TaskReads, event, panel
<1>12. ASSUME NEW k \in Tasks, TaskReopens(k) PROVE TypeOK'
  <2>1. task[k].ids \subseteq Markets
    BY <1>12, TaskType DEF TaskReopens, Reopening
  <2>. QED
    BY <1>12, <2>1, TimeAssumption DEF TaskReopens, panel
<1>13. ASSUME Tick PROVE TypeOK'
  BY <1>13, TimeAssumption DEF Tick, panel
<1>14. ASSUME AutoStart PROVE TypeOK'
  BY <1>14 DEF AutoStart, panel, EventStatus
<1>15. ASSUME AutoFinish PROVE TypeOK'
  BY <1>15 DEF AutoFinish, panel, EventStatus
<1>16. ASSUME NEW b \in Bets, CheckBet(b) PROVE TypeOK'
  BY <1>16 DEF CheckBet, event, panel
<1>17. ASSUME NEW b \in Bets, EndPlacement(b) PROVE TypeOK'
  BY <1>17 DEF EndPlacement, event, panel
<1>18. ASSUME NEW k \in Tasks, LoseTask(k) PROVE TypeOK'
  BY <1>18 DEF LoseTask, event, panel
<1>19. CASE UNCHANGED vars
  BY <1>19 DEF vars, event, panel
<1>. QED
  BY <1>1, <1>2, <1>3, <1>4, <1>5, <1>6, <1>7, <1>8, <1>9, <1>10, <1>11,
     <1>12, <1>13, <1>14, <1>15, <1>16, <1>17, <1>18, <1>19 DEF Next, Operate

LEMMA Inductive == Spec => []IInv
<1>1. Init => IInv
  BY TimeAssumption DEF Init, IInv, Holding, TypeOK, EventStatus
<1>2. IInv /\ [Next]_vars => IInv'
  BY TypeStep, HoldingStep DEF IInv
<1>. QED
  BY <1>1, <1>2, PTL DEF Spec

\* The statuses, windows, tasks and requests stay inside their types.
THEOREM TypeCorrect == Spec => []TypeOK
BY Inductive, PTL DEF IInv

\* No clock, goal or delayed reopening changes the status of an event that is
\* over, although each may save one that it loaded while it was LIVE.
THEOREM EndedIsLeftToOperators == Spec => OnlyOperatorsRevive
<1>. DEFINE ByOperator ==
        (status \in Ended /\ status' # status) =>
            \E p \in Panels : pc[p] \in {"open", "save"} /\ pc'[p] # pc[p]
<1>1. ASSUME TypeOK, Next PROVE ByOperator
  <2>. SUFFICES ASSUME status \in Ended, status' # status
       PROVE  \E p \in Panels : pc[p] \in {"open", "save"} /\ pc'[p] # pc[p]
    OBVIOUS
  <2>1. ASSUME NEW p \in Panels, Operate(p)
        PROVE  pc[p] \in {"open", "save"} /\ pc'[p] # pc[p]
    <3>1. SaveStatus(p) \/ Settle(p)
      BY <2>1 DEF Operate, Open, ChangeStatus, DeactivateMarkets, ToggleMarket,
                  CriticalEvent, Suspend, event
    <3>2. p \in Actors /\ pc \in [Actors -> {"idle", "open", "save", "signal"}]
      BY <1>1 DEF TypeOK, Actors
    <3>3. CASE SaveStatus(p)
      BY <3>2, <3>3 DEF SaveStatus, Return, Goto
    <3>4. CASE Settle(p)
      BY <3>2, <3>4 DEF Settle, Return, Goto
    <3>. QED
      BY <3>1, <3>3, <3>4
  <2>2. ~ AutoStart /\ ~ AutoFinish
    BY DEF AutoStart, AutoFinish, Ended
  <2>3. \E p \in Panels : Operate(p)
    BY <1>1, <2>2 DEF Next, Leave, SimulatorReads, Goal, Suspend, TaskReads,
       TaskReopens, LoseTask, Tick, CheckBet, EndPlacement, event
  <2>. QED
    BY <2>1, <2>3
<1>2. TypeOK /\ [Next]_vars => [ByOperator]_status
  BY <1>1 DEF vars, event
<1>. QED
  BY <1>2, TypeCorrect, PTL DEF Spec, OnlyOperatorsRevive
=============================================================================
