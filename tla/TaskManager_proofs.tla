--------------------------- MODULE TaskManager_proofs ---------------------------
(* What the task manager keeps for any number of tasks, scripts and queues. *)
EXTENDS TaskManager, TLAPS

-----------------------------------------------------------------------------
(* Types.                                                                  *)

LEMMA InitTypes == Init => TypeOK
<1> SUFFICES ASSUME Init PROVE TypeOK
  OBVIOUS
<1>1. /\ pc \in [Tasks -> Phases]
      /\ stop_at \in [Tasks -> StopMoments]
      /\ target \in [Tasks -> Targets \cup {None}]
      /\ mode \in [Tasks -> {"AutoProxy", "ScriptConfig"}]
      /\ reserved \in [Scripts -> Tasks \cup {None}]
  BY DEF Init, Phases, StopMoments
<1>2. /\ exit \in [Tasks -> Outcomes]
      /\ announced \in [Tasks -> Outcomes \cup {NoOutcome}]
      /\ results \in [Tasks -> Outcomes \cup {NoOutcome}]
  BY DEF Init, Outcomes
<1>3. closing \in [Tasks -> BOOLEAN] /\ cancelled \in [Tasks -> BOOLEAN]
  BY DEF Init
<1>4. QED
  BY <1>1, <1>2, <1>3 DEF Init, TypeOK

\* No action leaves the types, whatever the order of creation, run, end and stop.
LEMMA NextTypes == TypeOK /\ [Next]_vars => TypeOK'
<1> SUFFICES ASSUME TypeOK, [Next]_vars PROVE TypeOK'
  OBVIOUS
<1> USE DEF TypeOK, Phases, BeforeRun, InFinal, Over, Outcomes, NoOutcome,
            StopMoments, taskVars, tableVars, powerVars, stopVars
<1>1. CASE UNCHANGED vars
  BY <1>1 DEF vars
<1>2. ASSUME NEW t \in Tasks, NEW x \in Targets, AddTask(t, x) PROVE TypeOK'
  BY <1>2 DEF AddTask, Targets
<1>3. ASSUME NEW t \in Tasks, CreatedSent(t) PROVE TypeOK'
  BY <1>3 DEF CreatedSent
<1>4. ASSUME NEW t \in Tasks, CreationAborted(t) PROVE TypeOK'
  BY <1>4 DEF CreationAborted
<1>5. ASSUME NEW t \in Tasks, MainReturns(t) PROVE TypeOK'
  BY <1>5 DEF MainReturns, LeaveMain
<1>5a. ASSUME NEW t \in Tasks, ScriptMissing(t) PROVE TypeOK'
  BY <1>5a DEF ScriptMissing
<1>6. ASSUME NEW t \in Tasks, MainRaises(t) PROVE TypeOK'
  BY <1>6 DEF MainRaises, LeaveMain
<1>7. ASSUME NEW t \in Tasks, AfterScriptEnds(t) PROVE TypeOK'
  BY <1>7 DEF AfterScriptEnds, Announce
<1>7a. ASSUME NEW t \in Tasks, FinalRaises(t) PROVE TypeOK'
  BY <1>7a DEF FinalRaises
<1>8. ASSUME NEW ts \in SUBSET Tasks, CancelTasks(ts)
      PROVE  /\ closing' \in [Tasks -> BOOLEAN]
             /\ cancelled' \in [Tasks -> BOOLEAN]
             /\ exit' \in [Tasks -> Outcomes]
             /\ stop_at' \in [Tasks -> StopMoments]
             /\ UNCHANGED <<pc, target, mode, announced, results>>
  <2>1. closing' \in [Tasks -> BOOLEAN]
    BY <1>8, Zenon DEF CancelTasks
  <2>2. cancelled' \in [Tasks -> BOOLEAN]
    BY <1>8, Zenon DEF CancelTasks
  <2>3. exit' \in [Tasks -> Outcomes]
    BY <1>8 DEF CancelTasks
  <2>4. stop_at' \in [Tasks -> StopMoments]
    BY <1>8 DEF CancelTasks, StopMoment
  <2>5. QED
    BY <1>8, <2>1, <2>2, <2>3, <2>4 DEF CancelTasks
<1>9. ASSUME NEW t \in Tasks, StopTask(t) PROVE TypeOK'
  <2>1. CancelTasks({t})
    BY <1>9 DEF StopTask
  <2>2. QED
    BY <1>8, <1>9, <2>1 DEF StopTask
<1>10. ASSUME NEW t \in Tasks, Runs(t) PROVE TypeOK'
  <2>1. CASE RootStarts(t)
    BY <2>1 DEF RootStarts
  <2>2. CASE MainStarts(t)
    BY <2>2 DEF MainStarts
  <2>3. CASE CancelledBeforeStart(t)
    BY <2>3 DEF CancelledBeforeStart
  <2>4. CASE MainCancelled(t)
    BY <2>4 DEF MainCancelled, LeaveMain
  <2>5. CASE CrashReported(t)
    BY <2>5 DEF CrashReported
  <2>6. CASE FinalBegins(t)
    BY <2>6 DEF FinalBegins, GoTo, Announce
  <2>7. CASE AfterScriptStarts(t)
    BY <2>7 DEF AfterScriptStarts, GoTo
  <2>8. CASE AfterScriptDropped(t)
    BY <2>8 DEF AfterScriptDropped, Announce
  <2>9. CASE CompletedSent(t)
    BY <2>9 DEF CompletedSent
  <2>10. CASE PowerSignSent(t)
    BY <2>10 DEF PowerSignSent, GoTo
  <2>11. CASE CleanTask(t)
    BY <2>11 DEF CleanTask
  <2>12. CASE StopTaskReturns(t)
    BY <2>12 DEF StopTaskReturns
  <2>13. CASE FinalFailureReported(t)
    BY <2>13 DEF FinalFailureReported, GoTo
  <2>14. QED
    BY <1>10, <2>1, <2>2, <2>3, <2>4, <2>5, <2>6, <2>7, <2>8, <2>9, <2>10,
       <2>11, <2>12, <2>13 DEF Runs
<1>11. ASSUME NEW q \in CycleQueues, AddTaskBadScope(q) PROVE TypeOK'
  BY <1>11 DEF AddTaskBadScope
<1>12. CASE SetPower
  BY <1>12 DEF SetPower
<1>13. CASE PowerTaskEnds
  BY <1>13 DEF PowerTaskEnds
<1>14. CASE StopAllBegins
  BY <1>14 DEF StopAllBegins
<1>15. CASE StopAllStep
  <2>1. CASE StopAllPowerCancelled
    BY <2>1 DEF StopAllPowerCancelled
  <2>2. CASE StopAllCancels
    <3>1. CancelTasks({t \in task_handler : ~closing[t]})
      BY <2>2 DEF StopAllCancels
    <3>2. {t \in task_handler : ~closing[t]} \in SUBSET Tasks
      OBVIOUS
    <3>3. QED
      BY <1>8, <2>2, <3>1, <3>2 DEF StopAllCancels
  <2>3. CASE StopAllAccomplished
    BY <2>3 DEF StopAllAccomplished
  <2>4. CASE StopAllReturns
    BY <2>4 DEF StopAllReturns
  <2>5. QED
    BY <1>15, <2>1, <2>2, <2>3, <2>4 DEF StopAllStep
<1>16. QED
  BY <1>1, <1>2, <1>3, <1>4, <1>5, <1>5a, <1>6, <1>7, <1>7a, <1>9, <1>10, <1>11, <1>12,
     <1>13, <1>14, <1>15 DEF Next

\* The state of the manager keeps its types.
THEOREM TypeCorrect == Spec => []TypeOK
<1>1. Init => TypeOK
  BY InitTypes
<1>2. TypeOK /\ [Next]_vars => TypeOK'
  BY NextTypes
<1>3. QED
  BY <1>1, <1>2, PTL DEF Spec

-----------------------------------------------------------------------------
(* The inductive invariant.                                                *)

\* A standalone task that is not over holds the reservation of its script.
ScriptOwned ==
  \A t \in Tasks : pc[t] \in BeforeEnd /\ target[t] \in Scripts => reserved[target[t]] = t

\* A task being created is in the table, where "stop all" looks for it.
CreatingListed == \A t \in Tasks : pc[t] = "creating" => t \in task_handler

\* "Stop all" takes its snapshot when nothing is being created, and what it
\* waits for at the end is all that is left.
StopAllSeesAll ==
  /\ stop_all \in {"accomplish", "clean"} => \A t \in Tasks : pc[t] # "creating"
  /\ stop_all = "clean" => task_handler \subseteq cleanups

\* A stop that comes before the result is kept has taken the success back, if
\* there was a run left to stop.
StopTakesSuccessBack ==
  \A t \in Tasks :
    /\ closing[t] => stop_at[t] # "never"
    /\ stop_at[t] = "running" /\ exit[t] = "success" => pc[t] \in Over

IInv ==
  /\ TypeOK
  /\ CycleQueueGuarded
  /\ OneCyclePerQueue
  /\ ScriptOwned
  /\ ReservationsDie
  /\ CreatingListed
  /\ StopAllSeesAll
  /\ StopTakesSuccessBack
  /\ ResultTellsOfStop

\* The owner recorded for a script is one task, so two tasks with one script
\* are one.
LEMMA OwnedIsExclusive == ScriptOwned => OneTaskPerScript
BY DEF ScriptOwned, OneTaskPerScript

-----------------------------------------------------------------------------
(* What a step does to the tables.  Most steps leave them alone.           *)

\* No table changes, and no task begins a run.
Quiet ==
  /\ UNCHANGED <<target, tableVars>>
  /\ \A t \in Tasks : /\ pc'[t] \in BeforeEnd => pc[t] \in BeforeEnd
                      /\ pc'[t] = "creating" => pc[t] = "creating"

\* The run of t is over, or its creation rolled back: it gives everything back.
GivesBack(t) ==
  /\ pc[t] \in BeforeEnd
  /\ \E p \in Phases \ BeforeEnd : pc' = [pc EXCEPT ![t] = p]
  /\ LeaveMain(t) \/ CreationAborted(t)
  /\ UNCHANGED target

TableStep ==
  \/ Quiet
  \/ \E t \in Tasks : GivesBack(t) \/ CleanTask(t)
  \/ \E t \in Tasks, x \in Targets : AddTask(t, x)
  \/ \E q \in CycleQueues : AddTaskBadScope(q)

LEMMA StepsAreTableSteps == TypeOK /\ [Next]_vars => TableStep
<1> SUFFICES ASSUME TypeOK, [Next]_vars PROVE TableStep
  OBVIOUS
<1>t. pc \in [Tasks -> Phases]
  BY DEF TypeOK
<1> USE DEF BeforeEnd, BeforeRun
<1>1. CASE UNCHANGED vars
  BY <1>1 DEF vars, taskVars, TableStep, Quiet
<1>2. ASSUME NEW t \in Tasks, CreatedSent(t) PROVE Quiet
  BY <1>2, <1>t DEF CreatedSent, Quiet
<1>3. ASSUME NEW t \in Tasks, CreationAborted(t) PROVE GivesBack(t)
  <2>1. pc[t] \in BeforeEnd /\ pc' = [pc EXCEPT ![t] = "aborted"] /\ UNCHANGED target
    BY <1>3 DEF CreationAborted
  <2>2. "aborted" \in Phases \ BeforeEnd
    BY DEF Phases
  <2>3. QED
    BY <1>3, <2>1, <2>2 DEF GivesBack
<1>4. {"final", "crash"} \subseteq Phases \ BeforeEnd
  BY DEF Phases, InFinal
<1>5. ASSUME NEW t \in Tasks, MainReturns(t) \/ MainRaises(t) \/ MainCancelled(t)
      PROVE  GivesBack(t)
  <2>1. /\ pc[t] \in BeforeEnd
        /\ pc' = [pc EXCEPT ![t] = "final"] \/ pc' = [pc EXCEPT ![t] = "crash"]
        /\ LeaveMain(t)
        /\ UNCHANGED target
    BY <1>5 DEF MainReturns, MainRaises, MainCancelled
  <2>2. QED
    BY <1>4, <2>1 DEF GivesBack
<1>6. ASSUME NEW t \in Tasks, AfterScriptEnds(t) \/ FinalRaises(t) PROVE Quiet
  BY <1>6, <1>t DEF AfterScriptEnds, FinalRaises, InFinal, Announce, Quiet
<1>7. ASSUME NEW t \in Tasks, StopTask(t) \/ ScriptMissing(t) PROVE Quiet
  BY <1>7, <1>t DEF StopTask, CancelTasks, ScriptMissing, Quiet
<1>8. ASSUME NEW t \in Tasks, Runs(t) PROVE TableStep
  <2>1. CASE RootStarts(t) \/ MainStarts(t) \/ CancelledBeforeStart(t) \/ CrashReported(t)
    <3>1. Quiet
      BY <2>1, <1>t DEF RootStarts, MainStarts, CancelledBeforeStart, CrashReported, Quiet
    <3>2. QED
      BY <3>1 DEF TableStep
  <2>2. CASE FinalBegins(t) \/ AfterScriptStarts(t) \/ AfterScriptDropped(t)
    <3>1. Quiet
      BY <2>2, <1>t DEF FinalBegins, AfterScriptStarts, AfterScriptDropped, GoTo,
                        Announce, Quiet
    <3>2. QED
      BY <3>1 DEF TableStep
  <2>3. CASE CompletedSent(t) \/ PowerSignSent(t) \/ StopTaskReturns(t)
         \/ FinalFailureReported(t)
    <3>1. Quiet
      BY <2>3, <1>t DEF CompletedSent, PowerSignSent, StopTaskReturns, FinalFailureReported,
          GoTo, taskVars,
                        Quiet
    <3>2. QED
      BY <3>1 DEF TableStep
  <2>4. CASE MainCancelled(t) \/ CleanTask(t)
    BY <1>5, <2>4 DEF TableStep
  <2>5. QED
    BY <1>8, <2>1, <2>2, <2>3, <2>4 DEF Runs
<1>9. CASE SetPower \/ PowerTaskEnds \/ StopAllBegins
  <2>1. Quiet
    BY <1>9 DEF SetPower, PowerTaskEnds, StopAllBegins, taskVars, Quiet
  <2>2. QED
    BY <2>1 DEF TableStep
<1>10. CASE StopAllStep
  <2>1. Quiet
    BY <1>10 DEF StopAllStep, StopAllPowerCancelled, StopAllCancels, StopAllAccomplished,
                 StopAllReturns, CancelTasks, taskVars, Quiet
  <2>2. QED
    BY <2>1 DEF TableStep
<1>11. QED
  BY <1>1, <1>2, <1>3, <1>5, <1>6, <1>7, <1>8, <1>9, <1>10 DEF Next, TableStep

-----------------------------------------------------------------------------
(* The invariant, part by part.                                            *)

\* The part of the invariant about scripts and queues.
GuardInv ==
  /\ CycleQueueGuarded
  /\ OneCyclePerQueue
  /\ ScriptOwned
  /\ ReservationsDie
  /\ CreatingListed

LEMMA InitGuard == Init => GuardInv
BY DEF Init, GuardInv, CycleQueueGuarded, OneCyclePerQueue, ScriptOwned, ReservationsDie,
       CreatingListed, BeforeEnd, BeforeRun

\* A new task takes a script nobody has, or a queue no task is cycling: the
\* running mark and the reservation are looked at and set in one step.
LEMMA AddTaskGuard ==
  ASSUME TypeOK, GuardInv, NEW t \in Tasks, NEW x \in Targets, AddTask(t, x)
  PROVE  GuardInv'
<1>1. /\ pc[t] = "new" /\ pc' = [pc EXCEPT ![t] = "creating"]
      /\ target' = [target EXCEPT ![t] = x]
      /\ task_handler' = task_handler \cup {t}
      /\ reserved' = [s \in Scripts |-> IF s = x THEN t ELSE reserved[s]]
      /\ running_cycle' = running_cycle \cup ({x} \cap CycleQueues)
      /\ x \in Scripts => reserved[x] = None
      /\ x \notin running_cycle
  BY DEF AddTask, Available
<1>2. /\ pc \in [Tasks -> Phases] /\ target \in [Tasks -> Targets \cup {None}]
      /\ None \notin Tasks
  BY NoneAssumption DEF TypeOK
<1>3. \A u \in Tasks \ {t} : pc'[u] = pc[u] /\ target'[u] = target[u]
  BY <1>1, <1>2
<1>4. pc'[t] = "creating" /\ target'[t] = x
  BY <1>1, <1>2
<1>5. CycleQueueGuarded'
  BY <1>1, <1>3, <1>4 DEF GuardInv, CycleQueueGuarded, IsCycle
<1>6. OneCyclePerQueue'
  BY <1>1, <1>3, <1>4 DEF GuardInv, CycleQueueGuarded, OneCyclePerQueue, IsCycle
<1>7. ScriptOwned'
  BY <1>1, <1>2, <1>3, <1>4 DEF GuardInv, ScriptOwned
<1>8. ReservationsDie'
  BY <1>1 DEF GuardInv, ReservationsDie
<1>9. CreatingListed'
  BY <1>1, <1>3 DEF GuardInv, CreatingListed
<1>10. QED
  BY <1>5, <1>6, <1>7, <1>8, <1>9 DEF GuardInv

\* A task that is over takes off its own mark and reservation only: the queue it
\* cycled is nobody else's, and neither is its script.
LEMMA GivesBackGuard ==
  ASSUME TypeOK, GuardInv, NEW t \in Tasks, GivesBack(t)
  PROVE  GuardInv'
<1>1. PICK p \in Phases \ BeforeEnd : pc' = [pc EXCEPT ![t] = p]
  BY DEF GivesBack
<1>2. /\ pc[t] \in BeforeEnd
      /\ target' = target
      /\ \/ /\ reserved' = [s \in Scripts |-> IF reserved[s] = t THEN None ELSE reserved[s]]
            /\ task_handler' \in {task_handler, task_handler \ {t}}
         \/ reserved' = reserved /\ task_handler' = task_handler
      /\ running_cycle' = running_cycle \ {target[t]}
  BY DEF GivesBack, LeaveMain, CreationAborted
<1>3. pc \in [Tasks -> Phases]
  BY DEF TypeOK
<1>4. "creating" \in BeforeEnd
  BY DEF BeforeEnd, BeforeRun
<1>5. \A u \in Tasks : pc'[u] \in BeforeEnd => u # t /\ pc[u] \in BeforeEnd /\ pc'[u] = pc[u]
  BY <1>1, <1>3
<1>6. CycleQueueGuarded'
  BY <1>2, <1>5 DEF GuardInv, CycleQueueGuarded, OneCyclePerQueue, IsCycle
<1>7. OneCyclePerQueue'
  BY <1>2, <1>5 DEF GuardInv, OneCyclePerQueue, IsCycle
<1>8. ScriptOwned'
  BY <1>2, <1>5 DEF GuardInv, ScriptOwned
<1>9. ReservationsDie'
  BY <1>2 DEF GuardInv, ReservationsDie
<1>10. CreatingListed'
  BY <1>2, <1>4, <1>5 DEF GuardInv, CreatingListed
<1>11. QED
  BY <1>6, <1>7, <1>8, <1>9, <1>10 DEF GuardInv

\* clean_task only meets tasks that are over.
LEMMA CleanTaskGuard ==
  ASSUME TypeOK, GuardInv, NEW t \in Tasks, CleanTask(t)
  PROVE  GuardInv'
<1>1. /\ pc[t] \in Over
      /\ UNCHANGED <<pc, target, running_cycle>>
      /\ task_handler' = task_handler \ {t}
      /\ reserved' = [s \in Scripts |-> IF reserved[s] = t THEN None ELSE reserved[s]]
  BY DEF CleanTask, Accomplished, taskVars
<1>2. pc[t] \notin BeforeEnd /\ pc[t] # "creating"
  BY <1>1 DEF Over, BeforeEnd, BeforeRun
<1>3. CycleQueueGuarded' /\ OneCyclePerQueue'
  BY <1>1 DEF GuardInv, CycleQueueGuarded, OneCyclePerQueue, IsCycle
<1>4. ScriptOwned'
  BY <1>1, <1>2 DEF GuardInv, ScriptOwned
<1>5. ReservationsDie' /\ CreatingListed'
  BY <1>1, <1>2 DEF GuardInv, ReservationsDie, CreatingListed
<1>6. QED
  BY <1>3, <1>4, <1>5 DEF GuardInv

LEMMA GuardKept == TypeOK /\ GuardInv /\ TableStep => GuardInv'
<1> SUFFICES ASSUME TypeOK, GuardInv, TableStep PROVE GuardInv'
  OBVIOUS
<1>1. CASE Quiet
  <2>1. CycleQueueGuarded' /\ OneCyclePerQueue' /\ ScriptOwned'
    BY <1>1 DEF Quiet, tableVars, GuardInv, CycleQueueGuarded, OneCyclePerQueue,
                ScriptOwned, IsCycle
  <2>2. ReservationsDie' /\ CreatingListed'
    BY <1>1 DEF Quiet, tableVars, GuardInv, ReservationsDie, CreatingListed
  <2>3. QED
    BY <2>1, <2>2 DEF GuardInv
<1>2. ASSUME NEW q \in CycleQueues, AddTaskBadScope(q) PROVE GuardInv'
  BY <1>2 DEF AddTaskBadScope, taskVars, GuardInv, CycleQueueGuarded, OneCyclePerQueue,
              ScriptOwned, ReservationsDie, CreatingListed, IsCycle
<1>3. QED
  BY <1>1, <1>2, GivesBackGuard, CleanTaskGuard, AddTaskGuard DEF TableStep

\* Where a step leaves "stop all": the steps of the call itself, and all others,
\* which neither move it on nor put a task into the table while it is running.
LEMMA StopAllSteps ==
  ASSUME TypeOK, [Next]_vars
  PROVE  \/ StopAllBegins \/ StopAllPowerCancelled \/ StopAllCancels
         \/ StopAllAccomplished \/ StopAllReturns
         \/ /\ UNCHANGED <<stop_all, cleanups>>
            /\ stop_all = "idle" \/ task_handler' \subseteq task_handler
            /\ stop_all = "idle" \/ \A t \in Tasks : pc'[t] = "creating" => pc[t] = "creating"
<1> DEFINE Other == /\ UNCHANGED <<stop_all, cleanups>>
                    /\ stop_all = "idle" \/ task_handler' \subseteq task_handler
                    /\ stop_all = "idle" \/ \A t \in Tasks : pc'[t] = "creating" => pc[t] = "creating"
<1> SUFFICES ASSUME ~StopAllBegins, ~StopAllStep PROVE Other
  BY DEF StopAllStep
<1>t. pc \in [Tasks -> Phases]
  BY DEF TypeOK
<1> USE DEF stopVars, taskVars, tableVars
<1>1. CASE UNCHANGED vars
  BY <1>1 DEF vars
<1>2. ASSUME NEW t \in Tasks, NEW x \in Targets, AddTask(t, x) PROVE Other
  BY <1>2 DEF AddTask
<1>3. ASSUME NEW t \in Tasks, CreatedSent(t) \/ CreationAborted(t) PROVE Other
  BY <1>3, <1>t DEF CreatedSent, CreationAborted
<1>4. ASSUME NEW t \in Tasks, MainReturns(t) \/ MainRaises(t) \/ AfterScriptEnds(t)
             \/ FinalRaises(t)
      PROVE  Other
  BY <1>4, <1>t DEF MainReturns, MainRaises, AfterScriptEnds, FinalRaises, InFinal, LeaveMain,
      Announce
<1>5. ASSUME NEW t \in Tasks, StopTask(t) \/ ScriptMissing(t) PROVE Other
  BY <1>5 DEF StopTask, CancelTasks, ScriptMissing
<1>6. ASSUME NEW t \in Tasks, Runs(t) PROVE Other
  <2>1. CASE RootStarts(t) \/ MainStarts(t) \/ CancelledBeforeStart(t) \/ CrashReported(t)
    BY <2>1, <1>t DEF RootStarts, MainStarts, CancelledBeforeStart, CrashReported
  <2>2. CASE FinalBegins(t) \/ AfterScriptStarts(t) \/ AfterScriptDropped(t)
    BY <2>2, <1>t DEF FinalBegins, AfterScriptStarts, AfterScriptDropped, GoTo, Announce
  <2>3. CASE CompletedSent(t) \/ PowerSignSent(t) \/ StopTaskReturns(t)
         \/ FinalFailureReported(t)
    BY <2>3, <1>t DEF CompletedSent, PowerSignSent, StopTaskReturns, FinalFailureReported, GoTo
  <2>4. CASE MainCancelled(t) \/ CleanTask(t)
    BY <2>4, <1>t DEF MainCancelled, CleanTask, LeaveMain
  <2>5. QED
    BY <1>6, <2>1, <2>2, <2>3, <2>4 DEF Runs
<1>7. ASSUME NEW q \in CycleQueues, AddTaskBadScope(q) PROVE Other
  BY <1>7 DEF AddTaskBadScope
<1>8. CASE SetPower \/ PowerTaskEnds
  BY <1>8 DEF SetPower, PowerTaskEnds
<1>9. QED
  BY <1>1, <1>2, <1>3, <1>4, <1>5, <1>6, <1>7, <1>8 DEF Next

LEMMA StopAllSeesAllKept ==
  TypeOK /\ CreatingListed /\ StopAllSeesAll /\ [Next]_vars => StopAllSeesAll'
<1> SUFFICES ASSUME TypeOK, CreatingListed, StopAllSeesAll, [Next]_vars PROVE StopAllSeesAll'
  OBVIOUS
<1>1. CASE StopAllBegins \/ StopAllPowerCancelled \/ StopAllReturns
  BY <1>1 DEF StopAllBegins, StopAllPowerCancelled, StopAllReturns, StopAllSeesAll
<1>2. CASE StopAllCancels
  BY <1>2 DEF StopAllCancels, CancelTasks, StopAllSeesAll
<1>3. CASE StopAllAccomplished
  <2>1. task_handler \subseteq {t \in task_handler : pc[t] # "creating"}
    BY <1>3 DEF StopAllAccomplished, StopAllSeesAll, TypeOK
  <2>2. QED
    BY <1>3, <2>1 DEF StopAllAccomplished, StopAllSeesAll, taskVars, tableVars
<1>4. CASE /\ UNCHANGED <<stop_all, cleanups>>
           /\ stop_all = "idle" \/ task_handler' \subseteq task_handler
           /\ stop_all = "idle" \/ \A t \in Tasks : pc'[t] = "creating" => pc[t] = "creating"
  BY <1>4 DEF StopAllSeesAll
<1>5. QED
  BY <1>1, <1>2, <1>3, <1>4, StopAllSteps

\* A stop takes the success back in the step that marks the task as closing, and
\* the result is kept as it is then: of the other steps none makes a success.
LEMMA ResultsKept ==
  TypeOK /\ StopTakesSuccessBack /\ ResultTellsOfStop /\ [Next]_vars
    => StopTakesSuccessBack' /\ ResultTellsOfStop'
<1> DEFINE Told == StopTakesSuccessBack /\ ResultTellsOfStop
<1> SUFFICES ASSUME TypeOK, Told, [Next]_vars PROVE Told'
  OBVIOUS
<1>t. /\ pc \in [Tasks -> Phases] /\ results \in [Tasks -> Outcomes \cup {NoOutcome}]
      /\ exit \in [Tasks -> Outcomes] /\ stop_at \in [Tasks -> StopMoments]
      /\ announced \in [Tasks -> Outcomes \cup {NoOutcome}]
  BY DEF TypeOK
<1> DEFINE Same == /\ UNCHANGED <<closing, stop_at>>
                   /\ \A u \in Tasks : /\ exit'[u] = "success" => exit[u] = "success"
                                       /\ pc[u] \in Over => pc'[u] \in Over
           Neutral == UNCHANGED results /\ Same
<1>n. Neutral => Told'
  BY DEF StopTakesSuccessBack, ResultTellsOfStop
<1>s. ASSUME NEW ts \in SUBSET Tasks, CancelTasks(ts), UNCHANGED pc PROVE Told'
  <2>1. /\ closing' = [t \in Tasks |-> closing[t] \/ t \in ts]
        /\ exit' = [t \in Tasks |-> IF t \in ts /\ Cancellable(t) /\ exit[t] = "success"
                                    THEN "cancelled" ELSE exit[t]]
        /\ stop_at' = [t \in Tasks |-> IF t \in ts THEN StopMoment(t) ELSE stop_at[t]]
        /\ UNCHANGED <<pc, results>>
    BY <1>s DEF CancelTasks
  <2>2. \A u \in Tasks \ ts : /\ closing'[u] <=> closing[u]
                             /\ exit'[u] = exit[u] /\ stop_at'[u] = stop_at[u]
    BY <2>1
  <2>3. \A u \in ts : /\ stop_at'[u] = StopMoment(u)
                     /\ Cancellable(u) => exit'[u] # "success"
    BY <2>1
  <2>4. ASSUME NEW u \in ts
        PROVE  /\ stop_at'[u] # "never"
               /\ stop_at'[u] = "running" /\ exit'[u] = "success" => pc'[u] \in Over
               /\ results'[u] = "success" => stop_at'[u] \in {"creating", "kept"}
    BY <2>1, <2>3 DEF StopMoment, Cancellable, NoOutcome
  <2>5. QED
    BY <2>1, <2>2, <2>4 DEF StopTakesSuccessBack, ResultTellsOfStop
<1> USE DEF stopVars, taskVars, tableVars
<1>1. CASE UNCHANGED vars
  BY <1>1, <1>n DEF vars
<1>2. ASSUME NEW t \in Tasks, NEW x \in Targets, AddTask(t, x) PROVE Neutral
  BY <1>2, <1>t DEF AddTask, Over
<1>3. ASSUME NEW t \in Tasks, CreatedSent(t) \/ CreationAborted(t) PROVE Neutral
  BY <1>3, <1>t DEF CreatedSent, CreationAborted, Over
<1>4. ASSUME NEW t \in Tasks, MainReturns(t) \/ MainRaises(t) \/ AfterScriptEnds(t)
             \/ FinalRaises(t) \/ ScriptMissing(t)
      PROVE  Neutral
  BY <1>4, <1>t DEF MainReturns, MainRaises, AfterScriptEnds, FinalRaises, InFinal, Announce,
                    ScriptMissing, Over
<1>5. ASSUME NEW t \in Tasks, StopTask(t) PROVE Told'
  <2>1. CancelTasks({t}) /\ UNCHANGED pc
    BY <1>5 DEF StopTask, CancelTasks
  <2>2. QED
    BY <1>s, <2>1
<1>6. ASSUME NEW t \in Tasks, CompletedSent(t) PROVE Told'
  <2>1. /\ pc[t] = "announce" /\ UNCHANGED <<closing, stop_at, exit>>
        /\ results' = [results EXCEPT ![t] = exit[t]]
        /\ pc' = [pc EXCEPT ![t] = "power"] \/ pc' = [pc EXCEPT ![t] = "ended"]
    BY <1>6 DEF CompletedSent
  <2>2. \A u \in Tasks \ {t} : pc'[u] = pc[u] /\ results'[u] = results[u]
    BY <1>t, <2>1
  <2>3. StopTakesSuccessBack'
    BY <2>1, <2>2 DEF StopTakesSuccessBack, Over
  <2>4. closing[t] /\ exit[t] = "success" => stop_at[t] \in {"creating", "kept"}
    BY <1>t, <2>1 DEF StopTakesSuccessBack, Over, StopMoments
  <2>5. ResultTellsOfStop'
    BY <1>t, <2>1, <2>2, <2>4 DEF ResultTellsOfStop
  <2>6. QED
    BY <2>3, <2>5
<1>7. ASSUME NEW t \in Tasks, Runs(t) PROVE Told'
  <2>1. CASE RootStarts(t) \/ MainStarts(t) \/ CancelledBeforeStart(t) \/ CrashReported(t)
    BY <2>1, <1>t, <1>n DEF RootStarts, MainStarts, CancelledBeforeStart, CrashReported, Over
  <2>2. CASE FinalBegins(t) \/ AfterScriptStarts(t) \/ AfterScriptDropped(t)
    BY <2>2, <1>t, <1>n DEF FinalBegins, AfterScriptStarts, AfterScriptDropped, GoTo,
                            Announce, Over
  <2>3. CASE PowerSignSent(t) \/ StopTaskReturns(t) \/ FinalFailureReported(t)
    BY <2>3, <1>t, <1>n DEF PowerSignSent, StopTaskReturns, FinalFailureReported, GoTo, Over
  <2>4. CASE MainCancelled(t) \/ CleanTask(t)
    BY <2>4, <1>t, <1>n DEF MainCancelled, CleanTask, Over
  <2>5. QED
    BY <1>6, <1>7, <2>1, <2>2, <2>3, <2>4 DEF Runs
<1>8. ASSUME NEW q \in CycleQueues, AddTaskBadScope(q) PROVE Neutral
  BY <1>8 DEF AddTaskBadScope
<1>9. CASE SetPower \/ PowerTaskEnds \/ StopAllBegins
  BY <1>9, <1>n DEF SetPower, PowerTaskEnds, StopAllBegins
<1>10. CASE StopAllStep
  <2>1. CASE StopAllCancels
    <3>1. CancelTasks({t \in task_handler : ~closing[t]}) /\ UNCHANGED pc
      BY <2>1 DEF StopAllCancels, CancelTasks
    <3>2. {t \in task_handler : ~closing[t]} \in SUBSET Tasks
      BY DEF TypeOK
    <3>3. QED
      BY <1>s, <3>1, <3>2
  <2>2. CASE StopAllPowerCancelled \/ StopAllAccomplished \/ StopAllReturns
    BY <2>2, <1>n DEF StopAllPowerCancelled, StopAllAccomplished, StopAllReturns
  <2>3. QED
    BY <1>10, <2>1, <2>2 DEF StopAllStep
<1>11. QED
  BY <1>1, <1>2, <1>3, <1>4, <1>5, <1>7, <1>8, <1>9, <1>10, <1>n DEF Next

-----------------------------------------------------------------------------
(* The theorems.                                                           *)

LEMMA IInvInit == Init => IInv
<1>1. Init => TypeOK /\ GuardInv
  BY InitTypes, InitGuard
<1>2. Init => StopAllSeesAll /\ StopTakesSuccessBack /\ ResultTellsOfStop
  BY DEF Init, StopAllSeesAll, StopTakesSuccessBack, ResultTellsOfStop
<1>3. QED
  BY <1>1, <1>2 DEF IInv, GuardInv

LEMMA IInvNext == IInv /\ [Next]_vars => IInv'
<1> SUFFICES ASSUME IInv, [Next]_vars PROVE IInv'
  OBVIOUS
<1>1. /\ TypeOK /\ GuardInv /\ StopAllSeesAll /\ CreatingListed
      /\ StopTakesSuccessBack /\ ResultTellsOfStop
  BY DEF IInv, GuardInv
<1>2. TypeOK'
  BY <1>1, NextTypes
<1>3. GuardInv'
  BY <1>1, StepsAreTableSteps, GuardKept
<1>4. StopAllSeesAll'
  BY <1>1, StopAllSeesAllKept
<1>5. StopTakesSuccessBack' /\ ResultTellsOfStop'
  BY <1>1, ResultsKept
<1>6. QED
  BY <1>2, <1>3, <1>4, <1>5 DEF IInv, GuardInv

THEOREM Invariant == Spec => []IInv
BY IInvInit, IInvNext, PTL DEF Spec

\* A cycle run works under the running mark of its queue, whatever requests are
\* refused and whatever tasks end meanwhile.
THEOREM CycleRunsAreGuarded == Spec => []CycleQueueGuarded
<1>1. IInv => CycleQueueGuarded
  BY DEF IInv
<1>2. QED
  BY <1>1, Invariant, PTL

\* Two tasks never cycle one queue, and two standalone tasks never work on one script.
THEOREM TargetsAreExclusive == Spec => []TargetsExclusive
<1>1. IInv => TargetsExclusive
  BY OwnedIsExclusive DEF IInv, TargetsExclusive
<1>2. QED
  BY <1>1, Invariant, PTL

\* No reservation outlives its task, however that ended.
THEOREM NoReservationLeaks == Spec => []ReservationsDie
<1>1. IInv => ReservationsDie
  BY DEF IInv
<1>2. QED
  BY <1>1, Invariant, PTL

\* A stop shows in the result of its task, however late it comes: a success that
\* was announced before the stop is not what is remembered.
THEOREM ResultsTellOfStops == Spec => []ResultTellsOfStop
<1>1. IInv => ResultTellsOfStop
  BY DEF IInv
<1>2. QED
  BY <1>1, Invariant, PTL

-----------------------------------------------------------------------------
(* The table of live tasks is that of TaskTable.                           *)

\* Tasks that have been in the table.
Used == {t \in Tasks : pc[t] # "new"}

\* Only add_task changes what is used: no other step brings a task to life.
LEMMA UsedChanges ==
  TypeOK /\ [Next]_vars =>
    \/ Used' = Used
    \/ \E t \in Tasks, x \in Targets : AddTask(t, x)
<1> SUFFICES ASSUME TypeOK, [Next]_vars,
                    ~ \E t \in Tasks, x \in Targets : AddTask(t, x)
             PROVE  \A t \in Tasks : pc'[t] = "new" <=> pc[t] = "new"
  BY DEF Used
<1>t. pc \in [Tasks -> Phases]
  BY DEF TypeOK
<1> DEFINE Same == \A t \in Tasks : pc'[t] = "new" <=> pc[t] = "new"
<1> USE DEF taskVars
<1>1. CASE UNCHANGED vars
  BY <1>1 DEF vars
<1>2. ASSUME NEW t \in Tasks, CreatedSent(t) \/ CreationAborted(t) PROVE Same
  BY <1>2, <1>t DEF CreatedSent, CreationAborted
<1>3. ASSUME NEW t \in Tasks, MainReturns(t) \/ MainRaises(t) \/ AfterScriptEnds(t)
             \/ FinalRaises(t)
      PROVE  Same
  BY <1>3, <1>t DEF MainReturns, MainRaises, AfterScriptEnds, FinalRaises, InFinal, Announce
<1>4. ASSUME NEW t \in Tasks, StopTask(t) \/ ScriptMissing(t) PROVE Same
  BY <1>4 DEF StopTask, CancelTasks, ScriptMissing
<1>5. ASSUME NEW t \in Tasks, Runs(t) PROVE Same
  <2>1. CASE RootStarts(t) \/ MainStarts(t) \/ CancelledBeforeStart(t) \/ CrashReported(t)
    BY <2>1, <1>t DEF RootStarts, MainStarts, CancelledBeforeStart, CrashReported
  <2>2. CASE FinalBegins(t) \/ AfterScriptStarts(t) \/ AfterScriptDropped(t)
    BY <2>2, <1>t DEF FinalBegins, AfterScriptStarts, AfterScriptDropped, GoTo, Announce
  <2>3. CASE CompletedSent(t) \/ PowerSignSent(t) \/ StopTaskReturns(t)
         \/ FinalFailureReported(t)
    BY <2>3, <1>t DEF CompletedSent, PowerSignSent, StopTaskReturns, FinalFailureReported, GoTo
  <2>4. CASE MainCancelled(t) \/ CleanTask(t)
    BY <2>4, <1>t DEF MainCancelled, CleanTask
  <2>5. QED
    BY <1>5, <2>1, <2>2, <2>3, <2>4 DEF Runs
<1>6. ASSUME NEW q \in CycleQueues, AddTaskBadScope(q) PROVE Same
  BY <1>6 DEF AddTaskBadScope
<1>7. CASE SetPower \/ PowerTaskEnds \/ StopAllBegins \/ StopAllStep
  BY <1>7 DEF SetPower, PowerTaskEnds, StopAllBegins, StopAllStep, StopAllPowerCancelled,
              StopAllCancels, StopAllAccomplished, StopAllReturns, CancelTasks
<1>8. QED
  BY <1>1, <1>2, <1>3, <1>4, <1>5, <1>6, <1>7 DEF Next

LEMMA TableInit == Init => Table!Init
BY DEF Init, Table!Init

LEMMA TableNext ==
  IInv /\ [Next]_vars => [Table!Next]_<<task_handler, Used, stop_all = "idle">>
<1> SUFFICES ASSUME IInv, [Next]_vars,
                    ~ UNCHANGED <<task_handler, Used, stop_all = "idle">>
             PROVE  Table!Next
  OBVIOUS
<1>i. TypeOK /\ CreatingListed /\ StopAllSeesAll
  BY DEF IInv
<1>t. pc \in [Tasks -> Phases] /\ task_handler \subseteq Tasks
  BY <1>i DEF TypeOK
<1>1. ASSUME NEW t \in Tasks, NEW x \in Targets, AddTask(t, x) PROVE Table!Enter(t)
  <2>1. /\ stop_all = "idle" /\ stop_all' = "idle"
        /\ task_handler' = task_handler \cup {t}
        /\ pc[t] = "new" /\ pc' = [pc EXCEPT ![t] = "creating"]
    BY <1>1 DEF AddTask, stopVars
  <2>2. t \notin Used /\ Used' = Used \cup {t}
    BY <1>t, <2>1 DEF Used
  <2>3. QED
    BY <2>1, <2>2 DEF Table!Enter, Used
<1>2. ASSUME Used' = Used, StopAllBegins PROVE Table!Close
  BY <1>2 DEF StopAllBegins, tableVars, Table!Close, Used
<1>3. ASSUME StopAllPowerCancelled \/ StopAllCancels \/ StopAllAccomplished, Used' = Used
      PROVE  FALSE
  BY <1>3 DEF StopAllPowerCancelled, StopAllCancels, StopAllAccomplished, tableVars
<1>4. ASSUME Used' = Used, StopAllReturns PROVE Table!Reopen
  <2>1. task_handler = {}
    BY <1>4, <1>i DEF StopAllReturns, StopAllSeesAll
  <2>2. QED
    BY <1>4, <2>1 DEF StopAllReturns, tableVars, Table!Reopen, Used
<1>5. ASSUME Used' = Used, UNCHANGED stop_all, NEW t \in Tasks, GivesBack(t) \/ CleanTask(t)
      PROVE  Table!Leave(t)
  <2>1. task_handler' = task_handler \/ (t \in task_handler /\ task_handler' = task_handler \ {t})
    BY <1>5, <1>i DEF GivesBack, LeaveMain, CreationAborted, CleanTask, CreatingListed
  <2>2. t \in task_handler /\ task_handler' = task_handler \ {t}
    BY <2>1, <1>5
  <2>3. QED
    BY <1>5, <2>2 DEF Table!Leave, Used
<1>6. ASSUME Used' = Used, UNCHANGED stop_all,
             Quiet \/ \E q \in CycleQueues : AddTaskBadScope(q)
      PROVE  FALSE
  BY <1>6 DEF Quiet, tableVars, AddTaskBadScope
<1>7. CASE Used' = Used
  <2>1. TableStep
    BY <1>i, StepsAreTableSteps
  <2>2. CASE UNCHANGED stop_all
    <3>1. ASSUME NEW t \in Tasks, NEW x \in Targets, AddTask(t, x) PROVE Table!Next
      BY <1>1, <3>1 DEF Table!Next
    <3>2. ASSUME NEW t \in Tasks, GivesBack(t) \/ CleanTask(t) PROVE Table!Next
      BY <1>5, <1>7, <2>2, <3>2 DEF Table!Next
    <3>3. QED
      BY <1>6, <1>7, <2>1, <2>2, <3>1, <3>2 DEF TableStep
  <2>3. CASE StopAllBegins \/ StopAllReturns
    BY <1>2, <1>4, <1>7, <2>3 DEF Table!Next
  <2>4. QED
    BY <1>3, <1>7, <1>i, <2>2, <2>3, StopAllSteps
<1>8. CASE \E t \in Tasks, x \in Targets : AddTask(t, x)
  BY <1>1, <1>8 DEF Table!Next
<1>9. QED
  BY <1>7, <1>8, <1>i, UsedChanges

\* "Stop all" comes back, and tasks are accepted again, only when the table is
\* empty: the manager implements the table of TaskTable.
THEOREM TableImplemented == Spec => ImplementsTaskTable
<1>1. Init => Table!Init
  BY TableInit
<1>2. IInv /\ [Next]_vars => [Table!Next]_<<task_handler, {t \in Tasks : pc[t] # "new"}, stop_all = "idle">>
  BY TableNext DEF Used
<1>3. QED
  BY <1>1, <1>2, Invariant, PTL DEF Spec, ImplementsTaskTable, Table!Spec

-----------------------------------------------------------------------------
(* Action properties.                                                      *)

\* Only clean_task starts the power operation.
LEMMA PowerSteps ==
  [Next]_vars => ~power_task' \/ UNCHANGED power_task \/ \E t \in Tasks : CleanTask(t)
<1> SUFFICES ASSUME [Next]_vars, \A t \in Tasks : ~CleanTask(t)
             PROVE  ~power_task' \/ UNCHANGED power_task
  OBVIOUS
<1> USE DEF powerVars
<1>1. CASE UNCHANGED vars
  BY <1>1 DEF vars
<1>2. ASSUME NEW t \in Tasks, NEW x \in Targets, AddTask(t, x) PROVE UNCHANGED power_task
  BY <1>2 DEF AddTask
<1>3. ASSUME NEW t \in Tasks,
             \/ CreatedSent(t) \/ CreationAborted(t) \/ MainReturns(t) \/ MainRaises(t)
             \/ AfterScriptEnds(t) \/ FinalRaises(t) \/ StopTask(t) \/ ScriptMissing(t)
      PROVE  UNCHANGED power_task
  BY <1>3 DEF CreatedSent, CreationAborted, MainReturns, MainRaises, AfterScriptEnds,
              FinalRaises, Announce, StopTask, ScriptMissing
<1>4. ASSUME NEW t \in Tasks, Runs(t) PROVE UNCHANGED power_task
  BY <1>4 DEF Runs, RootStarts, MainStarts, CancelledBeforeStart, MainCancelled,
              CrashReported, FinalBegins, AfterScriptStarts, AfterScriptDropped, GoTo,
              Announce, CompletedSent, PowerSignSent, FinalFailureReported, StopTaskReturns
<1>5. ASSUME NEW q \in CycleQueues, AddTaskBadScope(q) PROVE UNCHANGED power_task
  BY <1>5 DEF AddTaskBadScope
<1>6. CASE SetPower \/ PowerTaskEnds \/ StopAllBegins \/ StopAllStep
  BY <1>6 DEF SetPower, PowerTaskEnds, StopAllBegins, StopAllStep, StopAllPowerCancelled,
              StopAllCancels, StopAllAccomplished, StopAllReturns
<1>7. QED
  BY <1>1, <1>2, <1>3, <1>4, <1>5, <1>6 DEF Next

\* The power operation starts with an empty table and no "stop all" under way.
THEOREM PowerStartsIdle == Spec => PowerOnlyWhenIdle
<1>1. TypeOK /\ [Next]_vars =>
        [~power_task /\ power_task' => stop_all = "idle" /\ task_handler' = {}]_vars
  <2> SUFFICES ASSUME TypeOK, [Next]_vars, ~power_task, power_task'
               PROVE  stop_all = "idle" /\ task_handler' = {}
    OBVIOUS
  <2>1. PICK t \in Tasks : CleanTask(t)
    BY PowerSteps DEF TypeOK
  <2>2. PowerDue(t)
    BY <2>1 DEF CleanTask, powerVars
  <2>3. QED
    BY <2>1, <2>2 DEF CleanTask, PowerDue
<1>2. QED
  BY <1>1, TypeCorrect, PTL DEF Spec, PowerOnlyWhenIdle

\* The after-script starts from its announcement only.
LEMMA ScriptSteps ==
  ASSUME TypeOK, [Next]_vars, NEW u \in Tasks, pc[u] # "script", pc'[u] = "script"
  PROVE  AfterScriptStarts(u)
<1>t. pc \in [Tasks -> Phases]
  BY DEF TypeOK
<1> USE DEF taskVars
<1>1. CASE UNCHANGED vars
  BY <1>1 DEF vars
<1>2. ASSUME NEW t \in Tasks, NEW x \in Targets, AddTask(t, x) PROVE FALSE
  BY <1>2, <1>t DEF AddTask
<1>3. ASSUME NEW t \in Tasks,
             \/ CreatedSent(t) \/ CreationAborted(t) \/ MainReturns(t) \/ MainRaises(t)
             \/ AfterScriptEnds(t) \/ FinalRaises(t)
      PROVE  FALSE
  BY <1>3, <1>t DEF CreatedSent, CreationAborted, MainReturns, MainRaises,
                    AfterScriptEnds, FinalRaises, Announce
<1>4. ASSUME NEW t \in Tasks, StopTask(t) \/ ScriptMissing(t) PROVE FALSE
  BY <1>4 DEF StopTask, CancelTasks, ScriptMissing
<1>5. ASSUME NEW t \in Tasks, Runs(t) PROVE AfterScriptStarts(u)
  <2>1. CASE RootStarts(t) \/ MainStarts(t) \/ CancelledBeforeStart(t) \/ CrashReported(t)
    BY <2>1, <1>t DEF RootStarts, MainStarts, CancelledBeforeStart, CrashReported
  <2>2. CASE FinalBegins(t) \/ AfterScriptDropped(t)
    BY <2>2, <1>t DEF FinalBegins, AfterScriptDropped, GoTo, Announce
  <2>3. CASE AfterScriptStarts(t)
    BY <2>3, <1>t DEF AfterScriptStarts, GoTo
  <2>4. CASE CompletedSent(t) \/ PowerSignSent(t) \/ StopTaskReturns(t)
         \/ FinalFailureReported(t)
    BY <2>4, <1>t DEF CompletedSent, PowerSignSent, StopTaskReturns, FinalFailureReported, GoTo
  <2>5. CASE MainCancelled(t) \/ CleanTask(t)
    BY <2>5, <1>t DEF MainCancelled, CleanTask
  <2>6. QED
    BY <1>5, <2>1, <2>2, <2>3, <2>4, <2>5 DEF Runs
<1>6. ASSUME NEW q \in CycleQueues, AddTaskBadScope(q) PROVE FALSE
  BY <1>6 DEF AddTaskBadScope
<1>7. CASE SetPower \/ PowerTaskEnds \/ StopAllBegins \/ StopAllStep
  BY <1>7 DEF SetPower, PowerTaskEnds, StopAllBegins, StopAllStep, StopAllPowerCancelled,
              StopAllCancels, StopAllAccomplished, StopAllReturns, CancelTasks
<1>8. QED
  BY <1>1, <1>2, <1>3, <1>4, <1>5, <1>6, <1>7 DEF Next

\* A queue told to stop starts no after-script.
THEOREM StopsBeforeAfterScript == Spec => NoScriptAfterStop
<1>1. TypeOK /\ [Next]_vars =>
        [\A t \in Tasks : pc[t] # "script" /\ pc'[t] = "script" => ~closing[t]]_vars
  BY ScriptSteps DEF AfterScriptStarts
<1>2. QED
  BY <1>1, TypeCorrect, PTL DEF Spec, NoScriptAfterStop
=============================================================================
