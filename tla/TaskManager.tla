----------------------------- MODULE TaskManager -----------------------------
(***************************************************************************)
(* The life of a task in app/core/task_manager/manager.py (_TaskManager    *)
(* and Task) over TaskExecuteBase of app/models/task.py: creation, the two *)
(* asyncio tasks that run it, its end, the clean-up, and the two ways to   *)
(* stop it.  One event loop runs everything, so a step is the code between *)
(* two awaits.                                                             *)
(*                                                                         *)
(* What a task does while it runs is one phase here, "main"; the scripts   *)
(* it works through are the subject of other modules.                      *)
(***************************************************************************)
EXTENDS Naturals

CONSTANTS Tasks,         \* task uids: each names one accepted call of add_task
          Scripts,       \* targets of standalone tasks
          Queues,        \* queues run once, in order
          CycleQueues,   \* queues run with mode CycleRun
          ScopeErrors,   \* cycle queues for which a request may carry an account
                         \* scope the queue does not have
          None           \* no task, no target

ASSUME TargetsAssumption ==
  /\ Scripts \cap Queues = {}
  /\ Scripts \cap CycleQueues = {}
  /\ Queues \cap CycleQueues = {}
ASSUME ScopeErrorsAssumption == ScopeErrors \subseteq CycleQueues
ASSUME NoneAssumption == None \notin Tasks \cup Scripts \cup Queues \cup CycleQueues

VARIABLES
  pc,              \* where the task is, see Phases
  target, mode,    \* what add_task was called with
  task_handler,    \* the tasks in task_handler (and in task_info)
  reserved,        \* the standalone task that has reserved a script
  running_cycle,   \* Config.running_cycle_queue_ids
  closing,         \* is_closing; stopped_manually is set in the same step
  cancelled,       \* asyncio has a cancellation to deliver to the task
  exit,            \* _exit_result
  announced,       \* the outcome sent with TASK_COMPLETED
  results,         \* _recent_results
  power_sign,      \* Config.power_sign is set
  power_task,      \* a power task was asked for (start_power_task) or is running
  stop_all,        \* how far the call stop_task("ALL") is, "idle" when none runs
  snapshot,        \* task_item_list of that call
  cleanups,        \* cleanup_tasks of that call
  stopping,        \* the tasks a stop_task(uid) call is waiting for
  stop_at          \* history: how far the task was when it was told to stop

taskVars  == <<pc, target, mode, closing, cancelled, exit, announced, results, stop_at>>
tableVars == <<task_handler, reserved, running_cycle>>
powerVars == <<power_sign, power_task>>
stopVars  == <<stop_all, snapshot, cleanups, stopping>>
vars == <<taskVars, tableVars, powerVars, stopVars>>

Targets == Scripts \cup Queues \cup CycleQueues

(* "creating": in the tables, TASK_CREATED is being sent; "aborted": that  *)
(* send was cancelled and the creation rolled back.  "root" and "inner":   *)
(* the asyncio task of that name is scheduled and has not taken its first  *)
(* step.  "main": _run_main_task.  "crash": on_crash is sending a notice.  *)
(* "final", "notice", "script", "announce", "power": final_task before its *)
(* first await, announcing the queue's after-script, running it, sending   *)
(* TASK_COMPLETED, publishing the power sign.  "failed": final_task raised *)
(* and on_crash is sending its notice.  "ended", "lost": accomplish is     *)
(* set, by _execute_task or by the callback of the root task.              *)
BeforeRun == {"creating", "root", "inner"}
InFinal   == {"final", "notice", "script", "announce", "power"}
Over      == {"ended", "lost"}
Phases    == {"new", "aborted", "main", "crash", "failed"}
             \cup BeforeRun \cup InFinal \cup Over

Outcomes  == {"success", "error", "cancelled"}
NoOutcome == "none"

(* A stop meets a task during its creation, before its result is kept, or  *)
(* after.                                                                  *)
StopMoments == {"never", "creating", "running", "kept"}

Accomplished(t) == pc[t] \in Over
IsCycle(t) == target[t] \in CycleQueues
IsQueue(t) == target[t] \in Queues \cup CycleQueues

Init ==
  /\ pc = [t \in Tasks |-> "new"]
  /\ target = [t \in Tasks |-> None]
  /\ mode = [t \in Tasks |-> "AutoProxy"]
  /\ task_handler = {}
  /\ reserved = [s \in Scripts |-> None]
  /\ running_cycle = {}
  /\ closing = [t \in Tasks |-> FALSE]
  /\ cancelled = [t \in Tasks |-> FALSE]
  /\ exit = [t \in Tasks |-> "success"]
  /\ announced = [t \in Tasks |-> NoOutcome]
  /\ results = [t \in Tasks |-> NoOutcome]
  /\ power_sign = FALSE
  /\ power_task = FALSE
  /\ stop_all = "idle"
  /\ snapshot = {}
  /\ cleanups = {}
  /\ stopping = {}
  /\ stop_at = [t \in Tasks |-> "never"]

-----------------------------------------------------------------------------
(* Creation.                                                               *)

\* Mutant: the running mark of a queue is not looked at.
WhateverCycles(x) == x \in Scripts => reserved[x] = None

\* add_task does not refuse the target: its script is free, its queue not cycling.
Available(x) ==
  /\ x \in Scripts => reserved[x] = None
  /\ x \notin running_cycle

\* add_task up to the await of the TASK_CREATED message.  A refused call (the
\* target is not available, all tasks are being stopped) changes nothing.
AddTask(t, x) ==
  /\ pc[t] = "new"
  /\ stop_all = "idle"
  /\ Available(x)
  /\ reserved' = [s \in Scripts |-> IF s = x THEN t ELSE reserved[s]]
  /\ running_cycle' = running_cycle \cup ({x} \cap CycleQueues)
  /\ \E m \in {"AutoProxy"} \cup {c \in {"ScriptConfig"} : x \in Scripts} :
       mode' = [mode EXCEPT ![t] = m]
  /\ pc' = [pc EXCEPT ![t] = "creating"]
  /\ target' = [target EXCEPT ![t] = x]
  /\ task_handler' = task_handler \cup {t}
  /\ UNCHANGED <<closing, cancelled, exit, announced, results, stop_at>>
  /\ UNCHANGED <<powerVars, stopVars>>

\* Mutant: the refusal takes the mark off without asking whose it is.
AddTaskBadScopeUnmarks(q) ==
  /\ stop_all = "idle"
  /\ q \in ScopeErrors
  /\ running_cycle' = running_cycle \ {q}
  /\ UNCHANGED <<taskVars, task_handler, reserved, powerVars, stopVars>>

\* add_task of a cycle queue refused by a check that comes after the queue was
\* marked as running (_resolve_queue_user_scope raises): the mark stays.
AddTaskBadScope(q) ==
  /\ stop_all = "idle"
  /\ q \in ScopeErrors \ running_cycle
  /\ running_cycle' = running_cycle \cup {q}
  /\ UNCHANGED <<taskVars, task_handler, reserved, powerVars, stopVars>>

\* The message is out: execute() schedules the root task, _schedule_clean_task
\* the clean-up, and add_task returns.
CreatedSent(t) ==
  /\ pc[t] = "creating"
  /\ pc' = [pc EXCEPT ![t] = "root"]
  /\ UNCHANGED <<target, mode, closing, cancelled, exit, announced, results, stop_at>>
  /\ UNCHANGED <<tableVars, powerVars, stopVars>>

\* The caller of add_task is cancelled during that await (the start-up queue
\* runs in a hook that dies with its connection): everything is rolled back.
CreationAborted(t) ==
  /\ pc[t] = "creating"
  /\ pc' = [pc EXCEPT ![t] = "aborted"]
  /\ task_handler' = task_handler \ {t}
  /\ reserved' = [s \in Scripts |-> IF reserved[s] = t THEN None ELSE reserved[s]]
  /\ running_cycle' = running_cycle \ {target[t]}
  /\ UNCHANGED <<target, mode, closing, cancelled, exit, announced, results, stop_at>>
  /\ UNCHANGED <<powerVars, stopVars>>

-----------------------------------------------------------------------------
(* Running.                                                                *)

\* The root task enters its TaskGroup; from now on a stop cancels the inner one.
RootStarts(t) ==
  /\ pc[t] = "root"
  /\ ~cancelled[t]
  /\ pc' = [pc EXCEPT ![t] = "inner"]
  /\ UNCHANGED <<target, mode, closing, cancelled, exit, announced, results, stop_at>>
  /\ UNCHANGED <<tableVars, powerVars, stopVars>>

\* _execute_task takes its first step.
MainStarts(t) ==
  /\ pc[t] = "inner"
  /\ ~cancelled[t]
  /\ pc' = [pc EXCEPT ![t] = "main"]
  /\ UNCHANGED <<target, mode, closing, cancelled, exit, announced, results, stop_at>>
  /\ UNCHANGED <<tableVars, powerVars, stopVars>>

\* A coroutine cancelled before its first step never runs: no try block was
\* entered, so neither final_task nor any finally clause is executed.
CancelledBeforeStart(t) ==
  /\ pc[t] \in {"root", "inner"}
  /\ cancelled[t]
  /\ pc' = [pc EXCEPT ![t] = "lost"]
  /\ UNCHANGED <<target, mode, closing, cancelled, exit, announced, results, stop_at>>
  /\ UNCHANGED <<tableVars, powerVars, stopVars>>

\* What the finally clauses of the run do however it ends: _run_cycle_task takes
\* the running mark off its queue; the run loop gives the script back if it got
\* as far as taking it up (prepare may have raised, the script may be gone).
LeaveMain(t) ==
  /\ \/ reserved' = [s \in Scripts |-> IF reserved[s] = t THEN None ELSE reserved[s]]
     \/ UNCHANGED reserved
  /\ running_cycle' = running_cycle \ {target[t]}
  /\ UNCHANGED task_handler

\* _record_error: a script cannot be run (it was deleted, its type is unknown).
ScriptMissing(t) ==
  /\ pc[t] = "main"
  /\ ~IsCycle(t)
  /\ exit[t] = "success"
  /\ exit' = [exit EXCEPT ![t] = "error"]
  /\ UNCHANGED <<pc, target, mode, closing, cancelled, announced, results, stop_at>>
  /\ UNCHANGED <<tableVars, powerVars, stopVars>>

\* The run comes to its end.  A cycle run loops for ever.
MainReturns(t) ==
  /\ pc[t] = "main"
  /\ ~cancelled[t]
  /\ ~IsCycle(t)
  /\ LeaveMain(t)
  /\ pc' = [pc EXCEPT ![t] = "final"]
  /\ UNCHANGED <<target, mode, closing, cancelled, exit, announced, results, stop_at>>
  /\ UNCHANGED <<powerVars, stopVars>>

\* An exception leaves the run; on_crash records it and sends a notice.
MainRaises(t) ==
  /\ pc[t] = "main"
  /\ ~cancelled[t]
  /\ LeaveMain(t)
  /\ pc' = [pc EXCEPT ![t] = "crash"]
  /\ exit' = [exit EXCEPT ![t] = "error"]
  /\ UNCHANGED <<target, mode, closing, cancelled, announced, results, stop_at>>
  /\ UNCHANGED <<powerVars, stopVars>>

\* Mutant: the run swallows the cancellation and goes on.
MainIgnoresCancel(t) ==
  /\ pc[t] = "main"
  /\ cancelled[t]
  /\ cancelled' = [cancelled EXCEPT ![t] = FALSE]
  /\ UNCHANGED <<pc, target, mode, closing, exit, announced, results, stop_at>>
  /\ UNCHANGED <<tableVars, powerVars, stopVars>>

\* CancelledError reaches the run.
MainCancelled(t) ==
  /\ pc[t] = "main"
  /\ cancelled[t]
  /\ LeaveMain(t)
  /\ pc' = [pc EXCEPT ![t] = "final"]
  /\ UNCHANGED <<target, mode, closing, cancelled, exit, announced, results, stop_at>>
  /\ UNCHANGED <<powerVars, stopVars>>

\* The notice of on_crash is out, or the wait for it is cancelled.
CrashReported(t) ==
  /\ pc[t] = "crash"
  /\ pc' = [pc EXCEPT ![t] = "final"]
  /\ UNCHANGED <<target, mode, closing, cancelled, exit, announced, results, stop_at>>
  /\ UNCHANGED <<tableVars, powerVars, stopVars>>

-----------------------------------------------------------------------------
(* final_task, shielded from cancellation by _run_final_task.              *)

GoTo(t, phase) ==
  /\ pc' = [pc EXCEPT ![t] = phase]
  /\ UNCHANGED <<target, mode, closing, cancelled, exit, announced, results, stop_at>>
  /\ UNCHANGED <<tableVars, powerVars, stopVars>>

\* TASK_COMPLETED is built from the result of this moment and its send begins.
Announce(t) ==
  /\ pc' = [pc EXCEPT ![t] = "announce"]
  /\ announced' = [announced EXCEPT ![t] = exit[t]]
  /\ UNCHANGED <<target, mode, closing, cancelled, exit, results, stop_at>>
  /\ UNCHANGED <<tableVars, powerVars, stopVars>>

\* A queue that was not told to stop may have an after-script to run, which a
\* notice announces first.
FinalBegins(t) ==
  /\ pc[t] = "final"
  /\ \/ IsQueue(t) /\ ~closing[t] /\ GoTo(t, "notice")
     \/ Announce(t)

\* Mutant: the stop is not looked at again after the notice.
AfterScriptStartsAnyway(t) ==
  /\ pc[t] = "notice"
  /\ GoTo(t, "script")

\* The notice is out; a stop may have arrived in the meantime.
AfterScriptStarts(t) ==
  /\ pc[t] = "notice"
  /\ ~closing[t]
  /\ GoTo(t, "script")

AfterScriptDropped(t) ==
  /\ pc[t] = "notice"
  /\ closing[t]
  /\ Announce(t)

\* The after-script ends by itself, or because cancel() has cancelled it.
AfterScriptEnds(t) ==
  /\ pc[t] = "script"
  /\ Announce(t)

\* Mutant: what is kept is the outcome that was sent.
CompletedSentKeepsSent(t) ==
  /\ pc[t] = "announce"
  /\ results' = [results EXCEPT ![t] = announced[t]]
  /\ \/ /\ ~closing[t] /\ target[t] \in Queues /\ ~power_sign
        /\ pc' = [pc EXCEPT ![t] = "power"]
        /\ power_sign' \in BOOLEAN
     \/ /\ pc' = [pc EXCEPT ![t] = "ended"]
        /\ UNCHANGED power_sign
  /\ UNCHANGED <<target, mode, closing, cancelled, exit, announced, stop_at>>
  /\ UNCHANGED <<tableVars, power_task, stopVars>>

\* TASK_COMPLETED is out: _on_finished keeps the result of this moment, and an
\* undisturbed queue run that is not cycling hands its AfterAccomplish over,
\* unless a power sign is already set or the queue has been deleted.
CompletedSent(t) ==
  /\ pc[t] = "announce"
  /\ results' = [results EXCEPT ![t] = exit[t]]
  /\ \/ /\ ~closing[t] /\ target[t] \in Queues /\ ~power_sign
        /\ pc' = [pc EXCEPT ![t] = "power"]
        /\ power_sign' \in BOOLEAN
     \/ /\ pc' = [pc EXCEPT ![t] = "ended"]
        /\ UNCHANGED power_sign
  /\ UNCHANGED <<target, mode, closing, cancelled, exit, announced, stop_at>>
  /\ UNCHANGED <<tableVars, power_task, stopVars>>

PowerSignSent(t) ==
  /\ pc[t] = "power"
  /\ GoTo(t, "ended")

\* Anything final_task awaits may raise (a download that does not confirm its
\* end, the after-script, a send): the rest of it is given up, the result it
\* would have kept with it, and on_crash records the failure and sends a notice.
\* A TASK_COMPLETED whose send raises has announced nothing.
FinalRaises(t) ==
  /\ pc[t] \in InFinal
  /\ pc' = [pc EXCEPT ![t] = "failed"]
  /\ exit' = [exit EXCEPT ![t] = IF exit[t] = "success" THEN "error" ELSE exit[t]]
  /\ announced' = [announced EXCEPT ![t] = IF results[t] = NoOutcome THEN NoOutcome
                                           ELSE announced[t]]
  /\ UNCHANGED <<target, mode, closing, cancelled, results, stop_at>>
  /\ UNCHANGED <<tableVars, powerVars, stopVars>>

\* The notice is out, or the wait for it is cancelled; accomplish is set.
FinalFailureReported(t) ==
  /\ pc[t] = "failed"
  /\ GoTo(t, "ended")

-----------------------------------------------------------------------------
(* Clean-up and power.                                                     *)

\* clean_task of the last task hands the power sign over to start_power_task.
\* Whether that call waits for its lock is the subject of PowerTask; here the
\* hand-over is one step.
PowerDue(t) ==
  mode[t] # "ScriptConfig" /\ stop_all = "idle" /\ power_sign /\ task_handler \ {t} = {}

\* Mutant: the script is left to the run loop, which has given it back already.
CleanTaskKeepsScript(t) ==
  /\ t \in task_handler
  /\ Accomplished(t)
  /\ task_handler' = task_handler \ {t}
  /\ IF PowerDue(t)
     THEN power_task' = TRUE /\ power_sign' = FALSE
     ELSE UNCHANGED powerVars
  /\ UNCHANGED <<taskVars, reserved, running_cycle, stopVars>>

\* clean_task wakes up and takes the task out of the tables.
CleanTask(t) ==
  /\ t \in task_handler
  /\ Accomplished(t)
  /\ task_handler' = task_handler \ {t}
  /\ reserved' = [s \in Scripts |-> IF reserved[s] = t THEN None ELSE reserved[s]]
  /\ IF PowerDue(t)
     THEN power_task' = TRUE /\ power_sign' = FALSE
     ELSE UNCHANGED powerVars
  /\ UNCHANGED <<taskVars, running_cycle, stopVars>>

\* The user picks (or clears) the operation: a waiting power task is withdrawn.
SetPower ==
  /\ power_task' = FALSE
  /\ power_sign' \in BOOLEAN
  /\ UNCHANGED <<taskVars, tableVars, stopVars>>

\* The user cancels, or the operation is carried out or given up.
PowerTaskEnds ==
  /\ power_task
  /\ power_task' = FALSE
  /\ power_sign' \in {power_sign, FALSE}
  /\ UNCHANGED <<taskVars, tableVars, stopVars>>

-----------------------------------------------------------------------------
(* Stopping.                                                               *)

\* Mutant: there never is anything to cancel.
NothingToCancel(t) == FALSE

\* cancel() finds an asyncio task that is not done.
Cancellable(t) == pc[t] \notin {"creating"} \cup Over

\* How far the task is, for stop_at.
StopMoment(t) ==
  IF pc[t] = "creating" THEN "creating"
  ELSE IF results[t] = NoOutcome THEN "running" ELSE "kept"

\* Task.cancel on every task of ts, and is_closing.  While a task is being
\* created there is nothing to cancel yet, and cancel() records no result.
CancelTasks(ts) ==
  /\ closing' = [t \in Tasks |-> closing[t] \/ t \in ts]
  /\ cancelled' = [t \in Tasks |-> cancelled[t] \/ (t \in ts /\ Cancellable(t))]
  /\ exit' = [t \in Tasks |-> IF t \in ts /\ Cancellable(t) /\ exit[t] = "success"
                              THEN "cancelled" ELSE exit[t]]
  /\ stop_at' = [t \in Tasks |-> IF t \in ts THEN StopMoment(t) ELSE stop_at[t]]
  /\ UNCHANGED <<pc, target, mode, announced, results>>

\* stop_task(uid) up to its wait; a second call for the task is refused.
StopTask(t) ==
  /\ t \in task_handler
  /\ ~closing[t]
  /\ CancelTasks({t})
  /\ stopping' = stopping \cup {t}
  /\ UNCHANGED <<tableVars, powerVars, stop_all, snapshot, cleanups>>

StopTaskReturns(t) ==
  /\ t \in stopping
  /\ Accomplished(t)
  /\ stopping' = stopping \ {t}
  /\ UNCHANGED <<taskVars, tableVars, powerVars, stop_all, snapshot, cleanups>>

\* stop_task("ALL"), under its lock: no new tasks, no power operation.
StopAllBegins ==
  /\ stop_all = "idle"
  /\ stop_all' = IF power_task THEN "power" ELSE "creating"
  /\ power_sign' = FALSE
  /\ UNCHANGED <<taskVars, tableVars, power_task, snapshot, cleanups, stopping>>

\* System.cancel_power_task is done.
StopAllPowerCancelled ==
  /\ stop_all = "power"
  /\ stop_all' = "creating"
  /\ power_sign' = FALSE
  /\ power_task' = FALSE
  /\ UNCHANGED <<taskVars, tableVars, snapshot, cleanups, stopping>>

\* No task is being created any more: cancel all tasks that are not closing.
StopAllCancels ==
  /\ stop_all = "creating"
  /\ \A t \in Tasks : pc[t] # "creating"
  /\ CancelTasks({t \in task_handler : ~closing[t]})
  /\ snapshot' = task_handler
  /\ stop_all' = "accomplish"
  /\ UNCHANGED <<tableVars, powerVars, cleanups, stopping>>

\* All of them are over; now the clean-ups that are still pending: a task has
\* one from its execute() on.
StopAllAccomplished ==
  /\ stop_all = "accomplish"
  /\ \A t \in snapshot : Accomplished(t)
  /\ cleanups' = {t \in task_handler : pc[t] # "creating"}
  /\ stop_all' = "clean"
  /\ UNCHANGED <<taskVars, tableVars, powerVars, snapshot, stopping>>

\* Mutant: the clean-ups are not waited for.
StopAllReturnsEarly ==
  /\ stop_all = "clean"
  /\ power_sign' = FALSE
  /\ stop_all' = "idle"
  /\ snapshot' = {}
  /\ cleanups' = {}
  /\ UNCHANGED <<taskVars, tableVars, power_task, stopping>>

\* The table is empty; whatever power sign the ended tasks left is dropped.
StopAllReturns ==
  /\ stop_all = "clean"
  /\ cleanups \cap task_handler = {}
  /\ power_sign' = FALSE
  /\ stop_all' = "idle"
  /\ snapshot' = {}
  /\ cleanups' = {}
  /\ UNCHANGED <<taskVars, tableVars, power_task, stopping>>

-----------------------------------------------------------------------------
Runs(t) ==
  \/ RootStarts(t) \/ MainStarts(t) \/ CancelledBeforeStart(t)
  \/ MainCancelled(t) \/ CrashReported(t)
  \/ FinalBegins(t) \/ AfterScriptStarts(t) \/ AfterScriptDropped(t)
  \/ CompletedSent(t) \/ PowerSignSent(t) \/ FinalFailureReported(t)
  \/ CleanTask(t) \/ StopTaskReturns(t)

StopAllStep ==
  StopAllPowerCancelled \/ StopAllCancels \/ StopAllAccomplished \/ StopAllReturns

Next ==
  \/ \E t \in Tasks :
       \/ \E x \in Targets : AddTask(t, x)
       \/ CreatedSent(t) \/ CreationAborted(t)
       \/ ScriptMissing(t) \/ MainReturns(t) \/ MainRaises(t) \/ AfterScriptEnds(t)
       \/ FinalRaises(t) \/ StopTask(t)
       \/ Runs(t)
  \/ \E q \in CycleQueues : AddTaskBadScope(q)
  \/ SetPower \/ PowerTaskEnds
  \/ StopAllBegins \/ StopAllStep

Spec == Init /\ [][Next]_vars

\* What the event loop guarantees: a scheduled step is taken, a send returns
\* (it times out), a cancellation is delivered.  Nothing makes a run or an
\* after-script end by itself.
Fairness ==
  /\ \A t \in Tasks : WF_vars(CreatedSent(t) \/ CreationAborted(t))
  /\ \A t \in Tasks : WF_vars(Runs(t))
  /\ \A t \in Tasks : WF_vars(closing[t] /\ AfterScriptEnds(t))
  /\ WF_vars(StopAllStep)

FairSpec == Spec /\ Fairness

-----------------------------------------------------------------------------
TypeOK ==
  /\ pc \in [Tasks -> Phases]
  /\ target \in [Tasks -> Targets \cup {None}]
  /\ mode \in [Tasks -> {"AutoProxy", "ScriptConfig"}]
  /\ task_handler \subseteq Tasks
  /\ reserved \in [Scripts -> Tasks \cup {None}]
  /\ running_cycle \subseteq CycleQueues
  /\ closing \in [Tasks -> BOOLEAN]
  /\ cancelled \in [Tasks -> BOOLEAN]
  /\ exit \in [Tasks -> Outcomes]
  /\ announced \in [Tasks -> Outcomes \cup {NoOutcome}]
  /\ results \in [Tasks -> Outcomes \cup {NoOutcome}]
  /\ power_sign \in BOOLEAN
  /\ power_task \in BOOLEAN
  /\ stop_all \in {"idle", "power", "creating", "accomplish", "clean"}
  /\ snapshot \subseteq Tasks
  /\ cleanups \subseteq Tasks
  /\ stopping \subseteq Tasks
  /\ stop_at \in [Tasks -> StopMoments]

\* The phases in which a cycle task works with the list of scripts frozen at its
\* creation, and a standalone task owns its script.
BeforeEnd == BeforeRun \cup {"main"}

\* As long as a cycle task may still use its frozen list, its queue is marked as
\* running, so the configuration refuses the edits that would break the list.
CycleQueueGuarded ==
  \A t \in Tasks : pc[t] \in BeforeEnd /\ IsCycle(t) => target[t] \in running_cycle

\* A queue is never cycled by two tasks at once.
OneCyclePerQueue ==
  \A t, u \in Tasks :
    /\ pc[t] \in BeforeEnd /\ pc[u] \in BeforeEnd
    /\ IsCycle(t) /\ target[t] = target[u]
    => t = u

\* A standalone task has its script to itself until its run is over.
OneTaskPerScript ==
  \A t, u \in Tasks :
    /\ pc[t] \in BeforeEnd /\ pc[u] \in BeforeEnd
    /\ target[t] \in Scripts /\ target[t] = target[u]
    => t = u

\* Two starts of one target, however they interleave, never leave two tasks at it.
TargetsExclusive == OneCyclePerQueue /\ OneTaskPerScript

\* However a task ends (also when it is cancelled before its first step), a
\* script it reserved is free again once it has left the table.
ReservationsDie ==
  \A s \in Scripts : reserved[s] # None => reserved[s] \in task_handler

\* A task that was told to stop is not remembered as a success: the stop shows
\* in its result however late it came, also between the announcement of a
\* success and the keeping of the result.  Only a stop that met the task during
\* its creation, when there was nothing to cancel, or after its result had been
\* kept leaves a success behind.
ResultTellsOfStop ==
  \A t \in Tasks :
    closing[t] /\ results[t] = "success" => stop_at[t] \in {"creating", "kept"}

\* The after-script of a queue is never started once the queue was told to stop,
\* also when the stop arrives while the start is being announced.
NoScriptAfterStop ==
  [][\A t \in Tasks : pc[t] # "script" /\ pc'[t] = "script" => ~closing[t]]_vars

\* The power sign is handed over (start_power_task is called) only when no task
\* is left, none is being created, and nobody is stopping all tasks.
PowerOnlyWhenIdle ==
  [][~power_task /\ power_task' => stop_all = "idle" /\ task_handler' = {}]_vars

\* The table of live tasks is the one TaskTable promises: in particular "stop
\* all" leaves no task behind, whatever was being created when it was called.
Table == INSTANCE TaskTable WITH
  live <- task_handler,
  used <- {t \in Tasks : pc[t] # "new"},
  accepting <- stop_all = "idle"
ImplementsTaskTable == Table!Spec

\* "Stop all" comes back, unless one of the tasks was told to stop while it was
\* being created.
StopAllReturnsUnlessSwallowed ==
  stop_all # "idle" ~> stop_all = "idle" \/ \E t \in Tasks : stop_at[t] = "creating"

\* A task told to stop after its creation leaves the table, and the call that
\* told it returns.
StopTakesEffect ==
  \A t \in Tasks :
    closing[t] /\ stop_at[t] # "creating" ~> t \notin task_handler \cup stopping

-----------------------------------------------------------------------------
(* What the documentation of the code says and the code does not do.       *)

\* "the mark is taken off by whoever put it on": a queue is marked as running
\* only while a task that cycles it is in the table.
NoStaleCycleMark ==
  \A q \in running_cycle : \E t \in task_handler : target[t] = q

\* _remember_result: the result of a finished task is kept, so that a task that
\* has been taken out of the table can still be asked for by its id.  A task
\* cancelled before its first step, and one whose final_task raises before the
\* result is kept, leave none.
FinishedHasResult ==
  \A t \in Tasks : Accomplished(t) /\ t \notin task_handler => results[t] # NoOutcome

\* The outcome that is kept is the one that was sent with TASK_COMPLETED.
KeptIsAnnounced ==
  \A t \in Tasks : results[t] # NoOutcome => results[t] = announced[t]

\* "Stop all" comes back.
StopAllReturnsAlways == stop_all # "idle" ~> stop_all = "idle"
=============================================================================
