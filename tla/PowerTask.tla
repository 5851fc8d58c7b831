------------------------------- MODULE PowerTask -------------------------------
(***************************************************************************)
(* The power operation after the last task: _SystemHandler of              *)
(* app/services/common/system.py, with its callers (clean_task and         *)
(* final_task of the task manager, the endpoints /set/power and            *)
(* /cancel/power).  One event loop runs them all; _power_task_lock is an   *)
(* asyncio.Lock, which is granted in the order of arrival.                 *)
(*                                                                         *)
(* A caller is one running call of start_power_task, cancel_power_task or  *)
(* set_power, a power task one asyncio task running _power_task.           *)
(***************************************************************************)
EXTENDS Naturals, Sequences

CONSTANTS Callers, PowerTasks,
          Exits,              \* operations that end the program (KillSelf, RestartSelf)
          SystemOps,          \* operations of the operating system (Shutdown, Sleep, ...)
          IfScheduledWakeUp,  \* the setting Start.IfScheduledWakeUp
          NoAction, None

Ops == Exits \cup SystemOps
Requests == {"start", "cancel", "select"}

ASSUME OpsAssumption == NoAction \notin Ops /\ Exits \cap SystemOps = {}
ASSUME WakeUpAssumption == IfScheduledWakeUp \in BOOLEAN
ASSUME NoneAssumption == None \notin Ops \cup PowerTasks

VARIABLES
  power_sign,               \* Config.power_sign
  power_task,               \* System.power_task
  power_cancelled_event_task,
  current_power_operation,
  call,       \* "idle", "waiting" for the lock, "ending" the old task, "publishing" its end
  request,    \* which call it is
  waiters,    \* the calls waiting for the lock
  state,      \* of each power task, see States
  op,         \* the operation a power task is for
  cancelling, \* a cancellation is to be delivered to the power task
  announced,  \* history: how often the end of the power task has been announced
  tasks,      \* the task table is not empty
  due,        \* a timed start is due
  written,    \* history: power_sign was set since a cancel call took the lock
  picked      \* history: the start calls under way when the user set power_sign

callVars == <<call, request, waiters>>
runVars  == <<state, op, cancelling, announced>>
showVars == <<power_cancelled_event_task, current_power_operation>>
envVars  == <<tasks, due>>
histVars == <<written, picked>>
vars == <<power_sign, power_task, callVars, runVars, showVars, envVars, histVars>>

(* "scheduled": no step taken; "counting": the delay and the countdown;    *)
(* "draining": before_power and the replay; "cleaning": the emulators are  *)
(* closed before a system operation; "closing": the frontend is, before an *)
(* exit; "publishing": the end is being announced; "carried": the          *)
(* operation was carried out; "done": it was not.                          *)
Working == {"counting", "draining", "cleaning", "closing"}
States  == {"none", "scheduled", "publishing", "carried", "done"} \cup Working

Alive(p) == state[p] \in {"scheduled", "publishing"} \cup Working
OldAlive == power_task # None /\ Alive(power_task)

Init ==
  /\ power_sign = NoAction
  /\ power_task = None
  /\ power_cancelled_event_task = None
  /\ current_power_operation = None
  /\ call = [c \in Callers |-> "idle"]
  /\ request = [c \in Callers |-> "cancel"]
  /\ waiters = <<>>
  /\ state = [p \in PowerTasks |-> "none"]
  /\ op = [p \in PowerTasks |-> NoAction]
  /\ cancelling = [p \in PowerTasks |-> FALSE]
  /\ announced = [p \in PowerTasks |-> 0]
  /\ tasks = FALSE
  /\ due = FALSE
  /\ written = FALSE
  /\ picked = {}

-----------------------------------------------------------------------------
(* What the callers do with the sign.                                      *)

KeepSign == UNCHANGED <<power_sign, histVars>>

\* Config.power_sign = "NoAction", by the calls that drop it without a power task.
ClearSign == power_sign' = NoAction /\ picked' = {} /\ UNCHANGED written

\* Starts that are under way and have not looked at the sign for the last time.
StartsUnderWay == {c \in Callers : call[c] # "idle" /\ request[c] = "start"}

\* set_power writes the choice of the user when the old task is gone.
PickSign ==
  /\ power_sign' \in Ops \cup {NoAction}
  /\ written' = TRUE
  /\ picked' = IF power_sign' = NoAction THEN {} ELSE StartsUnderWay

\* _publish_power_cancelled, by whoever: at most once for a power task.
PublishEnd(p) ==
  /\ power_cancelled_event_task' = p
  /\ announced' = IF power_cancelled_event_task = p THEN announced
                  ELSE [announced EXCEPT ![p] = @ + 1]

-----------------------------------------------------------------------------
(* The lock.                                                               *)

LockFree == \A c \in Callers : call[c] \notin {"ending", "publishing"}

\* A call asks for the lock and gets it at once, or waits for its turn.
TakesLock(c, r) ==
  \/ call[c] = "idle" /\ LockFree /\ waiters = <<>> /\ UNCHANGED waiters
  \/ /\ call[c] = "waiting" /\ request[c] = r
     /\ LockFree /\ Head(waiters) = c
     /\ waiters' = Tail(waiters)

MustWait(c) == call[c] = "idle" /\ ~(LockFree /\ waiters = <<>>)

Wait(c, r) ==
  /\ MustWait(c)
  /\ call' = [call EXCEPT ![c] = "waiting"]
  /\ request' = [request EXCEPT ![c] = r]
  /\ waiters' = Append(waiters, c)
  /\ UNCHANGED <<power_task, runVars, showVars>>

\* The last task leaves the table and clean_task calls start_power_task in the
\* same step; the table may fill again while the call waits for the lock.
StartCalled(c) ==
  IF call[c] = "idle" THEN tasks /\ power_sign # NoAction /\ tasks' = FALSE
                      ELSE UNCHANGED tasks

\* Mutant: the old task is told to end but not waited for.
MakeAtOnce(c, p) ==
  /\ state[p] \in {"none", "carried", "done"}
  /\ p # power_task
  /\ power_task' = p
  /\ state' = [state EXCEPT ![p] = "scheduled"]
  /\ op' = [op EXCEPT ![p] = power_sign]
  /\ cancelling' = [q \in PowerTasks |-> q = power_task]
  /\ announced' = [announced EXCEPT ![p] = 0]
  /\ power_cancelled_event_task' = None
  /\ call' = [call EXCEPT ![c] = "idle"]
  /\ power_sign' = NoAction /\ picked' = {} /\ UNCHANGED written

\* start_power_task makes a new power task for the sign and clears the sign.
Make(c, p) ==
  /\ ~OldAlive
  /\ state[p] \in {"none", "carried", "done"}
  /\ p # power_task
  /\ power_task' = p
  /\ state' = [state EXCEPT ![p] = "scheduled"]
  /\ op' = [op EXCEPT ![p] = power_sign]
  /\ cancelling' = [cancelling EXCEPT ![p] = FALSE]
  /\ announced' = [announced EXCEPT ![p] = 0]
  /\ power_cancelled_event_task' = None
  /\ call' = [call EXCEPT ![c] = "idle"]
  /\ power_sign' = NoAction /\ picked' = {} /\ UNCHANGED written

\* _cancel_power_task up to the wait for the old task.
CancelOld(c, r) ==
  /\ OldAlive
  /\ cancelling' = [cancelling EXCEPT ![power_task] = TRUE]
  /\ call' = [call EXCEPT ![c] = "ending"]
  /\ request' = [request EXCEPT ![c] = r]
  /\ UNCHANGED <<power_task, state, op, announced, showVars>>

Return(c) == call' = [call EXCEPT ![c] = "idle"]

StartWaits(c) ==
  StartCalled(c) /\ Wait(c, "start") /\ KeepSign /\ UNCHANGED due

StartGetsLock(c) ==
  /\ TakesLock(c, "start")
  /\ StartCalled(c)
  /\ \/ power_sign # NoAction /\ CancelOld(c, "start") /\ KeepSign
     \/ /\ power_sign # NoAction
        /\ \E p \in PowerTasks : Make(c, p)
        /\ UNCHANGED <<request, current_power_operation>>
     \/ /\ power_sign = NoAction
        /\ Return(c) /\ KeepSign
        /\ UNCHANGED <<request, power_task, runVars, showVars>>
  /\ UNCHANGED due

CancelWaits(c) == Wait(c, "cancel") /\ ClearSign /\ UNCHANGED envVars

\* Mutant: the sign is cleared before the wait for the lock only.
CancelGetsLockKeepsSign(c) ==
  /\ TakesLock(c, "cancel")
  /\ written' = FALSE
  /\ UNCHANGED <<power_sign, picked>>
  /\ \/ CancelOld(c, "cancel")
     \/ ~OldAlive /\ Return(c) /\ UNCHANGED <<request, power_task, runVars, showVars>>
  /\ UNCHANGED envVars

\* cancel_power_task clears the sign again when it has the lock.
CancelGetsLock(c) ==
  /\ TakesLock(c, "cancel")
  /\ power_sign' = NoAction /\ picked' = {}
  /\ written' = FALSE
  /\ \/ CancelOld(c, "cancel")
     \/ ~OldAlive /\ Return(c) /\ UNCHANGED <<request, power_task, runVars, showVars>>
  /\ UNCHANGED envVars

SelectWaits(c) == Wait(c, "select") /\ KeepSign /\ UNCHANGED envVars

SelectGetsLock(c) ==
  /\ TakesLock(c, "select")
  /\ \/ CancelOld(c, "select") /\ KeepSign
     \/ /\ ~OldAlive
        /\ Return(c) /\ PickSign
        /\ UNCHANGED <<request, power_task, runVars, showVars>>
  /\ UNCHANGED envVars

\* The old task and its announcement are over: the call does its own work.
Completes(c) ==
  \/ /\ request[c] = "start" /\ power_sign # NoAction
     /\ \E p \in PowerTasks : Make(c, p)
  \/ /\ \/ request[c] = "start" /\ power_sign = NoAction
        \/ request[c] = "cancel"
     /\ Return(c) /\ KeepSign
     /\ UNCHANGED <<power_task, runVars, power_cancelled_event_task>>
  \/ /\ request[c] = "select"
     /\ Return(c) /\ PickSign
     /\ UNCHANGED <<power_task, runVars, power_cancelled_event_task>>

\* Mutant: only the power task itself announces its end.
OldEndedSilently(c) ==
  /\ call[c] = "ending"
  /\ ~OldAlive
  /\ current_power_operation' = None
  /\ Completes(c)
  /\ UNCHANGED <<request, waiters, envVars>>

\* Mutant: the announcement of the power task is waited for.
OldEndedAnnounced(c) ==
  /\ call[c] = "ending"
  /\ ~OldAlive
  /\ power_cancelled_event_task = power_task
  /\ current_power_operation' = None
  /\ Completes(c)
  /\ UNCHANGED <<request, waiters, envVars>>

\* The old task is over.  It has announced that itself, unless it was cancelled
\* before its first step.
OldEnded(c) ==
  /\ call[c] = "ending"
  /\ ~OldAlive
  /\ current_power_operation' = None
  /\ \/ power_cancelled_event_task = power_task /\ Completes(c)
     \/ /\ power_cancelled_event_task # power_task
        /\ PublishEnd(power_task)
        /\ call' = [call EXCEPT ![c] = "publishing"]
        /\ KeepSign
        /\ UNCHANGED <<power_task, state, op, cancelling>>
  /\ UNCHANGED <<request, waiters, envVars>>

EndPublished(c) ==
  /\ call[c] = "publishing"
  /\ Completes(c)
  /\ UNCHANGED <<request, waiters, envVars, current_power_operation>>

-----------------------------------------------------------------------------
(* The power task.                                                         *)

\* A step of _power_task to the next await.
Goes(p, from, to) ==
  /\ state[p] = from /\ ~cancelling[p]
  /\ state' = [state EXCEPT ![p] = to]
  /\ UNCHANGED <<op, cancelling>>
  /\ UNCHANGED <<power_sign, power_task, callVars, envVars, histVars>>

\* The power task announces its own end before it ends.
Withdraws(p) ==
  /\ PublishEnd(p)
  /\ state' = [state EXCEPT ![p] = "publishing"]
  /\ UNCHANGED <<op, cancelling, current_power_operation>>
  /\ UNCHANGED <<power_sign, power_task, callVars, envVars, histVars>>

PowerStarts(p) ==
  /\ Goes(p, "scheduled", "counting")
  /\ current_power_operation' = op[p]
  /\ UNCHANGED <<announced, power_cancelled_event_task>>

CountdownOver(p) ==
  Goes(p, "counting", "draining") /\ UNCHANGED <<announced, showVars>>

\* With scheduled wake-up on, an automatic operation is given up when a task
\* is in the table or a timed start is due.
Refused == IfScheduledWakeUp /\ (tasks \/ due)

\* set_power after the replay is saved.
Drained(p) ==
  \/ /\ ~Refused
     /\ Goes(p, "draining", IF op[p] \in Exits THEN "closing" ELSE "cleaning")
     /\ UNCHANGED <<announced, showVars>>
  \/ /\ Refused /\ state[p] = "draining" /\ ~cancelling[p]
     /\ Withdraws(p)

\* Mutant: the schedule is not looked at again after the emulators are closed.
CleanedUnchecked(p) ==
  /\ Goes(p, "cleaning", "carried")
  /\ current_power_operation' = None
  /\ UNCHANGED <<announced, power_cancelled_event_task>>

\* The emulators are closed; the schedule is looked at again, and the operation
\* of the system follows at once: the call that carries it out does not yield.
Cleaned(p) ==
  \/ /\ ~Refused
     /\ Goes(p, "cleaning", "carried")
     /\ current_power_operation' = None
     /\ UNCHANGED <<announced, power_cancelled_event_task>>
  \/ /\ Refused /\ state[p] = "cleaning" /\ ~cancelling[p]
     /\ Withdraws(p)

\* The frontend is gone or has not answered in time.
FrontendClosed(p) ==
  /\ Goes(p, "closing", "carried")
  /\ current_power_operation' = None
  /\ UNCHANGED <<announced, power_cancelled_event_task>>

PowerFails(p) ==
  /\ state[p] \in Working /\ ~cancelling[p]
  /\ Withdraws(p)

CancelDelivered(p) ==
  /\ state[p] \in Working /\ cancelling[p]
  /\ Withdraws(p)

\* The announcement is out, or a cancellation ends the wait for it.
WithdrawalSent(p) ==
  /\ state[p] = "publishing"
  /\ state' = [state EXCEPT ![p] = "done"]
  /\ current_power_operation' = None
  /\ UNCHANGED <<op, cancelling, announced, power_cancelled_event_task>>
  /\ UNCHANGED <<power_sign, power_task, callVars, envVars, histVars>>

\* A power task cancelled before its first step never runs.
NeverStarts(p) ==
  /\ state[p] = "scheduled" /\ cancelling[p]
  /\ state' = [state EXCEPT ![p] = "done"]
  /\ UNCHANGED <<op, cancelling, announced, showVars>>
  /\ UNCHANGED <<power_sign, power_task, callVars, envVars, histVars>>

-----------------------------------------------------------------------------
(* The task manager.                                                       *)

Environment == UNCHANGED <<power_task, callVars, runVars, showVars>>

\* final_task of a queue sets the sign if none is set.
QueueEnds ==
  /\ tasks
  /\ power_sign = NoAction
  /\ power_sign' \in Ops /\ written' = TRUE /\ picked' = {}
  /\ UNCHANGED envVars
  /\ Environment

\* stop_task("ALL") drops the sign, before it cancels and after all have ended.
StopAllDropsSign ==
  power_sign # NoAction /\ ClearSign /\ UNCHANGED envVars /\ Environment

TasksArrive == ~tasks /\ tasks' = TRUE /\ UNCHANGED due /\ KeepSign /\ Environment

\* The last task leaves and starts nothing: there is no sign, it was a
\* configuration session, or all tasks are being stopped.
TasksLeave == tasks /\ tasks' = FALSE /\ UNCHANGED due /\ KeepSign /\ Environment

ScheduleMoves == due' = ~due /\ UNCHANGED tasks /\ KeepSign /\ Environment

-----------------------------------------------------------------------------
CallStep(c) ==
  \/ call[c] = "waiting" /\ (StartGetsLock(c) \/ CancelGetsLock(c) \/ SelectGetsLock(c))
  \/ OldEnded(c) \/ EndPublished(c)

RunStep(p) ==
  \/ PowerStarts(p) \/ CountdownOver(p) \/ Drained(p) \/ Cleaned(p)
  \/ FrontendClosed(p) \/ CancelDelivered(p) \/ WithdrawalSent(p) \/ NeverStarts(p)

Next ==
  \/ \E c \in Callers :
       \/ StartWaits(c) \/ CancelWaits(c) \/ SelectWaits(c)
       \/ StartGetsLock(c) \/ CancelGetsLock(c) \/ SelectGetsLock(c)
       \/ OldEnded(c) \/ EndPublished(c)
  \/ \E p \in PowerTasks : RunStep(p) \/ PowerFails(p)
  \/ QueueEnds \/ StopAllDropsSign \/ TasksArrive \/ TasksLeave \/ ScheduleMoves

Spec == Init /\ [][Next]_vars

\* The event loop takes the steps that are ready, sends and waits time out.
Fairness ==
  /\ \A c \in Callers : WF_vars(CallStep(c))
  /\ \A p \in PowerTasks : WF_vars(RunStep(p))

FairSpec == Spec /\ Fairness

-----------------------------------------------------------------------------
TypeOK ==
  /\ power_sign \in Ops \cup {NoAction}
  /\ power_task \in PowerTasks \cup {None}
  /\ power_cancelled_event_task \in PowerTasks \cup {None}
  /\ current_power_operation \in Ops \cup {None}
  /\ call \in [Callers -> {"idle", "waiting", "ending", "publishing"}]
  /\ request \in [Callers -> Requests]
  /\ waiters \in Seq(Callers)
  /\ state \in [PowerTasks -> States]
  /\ op \in [PowerTasks -> Ops \cup {NoAction}]
  /\ cancelling \in [PowerTasks -> BOOLEAN]
  /\ announced \in [PowerTasks -> {0, 1}]
  /\ tasks \in BOOLEAN /\ due \in BOOLEAN
  /\ written \in BOOLEAN /\ picked \subseteq Callers

\* Two power operations never wait to be carried out at the same time.
OnePowerTask == \A p, q \in PowerTasks : Alive(p) /\ Alive(q) => p = q

\* The snapshot shows the operation of the power task that is counting down or
\* at work: the end of an old task never wipes out what a new one shows.
SnapshotTruthful ==
  \A p \in PowerTasks : state[p] \in Working => current_power_operation = op[p]

\* Both: the snapshot is the one operation that may still be carried out.
OneTruthfulPowerTask == OnePowerTask /\ SnapshotTruthful

\* A power task that ended without its operation was announced as withdrawn
\* once, however many calls ended it and even if it never took a step; one whose
\* operation was carried out never was.
WithdrawnOnce ==
  \A p \in PowerTasks :
    /\ state[p] = "done" /\ LockFree => announced[p] = 1
    /\ state[p] = "carried" => announced[p] = 0

\* When cancel_power_task returns, nothing set before it had the lock is left,
\* and no power task is alive.
CancelClears ==
  [][\A c \in Callers :
       /\ call'[c] = "idle" /\ request[c] = "cancel"
       /\ call[c] \in {"waiting", "ending", "publishing"}
       => /\ \A p \in PowerTasks : ~Alive(p)
          /\ ~written' => power_sign' = NoAction]_vars

\* With scheduled wake-up on, no automatic system operation is carried out under a
\* task or across a timed start, however long the emulators took to close.
PowerSparesTasks ==
  [][\A p \in PowerTasks :
       op[p] \in SystemOps /\ state[p] # "carried" /\ state'[p] = "carried"
         => ~IfScheduledWakeUp \/ (~tasks /\ ~due)]_vars

\* A call for the power operation comes back.
CallsReturn == \A c \in Callers : call[c] # "idle" ~> call[c] = "idle"

-----------------------------------------------------------------------------
(* What a comment of the code says and the code does not do.               *)

\* set_power: an operation the user picks is not consumed early by a start that
\* was under way when it was picked.
ChoiceWaitsForItsTurn ==
  [][\A c \in picked :
       call[c] # "idle" /\ call'[c] = "idle" => power_task' = power_task]_vars
=============================================================================
