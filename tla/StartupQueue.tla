------------------------------ MODULE StartupQueue ------------------------------
(***************************************************************************)
(* The connect hook that starts the start-up queues                        *)
(* (start_startup_queue of app/core/task_manager/manager.py), run by the   *)
(* main connection: every connection runs it, and it is cancelled with the *)
(* connection that runs it.  The program was not started by a scheduled    *)
(* wake-up, which makes the hook return at once.                           *)
(***************************************************************************)
EXTENDS MainConnection, Sequences

CONSTANTS StartupQueues   \* the start-up queues that are to run, in their order

ASSUME QueuesAssumption == Len(StartupQueues) \in Nat

VARIABLES
  _startup_queue_started,
  _startup_queue_task,   \* the connection whose hook it is
  at,                    \* where each hook is, see Places
  awaited,               \* the hook it waits for
  next,                  \* the queue it is at
  started                \* history: how often each queue was started

queueVars == <<_startup_queue_started, _startup_queue_task, at, awaited, next, started>>
vars == <<mainVars, queueVars>>

Places == {"entry", "awaiting", "sleeping", "starting", "recording"}

Init ==
  /\ MainInit
  /\ _startup_queue_started = FALSE /\ _startup_queue_task = None
  /\ at = [c \in Connections |-> "entry"]
  /\ awaited = [c \in Connections |-> None]
  /\ next = 1
  /\ started = [i \in 1..Len(StartupQueues) |-> 0]

-----------------------------------------------------------------------------
Runs(c) == hook[c] = "running"

GoesTo(c, place) == at' = [at EXCEPT ![c] = place]

Returns(c) == hook' = [hook EXCEPT ![c] = "none"] /\ GoesTo(c, "entry")

KeepsMain == UNCHANGED <<wsVars, handler, _closed, teardown>>

\* Mutant: a hook that finds another one waiting leaves it at that.
LeavesItToTheOther(c) ==
  /\ Runs(c) /\ at[c] = "entry"
  /\ IF _startup_queue_task # None \/ _startup_queue_started
     THEN Returns(c) /\ UNCHANGED <<_startup_queue_task, awaited>>
     ELSE /\ _startup_queue_task' = c /\ GoesTo(c, "sleeping")
          /\ UNCHANGED <<hook, awaited>>
  /\ KeepsMain /\ UNCHANGED <<_startup_queue_started, next, started>>

\* The head of the loop: wait for the hook that is at it, or begin.
Looks(c) ==
  /\ Runs(c) /\ at[c] = "entry"
  /\ \/ /\ _startup_queue_task # None
        /\ awaited' = [awaited EXCEPT ![c] = _startup_queue_task]
        /\ GoesTo(c, "awaiting") /\ UNCHANGED <<hook, _startup_queue_task>>
     \/ /\ _startup_queue_task = None /\ _startup_queue_started
        /\ Returns(c) /\ UNCHANGED <<_startup_queue_task, awaited>>
     \/ /\ _startup_queue_task = None /\ ~_startup_queue_started
        /\ _startup_queue_task' = c /\ GoesTo(c, "sleeping")
        /\ UNCHANGED <<hook, awaited>>
  /\ KeepsMain /\ UNCHANGED <<_startup_queue_started, next, started>>

OtherEnded(c) ==
  /\ Runs(c) /\ at[c] = "awaiting" /\ ~Alive(hook[awaited[c]])
  /\ GoesTo(c, "entry")
  /\ awaited' = [awaited EXCEPT ![c] = None]
  /\ KeepsMain /\ UNCHANGED <<hook, _startup_queue_started, _startup_queue_task, next, started>>

\* The finally branch.
LetsGo(c) == _startup_queue_task' = IF _startup_queue_task = c THEN None ELSE _startup_queue_task

\* Mutant: the mark is set only when all queues have been started.
WokeUpUnmarked(c) ==
  /\ Runs(c) /\ at[c] = "sleeping"
  /\ IF _websocket = None
     THEN Returns(c) /\ LetsGo(c) /\ UNCHANGED <<_startup_queue_started, next>>
     ELSE /\ next' = 1 /\ GoesTo(c, "starting")
          /\ UNCHANGED <<hook, _startup_queue_started, _startup_queue_task>>
  /\ KeepsMain /\ UNCHANGED <<awaited, started>>

\* After ten seconds: without a connection it is left to the next one.
WokeUp(c) ==
  /\ Runs(c) /\ at[c] = "sleeping"
  /\ IF _websocket = None
     THEN Returns(c) /\ LetsGo(c) /\ UNCHANGED <<_startup_queue_started, next>>
     ELSE /\ _startup_queue_started' = TRUE
          /\ next' = 1 /\ GoesTo(c, "starting")
          /\ UNCHANGED <<hook, _startup_queue_task>>
  /\ KeepsMain /\ UNCHANGED <<awaited, started>>

MoreQueues == next <= Len(StartupQueues)

\* add_task has made the task of the next queue, or refused it.
StartsQueue(c) ==
  /\ Runs(c) /\ at[c] = "starting" /\ MoreQueues
  /\ \/ started' = [started EXCEPT ![next] = @ + 1] /\ GoesTo(c, "recording") /\ UNCHANGED next
     \/ next' = next + 1 /\ UNCHANGED <<at, started>>
  /\ KeepsMain /\ UNCHANGED <<hook, _startup_queue_started, _startup_queue_task, awaited>>

\* The update of LastStartupTime.
RecordsQueue(c) ==
  /\ Runs(c) /\ at[c] = "recording"
  /\ next' = next + 1 /\ GoesTo(c, "starting")
  /\ KeepsMain /\ UNCHANGED <<hook, _startup_queue_started, _startup_queue_task, awaited, started>>

HookReturns(c) ==
  /\ Runs(c) /\ at[c] = "starting" /\ ~MoreQueues
  /\ Returns(c) /\ LetsGo(c)
  /\ KeepsMain /\ UNCHANGED <<_startup_queue_started, awaited, next, started>>

\* A cancelled hook ends at the await it is at.
HookIsEnded(c) ==
  /\ hook[c] = "cancelling"
  /\ Returns(c) /\ LetsGo(c) /\ awaited' = [awaited EXCEPT ![c] = None]
  /\ KeepsMain /\ UNCHANGED <<_startup_queue_started, next, started>>

-----------------------------------------------------------------------------
HookStep(c) ==
  \/ Looks(c) \/ OtherEnded(c) \/ WokeUp(c) \/ StartsQueue(c) \/ RecordsQueue(c)
  \/ HookReturns(c) \/ HookIsEnded(c)

\* Every connection has come and gone and nothing is under way.
AtRest ==
  /\ \A c \in Connections : serving[c] = "served" \/ (c > _generation /\ _closing)
  /\ teardown \in {"none", "services"}
  /\ UNCHANGED vars

Next ==
  \/ MainStep /\ UNCHANGED queueVars
  \/ \E c \in Connections : HookStep(c)
  \/ AtRest

Spec == Init /\ [][Next]_vars

\* The event loop runs what can run, and a peer that was replaced and closed goes.
\* Neither handlers nor the teardown are taken to end.
Fairness ==
  \A c \in Connections : WF_mainVars(ServeStep(c)) /\ WF_vars(HookStep(c))

FairSpec == Spec /\ Fairness

-----------------------------------------------------------------------------
(* Properties.                                                             *)

\* Types of all variables.
TypeOK ==
  /\ MainTypeOK
  /\ _startup_queue_started \in BOOLEAN /\ _startup_queue_task \in Connections \cup {None}
  /\ at \in [Connections -> Places] /\ awaited \in [Connections -> Connections \cup {None}]
  /\ next \in 1..Len(StartupQueues) + 1
  /\ \A i \in 1..Len(StartupQueues) : started[i] \in Nat

\* A start-up queue is started at most once while the program runs, however often
\* the connection is replaced while the hook is at it.
StartedOnce == \A i \in 1..Len(StartupQueues) : started[i] <= 1

StaysConnected(c) == _websocket = c /\ serving[c] \in {"replacing", "receiving"} /\ ~_closing

\* A connection that stays has the start-up queues triggered, and not only the next
\* one (the comment in start_startup_queue: "启动队列就要拖到下一次连接才跑").
StartupIsTriggered ==
  \A c \in Connections : <>[]StaysConnected(c) => <>_startup_queue_started

\* Stronger: with a connection that stays every start-up queue is started or refused.
StartupIsComplete ==
  \A c \in Connections : <>[]StaysConnected(c) => <>(next > Len(StartupQueues))
=============================================================================
