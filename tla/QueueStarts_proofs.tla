--------------------------- MODULE QueueStarts_proofs ---------------------------
(* The ways queues are started by themselves.  First: what the main        *)
(* connection and its start-up hook keep for any number of connections and *)
(* any start-up queues.  Second: what the timed start keeps for any queues *)
(* with any time sets, however the clock goes.                             *)
EXTENDS StartupQueue, TimedStart, WellFoundedInduction, TLAPS

-----------------------------------------------------------------------------
(* The inductive invariant.                                                *)

\* Nothing is there of a connection that has not come yet.
NotYetThere == \A c \in Connections : c > _generation => serving[c] = "new"

\* A hook has ended before the handlers of its connection are cancelled, and these
\* before serve returns.
HookInTime == \A c \in Connections : Alive(hook[c]) => serving[c] \in {"receiving", "ending_hooks"}

HandlerInTime ==
  \A c \in Connections :
    Alive(handler[c]) => serving[c] \in {"receiving", "ending_hooks", "ending_handlers"}

\* What the teardown has closed stays closed, and what it has ended does not come back.
TeardownInOrder ==
  /\ teardown # "none" => _closing /\ _closed
  /\ teardown \in {"hooks", "services"} => \A c \in Connections : ~Alive(handler[c])
  /\ teardown = "services" => \A c \in Connections : ~Alive(hook[c])

MainInv ==
  /\ MainTypeOK /\ NewestIsCurrent
  /\ NotYetThere /\ HookInTime /\ HandlerInTime /\ TeardownInOrder

\* One hook at a time is past the head of its loop.
AtWork == {"sleeping", "starting", "recording"}

OneAtWork == \A c \in Connections : at[c] \in AtWork => _startup_queue_task = c

\* The mark goes with the work: a hook that sleeps has not set it, one that starts
\* queues has, and without it no queue has been started.
MarkInTime ==
  /\ \A c \in Connections : at[c] = "sleeping" => ~_startup_queue_started
  /\ \A c \in Connections : at[c] \in {"starting", "recording"} => _startup_queue_started
  /\ ~_startup_queue_started => \A i \in 1..Len(StartupQueues) : started[i] = 0

\* The queues that are still to be looked at have not been started.
RestUntouched ==
  /\ \A c \in Connections : at[c] = "starting" =>
       \A i \in 1..Len(StartupQueues) : i >= next => started[i] = 0
  /\ \A c \in Connections : at[c] = "recording" =>
       next <= Len(StartupQueues) /\ \A i \in 1..Len(StartupQueues) : i > next => started[i] = 0

QueueInv ==
  /\ TypeOK /\ started \in [1..Len(StartupQueues) -> Nat]
  /\ OneAtWork /\ MarkInTime /\ RestUntouched /\ StartedOnce

-----------------------------------------------------------------------------
(* The connection and its tasks.                                           *)

LEMMA NoneIsNoConnection == None \notin Connections
  BY MaxConnectionsAssumption DEF None, Connections

LEMMA TaskTypes ==
  \A s \in TaskStates : /\ Cancelled(s) \in TaskStates
                        /\ Alive(Cancelled(s)) <=> Alive(s)
  BY DEF TaskStates, Cancelled, Alive

LEMMA MainInitInv == MainInit => MainInv
<1> SUFFICES ASSUME MainInit PROVE MainInv
  OBVIOUS
<1> USE MaxConnectionsAssumption DEF MainInit
<1>1. MainTypeOK
  BY DEF MainTypeOK, ServeStates, TaskStates, Connections
<1>2. NewestIsCurrent /\ NotYetThere /\ HookInTime /\ HandlerInTime /\ TeardownInOrder
  BY DEF NewestIsCurrent, NotYetThere, HookInTime, HandlerInTime, TeardownInOrder, Alive
<1>3. QED
  BY <1>1, <1>2 DEF MainInv

\* Whoever comes, goes, is replaced or torn down: each step of the connection keeps the
\* invariant of the connection.
LEMMA MainStepInv == MainInv /\ MainStep => MainInv'
<1> SUFFICES ASSUME MainInv, MainStep PROVE MainInv'
  OBVIOUS
<1> USE MaxConnectionsAssumption, NoneIsNoConnection, TaskTypes
    DEF MainInv, wsVars, taskVars
<1>0. ASSUME UNCHANGED <<_generation, serving>>,
             MainTypeOK',
             \A c \in Connections : /\ Alive(hook'[c]) => Alive(hook[c])
                                    /\ Alive(handler'[c]) => Alive(handler[c]) \/ serving[c] = "receiving",
             TeardownInOrder', UNCHANGED _websocket
      PROVE  MainInv'
  BY <1>0 DEF NewestIsCurrent, NotYetThere, HookInTime, HandlerInTime
<1>1. ASSUME NEW c \in Connections, Connects(c) PROVE MainInv'
  <2>1. /\ _generation' = c /\ _websocket' = c /\ c = _generation + 1 /\ ~_closing
        /\ serving' \in {[serving EXCEPT ![c] = "receiving"], [serving EXCEPT ![c] = "replacing"]}
        /\ hook' \in {hook, [hook EXCEPT ![c] = "running"]}
        /\ hook' # hook => serving' = [serving EXCEPT ![c] = "receiving"]
        /\ UNCHANGED <<_closing, handler, _closed, teardown>>
    BY <1>1 DEF Connects, RunsHooks
  <2>2. ~Alive(hook[c]) /\ ~Alive(handler[c])
    BY <2>1 DEF NotYetThere, HookInTime, HandlerInTime, MainTypeOK, Connections
  <2>3. MainTypeOK'
    BY <2>1 DEF MainTypeOK, ServeStates, TaskStates
  <2>4. NewestIsCurrent'
    BY <2>1 DEF NewestIsCurrent
  <2>5. NotYetThere'
    BY <2>1 DEF NotYetThere, MainTypeOK, Connections
  <2>6. HookInTime' /\ HandlerInTime'
    BY <2>1, <2>2 DEF HookInTime, HandlerInTime, MainTypeOK, Alive
  <2>7. TeardownInOrder'
    BY <2>1 DEF TeardownInOrder
  <2>8. QED
    BY <2>3, <2>4, <2>5, <2>6, <2>7
<1>2. ASSUME NEW c \in Connections, Dispatches(c) PROVE MainInv'
  <2>1. MainTypeOK'
    BY <1>2 DEF Dispatches, MainTypeOK, TaskStates
  <2>2. \A d \in Connections : Alive(handler'[d]) => Alive(handler[d]) \/ serving[d] = "receiving"
    BY <1>2 DEF Dispatches, MainTypeOK
  <2>3. TeardownInOrder'
    BY <1>2 DEF Dispatches, TeardownInOrder, MainTypeOK
  <2>4. QED
    BY <1>0, <1>2, <2>1, <2>2, <2>3 DEF Dispatches
<1>3. ASSUME NEW c \in Connections, HandlerEnds(c) PROVE MainInv'
  <2>1. MainTypeOK'
    BY <1>3 DEF HandlerEnds, MainTypeOK, TaskStates
  <2>2. \A d \in Connections : Alive(handler'[d]) => Alive(handler[d])
    BY <1>3 DEF HandlerEnds, MainTypeOK, Alive
  <2>3. TeardownInOrder'
    BY <1>3, <2>2 DEF HandlerEnds, TeardownInOrder
  <2>4. QED
    BY <1>0, <1>3, <2>1, <2>2, <2>3 DEF HandlerEnds
<1>4. ASSUME NEW c \in Connections, LoopEnds(c) PROVE MainInv'
  <2>1. \A d \in Connections : Alive(hook'[d]) <=> Alive(hook[d])
    BY <1>4 DEF LoopEnds, MainTypeOK
  <2>2. MainTypeOK'
    BY <1>4 DEF LoopEnds, ClearsOwn, MainTypeOK, ServeStates
  <2>3. NewestIsCurrent'
    BY <1>4 DEF LoopEnds, ClearsOwn, MainTypeOK, NewestIsCurrent
  <2>4. NotYetThere' /\ HookInTime' /\ HandlerInTime' /\ TeardownInOrder'
    BY <1>4, <2>1 DEF LoopEnds, MainTypeOK, NotYetThere, HookInTime, HandlerInTime, TeardownInOrder
  <2>5. QED
    BY <2>2, <2>3, <2>4
<1>5. ASSUME NEW c \in Connections, ReplacedOld(c) PROVE MainInv'
  <2>1. /\ serving[c] = "replacing" /\ serving' = [serving EXCEPT ![c] = "receiving"]
        /\ hook' = hook \/ (~_closing /\ hook' = [hook EXCEPT ![c] = "running"])
        /\ UNCHANGED <<_websocket, _generation, _closing, handler, _closed, teardown>>
    BY <1>5 DEF ReplacedOld, RunsHooks
  <2>2. MainTypeOK'
    BY <2>1 DEF MainTypeOK, ServeStates, TaskStates
  <2>3. NewestIsCurrent' /\ NotYetThere'
    BY <2>1 DEF MainTypeOK, NewestIsCurrent, NotYetThere
  <2>4. HookInTime' /\ HandlerInTime' /\ TeardownInOrder'
    BY <2>1 DEF MainTypeOK, HookInTime, HandlerInTime, TeardownInOrder
  <2>5. QED
    BY <2>2, <2>3, <2>4
<1>6. ASSUME NEW c \in Connections, HooksEnded(c) PROVE MainInv'
  <2>1. \A d \in Connections : Alive(handler'[d]) <=> Alive(handler[d])
    BY <1>6 DEF HooksEnded, MainTypeOK
  <2>2. MainTypeOK'
    BY <1>6 DEF HooksEnded, MainTypeOK, ServeStates
  <2>3. NewestIsCurrent' /\ NotYetThere'
    BY <1>6 DEF HooksEnded, MainTypeOK, NewestIsCurrent, NotYetThere
  <2>4. HookInTime' /\ HandlerInTime' /\ TeardownInOrder'
    BY <1>6, <2>1 DEF HooksEnded, MainTypeOK, HookInTime, HandlerInTime, TeardownInOrder
  <2>5. QED
    BY <2>2, <2>3, <2>4
<1>7. ASSUME NEW c \in Connections, HandlersEnded(c) PROVE MainInv'
  <2>1. MainTypeOK'
    BY <1>7 DEF HandlersEnded, MainTypeOK, ServeStates
  <2>2. NewestIsCurrent' /\ NotYetThere'
    BY <1>7 DEF HandlersEnded, MainTypeOK, NewestIsCurrent, NotYetThere
  <2>3. HookInTime' /\ HandlerInTime' /\ TeardownInOrder'
    BY <1>7 DEF HandlersEnded, MainTypeOK, HookInTime, HandlerInTime, TeardownInOrder
  <2>4. QED
    BY <2>1, <2>2, <2>3
<1>8. CASE BeginsShutdown
  <2>1. \A d \in Connections : Alive(handler'[d]) <=> Alive(handler[d])
    BY <1>8 DEF BeginsShutdown, MainTypeOK
  <2>2. MainTypeOK'
    BY <1>8 DEF BeginsShutdown, MainTypeOK
  <2>3. TeardownInOrder'
    BY <1>8 DEF BeginsShutdown, TeardownInOrder
  <2>4. QED
    BY <1>0, <1>8, <2>1, <2>2, <2>3 DEF BeginsShutdown
<1>9. CASE CancelsHooks
  <2>1. \A d \in Connections : Alive(hook'[d]) <=> Alive(hook[d])
    BY <1>9 DEF CancelsHooks, MainTypeOK
  <2>2. MainTypeOK'
    BY <1>9 DEF CancelsHooks, MainTypeOK
  <2>3. TeardownInOrder'
    BY <1>9 DEF CancelsHooks, TeardownInOrder
  <2>4. QED
    BY <1>0, <1>9, <2>1, <2>2, <2>3 DEF CancelsHooks
<1>10. CASE StopsServices
  <2>1. MainTypeOK' /\ TeardownInOrder'
    BY <1>10 DEF StopsServices, MainTypeOK, TeardownInOrder
  <2>2. QED
    BY <1>0, <1>10, <2>1 DEF StopsServices
<1>11. QED
  BY <1>1, <1>2, <1>3, <1>4, <1>5, <1>6, <1>7, <1>8, <1>9, <1>10
  DEF MainStep, ServeStep, TeardownStep

-----------------------------------------------------------------------------
(* The hook that starts the queues.                                        *)

\* To the connection a step of a hook is nothing, or the end of the hook.
LEMMA HookStepMainInv ==
  ASSUME MainInv, NEW c \in Connections, HookStep(c)
  PROVE  MainInv'
<1>1. /\ hook' = hook \/ hook' = [hook EXCEPT ![c] = "none"]
      /\ UNCHANGED <<_websocket, _generation, _closing, serving, handler, _closed, teardown>>
  BY DEF HookStep, Looks, OtherEnded, WokeUp, StartsQueue, RecordsQueue, HookReturns, HookIsEnded,
         Returns, KeepsMain, wsVars
<1>2. MainTypeOK'
  BY <1>1 DEF MainInv, MainTypeOK, TaskStates
<1>3. \A d \in Connections : Alive(hook'[d]) => Alive(hook[d])
  BY <1>1 DEF MainInv, MainTypeOK, Alive
<1>4. QED
  BY <1>1, <1>2, <1>3
  DEF MainInv, NewestIsCurrent, NotYetThere, HookInTime, HandlerInTime, TeardownInOrder

LEMMA InitInv == Init => MainInv /\ QueueInv
<1> SUFFICES ASSUME Init PROVE MainInv /\ QueueInv
  OBVIOUS
<1>1. MainInv
  BY MainInitInv DEF Init
<1>2. TypeOK /\ started \in [1..Len(StartupQueues) -> Nat]
  <2>1. next \in 1..Len(StartupQueues) + 1
    BY QueuesAssumption DEF Init
  <2>2. started \in [1..Len(StartupQueues) -> Nat]
    BY DEF Init
  <2>3. /\ _startup_queue_started \in BOOLEAN /\ _startup_queue_task \in Connections \cup {None}
        /\ at \in [Connections -> Places] /\ awaited \in [Connections -> Connections \cup {None}]
    BY DEF Init, Places
  <2>4. QED
    BY <1>1, <2>1, <2>2, <2>3 DEF TypeOK, MainInv
<1>3. OneAtWork /\ MarkInTime /\ RestUntouched /\ StartedOnce
  BY DEF Init, OneAtWork, AtWork, MarkInTime, RestUntouched, StartedOnce
<1>4. QED
  BY <1>1, <1>2, <1>3 DEF QueueInv

\* Two hooks are never at work together.
LEMMA OnlyOneAtWork ==
  ASSUME OneAtWork, NEW c \in Connections, NEW d \in Connections,
         at[c] \in AtWork, at[d] \in AtWork
  PROVE  c = d
  BY DEF OneAtWork

\* A hook that goes back to its beginning takes nothing along but its own claim.
LEMMA ReturnsQueueInv ==
  ASSUME QueueInv, MainTypeOK', NEW c \in Connections, Returns(c), LetsGo(c),
         awaited' \in [Connections -> Connections \cup {None}],
         UNCHANGED <<_startup_queue_started, next, started>>
  PROVE  QueueInv'
<1>1. /\ at' \in [Connections -> Places] /\ at'[c] = "entry"
      /\ \A d \in Connections : d # c => at'[d] = at[d]
  BY DEF QueueInv, TypeOK, Returns, GoesTo, Places
<1>2. TypeOK'
  BY <1>1 DEF QueueInv, TypeOK, LetsGo
<1>3. OneAtWork'
  BY <1>1 DEF QueueInv, OneAtWork, AtWork, LetsGo
<1>4. MarkInTime' /\ RestUntouched' /\ StartedOnce'
  BY <1>1 DEF QueueInv, MarkInTime, RestUntouched, StartedOnce
<1>5. QED
  BY <1>2, <1>3, <1>4 DEF QueueInv

LEMMA HookStepQueueInv ==
  ASSUME QueueInv, MainTypeOK', NEW c \in Connections, HookStep(c)
  PROVE  QueueInv'
<1> USE QueuesAssumption, NoneIsNoConnection
<1>1. CASE Looks(c)
  <2>1. CASE Returns(c) /\ _startup_queue_task = None /\ UNCHANGED <<_startup_queue_task, awaited>>
    BY <1>1, <2>1, ReturnsQueueInv DEF Looks, LetsGo, QueueInv, TypeOK
  <2>2. CASE /\ _startup_queue_task # None /\ GoesTo(c, "awaiting")
             /\ awaited' = [awaited EXCEPT ![c] = _startup_queue_task]
             /\ UNCHANGED _startup_queue_task
    <3>1. at'[c] = "awaiting" /\ \A d \in Connections : d # c => at'[d] = at[d]
      BY <2>2 DEF QueueInv, TypeOK, GoesTo
    <3>2. TypeOK'
      BY <1>1, <2>2 DEF Looks, QueueInv, TypeOK, GoesTo, Places
    <3>3. OneAtWork' /\ MarkInTime' /\ RestUntouched' /\ StartedOnce'
      BY <1>1, <2>2, <3>1
      DEF Looks, QueueInv, OneAtWork, AtWork, MarkInTime, RestUntouched, StartedOnce
    <3>4. QED
      BY <1>1, <3>2, <3>3 DEF Looks, QueueInv
  <2>3. CASE /\ _startup_queue_task = None /\ ~_startup_queue_started
             /\ _startup_queue_task' = c /\ GoesTo(c, "sleeping") /\ UNCHANGED awaited
    <3>1. at'[c] = "sleeping" /\ \A d \in Connections : d # c => at'[d] = at[d]
      BY <2>3 DEF QueueInv, TypeOK, GoesTo
    <3>2. TypeOK'
      BY <1>1, <2>3 DEF Looks, QueueInv, TypeOK, GoesTo, Places
    <3>3. \A d \in Connections : at[d] \notin AtWork
      BY <2>3 DEF QueueInv, OneAtWork
    <3>4. OneAtWork' /\ MarkInTime' /\ RestUntouched' /\ StartedOnce'
      BY <1>1, <2>3, <3>1, <3>3
      DEF Looks, QueueInv, OneAtWork, AtWork, MarkInTime, RestUntouched, StartedOnce
    <3>5. QED
      BY <1>1, <3>2, <3>4 DEF Looks, QueueInv
  <2>4. QED
    BY <1>1, <2>1, <2>2, <2>3 DEF Looks
<1>2. CASE OtherEnded(c)
  <2>1. at'[c] = "entry" /\ \A d \in Connections : d # c => at'[d] = at[d]
    BY <1>2 DEF OtherEnded, QueueInv, TypeOK, GoesTo
  <2>2. TypeOK'
    BY <1>2 DEF OtherEnded, QueueInv, TypeOK, GoesTo, Places
  <2>3. OneAtWork' /\ MarkInTime' /\ RestUntouched' /\ StartedOnce'
    BY <1>2, <2>1
    DEF OtherEnded, QueueInv, OneAtWork, AtWork, MarkInTime, RestUntouched, StartedOnce
  <2>4. QED
    BY <1>2, <2>2, <2>3 DEF OtherEnded, QueueInv
<1>3. CASE WokeUp(c)
  <2>1. CASE Returns(c)
    BY <1>3, <2>1, ReturnsQueueInv DEF WokeUp, Returns, GoesTo, QueueInv, TypeOK
  <2>2. CASE /\ _startup_queue_started' = TRUE /\ next' = 1 /\ GoesTo(c, "starting")
             /\ UNCHANGED _startup_queue_task
    <3>1. at'[c] = "starting" /\ \A d \in Connections : d # c => at'[d] = at[d]
      BY <2>2 DEF QueueInv, TypeOK, GoesTo
    <3>2. TypeOK'
      BY <1>3, <2>2 DEF WokeUp, QueueInv, TypeOK, GoesTo, Places
    <3>3. at[c] \in AtWork /\ \A d \in Connections : d # c => at[d] \notin AtWork
      BY <1>3, OnlyOneAtWork DEF WokeUp, QueueInv, AtWork
    <3>4. \A i \in 1..Len(StartupQueues) : started[i] = 0
      BY <1>3 DEF WokeUp, QueueInv, MarkInTime
    <3>5. OneAtWork' /\ MarkInTime' /\ RestUntouched' /\ StartedOnce'
      BY <1>3, <2>2, <3>1, <3>3, <3>4
      DEF WokeUp, QueueInv, OneAtWork, AtWork, MarkInTime, RestUntouched, StartedOnce
    <3>6. QED
      BY <1>3, <3>2, <3>5 DEF WokeUp, QueueInv
  <2>3. QED
    BY <1>3, <2>1, <2>2 DEF WokeUp
<1>4. CASE StartsQueue(c)
  <2>1. at[c] \in AtWork /\ \A d \in Connections : d # c => at[d] \notin AtWork
    BY <1>4, OnlyOneAtWork DEF StartsQueue, QueueInv, AtWork
  <2>2. /\ next \in 1..Len(StartupQueues) /\ _startup_queue_started
        /\ \A i \in 1..Len(StartupQueues) : i >= next => started[i] = 0
    BY <1>4 DEF StartsQueue, MoreQueues, QueueInv, TypeOK, MarkInTime, RestUntouched
  <2>3. CASE started' = [started EXCEPT ![next] = @ + 1] /\ GoesTo(c, "recording") /\ UNCHANGED next
    <3>1. at'[c] = "recording" /\ \A d \in Connections : d # c => at'[d] = at[d]
      BY <2>3 DEF QueueInv, TypeOK, GoesTo
    <3>2. /\ started' \in [1..Len(StartupQueues) -> Nat] /\ started'[next] = 1
          /\ \A i \in 1..Len(StartupQueues) : i # next => started'[i] = started[i]
      BY <2>2, <2>3 DEF QueueInv
    <3>3. TypeOK'
      BY <1>4, <2>3, <3>2 DEF StartsQueue, QueueInv, TypeOK, GoesTo, Places
    <3>4. OneAtWork' /\ MarkInTime'
      BY <1>4, <2>1, <2>2, <3>1 DEF StartsQueue, QueueInv, OneAtWork, AtWork, MarkInTime
    <3>5. RestUntouched'
      BY <2>1, <2>2, <2>3, <3>1, <3>2 DEF RestUntouched, AtWork
    <3>6. StartedOnce'
      BY <3>2 DEF QueueInv, StartedOnce
    <3>7. QED
      BY <3>2, <3>3, <3>4, <3>5, <3>6 DEF QueueInv
  <2>4. CASE next' = next + 1 /\ UNCHANGED <<at, started>>
    <3>1. TypeOK'
      BY <1>4, <2>2, <2>4 DEF StartsQueue, QueueInv, TypeOK
    <3>2. OneAtWork' /\ MarkInTime' /\ StartedOnce'
      BY <1>4, <2>4 DEF StartsQueue, QueueInv, OneAtWork, MarkInTime, StartedOnce
    <3>3. RestUntouched'
      BY <1>4, <2>1, <2>2, <2>4 DEF StartsQueue, RestUntouched, AtWork
    <3>4. QED
      BY <2>4, <3>1, <3>2, <3>3 DEF QueueInv
  <2>5. QED
    BY <1>4, <2>3, <2>4 DEF StartsQueue
<1>5. CASE RecordsQueue(c)
  <2>1. at[c] \in AtWork /\ \A d \in Connections : d # c => at[d] \notin AtWork
    BY <1>5, OnlyOneAtWork DEF RecordsQueue, QueueInv, AtWork
  <2>2. /\ next \in 1..Len(StartupQueues) /\ _startup_queue_started
        /\ \A i \in 1..Len(StartupQueues) : i > next => started[i] = 0
    BY <1>5 DEF RecordsQueue, QueueInv, TypeOK, MarkInTime, RestUntouched
  <2>3. at'[c] = "starting" /\ \A d \in Connections : d # c => at'[d] = at[d]
    BY <1>5 DEF RecordsQueue, QueueInv, TypeOK, GoesTo
  <2>4. TypeOK'
    BY <1>5, <2>2 DEF RecordsQueue, QueueInv, TypeOK, GoesTo, Places
  <2>5. OneAtWork' /\ MarkInTime' /\ StartedOnce'
    BY <1>5, <2>1, <2>2, <2>3
    DEF RecordsQueue, QueueInv, OneAtWork, AtWork, MarkInTime, StartedOnce
  <2>6. RestUntouched'
    BY <1>5, <2>1, <2>2, <2>3 DEF RecordsQueue, RestUntouched, AtWork
  <2>7. QED
    BY <1>5, <2>4, <2>5, <2>6 DEF RecordsQueue, QueueInv
<1>6. CASE HookReturns(c)
  BY <1>6, ReturnsQueueInv DEF HookReturns, QueueInv, TypeOK
<1>7. CASE HookIsEnded(c)
  <2>1. awaited' \in [Connections -> Connections \cup {None}]
    BY <1>7 DEF HookIsEnded, QueueInv, TypeOK
  <2>2. QED
    BY <1>7, <2>1, ReturnsQueueInv DEF HookIsEnded
<1>8. QED
  BY <1>1, <1>2, <1>3, <1>4, <1>5, <1>6, <1>7 DEF HookStep

-----------------------------------------------------------------------------
(* The theorems.                                                           *)

LEMMA StepInv == MainInv /\ QueueInv /\ [Next]_vars => (MainInv /\ QueueInv)'
<1> SUFFICES ASSUME MainInv, QueueInv, [Next]_vars PROVE (MainInv /\ QueueInv)'
  OBVIOUS
<1>1. CASE MainStep /\ UNCHANGED queueVars
  <2>1. MainInv'
    BY <1>1, MainStepInv
  <2>2. QueueInv'
    BY <1>1, <2>1 DEF MainInv, QueueInv, TypeOK, queueVars, OneAtWork, MarkInTime, RestUntouched, StartedOnce
  <2>3. QED
    BY <2>1, <2>2
<1>2. ASSUME NEW c \in Connections, HookStep(c) PROVE (MainInv /\ QueueInv)'
  <2>1. MainInv'
    BY <1>2, HookStepMainInv
  <2>2. QED
    BY <1>2, <2>1, HookStepQueueInv DEF MainInv
<1>3. CASE UNCHANGED vars
  <2>1. MainInv'
    BY <1>3 DEF vars, mainVars, wsVars, taskVars, MainInv, MainTypeOK, NewestIsCurrent, NotYetThere,
                HookInTime, HandlerInTime, TeardownInOrder
  <2>2. QueueInv'
    BY <1>3, <2>1 DEF vars, queueVars, MainInv, QueueInv, TypeOK, OneAtWork, MarkInTime, RestUntouched,
                      StartedOnce
  <2>3. QED
    BY <2>1, <2>2
<1>4. QED
  BY <1>1, <1>2, <1>3 DEF Next, AtRest

LEMMA InvariantHolds == Spec => [](MainInv /\ QueueInv)
  BY InitInv, StepInv, PTL DEF Spec

\* The variables of the connection manager, the dispatcher and the start-up hook keep
\* their types, the position in the list of queues included.
THEOREM TypeCorrect == Spec => []TypeOK
<1>1. MainInv /\ QueueInv => TypeOK
  BY DEF QueueInv
<1>2. QED
  BY <1>1, InvariantHolds, PTL

\* However often the connection is replaced, the newest one is the current one until its
\* own receive loop ends (the identity check in the clean-up of serve).
THEOREM NewestStaysCurrent == Spec => []NewestIsCurrent
<1>1. MainInv /\ QueueInv => NewestIsCurrent
  BY DEF MainInv
<1>2. QED
  BY <1>1, InvariantHolds, PTL

\* Hooks and handlers end before serve returns and before the services are stopped,
\* whichever of the two ends them.
THEOREM TasksDieInTime == Spec => []TasksDieWithOwner
<1>1. MainInv /\ QueueInv => TasksDieWithOwner
  BY DEF MainInv, HookInTime, HandlerInTime, TeardownInOrder, TasksDieWithOwner
<1>2. QED
  BY <1>1, InvariantHolds, PTL

\* Each start-up queue is started at most once in a program run, whatever number of
\* connections run the hook and wherever they are cancelled in it.
THEOREM QueuesStartedOnce == Spec => []StartedOnce
<1>1. MainInv /\ QueueInv => StartedOnce
  BY DEF QueueInv
<1>2. QED
  BY <1>1, InvariantHolds, PTL

-----------------------------------------------------------------------------
(* The timed start: facts about its operators.                             *)

LEMMA GreaterOfTwo ==
  ASSUME NEW a \in Int, NEW b \in Int
  PROVE  Max({a, b}) = IF a >= b THEN a ELSE b
<1> DEFINE S == {a, b}
<1>1. \A x \in S : x \in Int
  OBVIOUS
<1>2. \E x \in S : \A y \in S : x >= y
  OBVIOUS
<1>3. Max(S) \in S /\ \A y \in S : Max(S) >= y
  <2> HIDE DEF S
  <2> QED BY <1>2, Zenon DEF Max
<1> HIDE DEF S
<1>4. Max(S) \in {a, b} /\ Max(S) >= a /\ Max(S) >= b
  BY <1>3 DEF S
<1>5. Max(S) = IF a >= b THEN a ELSE b
  BY <1>4
<1> QED BY <1>5 DEF S

LEMMA LesserOfTwo ==
  ASSUME NEW a \in Int, NEW b \in Int
  PROVE  Min({a, b}) = IF a <= b THEN a ELSE b
<1> DEFINE S == {a, b}
<1>1. \A x \in S : x \in Int
  OBVIOUS
<1>2. \E x \in S : \A y \in S : x =< y
  OBVIOUS
<1>3. Min(S) \in S /\ \A y \in S : Min(S) <= y
  <2> HIDE DEF S
  <2> QED BY <1>2, Zenon DEF Min
<1> HIDE DEF S
<1>4. Min(S) \in {a, b} /\ Min(S) <= a /\ Min(S) <= b
  BY <1>3 DEF S
<1>5. Min(S) = IF a <= b THEN a ELSE b
  BY <1>4
<1> QED BY <1>5 DEF S

\* A set of numbers up to a bound has a greatest one.
LEMMA GreatestIsThere ==
  ASSUME NEW S, NEW h \in Nat, S \subseteq 0..h, S # {}
  PROVE  Max(S) \in S
<1> DEFINE T == {n \in Nat : h - n \in S}
<1>1. T # {} /\ T \in SUBSET Nat
  <2>1. PICK x \in S : TRUE
    OBVIOUS
  <2>2. h - x \in Nat /\ h - (h - x) = x
    BY <2>1
  <2>3. h - x \in T
    BY <2>2, <2>1
  <2> QED BY <2>3
<1>2. PICK n \in T : \A m \in T : ~ (<<m, n>> \in OpToRel(<, Nat))
  BY <1>1, WFMin, NatLessThanWellFounded, Zenon
<1>3. \A y \in S : h - n >= y
  <2> SUFFICES ASSUME NEW y \in S PROVE h - n >= y
    OBVIOUS
  <2> DEFINE m == h - y
  <2>1. m \in Nat /\ h - m = y /\ n \in Nat
    <3>1. y \in 0..h /\ n \in Nat
      BY <1>2
    <3> QED BY <3>1
  <2>2. m \in T
    BY <2>1
  <2>3. <<m, n>> \in Nat \X Nat
    BY <2>1
  <2> HIDE DEF m, T
  <2>4. ~ (m < n)
    BY <1>2, <2>1, <2>2, <2>3, <<m, n>>[1] = m, <<m, n>>[2] = n DEF OpToRel
  <2>5. h - n >= h - m
    BY <2>1, <2>4
  <2> QED
    BY <2>1, <2>5
<1>4. h - n \in S
  BY <1>2
<1> QED BY <1>3, <1>4, Zenon DEF Max

LEMMA SlotFacts ==
  /\ Slots \subseteq 0..Horizon
  /\ \A p \in Slots : p % MinuteTicks = 0
  /\ Never \notin Slots
  /\ MinuteTicks \in Nat \ {0} /\ TIMED_START_GRACE \in Nat /\ Horizon \in Nat
<1>1. \A p \in Slots : p \in 0..Horizon /\ p % MinuteTicks = 0
  BY SlotAssumption, Zenon DEF Slots
<1>2. MinuteTicks \in Nat \ {0} /\ TIMED_START_GRACE \in Nat /\ Horizon \in Nat
  BY TickAssumption
<1>3. Never \notin Slots
  BY <1>1, <1>2 DEF Never
<1> QED BY <1>1, <1>2, <1>3, Zenon

-----------------------------------------------------------------------------
(* The timed start: types, and what holds by the place a check is at.      *)

Checks ==
  [now_wall : 0..Horizon, prev_wall : Int, real_elapsed : Nat, first_wakeup : BOOLEAN,
   turned : BOOLEAN]

TimedTypes ==
  /\ TimedTypeOK /\ check \in Checks /\ shifts \in 0..MaxShifts
  /\ owed \subseteq Queues \X Slots /\ answered \subseteq Queues \X Slots
  /\ begun \subseteq Queues \X Slots /\ kept \subseteq Queues \X Slots

\* What is not in a check has no queue to look at, a check knows its time, and nothing
\* stays in memory when the program goes.
InPlace ==
  /\ phase = "sleep" => todo = {}
  /\ phase # "sleep" => program = "on" /\ _last_timed_check = check.now_wall
  /\ phase = "starting" => current \in Queues \X Slots /\ current[1] \notin todo
  /\ program # "on" => _last_timed_check = Never /\ is_scheduled_wakeup = FALSE

LEMMA DueFacts ==
  ASSUME TimedTypes, NEW q \in Queues
  PROVE  /\ times[q] \subseteq Slots
         /\ Hits(q) \subseteq times[q] /\ Due(q) \subseteq Hits(q)
         /\ Due(q) # {} => Max(Due(q)) \in Due(q)
<1>1. times[q] \subseteq Slots
  BY DEF TimedTypes, TimedTypeOK, Slots
<1>2. Hits(q) \subseteq times[q] /\ Due(q) \subseteq Hits(q)
  BY DEF Hits, Due
<1>3. ASSUME Due(q) # {} PROVE Max(Due(q)) \in Due(q)
  BY <1>1, <1>2, <1>3, SlotFacts, GreatestIsThere
<1> QED BY <1>1, <1>2, <1>3

LEMMA IntervalTypes ==
  ASSUME TimedTypes
  PROVE  Interval \in Checks
<1>1. wall \in 0..Horizon /\ since \in Nat /\ TIMED_START_GRACE \in Nat
  BY SlotFacts DEF TimedTypes, TimedTypeOK, SinceCap
<1>2. minute_floor \in Int
  BY <1>1, SlotFacts DEF minute_floor
<1>3. _last_timed_check # Never => Min({_last_timed_check, minute_floor}) \in Int
  BY <1>2, LesserOfTwo, SlotFacts DEF TimedTypes, TimedTypeOK
<1> QED
  BY <1>1, <1>2, <1>3 DEF Interval, Checks

LEMMA NoCheckTypes ==
  ASSUME TimedTypes
  PROVE  [NoCheck EXCEPT !.turned = check.turned] \in Checks
<1>1. 0 \in 0..Horizon /\ 0 \in Int /\ 0 \in Nat
  BY SlotFacts
<1>2. check.turned \in BOOLEAN
  BY DEF TimedTypes, Checks
<1>3. NoCheck \in Checks
  BY <1>1 DEF NoCheck, Checks
<1> QED
  BY <1>2, <1>3 DEF Checks

LEMMA CameTypes ==
  ASSUME TimedTypes, NEW to
  PROVE  Came(to) \subseteq Queues \X Slots
<1>1. \A q \in Queues : times[q] \subseteq Slots
  BY DEF TimedTypes, TimedTypeOK, Slots
<1>2. \A q \in Queues : SlotsOf(q, wall, to) \subseteq Queues \X Slots
  BY <1>1 DEF SlotsOf
<1>3. UNION {SlotsOf(q, wall, to) : q \in Queues} \subseteq Queues \X Slots
  BY <1>2
<1> QED
  BY <1>3 DEF Came, TimedTypes

LEMMA TickTypes ==
  ASSUME TimedTypes, InPlace, NEW k \in 1..MaxSkip, Tick(k)
  PROVE  TimedTypes' /\ InPlace'
<1>1. wall \in 0..Horizon /\ since \in 0..SinceCap /\ SinceCap \in Nat /\ k \in Nat
  BY SlotFacts, TickAssumption DEF TimedTypes, TimedTypeOK, SinceCap
<1>2. wall' \in 0..Horizon
  BY <1>1, SlotFacts DEF Tick
<1>3. since' \in 0..SinceCap
  BY <1>1, LesserOfTwo DEF Tick
<1>4. owed' \subseteq Queues \X Slots
  BY CameTypes DEF Tick
<1> QED
  BY <1>2, <1>3, <1>4
     DEF Tick, memory, localVars, historyVars, TimedTypes, TimedTypeOK, InPlace, SinceCap

LEMMA ClockChangesTypes ==
  ASSUME TimedTypes, InPlace, NEW by \in ClockShifts, ClockChanges(by)
  PROVE  TimedTypes' /\ InPlace'
<1>1. check' \in Checks /\ check'.now_wall = check.now_wall
  BY DEF ClockChanges, TimedTypes, Checks
<1>2. owed' \subseteq Queues \X Slots
  BY CameTypes DEF ClockChanges, TimedTypes
<1>3. shifts' \in 0..MaxShifts
  BY TickAssumption DEF ClockChanges, TimedTypes
<1> QED
  BY <1>1, <1>2, <1>3
     DEF ClockChanges, memory, historyVars, TimedTypes, TimedTypeOK, InPlace, SinceCap

LEMMA EditsTypes ==
  ASSUME TimedTypes, InPlace, NEW q \in Queues, Edits(q)
  PROVE  TimedTypes' /\ InPlace'
<1>1. times' \in [Queues -> Schedules]
  BY DEF Edits, TimedTypes, TimedTypeOK
<1> QED
  BY <1>1 DEF Edits, clockVars, memory, localVars, historyVars, TimedTypes, TimedTypeOK,
              InPlace, SinceCap

LEMMA StartsTypes ==
  ASSUME TimedTypes, InPlace, UserStarts \/ WakesUp
  PROVE  TimedTypes' /\ InPlace'
<1>1. /\ program # "on" /\ program' = "on" /\ is_scheduled_wakeup' \in BOOLEAN
      /\ UNCHANGED <<clockVars, times, LastTimedStart, _last_timed_check, _timed_fired,
                     localVars, historyVars>>
  BY DEF UserStarts, WakesUp, StartsAs
<1>2. owed' \subseteq Queues \X Slots
  BY DEF UserStarts, WakesUp, TimedTypes
<1>3. phase = "sleep"
  BY <1>1 DEF InPlace, TimedTypes, TimedTypeOK
<1> QED
  BY <1>1, <1>2, <1>3
     DEF clockVars, localVars, historyVars, TimedTypes, TimedTypeOK, InPlace, SinceCap

LEMMA GoneTypes ==
  ASSUME TimedTypes, InPlace, Closes \/ GoesDown
  PROVE  TimedTypes' /\ InPlace'
<1>1. Gone /\ program' \in {"closed", "down"} /\ owed' \subseteq owed
  BY DEF Closes, GoesDown
<1>2. check' \in Checks
  BY <1>1, NoCheckTypes DEF Gone
<1> QED
  BY <1>1, <1>2 DEF Gone, clockVars, TimedTypes, TimedTypeOK, InPlace, SinceCap

LEMMA CheckBeginsTypes ==
  ASSUME TimedTypes, InPlace, CheckBegins
  PROVE  TimedTypes' /\ InPlace'
<1>1. check' \in Checks /\ check'.now_wall = wall
  BY IntervalTypes DEF CheckBegins, Interval
<1>2. wall # Never /\ 0 \in 0..SinceCap
  BY SlotFacts DEF TimedTypes, TimedTypeOK, Never, SinceCap
<1> QED
  BY <1>1, <1>2 DEF CheckBegins, historyVars, TimedTypes, TimedTypeOK, InPlace, SinceCap

LEMMA LooksAtTypes ==
  ASSUME TimedTypes, InPlace, NEW q \in Queues, LooksAt(q)
  PROVE  TimedTypes' /\ InPlace'
<1>1. {<<q, p>> : p \in Hits(q)} \subseteq Queues \X Slots
  BY DueFacts
<1>2. {<<q, p>> : p \in Due(q)} \subseteq Queues \X Slots
  BY DueFacts
<1>3. /\ answered' \subseteq Queues \X Slots /\ _timed_fired' \subseteq Queues \X Slots
      /\ owed' \subseteq Queues \X Slots /\ todo' \subseteq Queues
      /\ begun' \subseteq Queues \X Slots
  BY <1>1, <1>2 DEF LooksAt, TimedTypes, TimedTypeOK
<1>4. /\ phase' \in {"check", "starting"} /\ current' \in {<<>>} \cup Queues \X Slots
      /\ phase' = "starting" => current' \in Queues \X Slots /\ current'[1] \notin todo'
  <2>1. CASE UNCHANGED <<phase, current, begun>>
    BY <2>1 DEF LooksAt, TimedTypes, TimedTypeOK
  <2>2. CASE Due(q) # {} /\ phase' = "starting" /\ current' = <<q, Max(Due(q))>>
    BY <2>2, DueFacts DEF LooksAt
  <2> QED
    BY <2>1, <2>2 DEF LooksAt
<1> QED
  BY <1>3, <1>4 DEF LooksAt, clockVars, TimedTypes, TimedTypeOK, InPlace, SinceCap

LEMMA RestTypes ==
  ASSUME TimedTypes, InPlace,
         Recorded \/ RecordFails \/ CheckEnds \/ UNCHANGED timedVars
  PROVE  TimedTypes' /\ InPlace'
<1>1. CASE Recorded
  <2>1. LastTimedStart' \in [Queues -> Slots \cup {Never}]
    BY <1>1 DEF Recorded, Records, TimedTypes, TimedTypeOK, InPlace
  <2>2. kept' \subseteq Queues \X Slots
    BY <1>1 DEF Recorded, TimedTypes
  <2> QED
    BY <1>1, <2>1, <2>2
       DEF Recorded, clockVars, memory, TimedTypes, TimedTypeOK, InPlace, SinceCap
<1>2. CASE RecordFails
  BY <1>2 DEF RecordFails, clockVars, memory, historyVars, TimedTypes, TimedTypeOK, InPlace,
              SinceCap
<1>3. CASE CheckEnds
  BY <1>3, NoCheckTypes
     DEF CheckEnds, clockVars, memory, historyVars, TimedTypes, TimedTypeOK, InPlace, SinceCap
<1>4. CASE UNCHANGED timedVars
  BY <1>4 DEF timedVars, clockVars, memory, localVars, historyVars, TimedTypes, TimedTypeOK,
              InPlace, SinceCap
<1> QED
  BY <1>1, <1>2, <1>3, <1>4

-----------------------------------------------------------------------------
(* The timed start: no slot is missed.                                     *)

\* What has been fired or recorded, and the slot that is being started, was answered.
FiredIsAnswered ==
  /\ _timed_fired \subseteq answered
  /\ \A q \in Queues : LastTimedStart[q] # Never => <<q, LastTimedStart[q]>> \in answered
  /\ phase = "starting" => current \in answered

\* Unless the clock was set back, the last check is not ahead of it.
CheckIsPast == _last_timed_check # Never /\ ~check.turned => _last_timed_check <= wall

\* Started by a wake-up of the machine, and has not looked yet.
FreshFromWakeup == program = "on" /\ _last_timed_check = Never /\ is_scheduled_wakeup = TRUE

FreshFromUser == program = "on" /\ _last_timed_check = Never /\ is_scheduled_wakeup = FALSE

\* The check will still come to the slot.
InSight(s) == check_start(s[1]) < s[2] /\ s[2] <= check.now_wall

\* What the program owes is later than what it has looked at, or the check that runs has
\* not come to the queue yet and will find it, or may give it up.
OwedIsAhead(s) ==
  s[2] > _last_timed_check \/ (s[1] \in todo /\ (Excused(s) \/ InSight(s)))

OwedInTime ==
  /\ \A s \in owed : s[2] \in times[s[1]] /\ s[2] <= wall /\ s \notin answered
  /\ program = "closed" \/ FreshFromUser => owed = {}
  /\ program = "down" \/ FreshFromWakeup => \A s \in owed : s[2] > LastTimedStart[s[1]]
  /\ program = "on" /\ _last_timed_check # Never => \A s \in owed : OwedIsAhead(s)

MissedInv == FiredIsAnswered /\ CheckIsPast /\ OwedInTime

\* A slot that comes is owed with the same right as those before it.
LEMMA CameInTime ==
  ASSUME TimedTypes, InPlace, CheckIsPast, OwedInTime, NEW to \in Int, wall <= to
  PROVE  /\ \A s \in Came(to) : s[2] \in times[s[1]] /\ s[2] <= to /\ s \notin answered
         /\ program = "closed" \/ FreshFromUser => Came(to) = {}
         /\ program = "down" \/ FreshFromWakeup =>
              \A s \in Came(to) : s[2] > LastTimedStart[s[1]]
         /\ program = "on" /\ _last_timed_check # Never => \A s \in Came(to) : OwedIsAhead(s)
<1> DEFINE new == {s \in UNION {SlotsOf(q, wall, to) : q \in Queues} :
                     Answers(s[1], s[2]) /\ s \notin answered}
<1>1. Came(to) = owed \cup new
  BY DEF Came
<1>2. \A s \in new : /\ s[1] \in Queues /\ s[2] \in times[s[1]] /\ wall < s[2] /\ s[2] <= to
                     /\ s \notin answered /\ Answers(s[1], s[2])
  <2> SUFFICES ASSUME NEW s \in new
               PROVE  /\ s[1] \in Queues /\ s[2] \in times[s[1]] /\ wall < s[2] /\ s[2] <= to
                      /\ s \notin answered /\ Answers(s[1], s[2])
    OBVIOUS
  <2>1. PICK q \in Queues : s \in SlotsOf(q, wall, to)
    OBVIOUS
  <2>2. PICK p \in times[q] : s = <<q, p>> /\ wall < p /\ p <= to
    BY <2>1 DEF SlotsOf
  <2>3. s \notin answered /\ Answers(s[1], s[2])
    OBVIOUS
  <2> QED
    BY <2>2, <2>3
<1> HIDE DEF new
<1>3. /\ wall \in Int /\ \A s \in owed : s[2] <= wall
      /\ \A q \in Queues : times[q] \subseteq Int
  <2>1. \A q \in Queues : times[q] \subseteq Slots
    BY DueFacts
  <2>2. wall \in Int /\ Slots \subseteq Int
    BY SlotFacts DEF TimedTypes, TimedTypeOK
  <2>3. \A s \in owed : s[2] <= wall
    BY DEF OwedInTime
  <2> QED
    BY <2>1, <2>2, <2>3
<1>4. \A s \in owed : s[2] \in Int
  BY <1>3 DEF OwedInTime, TimedTypes
<1>5. \A s \in Came(to) : s[2] \in times[s[1]] /\ s[2] <= to /\ s \notin answered
  BY <1>1, <1>2, <1>3, <1>4 DEF OwedInTime
<1>6. ASSUME program = "closed" \/ FreshFromUser PROVE Came(to) = {}
  <2>1. \A s \in new : ~ Answers(s[1], s[2])
    BY <1>6 DEF Answers, FreshFromUser
  <2>2. new = {}
    BY <1>2, <2>1, Zenon
  <2>3. owed = {}
    BY <1>6, Zenon DEF OwedInTime
  <2> QED
    BY <1>1, <2>2, <2>3
<1>7. ASSUME program = "down" \/ FreshFromWakeup
      PROVE  \A s \in Came(to) : s[2] > LastTimedStart[s[1]]
  <2>1. _last_timed_check = Never
    BY <1>7 DEF InPlace, FreshFromWakeup
  <2>2. \A s \in new : s[2] > LastTimedStart[s[1]]
    BY <1>2, <2>1 DEF Answers
  <2> QED
    BY <1>1, <1>7, <2>2 DEF OwedInTime
<1>8. ASSUME program = "on", _last_timed_check # Never
      PROVE  \A s \in Came(to) : OwedIsAhead(s)
  <2>1. \A s \in new : ~check.turned
    BY <1>2, <1>8 DEF Answers
  <2>2. \A s \in new : s[2] > _last_timed_check
    <3>1. _last_timed_check \in Int
      BY SlotFacts, <1>8 DEF TimedTypes, TimedTypeOK
    <3>2. \A s \in new : s[2] \in Int
      BY <1>2, <1>3
    <3> QED
      BY <1>2, <1>3, <1>8, <2>1, <3>1, <3>2 DEF CheckIsPast
  <2> QED
    BY <1>1, <1>8, <2>2 DEF OwedInTime, OwedIsAhead
<1> QED
  BY <1>5, <1>6, <1>7, <1>8

\* Whatever happens around the timer: what is owed then is in time again.
LEMMA OwedStaysInTime ==
  ASSUME TimedTypes, InPlace,
         UNCHANGED <<LastTimedStart, program, memory, phase, todo, answered>>,
         check' = [check EXCEPT !.turned = check'.turned],
         \A s \in owed' : s[2] \in times'[s[1]] /\ s[2] <= wall' /\ s \notin answered,
         program = "closed" \/ FreshFromUser => owed' = {},
         program = "down" \/ FreshFromWakeup => \A s \in owed' : s[2] > LastTimedStart[s[1]],
         program = "on" /\ _last_timed_check # Never => \A s \in owed' : OwedIsAhead(s)
  PROVE  OwedInTime'
<1>1. /\ check'.now_wall = check.now_wall /\ check'.prev_wall = check.prev_wall
      /\ check'.real_elapsed = check.real_elapsed /\ check'.first_wakeup = check.first_wakeup
  BY DEF TimedTypes, Checks
<1>2. \A s \in owed' : OwedIsAhead(s) => OwedIsAhead(s)'
  BY <1>1 DEF OwedIsAhead, Excused, InSight, check_start, memory
<1> QED
  BY <1>2 DEF OwedInTime, FreshFromUser, FreshFromWakeup, memory

LEMMA TickMissed ==
  ASSUME TimedTypes, InPlace, MissedInv, NEW k \in 1..MaxSkip, Tick(k)
  PROVE  MissedInv'
<1>1. wall \in Int /\ wall' \in Int /\ wall <= wall'
  BY TickAssumption DEF Tick, TimedTypes, TimedTypeOK
<1>2. owed' = Came(wall')
  BY DEF Tick
<1>3. UNCHANGED <<times, LastTimedStart, program, memory, phase, todo, answered, check, current>>
  BY DEF Tick, localVars, historyVars
<1>4. check' = [check EXCEPT !.turned = check'.turned]
  BY <1>3 DEF TimedTypes, Checks
<1>5. OwedInTime'
  BY <1>1, <1>2, <1>3, <1>4, CameInTime, OwedStaysInTime DEF MissedInv
<1>6. CheckIsPast'
  BY <1>1, <1>3, SlotFacts DEF memory, CheckIsPast, MissedInv, TimedTypes, TimedTypeOK
<1> QED
  BY <1>3, <1>5, <1>6 DEF memory, FiredIsAnswered, MissedInv

LEMMA ClockChangesMissed ==
  ASSUME TimedTypes, InPlace, MissedInv, NEW by \in ClockShifts, ClockChanges(by)
  PROVE  MissedInv'
<1>1. wall \in Int /\ by \in Int /\ wall' = wall + by
  BY TickAssumption DEF ClockChanges, TimedTypes, TimedTypeOK
<1>2. UNCHANGED <<times, LastTimedStart, program, memory, phase, todo, answered, current>>
  BY DEF ClockChanges, historyVars
<1>3. check' = [check EXCEPT !.turned = check'.turned]
  BY DEF ClockChanges, TimedTypes, Checks
<1>4. owed' = Came(wall') \/ owed' = {s \in owed : s[2] <= wall'}
  BY DEF ClockChanges
<1>5. CASE by > 0
  <2>1. owed' = Came(wall') /\ wall <= wall' /\ wall' \in Int
    BY <1>1, <1>5 DEF ClockChanges
  <2>2. OwedInTime'
    BY <1>2, <1>3, <2>1, CameInTime, OwedStaysInTime DEF MissedInv
  <2>3. check'.turned = check.turned
    BY <1>1, <1>5 DEF ClockChanges, TimedTypes, Checks
  <2>4. CheckIsPast'
    BY <1>1, <1>2, <2>1, <2>3, SlotFacts DEF memory, CheckIsPast, MissedInv, TimedTypes, TimedTypeOK
  <2> QED
    BY <1>2, <2>2, <2>4 DEF memory, FiredIsAnswered, MissedInv
<1>6. CASE ~ (by > 0)
  <2>1. owed' = {s \in owed : s[2] <= wall'}
    BY <1>6 DEF ClockChanges
  <2>2. OwedInTime'
    <3>1. \A s \in owed' : s[2] \in times'[s[1]] /\ s[2] <= wall' /\ s \notin answered
      BY <1>2, <2>1 DEF MissedInv, OwedInTime
    <3>2. program = "closed" \/ FreshFromUser => owed' = {}
      BY <2>1 DEF MissedInv, OwedInTime
    <3>3. program = "down" \/ FreshFromWakeup => \A s \in owed' : s[2] > LastTimedStart[s[1]]
      BY <2>1 DEF MissedInv, OwedInTime
    <3>4. program = "on" /\ _last_timed_check # Never => \A s \in owed' : OwedIsAhead(s)
      BY <2>1 DEF MissedInv, OwedInTime
    <3> QED
      BY <1>2, <1>3, <3>1, <3>2, <3>3, <3>4, OwedStaysInTime
  <2>3. by < 0 => check'.turned = TRUE
    BY DEF ClockChanges, TimedTypes, Checks
  <2>4. by = 0 => check'.turned = check.turned /\ wall' = wall
    BY <1>1 DEF ClockChanges, TimedTypes, Checks
  <2>5. CheckIsPast'
    <3>1. CASE by < 0
      BY <2>3, <3>1 DEF CheckIsPast
    <3>2. CASE by = 0
      BY <1>2, <2>4, <3>2 DEF memory, CheckIsPast, MissedInv
    <3> QED
      BY <1>1, <1>6, <3>1, <3>2
  <2> QED
    BY <1>2, <2>2, <2>5 DEF memory, FiredIsAnswered, MissedInv
<1> QED
  BY <1>5, <1>6

LEMMA EditsMissed ==
  ASSUME TimedTypes, InPlace, MissedInv, NEW q \in Queues, Edits(q)
  PROVE  MissedInv'
<1>1. owed' = {s \in owed : s[2] \in times'[s[1]]}
  BY DEF Edits
<1>2. UNCHANGED <<wall, LastTimedStart, program, memory, phase, todo, answered, check, current>>
  BY DEF Edits, clockVars, localVars, historyVars
<1>3. check' = [check EXCEPT !.turned = check'.turned]
  BY <1>2 DEF TimedTypes, Checks
<1>4. OwedInTime'
  <2>1. \A s \in owed' : s[2] \in times'[s[1]] /\ s[2] <= wall' /\ s \notin answered
    BY <1>1, <1>2 DEF MissedInv, OwedInTime
  <2>2. program = "closed" \/ FreshFromUser => owed' = {}
    BY <1>1 DEF MissedInv, OwedInTime
  <2>3. program = "down" \/ FreshFromWakeup => \A s \in owed' : s[2] > LastTimedStart[s[1]]
    BY <1>1 DEF MissedInv, OwedInTime
  <2>4. program = "on" /\ _last_timed_check # Never => \A s \in owed' : OwedIsAhead(s)
    BY <1>1 DEF MissedInv, OwedInTime
  <2> QED
    BY <1>2, <1>3, <2>1, <2>2, <2>3, <2>4, OwedStaysInTime
<1> QED
  BY <1>2, <1>4 DEF memory, FiredIsAnswered, CheckIsPast, MissedInv

\* When the program comes or goes, only one that goes by itself takes with it what it owes.
LEMMA ComesAndGoesMissed ==
  ASSUME TimedTypes, InPlace, MissedInv, UserStarts \/ WakesUp \/ Closes \/ GoesDown
  PROVE  MissedInv'
<1>1. CASE UserStarts
  <2>1. /\ program' = "on" /\ is_scheduled_wakeup' = FALSE /\ owed' = {}
        /\ UNCHANGED <<wall, times, LastTimedStart, _last_timed_check, _timed_fired,
                       answered, check, phase, todo, current>>
    BY <1>1 DEF UserStarts, StartsAs, clockVars, localVars, historyVars
  <2> QED
    BY <2>1 DEF FiredIsAnswered, CheckIsPast, OwedInTime, FreshFromWakeup, MissedInv
<1>2. CASE WakesUp
  <2>1. /\ program = "down" /\ program' = "on" /\ is_scheduled_wakeup' = TRUE
        /\ UNCHANGED <<wall, times, LastTimedStart, _last_timed_check, _timed_fired,
                       answered, check, phase, todo, current, owed>>
    BY <1>2 DEF WakesUp, StartsAs, clockVars, localVars, historyVars
  <2>2. _last_timed_check = Never
    BY <2>1 DEF InPlace
  <2>3. OwedInTime'
    BY <2>1, <2>2 DEF OwedInTime, FreshFromUser, MissedInv
  <2> QED
    BY <2>1, <2>3 DEF FiredIsAnswered, CheckIsPast, MissedInv
<1>3. CASE Closes
  <2>1. /\ program' = "closed" /\ owed' = {} /\ _last_timed_check' = Never
        /\ _timed_fired' = {} /\ phase' = "sleep"
        /\ UNCHANGED <<LastTimedStart, answered>>
    BY <1>3 DEF Closes, Gone
  <2> QED
    BY <2>1 DEF FiredIsAnswered, CheckIsPast, OwedInTime, MissedInv
<1>4. CASE GoesDown
  <2>1. /\ program' = "down" /\ _last_timed_check' = Never
        /\ _timed_fired' = {} /\ phase' = "sleep"
        /\ owed' = {s \in owed : s[2] > LastTimedStart[s[1]]}
        /\ UNCHANGED <<wall, times, LastTimedStart, answered>>
    BY <1>4 DEF GoesDown, Gone, clockVars
  <2>2. OwedInTime'
    BY <2>1 DEF OwedInTime, FreshFromUser, FreshFromWakeup, MissedInv
  <2> QED
    BY <2>1, <2>2 DEF FiredIsAnswered, CheckIsPast, MissedInv
<1> QED
  BY <1>1, <1>2, <1>3, <1>4

LEMMA Numbers ==
  ASSUME TimedTypes
  PROVE  /\ wall \in Nat /\ since \in Nat /\ _last_timed_check \in Int
         /\ \A q \in Queues : LastTimedStart[q] \in Int /\ times[q] \subseteq Int
         /\ \A s \in owed \cup begun \cup kept :
              s = <<s[1], s[2]>> /\ s[1] \in Queues /\ s[2] \in Int
<1>1. Slots \subseteq Int /\ Never \in Int
  BY SlotFacts DEF Never
<1>2. /\ wall \in Nat /\ since \in Nat /\ _last_timed_check \in Int
      /\ \A q \in Queues : LastTimedStart[q] \in Int
  <2>1. /\ wall \in 0..Horizon /\ since \in 0..SinceCap
        /\ _last_timed_check \in (0..Horizon) \cup {Never}
        /\ \A q \in Queues : LastTimedStart[q] \in Slots \cup {Never}
    BY DEF TimedTypes, TimedTypeOK
  <2>2. SinceCap \in Nat /\ Horizon \in Nat
    BY SlotFacts DEF SinceCap
  <2>3. wall \in Nat /\ since \in Nat
    BY <2>1, <2>2
  <2>4. _last_timed_check \in Int
    BY <1>1, <2>1, <2>2
  <2>5. \A q \in Queues : LastTimedStart[q] \in Int
    BY <1>1, <2>1
  <2> QED
    BY <2>3, <2>4, <2>5
<1>3. \A q \in Queues : times[q] \subseteq Int
  BY <1>1, DueFacts
<1>4. \A s \in owed \cup begun \cup kept :
        s = <<s[1], s[2]>> /\ s[1] \in Queues /\ s[2] \in Int
  <2>1. owed \cup begun \cup kept \subseteq Queues \X Slots
    BY DEF TimedTypes
  <2> QED
    BY <1>1, <2>1
<1> QED
  BY <1>2, <1>3, <1>4

\* Where the interval of a check begins, for each of the three cases.
LEMMA IntervalStart ==
  ASSUME TimedTypes, CheckBegins
  PROVE  /\ check'.now_wall = wall /\ check'.turned = FALSE
         /\ check'.prev_wall \in Int /\ check'.real_elapsed \in Nat
         /\ _last_timed_check # Never =>
              /\ check'.first_wakeup = FALSE /\ check'.real_elapsed = since
              /\ check'.prev_wall = IF _last_timed_check <= minute_floor
                                    THEN _last_timed_check ELSE minute_floor
         /\ _last_timed_check = Never /\ is_scheduled_wakeup = FALSE =>
              check'.first_wakeup = FALSE /\ check'.prev_wall = minute_floor
         /\ _last_timed_check = Never /\ is_scheduled_wakeup = TRUE =>
              check'.first_wakeup = TRUE /\ check'.prev_wall = wall - TIMED_START_GRACE - 1
<1>1. check' = Interval /\ Interval \in Checks
  BY IntervalTypes DEF CheckBegins
<1>2. check'.prev_wall \in Int /\ check'.real_elapsed \in Nat
  BY <1>1 DEF Checks
<1>3. minute_floor \in Int
  BY SlotFacts DEF minute_floor, TimedTypes, TimedTypeOK
<1>4. ASSUME _last_timed_check # Never
      PROVE  Min({_last_timed_check, minute_floor})
               = IF _last_timed_check <= minute_floor THEN _last_timed_check ELSE minute_floor
  BY <1>3, <1>4, LesserOfTwo, SlotFacts DEF TimedTypes, TimedTypeOK
<1>5. is_scheduled_wakeup \in BOOLEAN
  BY DEF TimedTypes, TimedTypeOK
<1> QED
  BY <1>1, <1>2, <1>4, <1>5 DEF Interval

\* Where the interval begins for one queue.
LEMMA StartOfQueue ==
  ASSUME TimedTypes, NEW q \in Queues
  PROVE  check_start(q) = IF check.first_wakeup = TRUE /\ LastTimedStart[q] > check.prev_wall
                          THEN LastTimedStart[q] ELSE check.prev_wall
<1>1. check.prev_wall \in Int /\ LastTimedStart[q] \in Int /\ check.first_wakeup \in BOOLEAN
  BY Numbers DEF TimedTypes, Checks
<1>2. Max({check.prev_wall, LastTimedStart[q]})
        = IF check.prev_wall >= LastTimedStart[q] THEN check.prev_wall ELSE LastTimedStart[q]
  BY <1>1, GreaterOfTwo
<1> QED
  BY <1>1, <1>2 DEF check_start

LEMMA CheckBeginsMissed ==
  ASSUME TimedTypes, InPlace, MissedInv, CheckBegins, TimedTypes'
  PROVE  MissedInv'
<1>1. /\ program = "on" /\ phase' = "check" /\ todo' = Queues /\ _last_timed_check' = wall
      /\ UNCHANGED <<wall, times, LastTimedStart, program, is_scheduled_wakeup, owed, answered>>
      /\ _timed_fired' \subseteq _timed_fired
  BY DEF CheckBegins, historyVars
<1>2. wall \in Nat /\ TIMED_START_GRACE \in Nat /\ minute_floor \in Int
  BY SlotFacts DEF minute_floor, TimedTypes, TimedTypeOK
<1>3. \A s \in owed : /\ s[1] \in Queues /\ s[2] \in Int /\ s[2] <= wall
                      /\ LastTimedStart[s[1]] \in Int
  BY Numbers DEF MissedInv, OwedInTime
<1>4. \A s \in owed : OwedIsAhead(s)'
  <2> SUFFICES ASSUME NEW s \in owed PROVE OwedIsAhead(s)'
    OBVIOUS
  <2> DEFINE q == s[1]
  <2>1. check_start(q)' = IF check'.first_wakeup = TRUE /\ LastTimedStart[q] > check'.prev_wall
                          THEN LastTimedStart[q] ELSE check'.prev_wall
    <3>1. check'.prev_wall \in Int /\ check'.first_wakeup \in BOOLEAN
      BY DEF TimedTypes, Checks
    <3>2. Max({check'.prev_wall, LastTimedStart[q]})
            = IF check'.prev_wall >= LastTimedStart[q] THEN check'.prev_wall ELSE LastTimedStart[q]
      BY <1>3, <3>1, GreaterOfTwo
    <3> QED
      BY <1>1, <1>3, <3>1, <3>2 DEF check_start
  <2>2. s[1] \in todo' /\ s[2] <= check'.now_wall
    BY <1>1, <1>3, IntervalStart
  <2>3. CASE _last_timed_check # Never
    <3>1. \A t \in owed : t[2] > _last_timed_check
      <4>1. phase = "sleep" /\ todo = {}
        BY DEF CheckBegins, InPlace
      <4> QED
        BY <1>1, <2>3, <4>1 DEF MissedInv, OwedInTime, OwedIsAhead
    <3>2. _last_timed_check \in Int
      BY <2>3, SlotFacts DEF TimedTypes, TimedTypeOK
    <3>3. check'.prev_wall \in Int /\ check'.prev_wall <= _last_timed_check
          /\ check'.first_wakeup = FALSE
      <4>1. /\ check'.prev_wall = IF _last_timed_check <= minute_floor
                                  THEN _last_timed_check ELSE minute_floor
            /\ check'.first_wakeup = FALSE
        BY <2>3, IntervalStart
      <4> QED
        BY <1>2, <3>2, <4>1
    <3>4. check_start(q)' < s[2]
      BY <1>3, <2>1, <3>1, <3>2, <3>3
    <3> QED
      BY <2>2, <3>4 DEF OwedIsAhead, InSight
  <2>4. CASE _last_timed_check = Never /\ is_scheduled_wakeup = TRUE
    <3>1. s[2] > LastTimedStart[q]
      BY <1>1, <2>4 DEF MissedInv, OwedInTime, FreshFromWakeup
    <3>2. check'.first_wakeup = TRUE /\ check'.prev_wall = wall - TIMED_START_GRACE - 1
          /\ check'.now_wall = wall
      BY <2>4, IntervalStart
    <3>3. CASE s[2] > check'.prev_wall
      <4>1. check_start(q)' < s[2]
        BY <2>1, <3>1, <3>3
      <4> QED
        BY <2>2, <4>1 DEF OwedIsAhead, InSight
    <3>4. CASE ~ (s[2] > check'.prev_wall)
      <4>1. check'.now_wall - s[2] > TIMED_START_GRACE
        BY <1>2, <1>3, <3>2, <3>4
      <4> QED
        BY <2>2, <3>2, <4>1 DEF OwedIsAhead, Excused
    <3> QED
      BY <3>3, <3>4
  <2>5. CASE _last_timed_check = Never /\ is_scheduled_wakeup = FALSE
    BY <1>1, <2>5 DEF MissedInv, OwedInTime, FreshFromUser
  <2> QED
    BY <2>3, <2>4, <2>5 DEF TimedTypes, TimedTypeOK
<1>5. OwedInTime'
  <2>1. _last_timed_check' # Never
    BY <1>1, <1>2 DEF Never
  <2>2. \A s \in owed' : s[2] \in times'[s[1]] /\ s[2] <= wall' /\ s \notin answered'
    BY <1>1 DEF MissedInv, OwedInTime
  <2> QED
    BY <1>1, <1>4, <2>1, <2>2 DEF OwedInTime, FreshFromUser, FreshFromWakeup
<1>6. CheckIsPast'
  BY <1>1, <1>2 DEF CheckIsPast
<1>7. FiredIsAnswered'
  BY <1>1 DEF MissedInv, FiredIsAnswered
<1> QED
  BY <1>5, <1>6, <1>7 DEF MissedInv

\* What a check hits and does not start was too late.
LEMMA HitOrExcused ==
  ASSUME TimedTypes, NEW q \in Queues, NEW p \in Hits(q), p \notin Due(q)
  PROVE  Excused(<<q, p>>)
<1>1. p \in Int /\ check.now_wall \in Int /\ check.real_elapsed \in Int
  <2>1. p \in Int
    BY DueFacts, Numbers
  <2>2. check.now_wall \in 0..Horizon /\ check.real_elapsed \in Nat
    BY DEF TimedTypes, Checks
  <2> QED
    BY <2>1, <2>2
<1>2. Min({check.now_wall - p, check.real_elapsed}) > TIMED_START_GRACE
  BY DEF Due, TooLate
<1>3. Min({check.now_wall - p, check.real_elapsed})
        = IF check.now_wall - p <= check.real_elapsed THEN check.now_wall - p
          ELSE check.real_elapsed
  BY <1>1, LesserOfTwo
<1>4. check.now_wall - p > TIMED_START_GRACE /\ check.real_elapsed > TIMED_START_GRACE
  BY <1>1, <1>2, <1>3, SlotFacts
<1> QED
  BY <1>4 DEF Excused

LEMMA LooksAtMissed ==
  ASSUME TimedTypes, InPlace, MissedInv, NEW q \in Queues, LooksAt(q)
  PROVE  MissedInv'
<1>1. /\ phase = "check" /\ program = "on" /\ todo' = todo \ {q}
      /\ _timed_fired' = _timed_fired \cup {<<q, p>> : p \in Hits(q)}
      /\ answered' = answered \cup {<<q, p>> : p \in Hits(q)}
      /\ owed' = {s \in owed : s[1] # q \/ (s[2] \notin Due(q) /\ ~Excused(s))}
      /\ UNCHANGED <<wall, times, LastTimedStart, program, is_scheduled_wakeup,
                     _last_timed_check, check>>
  BY DEF LooksAt, clockVars, InPlace
<1>2. FiredIsAnswered'
  <2>1. phase' = "starting" => current' = <<q, Max(Due(q))>> /\ Max(Due(q)) \in Hits(q)
    BY DueFacts DEF LooksAt
  <2>2. phase' = "starting" => current' \in answered'
    BY <1>1, <2>1
  <2>3. _timed_fired' \subseteq answered'
    BY <1>1 DEF MissedInv, FiredIsAnswered
  <2> QED
    BY <1>1, <2>2, <2>3 DEF MissedInv, FiredIsAnswered
<1>3. \A s \in owed' : s = <<s[1], s[2]>> /\ s[1] \in Queues
  BY <1>1 DEF TimedTypes
<1>4. \A s \in owed' : s[1] = q => s[2] \notin Hits(q)
  BY <1>1, <1>3, HitOrExcused
<1>5. \A s \in owed' : s \notin answered'
  BY <1>1, <1>3, <1>4 DEF MissedInv, OwedInTime
<1>6. _last_timed_check # Never
  BY <1>1, SlotFacts DEF InPlace, TimedTypes, Checks, Never
<1>7. \A s \in owed' : OwedIsAhead(s)'
  <2> SUFFICES ASSUME NEW s \in owed' PROVE OwedIsAhead(s)'
    OBVIOUS
  <2>1. s \in owed /\ s = <<s[1], s[2]>> /\ s[2] \in times[s[1]] /\ s \notin answered
    BY <1>1, <1>3 DEF MissedInv, OwedInTime
  <2>2. s[2] > _last_timed_check \/ (s[1] \in todo /\ (Excused(s) \/ InSight(s)))
    BY <1>1, <1>6, <2>1 DEF MissedInv, OwedInTime, OwedIsAhead
  <2>3. CASE s[1] = q /\ InSight(s)
    <3>1. s[2] # LastTimedStart[q]
      <4>1. s[2] # Never
        BY <2>1, <1>3, DueFacts, SlotFacts
      <4> QED
        BY <2>1, <2>3, <4>1 DEF MissedInv, FiredIsAnswered
    <3>2. s \notin _timed_fired
      BY <2>1 DEF MissedInv, FiredIsAnswered
    <3>3. s[2] \in Hits(q)
      BY <2>1, <2>3, <3>1, <3>2 DEF Hits, InSight
    <3> QED
      BY <1>4, <2>3, <3>3
  <2>4. CASE s[1] = q /\ Excused(s)
    BY <1>1, <2>4
  <2>5. CASE s[1] # q \/ s[2] > _last_timed_check
    BY <1>1, <2>2, <2>5 DEF OwedIsAhead, Excused, InSight, check_start
  <2> QED
    BY <2>2, <2>3, <2>4, <2>5
<1>8. OwedInTime'
  <2>1. \A s \in owed' : s[2] \in times'[s[1]] /\ s[2] <= wall'
    BY <1>1 DEF MissedInv, OwedInTime
  <2> QED
    BY <1>1, <1>5, <1>6, <1>7, <2>1 DEF OwedInTime, FreshFromUser, FreshFromWakeup
<1>9. CheckIsPast'
  BY <1>1 DEF MissedInv, CheckIsPast
<1> QED
  BY <1>2, <1>8, <1>9 DEF MissedInv

LEMMA RestMissed ==
  ASSUME TimedTypes, InPlace, MissedInv,
         Recorded \/ RecordFails \/ CheckEnds \/ UNCHANGED timedVars
  PROVE  MissedInv'
<1>1. CASE Recorded
  <2>1. /\ phase = "starting" /\ phase' = "check" /\ program = "on"
        /\ current \in Queues \X Slots /\ current[1] \notin todo /\ current = <<current[1], current[2]>>
        /\ LastTimedStart' = [LastTimedStart EXCEPT ![current[1]] = current[2]]
        /\ LastTimedStart \in [Queues -> Slots \cup {Never}]
        /\ UNCHANGED <<wall, times, program, is_scheduled_wakeup, _last_timed_check,
                       _timed_fired, check, todo, owed, answered>>
    BY <1>1 DEF Recorded, Records, clockVars, memory, InPlace, TimedTypes, TimedTypeOK
  <2>2. _last_timed_check # Never
    BY <2>1, SlotFacts DEF InPlace, TimedTypes, Checks, Never
  <2>3. \A s \in owed : OwedIsAhead(s) => OwedIsAhead(s)'
    <3>1. \A s \in owed : s[1] \in todo => LastTimedStart'[s[1]] = LastTimedStart[s[1]]
      BY <2>1 DEF TimedTypes
    <3> QED
      BY <2>1, <3>1 DEF OwedIsAhead, Excused, InSight, check_start
  <2>4. OwedInTime'
    BY <2>1, <2>2, <2>3 DEF MissedInv, OwedInTime, FreshFromUser, FreshFromWakeup
  <2>5. FiredIsAnswered'
    BY <2>1 DEF MissedInv, FiredIsAnswered
  <2> QED
    BY <2>1, <2>4, <2>5 DEF MissedInv, CheckIsPast
<1>2. CASE RecordFails
  <2>1. /\ phase' = "check"
        /\ UNCHANGED <<wall, times, LastTimedStart, program, is_scheduled_wakeup,
                       _last_timed_check, _timed_fired, check, todo, owed, answered>>
    BY <1>2 DEF RecordFails, clockVars, memory, historyVars
  <2> QED
    BY <2>1 DEF MissedInv, FiredIsAnswered, CheckIsPast, OwedInTime, OwedIsAhead, Excused,
                InSight, check_start, FreshFromUser, FreshFromWakeup
<1>3. CASE CheckEnds
  <2>1. /\ phase = "check" /\ program = "on" /\ todo = {} /\ phase' = "sleep"
        /\ check' = [NoCheck EXCEPT !.turned = check.turned]
        /\ UNCHANGED <<wall, times, LastTimedStart, program, is_scheduled_wakeup,
                       _last_timed_check, _timed_fired, todo, owed, answered>>
    BY <1>3 DEF CheckEnds, clockVars, memory, historyVars, InPlace
  <2>2. check'.turned = check.turned
    BY <2>1 DEF NoCheck
  <2>3. \A s \in owed : OwedIsAhead(s) => OwedIsAhead(s)'
    BY <2>1 DEF OwedIsAhead
  <2>4. OwedInTime'
    BY <2>1, <2>3 DEF MissedInv, OwedInTime, FreshFromUser, FreshFromWakeup
  <2> QED
    BY <2>1, <2>2, <2>4 DEF MissedInv, FiredIsAnswered, CheckIsPast
<1>4. CASE UNCHANGED timedVars
  BY <1>4 DEF timedVars, clockVars, memory, localVars, historyVars, MissedInv, FiredIsAnswered,
              CheckIsPast, OwedInTime, OwedIsAhead, Excused, InSight, check_start,
              FreshFromUser, FreshFromWakeup
<1> QED
  BY <1>1, <1>2, <1>3, <1>4

LEMMA TimedStepTypes ==
  ASSUME TimedTypes, InPlace, [TimedNext]_timedVars
  PROVE  TimedTypes' /\ InPlace'
<1>1. ASSUME NEW k \in 1..MaxSkip, Tick(k) PROVE TimedTypes' /\ InPlace'
  BY <1>1, TickTypes
<1>2. ASSUME NEW by \in ClockShifts, ClockChanges(by) PROVE TimedTypes' /\ InPlace'
  BY <1>2, ClockChangesTypes
<1>3. ASSUME NEW q \in Queues, Edits(q) PROVE TimedTypes' /\ InPlace'
  BY <1>3, EditsTypes
<1>4. ASSUME NEW q \in Queues, LooksAt(q) PROVE TimedTypes' /\ InPlace'
  BY <1>4, LooksAtTypes
<1>5. CASE UserStarts \/ WakesUp
  BY <1>5, StartsTypes
<1>6. CASE Closes \/ GoesDown
  BY <1>6, GoneTypes
<1>7. CASE CheckBegins
  BY <1>7, CheckBeginsTypes
<1>8. CASE Recorded \/ RecordFails \/ CheckEnds \/ UNCHANGED timedVars
  BY <1>8, RestTypes
<1> QED
  BY <1>1, <1>2, <1>3, <1>4, <1>5, <1>6, <1>7, <1>8, Zenon DEF TimedNext

LEMMA TimedStepMissed ==
  ASSUME TimedTypes, InPlace, MissedInv, [TimedNext]_timedVars
  PROVE  MissedInv'
<1>1. ASSUME NEW k \in 1..MaxSkip, Tick(k) PROVE MissedInv'
  BY <1>1, TickMissed
<1>2. ASSUME NEW by \in ClockShifts, ClockChanges(by) PROVE MissedInv'
  BY <1>2, ClockChangesMissed
<1>3. ASSUME NEW q \in Queues, Edits(q) PROVE MissedInv'
  BY <1>3, EditsMissed
<1>4. ASSUME NEW q \in Queues, LooksAt(q) PROVE MissedInv'
  BY <1>4, LooksAtMissed
<1>5. CASE UserStarts \/ WakesUp \/ Closes \/ GoesDown
  BY <1>5, ComesAndGoesMissed
<1>6. CASE CheckBegins
  BY <1>6, CheckBeginsMissed, TimedStepTypes
<1>7. CASE Recorded \/ RecordFails \/ CheckEnds \/ UNCHANGED timedVars
  BY <1>7, RestMissed
<1> QED
  BY <1>1, <1>2, <1>3, <1>4, <1>5, <1>6, <1>7, Zenon DEF TimedNext

LEMMA TimedInitInv == TimedInit => TimedTypes /\ InPlace /\ MissedInv
<1> SUFFICES ASSUME TimedInit PROVE TimedTypes /\ InPlace /\ MissedInv
  OBVIOUS
<1>1. 0 \in 0..Horizon /\ 0 \in 0..SinceCap /\ 0 \in 0..MaxShifts
  BY SlotFacts, TickAssumption DEF SinceCap
<1>2. check \in Checks
  BY <1>1 DEF TimedInit, NoCheck, Checks
<1>3. TimedTypes
  BY <1>1, <1>2 DEF TimedInit, TimedTypes, TimedTypeOK
<1>4. InPlace
  BY DEF TimedInit, InPlace
<1>5. MissedInv
  BY DEF TimedInit, MissedInv, FiredIsAnswered, CheckIsPast, OwedInTime
<1> QED
  BY <1>3, <1>4, <1>5

LEMMA TimedInvariant == TimedSpec => [](TimedTypes /\ InPlace /\ MissedInv)
<1>1. TimedTypes /\ InPlace /\ MissedInv /\ [TimedNext]_timedVars
        => (TimedTypes /\ InPlace /\ MissedInv)'
  BY TimedStepTypes, TimedStepMissed
<1> QED
  BY TimedInitInv, <1>1, PTL DEF TimedSpec

\* The variables of the timer and of the machine around it keep their types: above all,
\* what is recorded as the last start is always one of the queue's slots (timed_start).
THEOREM TimedTypeCorrect == TimedSpec => []TimedTypeOK
<1>1. TimedTypes => TimedTypeOK
  BY DEF TimedTypes
<1> QED
  BY <1>1, TimedInvariant, PTL

\* A check that has run to its end without the clock turning back owes nothing.
LEMMA NothingIsLeftOver ==
  ASSUME TimedTypes, InPlace, MissedInv, [TimedNext]_timedVars
  PROVE  NothingLeftOver
<1> SUFFICES ASSUME phase = "check", phase' = "sleep", _last_timed_check = wall
             PROVE  owed = {}
  BY DEF NothingLeftOver
<1>1. CheckEnds
  BY DEF TimedNext, timedVars, Tick, ClockChanges, Edits, LooksAt, UserStarts, WakesUp, StartsAs,
         Closes, GoesDown, CheckBegins, Recorded, RecordFails, AtAwait, clockVars, localVars
<1>2. todo = {} /\ program = "on" /\ wall \in Int
  BY <1>1, Numbers DEF CheckEnds, InPlace
<1>3. _last_timed_check # Never
  BY SlotFacts DEF TimedTypes, TimedTypeOK, Never
<1>4. \A s \in owed : s[2] > wall /\ s[2] <= wall /\ s[2] \in Int
  BY <1>2, <1>3, Numbers DEF MissedInv, OwedInTime, OwedIsAhead
<1> QED
  BY <1>2, <1>4

\* The program goes down by itself only when what it owes is too late already.
LEMMA NothingIsLeftBehind ==
  ASSUME TimedTypes, InPlace, MissedInv, [TimedNext]_timedVars
  PROVE  NothingLeftBehind
<1> SUFFICES ASSUME program = "on", program' = "down", NEW s \in owed'
             PROVE  wall - s[2] > TIMED_START_GRACE
  BY DEF NothingLeftBehind
<1>1. GoesDown
  BY DEF TimedNext, timedVars, Tick, ClockChanges, Edits, LooksAt, UserStarts, WakesUp, StartsAs,
         Closes, CheckBegins, Recorded, RecordFails, CheckEnds
<1>2. s \in owed /\ s[2] > LastTimedStart[s[1]]
  BY <1>1 DEF GoesDown
<1>3. s[1] \in Queues /\ s[2] \in times[s[1]] /\ s[2] <= wall /\ s[2] \in Int /\ wall \in Int
  BY <1>2, Numbers DEF MissedInv, OwedInTime
<1>4. ~ Pending(s[1], s[2])
  BY <1>1, <1>3, Zenon DEF GoesDown
<1>5. Lead \in Nat /\ TIMED_START_GRACE \in Nat
  BY TickAssumption
<1> QED
  BY <1>2, <1>3, <1>4, <1>5 DEF Pending

\* No slot is missed, for any queues and time sets: through suspends of any length, jumps
\* of the clock, edits, crashes, and shutdowns and wake-ups between two checks
\* (timed_start and _has_pending_wakeup_schedule).
THEOREM NoSlotIsMissed == TimedSpec => NothingMissed
<1>1. TimedTypes /\ InPlace /\ MissedInv /\ [TimedNext]_timedVars
        => [NothingLeftOver /\ NothingLeftBehind]_timedVars
  BY NothingIsLeftOver, NothingIsLeftBehind
<1> QED
  BY <1>1, TimedInvariant, PTL DEF TimedSpec, NothingMissed

-----------------------------------------------------------------------------
(* The timed start: no slot is started twice.                              *)

LEMMA Remainder ==
  ASSUME NEW n \in Int, NEW m \in Nat \ {0}
  PROVE  n % m \in 0..m-1 /\ n \div m \in Int /\ n = m * (n \div m) + (n % m)
  BY Z3

\* A full minute up to now is not behind the current minute.
LEMMA FullMinute ==
  ASSUME NEW n \in Int, NEW a \in Int, NEW m \in Nat \ {0}, a % m = 0, a <= n
  PROVE  a <= n - (n % m)
<1> DEFINE k == n \div m
           j == a \div m
<1>1. /\ k \in Int /\ j \in Int /\ n % m \in 0..m-1 /\ n = m * k + (n % m) /\ a = m * j
  BY Remainder
<1> HIDE DEF k, j
<1>2. m * j < m * k + m
  BY <1>1
<1>3. j <= k
  <2> SUFFICES ASSUME j >= k + 1 PROVE FALSE
    BY <1>1
  <2>1. m * j >= m * (k + 1)
    BY <1>1, Z3
  <2>2. m * (k + 1) = m * k + m
    BY <1>1, Z3
  <2> QED
    BY <1>1, <1>2, <2>1, <2>2
<1>4. m * j <= m * k
  BY <1>1, <1>3, Z3
<1> QED
  BY <1>1, <1>4

\* What lies two days back or more lies more than one day of ticks back.
LEMMA DaysBack ==
  ASSUME NEW n \in Int, NEW p \in Int, NEW d \in Nat \ {0}, p \div d < (n \div d) - 1
  PROVE  p + d < n
<1> DEFINE k == n \div d
           j == p \div d
<1>1. /\ k \in Int /\ j \in Int /\ n >= d * k /\ p < d * j + d
  BY Remainder
<1>2. j + 2 <= k
  BY <1>1
<1> HIDE DEF k, j
<1>3. d * (j + 2) <= d * k
  BY <1>1, <1>2, Z3
<1>4. d * (j + 2) = d * j + d + d
  BY <1>1, Z3
<1> QED
  BY <1>1, <1>3, <1>4

MinuteFloor(n) == n - (n % MinuteTicks) - 1

\* As long as the clock is not changed: what is recorded is past, no later than the last
\* check, and no earlier than any start that was recorded.  For a queue that the check will
\* still look at, it is before the interval or not before the current minute.
RecordedInTime ==
  /\ \A q \in Queues : LastTimedStart[q] <= wall
  /\ _last_timed_check # Never =>
       /\ _last_timed_check <= wall
       /\ \A q \in Queues : LastTimedStart[q] <= _last_timed_check
  /\ \A s \in kept : s[2] <= LastTimedStart[s[1]]
  /\ phase # "sleep" => \A q \in todo : \/ LastTimedStart[q] <= check_start(q)
                                        \/ check.prev_wall = MinuteFloor(check.now_wall)
  /\ phase = "starting" => /\ LastTimedStart[current[1]] < current[2]
                           /\ current[2] <= check.now_wall

RepeatInv == shifts = 0 => RecordedInTime

\* The clock only goes on, and the timer keeps what it has.
LEMMA AroundTimerRecorded ==
  ASSUME TimedTypes, TimedTypes', RecordedInTime, wall <= wall',
         UNCHANGED <<LastTimedStart, _last_timed_check, check, phase, todo, current, kept>>
  PROVE  RecordedInTime'
<1>1. wall \in Int /\ wall' \in Int /\ _last_timed_check \in Int
      /\ \A q \in Queues : LastTimedStart[q] \in Int
  <2>1. Horizon \in Nat
    BY SlotFacts
  <2> QED
    BY <2>1, Numbers DEF TimedTypes, TimedTypeOK
<1>2. \A q \in Queues : LastTimedStart'[q] <= wall'
  BY <1>1 DEF RecordedInTime
<1>3. _last_timed_check' # Never =>
        _last_timed_check' <= wall' /\ \A q \in Queues : LastTimedStart'[q] <= _last_timed_check'
  BY <1>1 DEF RecordedInTime
<1> QED
  BY <1>2, <1>3 DEF RecordedInTime, check_start

LEMMA EnvironmentRecorded ==
  ASSUME TimedTypes, TimedTypes', InPlace, RecordedInTime,
         \/ \E k \in 1..MaxSkip : Tick(k)
         \/ \E q \in Queues : Edits(q)
         \/ UserStarts \/ WakesUp \/ Closes \/ GoesDown \/ UNCHANGED timedVars
  PROVE  RecordedInTime'
<1>1. CASE \E k \in 1..MaxSkip : Tick(k)
  <2>1. PICK k \in 1..MaxSkip : Tick(k)
    BY <1>1
  <2>2. wall \in Int /\ wall <= wall'
    BY <2>1, Numbers, TickAssumption DEF Tick
  <2>3. UNCHANGED <<LastTimedStart, _last_timed_check, check, phase, todo, current, kept>>
    BY <2>1 DEF Tick, memory, localVars, historyVars
  <2> QED
    BY <2>2, <2>3, AroundTimerRecorded
<1>2. CASE (\E q \in Queues : Edits(q)) \/ UserStarts \/ WakesUp \/ UNCHANGED timedVars
  <2>1. wall' = wall
        /\ UNCHANGED <<LastTimedStart, _last_timed_check, check, phase, todo, current, kept>>
    BY <1>2 DEF Edits, UserStarts, WakesUp, StartsAs, timedVars, clockVars, memory, localVars,
                historyVars
  <2>2. wall <= wall'
    BY <2>1, Numbers
  <2> QED
    BY <2>1, <2>2, AroundTimerRecorded
<1>3. CASE Closes \/ GoesDown
  BY <1>3 DEF Closes, GoesDown, Gone, clockVars, RecordedInTime
<1> QED
  BY <1>1, <1>2, <1>3

LEMMA CheckBeginsRecorded ==
  ASSUME TimedTypes, TimedTypes', InPlace, RecordedInTime, CheckBegins
  PROVE  RecordedInTime'
<1>1. /\ phase' = "check" /\ _last_timed_check' = wall
      /\ UNCHANGED <<wall, LastTimedStart, kept>>
  BY DEF CheckBegins, historyVars
<1>2. wall \in Int /\ _last_timed_check \in Int /\ \A q \in Queues : LastTimedStart[q] \in Int
  BY Numbers
<1>3. ASSUME NEW q \in Queues
      PROVE  \/ LastTimedStart[q] <= check_start(q)'
             \/ check'.prev_wall = MinuteFloor(check'.now_wall)
  <2>1. check_start(q)' = IF check'.first_wakeup = TRUE /\ LastTimedStart[q] > check'.prev_wall
                          THEN LastTimedStart[q] ELSE check'.prev_wall
    <3>1. check'.prev_wall \in Int /\ check'.first_wakeup \in BOOLEAN
      BY DEF TimedTypes, Checks
    <3>2. Max({check'.prev_wall, LastTimedStart[q]})
            = IF check'.prev_wall >= LastTimedStart[q] THEN check'.prev_wall ELSE LastTimedStart[q]
      BY <1>2, <3>1, GreaterOfTwo
    <3> QED
      BY <1>1, <1>2, <3>1, <3>2 DEF check_start
  <2>2. minute_floor = MinuteFloor(check'.now_wall) /\ check'.prev_wall \in Int
    BY IntervalStart DEF minute_floor, MinuteFloor
  <2>3. CASE _last_timed_check # Never /\ check'.prev_wall = _last_timed_check
    <3>1. check'.first_wakeup = FALSE
      BY <2>3, IntervalStart
    <3>2. LastTimedStart[q] <= _last_timed_check
      BY <2>3 DEF RecordedInTime
    <3> QED
      BY <2>1, <2>3, <3>1, <3>2
  <2>4. CASE _last_timed_check = Never /\ is_scheduled_wakeup = TRUE
    <3>1. check'.first_wakeup = TRUE
      BY <2>4, IntervalStart
    <3> QED
      BY <1>2, <2>1, <2>2, <3>1
  <2>5. CASE check'.prev_wall = minute_floor
    BY <2>2, <2>5
  <2>6. \/ _last_timed_check # Never /\ check'.prev_wall = _last_timed_check
        \/ _last_timed_check = Never /\ is_scheduled_wakeup = TRUE
        \/ check'.prev_wall = minute_floor
    <3>1. is_scheduled_wakeup \in BOOLEAN
      BY DEF TimedTypes, TimedTypeOK
    <3> QED
      BY <3>1, IntervalStart
  <2> QED
    BY <2>3, <2>4, <2>5, <2>6
<1>4. todo' \subseteq Queues
  BY DEF TimedTypes, TimedTypeOK
<1>5. wall <= wall /\ \A q \in Queues : LastTimedStart[q] <= wall
  BY <1>2 DEF RecordedInTime
<1> QED
  BY <1>1, <1>3, <1>4, <1>5 DEF RecordedInTime

\* What is due is later than what is recorded.
LEMMA DueIsLater ==
  ASSUME TimedTypes, InPlace, RecordedInTime, phase = "check",
         NEW q \in todo, NEW p \in Due(q)
  PROVE  LastTimedStart[q] < p /\ p <= check.now_wall
<1>1. /\ q \in Queues /\ p \in times[q] /\ p \in Int /\ LastTimedStart[q] \in Int
      /\ p % MinuteTicks = 0
  <2>1. q \in Queues
    BY DEF TimedTypes, TimedTypeOK
  <2>2. p \in times[q] /\ p \in Slots
    BY <2>1, DueFacts
  <2> QED
    BY <2>1, <2>2, SlotFacts, Numbers
<1>2. check_start(q) < p /\ p <= check.now_wall /\ p # LastTimedStart[q]
  BY DEF Due, Hits
<1>3. check.now_wall \in Int /\ check.prev_wall \in Int /\ check_start(q) \in Int
  <2>1. check.now_wall \in Int /\ check.prev_wall \in Int
    <3>1. check.now_wall \in 0..Horizon /\ check.prev_wall \in Int
      BY DEF TimedTypes, Checks
    <3> QED
      BY <3>1
  <2> QED
    BY <1>1, <2>1, StartOfQueue
<1>4. CASE LastTimedStart[q] <= check_start(q)
  BY <1>1, <1>2, <1>3, <1>4
<1>5. CASE check.prev_wall = MinuteFloor(check.now_wall)
  <2> DEFINE n == check.now_wall
             rest == n % MinuteTicks
  <2>1. check.prev_wall <= check_start(q)
    <3>1. \/ check_start(q) = check.prev_wall
          \/ check_start(q) = LastTimedStart[q] /\ LastTimedStart[q] > check.prev_wall
      BY <1>1, StartOfQueue
    <3> QED
      BY <1>1, <1>3, <3>1
  <2>2. LastTimedStart[q] <= n
    <3>1. n = _last_timed_check /\ _last_timed_check # Never
      BY SlotFacts DEF InPlace, TimedTypes, Checks, Never
    <3> QED
      BY <1>1, <3>1 DEF RecordedInTime
  <2>3. MinuteTicks \in Nat \ {0} /\ rest \in Int
    <3>1. MinuteTicks \in Nat \ {0}
      BY SlotFacts, Zenon
    <3>2. rest \in 0..MinuteTicks-1
      BY <1>3, <3>1, Remainder, Zenon
    <3>3. 0..MinuteTicks-1 \subseteq Int
      BY <3>1
    <3> QED
      BY <3>1, <3>2, <3>3, Zenon
  <2>4. n - rest - 1 < p
    BY <1>1, <1>2, <1>3, <1>5, <2>1, <2>3 DEF MinuteFloor
  <2>5. LastTimedStart[q] \in Slots => LastTimedStart[q] % MinuteTicks = 0
    BY SlotFacts
  <2>6. LastTimedStart[q] \in Slots => LastTimedStart[q] <= n - rest
    <3> SUFFICES ASSUME LastTimedStart[q] \in Slots PROVE LastTimedStart[q] <= n - rest
      OBVIOUS
    <3>1. LastTimedStart[q] % MinuteTicks = 0 /\ n \in Int
      BY <1>3, <2>5
    <3> HIDE DEF n
    <3> QED
      BY <1>1, <2>2, <2>3, <3>1, FullMinute
  <2>7. LastTimedStart[q] \in Slots \/ LastTimedStart[q] = -1
    BY <1>1 DEF TimedTypes, TimedTypeOK, Never
  <2>8. p \in Slots => p >= 0
    BY SlotFacts
  <2>9. p >= 0
    BY <1>1, <2>8, DueFacts
  <2> HIDE DEF n, rest
  <2>10. CASE LastTimedStart[q] = -1
    BY <1>1, <1>2, <2>9, <2>10
  <2>11. CASE LastTimedStart[q] <= n - rest
    <3>1. n \in Int
      BY <1>3 DEF n
    <3>2. LastTimedStart[q] <= p
      BY <1>1, <2>3, <2>4, <2>11, <3>1
    <3> QED
      BY <1>1, <1>2, <3>2
  <2> QED
    BY <2>6, <2>7, <2>10, <2>11
<1> QED
  BY <1>1, <1>4, <1>5 DEF RecordedInTime

LEMMA LooksAtRecorded ==
  ASSUME TimedTypes, TimedTypes', InPlace, RecordedInTime, NEW q \in Queues, LooksAt(q)
  PROVE  RecordedInTime'
<1>1. /\ phase = "check" /\ q \in todo /\ todo' = todo \ {q}
      /\ UNCHANGED <<wall, LastTimedStart, _last_timed_check, check, kept>>
  BY DEF LooksAt, clockVars
<1>2. phase' = "starting" =>
        LastTimedStart[current'[1]] < current'[2] /\ current'[2] <= check.now_wall
  <2>1. phase' = "starting" => Due(q) # {} /\ current' = <<q, Max(Due(q))>>
    BY <1>1 DEF LooksAt
  <2>2. Due(q) # {} => Max(Due(q)) \in Due(q)
    BY DueFacts
  <2>3. phase' = "starting" => LastTimedStart[q] < Max(Due(q)) /\ Max(Due(q)) <= check.now_wall
    BY <1>1, <2>1, <2>2, DueIsLater
  <2> QED
    BY <2>1, <2>3
<1> QED
  BY <1>1, <1>2 DEF RecordedInTime, check_start

LEMMA RecordedRecorded ==
  ASSUME TimedTypes, TimedTypes', InPlace, RecordedInTime, Recorded
  PROVE  RecordedInTime'
<1> DEFINE r == current[1]
<1>1. /\ phase = "starting" /\ phase' = "check" /\ program = "on"
      /\ current \in Queues \X Slots /\ r \notin todo
      /\ LastTimedStart' = [LastTimedStart EXCEPT ![r] = current[2]]
      /\ LastTimedStart \in [Queues -> Slots \cup {Never}]
      /\ _last_timed_check = check.now_wall
      /\ kept' = kept \cup {s \in begun : s[1] = r /\ s[2] <= current[2]}
      /\ UNCHANGED <<wall, _last_timed_check, check, todo>>
  BY DEF Recorded, Records, clockVars, memory, InPlace, TimedTypes, TimedTypeOK
<1>2. /\ r \in Queues /\ LastTimedStart'[r] = current[2]
      /\ \A q \in Queues : q # r => LastTimedStart'[q] = LastTimedStart[q]
  BY <1>1
<1>3. LastTimedStart[r] < current[2] /\ current[2] <= check.now_wall
  BY <1>1 DEF RecordedInTime
<1>4. /\ wall \in Int /\ _last_timed_check \in Int /\ _last_timed_check # Never
      /\ \A q \in Queues : LastTimedStart[q] \in Int /\ LastTimedStart'[q] \in Int
  <2>1. _last_timed_check # Never
    BY <1>1, SlotFacts DEF TimedTypes, Checks, Never
  <2>2. current[2] \in Int
    <3>1. Slots \subseteq Int
      BY SlotFacts
    <3> QED
      BY <1>1, <3>1
  <2> QED
    BY <1>2, <2>1, <2>2, Numbers
<1>5. current[2] \in Int /\ current[2] <= _last_timed_check /\ _last_timed_check <= wall
  BY <1>1, <1>2, <1>3, <1>4 DEF RecordedInTime
<1> HIDE DEF r
<1>6. \A q \in Queues : LastTimedStart'[q] <= _last_timed_check
  BY <1>2, <1>4, <1>5 DEF RecordedInTime
<1>7. \A q \in Queues : LastTimedStart'[q] <= wall
  BY <1>4, <1>5, <1>6
<1>8. \A s \in kept' : s[2] <= LastTimedStart'[s[1]]
  <2> SUFFICES ASSUME NEW s \in kept' PROVE s[2] <= LastTimedStart'[s[1]]
    OBVIOUS
  <2>1. CASE s \in kept
    <3>1. s[1] \in Queues /\ s[2] \in Int /\ s[2] <= LastTimedStart[s[1]]
      BY <2>1, Numbers DEF RecordedInTime
    <3>2. LastTimedStart[s[1]] <= LastTimedStart'[s[1]]
      <4>1. CASE s[1] = r
        BY <1>2, <1>3, <1>4, <1>5, <4>1 DEF r
      <4>2. CASE s[1] # r
        BY <1>2, <1>4, <3>1, <4>2
      <4> QED
        BY <4>1, <4>2
    <3> QED
      BY <1>4, <3>1, <3>2
  <2>2. CASE s[1] = r /\ s[2] <= current[2]
    BY <1>2, <2>2
  <2> QED
    BY <1>1, <2>1, <2>2
<1>9. \A q \in todo : \/ LastTimedStart'[q] <= check_start(q)'
                      \/ check.prev_wall = MinuteFloor(check.now_wall)
  <2> SUFFICES ASSUME NEW q \in todo
               PROVE  \/ LastTimedStart'[q] <= check_start(q)'
                      \/ check.prev_wall = MinuteFloor(check.now_wall)
    OBVIOUS
  <2>1. q \in Queues /\ q # r
    BY <1>1 DEF TimedTypes, TimedTypeOK
  <2>2. LastTimedStart'[q] = LastTimedStart[q] /\ check_start(q)' = check_start(q)
    BY <1>1, <1>2, <2>1 DEF check_start
  <2> QED
    BY <1>1, <2>2 DEF RecordedInTime
<1> QED
  BY <1>1, <1>4, <1>5, <1>6, <1>7, <1>8, <1>9 DEF RecordedInTime

LEMMA EndsRecorded ==
  ASSUME TimedTypes, InPlace, RecordedInTime, RecordFails \/ CheckEnds
  PROVE  RecordedInTime'
<1>1. CASE RecordFails
  BY <1>1 DEF RecordFails, clockVars, memory, historyVars, RecordedInTime, check_start
<1>2. CASE CheckEnds
  BY <1>2 DEF CheckEnds, clockVars, memory, historyVars, RecordedInTime
<1> QED
  BY <1>1, <1>2

LEMMA TimedStepRepeat ==
  ASSUME TimedTypes, InPlace, RepeatInv, [TimedNext]_timedVars
  PROVE  RepeatInv'
<1> SUFFICES ASSUME shifts' = 0 PROVE RecordedInTime'
  BY DEF RepeatInv
<1>1. TimedTypes'
  BY TimedStepTypes
<1>2. shifts \in Nat
  BY TickAssumption DEF TimedTypes
<1>3. \A by \in ClockShifts : ~ ClockChanges(by)
  BY <1>2 DEF ClockChanges
<1>4. shifts = 0
  BY <1>3 DEF TimedNext, timedVars, Tick, Edits, LooksAt, UserStarts, WakesUp, StartsAs,
         Closes, GoesDown, Gone, CheckBegins, Recorded, RecordFails, CheckEnds, clockVars
<1>5. RecordedInTime
  BY <1>4 DEF RepeatInv
<1>6. ASSUME NEW q \in Queues, LooksAt(q) PROVE RecordedInTime'
  BY <1>1, <1>5, <1>6, LooksAtRecorded
<1>7. CASE \/ \E k \in 1..MaxSkip : Tick(k)
           \/ \E q \in Queues : Edits(q)
           \/ UserStarts \/ WakesUp \/ Closes \/ GoesDown \/ UNCHANGED timedVars
  BY <1>1, <1>5, <1>7, EnvironmentRecorded
<1>8. CASE CheckBegins
  BY <1>1, <1>5, <1>8, CheckBeginsRecorded
<1>9. CASE Recorded
  BY <1>1, <1>5, <1>9, RecordedRecorded
<1>10. CASE RecordFails \/ CheckEnds
  BY <1>5, <1>10, EndsRecorded
<1> QED
  BY <1>3, <1>6, <1>7, <1>8, <1>9, <1>10, Zenon DEF TimedNext

SteadyClock == \E B \in Nat : Steady(B)

\* Started by this run of the program, and no longer remembered.
Forgotten == begun \ _timed_fired

OutOfCheck(s) == s[2] <= check.prev_wall \/ s[2] > check.now_wall \/ TooLate(s[2])

\* What is forgotten lies more than a day back but for the changes of the clock, which is
\* as far from the last check as time went on, but for the same changes; so a check cannot
\* come to it again in time.
ForgottenInTime(B) ==
  /\ _last_timed_check = Never => begun = {}
  /\ \A s \in Forgotten : /\ s[2] + DayTicks < wall + B * shifts
                          /\ s[2] + DayTicks < _last_timed_check + B * shifts
  /\ _last_timed_check # Never /\ since # SinceCap =>
       wall - _last_timed_check <= since + B * shifts
  /\ phase # "sleep" => \A s \in Forgotten : OutOfCheck(s)

LEMMA Drift ==
  ASSUME NEW B \in Nat, NEW n \in Nat
  PROVE  /\ B * n \in Nat /\ B * (n + 1) = B * n + B
         /\ \A m \in Nat : n <= m => B * n <= B * m
<1>1. B * n \in Nat
  BY Z3
<1>2. B * (n + 1) = B * n + B
  BY Z3
<1>3. ASSUME NEW m \in Nat, n <= m PROVE B * n <= B * m
  BY <1>3, Z3
<1> QED BY <1>1, <1>2, <1>3

LEMMA TickForgotten ==
  ASSUME TimedTypes, InPlace, NEW B \in Nat, ForgottenInTime(B), NEW k \in 1..MaxSkip, Tick(k)
  PROVE  ForgottenInTime(B)'
<1> DEFINE d == B * shifts
<1>1. /\ wall \in Int /\ since \in Nat /\ _last_timed_check \in Int /\ k \in Nat
      /\ wall' = wall + k /\ since' = Min({since + k, SinceCap})
      /\ \A s \in Forgotten : s[2] \in Int
      /\ UNCHANGED <<shifts, memory, check, phase, begun>>
  BY Numbers, TickAssumption DEF Tick, localVars, historyVars, Forgotten
<1>2. SinceCap \in Nat /\ shifts \in Nat /\ DayTicks \in Nat
  BY SlotFacts, TickAssumption DEF SinceCap, TimedTypes
<1>3. d \in Nat /\ d' = d
  BY <1>1, <1>2, Drift
<1>4. since' # SinceCap' => since' = since + k /\ since # SinceCap
  <2>1. since' = IF since + k <= SinceCap THEN since + k ELSE SinceCap
    BY <1>1, <1>2, LesserOfTwo
  <2>2. SinceCap' = SinceCap
    BY DEF SinceCap
  <2> QED
    BY <1>1, <1>2, <2>1, <2>2
<1>5. /\ _last_timed_check = Never => begun = {}
      /\ \A s \in Forgotten : s[2] + DayTicks < wall + d /\ s[2] + DayTicks < _last_timed_check + d
      /\ _last_timed_check # Never /\ since # SinceCap => wall - _last_timed_check <= since + d
      /\ phase # "sleep" => \A s \in Forgotten : OutOfCheck(s)
  BY DEF ForgottenInTime
<1>6. Forgotten' = Forgotten /\ \A s \in Forgotten : OutOfCheck(s) => OutOfCheck(s)'
  BY <1>1 DEF Forgotten, memory, OutOfCheck, TooLate
<1> HIDE DEF d
<1>7. \A s \in Forgotten : s[2] + DayTicks < wall' + d
  BY <1>1, <1>2, <1>3, <1>5
<1>8. _last_timed_check # Never /\ since' # SinceCap' => wall' - _last_timed_check <= since' + d
  BY <1>1, <1>3, <1>4, <1>5
<1> QED
  BY <1>1, <1>3, <1>5, <1>6, <1>7, <1>8 DEF ForgottenInTime, memory, d

LEMMA ClockChangesForgotten ==
  ASSUME TimedTypes, InPlace, NEW B \in Nat, Steady(B), ForgottenInTime(B),
         NEW by \in ClockShifts, ClockChanges(by)
  PROVE  ForgottenInTime(B)'
<1> DEFINE d == B * shifts
<1>1. /\ wall \in Int /\ since \in Nat /\ _last_timed_check \in Int /\ by \in Int
      /\ wall' = wall + by /\ shifts' = shifts + 1
      /\ \A s \in Forgotten : s[2] \in Int
      /\ UNCHANGED <<since, memory, phase, begun>>
  BY Numbers, TickAssumption DEF ClockChanges, historyVars, Forgotten
<1>2. -B <= by /\ by <= B
  BY DEF Steady
<1>3. DayTicks \in Nat /\ shifts \in Nat
  BY TickAssumption DEF TimedTypes
<1>4. d \in Nat /\ d' = d + B
  BY <1>1, <1>3, Drift
<1>5. /\ _last_timed_check = Never => begun = {}
      /\ \A s \in Forgotten : s[2] + DayTicks < wall + d /\ s[2] + DayTicks < _last_timed_check + d
      /\ _last_timed_check # Never /\ since # SinceCap => wall - _last_timed_check <= since + d
      /\ phase # "sleep" => \A s \in Forgotten : OutOfCheck(s)
  BY DEF ForgottenInTime
<1>6. /\ check'.now_wall = check.now_wall /\ check'.prev_wall = check.prev_wall
      /\ check'.real_elapsed = check.real_elapsed
  BY DEF ClockChanges, TimedTypes, Checks
<1>7. Forgotten' = Forgotten /\ \A s \in Forgotten : OutOfCheck(s) => OutOfCheck(s)'
  BY <1>1, <1>6 DEF Forgotten, memory, OutOfCheck, TooLate
<1> HIDE DEF d
<1>8. \A s \in Forgotten :
        s[2] + DayTicks < wall' + d' /\ s[2] + DayTicks < _last_timed_check + d'
  BY <1>1, <1>2, <1>3, <1>4, <1>5
<1>9. _last_timed_check # Never /\ since # SinceCap => wall' - _last_timed_check <= since + d'
  BY <1>1, <1>2, <1>4, <1>5
<1>10. SinceCap' = SinceCap
  BY DEF SinceCap
<1> QED
  BY <1>1, <1>5, <1>7, <1>8, <1>9, <1>10 DEF ForgottenInTime, memory, d

\* The check that forgets a start finds it out of its reach.
LEMMA CheckBeginsForgotten ==
  ASSUME TimedTypes, TimedTypes', InPlace, NEW B \in Nat, Steady(B), ForgottenInTime(B),
         CheckBegins
  PROVE  ForgottenInTime(B)'
<1> DEFINE d == B * shifts
<1>1. /\ _last_timed_check' = wall /\ since' = 0 /\ phase' = "check"
      /\ _timed_fired' = {s \in _timed_fired : Remembers(s)}
      /\ UNCHANGED <<wall, shifts, begun>>
  BY DEF CheckBegins, historyVars
<1>2. /\ wall \in Nat /\ _last_timed_check \in Int /\ since \in Nat
      /\ \A s \in begun : s[2] \in Int
  BY Numbers
<1>3. shifts \in Nat /\ shifts <= MaxShifts /\ MaxShifts \in Nat /\ DayTicks \in Nat \ {0}
      /\ TIMED_START_GRACE \in Nat /\ MinuteTicks \in Nat \ {0}
  BY TickAssumption, SlotFacts DEF TimedTypes
<1>4. /\ d \in Nat /\ d' = d
      /\ TIMED_START_GRACE + d <= DayTicks /\ MinuteTicks + d <= DayTicks
  <2> DEFINE all == B * MaxShifts
  <2>1. d \in Nat /\ all \in Nat /\ d <= all
    BY <1>3, Drift
  <2>2. TIMED_START_GRACE + all <= DayTicks /\ MinuteTicks + all <= DayTicks
    BY DEF Steady
  <2>3. d' = d
    BY <1>1
  <2> HIDE DEF d, all
  <2> QED
    BY <1>3, <2>1, <2>2, <2>3
<1>5. wall - MinuteTicks <= minute_floor /\ minute_floor \in Int
  <2>1. wall % MinuteTicks \in 0..MinuteTicks-1
    BY <1>2, <1>3, Remainder
  <2> QED
    BY <1>2, <1>3, <2>1 DEF minute_floor
<1>6. ASSUME NEW s \in Forgotten'
      PROVE  /\ s \in begun /\ s[2] \in Int /\ s[2] + DayTicks < wall + d
             /\ s \in Forgotten \/ s[2] + DayTicks < wall
  <2>1. s \in begun /\ s[2] \in Int
    BY <1>1, <1>2, <1>6 DEF Forgotten
  <2>2. CASE s \in Forgotten
    BY <2>1, <2>2 DEF ForgottenInTime
  <2>3. CASE s \notin Forgotten
    <3>1. ~ Remembers(s)
      BY <1>1, <1>6, <2>1, <2>3 DEF Forgotten
    <3> DEFINE p == s[2]
    <3>0. p \in Int /\ wall \in Int /\ DayTicks \in Nat \ {0}
      BY <1>2, <1>3, <2>1
    <3> HIDE DEF p
    <3>2. p \div DayTicks \in Int /\ wall \div DayTicks \in Int
      BY <3>0, Remainder, Zenon
    <3>3. p \div DayTicks < (wall \div DayTicks) - 1
      BY <3>1, <3>2, Z3 DEF Remembers, p
    <3>4. p + DayTicks < wall
      BY <3>0, <3>3, DaysBack, Zenon
    <3> HIDE DEF d
    <3> QED
      BY <1>2, <1>3, <1>4, <2>1, <3>4 DEF p
  <2> QED
    BY <2>2, <2>3
<1>7. ASSUME NEW s \in Forgotten' PROVE OutOfCheck(s)'
  <2>1. _last_timed_check # Never
    BY <1>6, <1>7 DEF ForgottenInTime
  <2>2. /\ check'.now_wall = wall /\ check'.real_elapsed = since
        /\ check'.prev_wall = IF _last_timed_check <= minute_floor
                              THEN _last_timed_check ELSE minute_floor
    BY <2>1, IntervalStart
  <2>3. s[2] \in Int /\ s[2] <= minute_floor
    <3>1. s[2] \in Int /\ s[2] + DayTicks < wall + d
      BY <1>6, <1>7
    <3> HIDE DEF d
    <3> QED
      BY <1>2, <1>3, <1>4, <1>5, <3>1
  <2>4. CASE s[2] <= _last_timed_check
    BY <1>2, <1>5, <2>2, <2>3, <2>4 DEF OutOfCheck
  <2>5. CASE s[2] > _last_timed_check
    <3>1. s \notin Forgotten
      <4>1. s \in Forgotten => s[2] + DayTicks < _last_timed_check + d
        BY DEF ForgottenInTime
      <4> HIDE DEF d
      <4> QED
        BY <1>2, <1>3, <1>4, <2>3, <2>5, <4>1
    <3>2. s[2] + DayTicks < wall
      BY <1>6, <1>7, <3>1
    <3>3. wall - s[2] > TIMED_START_GRACE
      <4> HIDE DEF d
      <4> QED
        BY <1>2, <1>3, <1>4, <2>3, <3>2
    <3>4. since > TIMED_START_GRACE
      <4>1. CASE since = SinceCap
        BY <1>3, <4>1 DEF SinceCap
      <4>2. CASE since # SinceCap
        <5>1. wall - _last_timed_check <= since + d
          BY <2>1, <4>2 DEF ForgottenInTime
        <5> HIDE DEF d
        <5> QED
          BY <1>2, <1>3, <1>4, <2>3, <2>5, <3>2, <5>1
      <4> QED
        BY <4>1, <4>2
    <3>5. Min({wall - s[2], since}) > TIMED_START_GRACE
      <4>1. wall - s[2] \in Int /\ since \in Int
        BY <1>2, <2>3
      <4>2. Min({wall - s[2], since}) = IF wall - s[2] <= since THEN wall - s[2] ELSE since
        BY <4>1, LesserOfTwo
      <4> QED
        BY <3>3, <3>4, <4>2
    <3>6. TooLate(s[2])'
      BY <2>2, <3>5 DEF TooLate
    <3> QED
      BY <3>6 DEF OutOfCheck
  <2> QED
    BY <1>2, <2>3, <2>4, <2>5
<1>8. wall - wall <= 0 + d
  <2> HIDE DEF d
  <2> QED
    BY <1>2, <1>4
<1>9. wall # Never
  BY <1>2 DEF Never
<1> QED
  BY <1>1, <1>4, <1>6, <1>7, <1>8, <1>9 DEF ForgottenInTime

LEMMA LooksAtForgotten ==
  ASSUME TimedTypes, InPlace, NEW B \in Nat, ForgottenInTime(B), NEW q \in Queues, LooksAt(q)
  PROVE  ForgottenInTime(B)'
<1>1. /\ phase = "check" /\ _last_timed_check # Never
      /\ _timed_fired' = _timed_fired \cup {<<q, p>> : p \in Hits(q)}
      /\ begun' \subseteq begun \cup {<<q, p>> : p \in Due(q)}
      /\ UNCHANGED <<wall, since, shifts, _last_timed_check, check>>
  <2>1. _last_timed_check # Never
    BY SlotFacts DEF LooksAt, InPlace, TimedTypes, Checks, Never
  <2> QED
    BY <2>1 DEF LooksAt, clockVars
<1>2. Forgotten' \subseteq Forgotten
  BY <1>1, DueFacts DEF Forgotten
<1>3. \A s : OutOfCheck(s) => OutOfCheck(s)'
  BY <1>1 DEF OutOfCheck, TooLate
<1>4. SinceCap' = SinceCap
  BY DEF SinceCap
<1> QED
  BY <1>1, <1>2, <1>3, <1>4 DEF ForgottenInTime

\* Other steps do not start anything; when the program goes, it leaves nothing behind.
LEMMA RestForgotten ==
  ASSUME TimedTypes, InPlace, NEW B \in Nat, ForgottenInTime(B),
         \/ \E q \in Queues : Edits(q)
         \/ UserStarts \/ WakesUp \/ Closes \/ GoesDown
         \/ Recorded \/ RecordFails \/ CheckEnds \/ UNCHANGED timedVars
  PROVE  ForgottenInTime(B)'
<1>1. SinceCap' = SinceCap
  BY DEF SinceCap
<1>2. CASE Closes \/ GoesDown
  BY <1>2 DEF Closes, GoesDown, Gone, ForgottenInTime, Forgotten
<1>3. CASE CheckEnds
  <2>1. /\ phase' = "sleep"
        /\ UNCHANGED <<wall, since, shifts, _last_timed_check, _timed_fired, begun>>
    BY <1>3 DEF CheckEnds, clockVars, memory, historyVars
  <2> QED
    BY <1>1, <2>1 DEF ForgottenInTime, Forgotten
<1>4. CASE \/ \E q \in Queues : Edits(q)
           \/ UserStarts \/ WakesUp \/ Recorded \/ RecordFails \/ UNCHANGED timedVars
  <2>1. /\ UNCHANGED <<wall, since, shifts, _last_timed_check, _timed_fired, begun, check>>
        /\ phase' # "sleep" => phase # "sleep"
    BY <1>4 DEF Edits, UserStarts, WakesUp, StartsAs, Recorded, RecordFails, timedVars,
                clockVars, memory, localVars, historyVars
  <2> QED
    BY <1>1, <2>1 DEF ForgottenInTime, Forgotten, OutOfCheck, TooLate
<1> QED
  BY <1>2, <1>3, <1>4

LEMMA TimedStepForgotten ==
  ASSUME TimedTypes, InPlace, NEW B \in Nat, Steady(B), ForgottenInTime(B),
         [TimedNext]_timedVars
  PROVE  ForgottenInTime(B)'
<1>1. ASSUME NEW k \in 1..MaxSkip, Tick(k) PROVE ForgottenInTime(B)'
  BY <1>1, TickForgotten
<1>2. ASSUME NEW by \in ClockShifts, ClockChanges(by) PROVE ForgottenInTime(B)'
  BY <1>2, ClockChangesForgotten
<1>3. ASSUME NEW q \in Queues, LooksAt(q) PROVE ForgottenInTime(B)'
  BY <1>3, LooksAtForgotten
<1>4. CASE CheckBegins
  BY <1>4, CheckBeginsForgotten, TimedStepTypes
<1>5. CASE \/ \E q \in Queues : Edits(q)
           \/ UserStarts \/ WakesUp \/ Closes \/ GoesDown
           \/ Recorded \/ RecordFails \/ CheckEnds \/ UNCHANGED timedVars
  BY <1>5, RestForgotten
<1> QED
  BY <1>1, <1>2, <1>3, <1>4, <1>5, Zenon DEF TimedNext

-----------------------------------------------------------------------------

\* A start is the step of LooksAt for which something is due.
LEMMA StartIsLook ==
  ASSUME [TimedNext]_timedVars, phase = "check", phase' = "starting"
  PROVE  \E q \in todo \cap Queues : Due(q) # {} /\ current' = <<q, Max(Due(q))>>
<1>1. PICK q \in Queues : LooksAt(q)
  BY DEF TimedNext, timedVars, Tick, ClockChanges, Edits, UserStarts, WakesUp, StartsAs,
         Closes, GoesDown, Gone, CheckBegins, Recorded, RecordFails, CheckEnds, AtAwait, localVars
<1>2. q \in todo /\ Due(q) # {} /\ current' = <<q, Max(Due(q))>>
  BY <1>1 DEF LooksAt
<1> QED
  BY <1>2

LEMMA NotKeptBefore ==
  ASSUME TimedTypes, InPlace, RepeatInv, [TimedNext]_timedVars,
         phase = "check", phase' = "starting", shifts = 0
  PROVE  current' \notin kept
<1>1. PICK q \in todo \cap Queues : Due(q) # {} /\ current' = <<q, Max(Due(q))>>
  BY StartIsLook
<1>2. Max(Due(q)) \in Due(q) /\ Max(Due(q)) \in Int /\ LastTimedStart[q] \in Int
  BY <1>1, DueFacts, Numbers
<1>3. LastTimedStart[q] < Max(Due(q))
  BY <1>1, <1>2, DueIsLater DEF RepeatInv
<1>4. current' \in kept => Max(Due(q)) <= LastTimedStart[q]
  BY <1>1 DEF RepeatInv, RecordedInTime
<1> QED
  BY <1>2, <1>3, <1>4

LEMMA NotBegunBefore ==
  ASSUME TimedTypes, InPlace, NEW B \in Nat, ForgottenInTime(B), [TimedNext]_timedVars,
         phase = "check", phase' = "starting"
  PROVE  current' \notin begun
<1>1. PICK q \in todo \cap Queues : Due(q) # {} /\ current' = <<q, Max(Due(q))>>
  BY StartIsLook
<1> DEFINE p == Max(Due(q))
<1>2. p \in Due(q) /\ p \in Hits(q) /\ p \in Int
  BY <1>1, DueFacts, Numbers
<1>3. check.prev_wall \in Int /\ check.now_wall \in Int /\ LastTimedStart[q] \in Int
  <2>1. check.prev_wall \in Int /\ check.now_wall \in 0..Horizon
    BY DEF TimedTypes, Checks
  <2> QED
    BY <1>1, <2>1, Numbers
<1> HIDE DEF p
<1>4. check.prev_wall < p /\ p <= check.now_wall /\ <<q, p>> \notin _timed_fired
  <2>1. check_start(q) < p /\ p <= check.now_wall /\ <<q, p>> \notin _timed_fired
    BY <1>2 DEF Hits
  <2>2. \/ check_start(q) = check.prev_wall
        \/ check_start(q) = LastTimedStart[q] /\ LastTimedStart[q] > check.prev_wall
    BY <1>1, StartOfQueue
  <2> QED
    BY <1>2, <1>3, <2>1, <2>2
<1>5. ~ TooLate(p)
  BY <1>2 DEF Due
<1>6. ~ OutOfCheck(<<q, p>>)
  BY <1>2, <1>3, <1>4, <1>5 DEF OutOfCheck
<1>7. <<q, p>> \notin Forgotten
  BY <1>6 DEF ForgottenInTime
<1> QED
  BY <1>1, <1>4, <1>7 DEF Forgotten, p

\* A start that an earlier run of the program has recorded is not repeated, unless the
\* clock was changed (LastTimedStart and the interval of timed_start).
THEOREM RecordedIsNotRepeated ==
  TimedSpec => [][phase = "check" /\ phase' = "starting" /\ shifts = 0
                    => current' \notin kept]_timedVars
<1> DEFINE IInv == TimedTypes /\ InPlace /\ RepeatInv
<1>1. TimedInit => IInv
  <2>1. TimedInit => RepeatInv
    <3> SUFFICES ASSUME TimedInit PROVE RecordedInTime
      BY DEF RepeatInv
    <3>1. wall \in Nat
      BY SlotFacts DEF TimedInit
    <3>2. \A q \in Queues : LastTimedStart[q] <= wall
      BY <3>1 DEF TimedInit, Never
    <3> QED
      BY <3>2 DEF TimedInit, RecordedInTime
  <2> QED
    BY <2>1, TimedInitInv
<1>2. IInv /\ [TimedNext]_timedVars => IInv'
  BY TimedStepTypes, TimedStepRepeat
<1>3. IInv /\ [TimedNext]_timedVars
        => [phase = "check" /\ phase' = "starting" /\ shifts = 0
              => current' \notin kept]_timedVars
  BY NotKeptBefore
<1> HIDE DEF IInv
<1> QED
  BY <1>1, <1>2, <1>3, PTL DEF TimedSpec

\* One run of the program never starts a slot twice, also when the clock is set back and
\* shows it again, for any clock that is set by less than a day altogether: what timed_start
\* forgets of _timed_fired is then beyond the reach of its interval.
THEOREM NoSlotStartsTwice ==
  ASSUME SteadyClock
  PROVE  TimedSpec => NoSecondStart
<1>1. PICK B \in Nat : Steady(B)
  BY DEF SteadyClock
<1> DEFINE IInv == TimedTypes /\ InPlace /\ ForgottenInTime(B)
           Fresh == phase = "check" /\ phase' = "starting" => current' \notin begun
<1>2. TimedInit => IInv
  BY TimedInitInv DEF TimedInit, ForgottenInTime, Forgotten
<1>3. IInv /\ [TimedNext]_timedVars => IInv'
  BY <1>1, TimedStepTypes, TimedStepForgotten
<1>4. IInv /\ [TimedNext]_timedVars => [Fresh]_timedVars
  BY NotBegunBefore
<1>5. TimedSpec => [][Fresh]_timedVars
  <2> HIDE DEF IInv, Fresh
  <2> QED
    BY <1>2, <1>3, <1>4, PTL DEF TimedSpec
<1>6. [Fresh]_timedVars
        /\ [phase = "check" /\ phase' = "starting" /\ shifts = 0 => current' \notin kept]_timedVars
        => [phase = "check" /\ phase' = "starting" =>
              /\ current' \notin begun
              /\ shifts = 0 => current' \notin kept]_timedVars
  OBVIOUS
<1> HIDE DEF Fresh
<1> QED
  BY <1>5, <1>6, RecordedIsNotRepeated, PTL DEF NoSecondStart
=============================================================================
