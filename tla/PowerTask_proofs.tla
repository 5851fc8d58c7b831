---------------------------- MODULE PowerTask_proofs ----------------------------
(* That at most one power operation can be carried out, that it is shown as it  *)
(* is, and that its withdrawal is announced once, for any number of calls.      *)
EXTENDS PowerTask, TLAPS

-----------------------------------------------------------------------------
(* The inductive invariant.                                                *)

Holds(c) == call[c] \in {"ending", "publishing"}

\* One call at a time has the lock.
OneHolder == \A c, d \in Callers : Holds(c) /\ Holds(d) => c = d

\* A call that waits is in the queue of the lock.
WaitersListed ==
  \A c \in Callers : call[c] = "waiting" => \E i \in 1..Len(waiters) : waiters[i] = c

\* Only the power task that is on record is alive, and it has an operation.
AliveIsCurrent == \A p \in PowerTasks : Alive(p) => p = power_task /\ op[p] \in Ops

\* Only exits close the frontend.
ClosingIsExit == \A p \in PowerTasks : state[p] = "closing" => op[p] \in Exits

\* A call that ends the old task has cancelled it, one that announces the end has seen it.
HolderSees ==
  /\ \A c \in Callers : call[c] = "ending" =>
       /\ power_task # None /\ cancelling[power_task]
       /\ state[power_task] \notin {"none", "carried"}
  /\ \A c \in Callers : call[c] = "publishing" =>
       ~OldAlive /\ power_cancelled_event_task = power_task

\* A cancellation under way has a call that waits for its effect.
CancelledBySomeone ==
  \A p \in PowerTasks : Alive(p) /\ cancelling[p] => \E c \in Callers : call[c] = "ending"

\* How often the end was announced, by state; the event is on record with the task.
AnnouncedSoFar ==
  \A p \in PowerTasks :
    /\ state[p] \in {"none", "scheduled", "carried"} \cup Working => announced[p] = 0
    /\ state[p] = "publishing" => announced[p] = 1
    /\ p = power_task => (announced[p] = 1 <=> power_cancelled_event_task = p)

\* An end that is not announced yet has a call that will announce it.
EndAnnounced ==
  \A p \in PowerTasks : state[p] = "done" /\ announced[p] # 1 =>
    p = power_task /\ \E c \in Callers : call[c] = "ending"

\* A sign that nobody has written since the last cancel call is none.
SignWritten == ~written => power_sign = NoAction

LockInv == OneHolder /\ WaitersListed
RunInv == AliveIsCurrent /\ ClosingIsExit /\ SnapshotTruthful
EndInv == HolderSees /\ CancelledBySomeone /\ AnnouncedSoFar /\ EndAnnounced
Inv == TypeOK /\ LockInv /\ RunInv /\ EndInv /\ SignWritten

USE DEF Holds, Working, Alive, OldAlive, LockFree

-----------------------------------------------------------------------------
(* The lock.                                                               *)

\* The call that gets the lock leaves the queue, if it was there.
LEMMA LockTaken ==
  ASSUME TypeOK, LockInv, NEW c \in Callers, NEW r, TakesLock(c, r),
         NEW x \in {"idle", "ending"}, call' = [call EXCEPT ![c] = x]
  PROVE  LockInv' /\ waiters' \in Seq(Callers)
<1>1. OneHolder'
  BY DEF TypeOK, LockInv, OneHolder, TakesLock
<1>2. CASE UNCHANGED waiters /\ call[c] = "idle"
  BY <1>1, <1>2 DEF TypeOK, LockInv, WaitersListed
<1>3. CASE call[c] = "waiting" /\ Head(waiters) = c /\ waiters' = Tail(waiters)
  <2>1. waiters # <<>>
    BY <1>3 DEF TypeOK, LockInv, WaitersListed
  <2>2. /\ waiters[1] = c /\ waiters' \in Seq(Callers) /\ Len(waiters) \in Nat
        /\ Len(waiters') = Len(waiters) - 1
        /\ \A i \in 1..Len(waiters') : waiters'[i] = waiters[i + 1]
    BY <1>3, <2>1 DEF TypeOK
  <2>3. ASSUME NEW d \in Callers, call'[d] = "waiting"
        PROVE  \E i \in 1..Len(waiters') : waiters'[i] = d
    <3>1. d # c /\ call[d] = "waiting"
      BY <2>3 DEF TypeOK
    <3>2. PICK i \in 1..Len(waiters) : waiters[i] = d
      BY <3>1 DEF LockInv, WaitersListed
    <3>3. i - 1 \in 1..Len(waiters') /\ i = (i - 1) + 1
      BY <2>2, <3>1, <3>2
    <3> QED BY <2>2, <3>2, <3>3
  <2> QED BY <1>1, <2>2, <2>3 DEF LockInv, WaitersListed
<1> QED BY <1>2, <1>3 DEF TakesLock, TypeOK

\* A call that returns or goes on to announce the end takes nobody's place.
LEMMA LockKept ==
  ASSUME TypeOK, LockInv, NEW c \in Callers, Holds(c), UNCHANGED waiters,
         NEW x \in {"idle", "publishing"}, call' = [call EXCEPT ![c] = x]
  PROVE  LockInv' /\ waiters' \in Seq(Callers)
BY DEF TypeOK, LockInv, OneHolder, WaitersListed

LEMMA LockAwaited ==
  ASSUME TypeOK, LockInv, NEW c \in Callers, NEW r, Wait(c, r)
  PROVE  LockInv' /\ waiters' \in Seq(Callers)
<1>1. OneHolder'
  BY DEF TypeOK, LockInv, OneHolder, Wait, MustWait
<1>2. /\ waiters' \in Seq(Callers) /\ Len(waiters) \in Nat /\ Len(waiters') = Len(waiters) + 1
      /\ waiters'[Len(waiters')] = c
      /\ \A i \in 1..Len(waiters) : waiters'[i] = waiters[i]
  BY DEF TypeOK, Wait
<1>3. ASSUME NEW d \in Callers, call'[d] = "waiting"
      PROVE  \E i \in 1..Len(waiters') : waiters'[i] = d
  <2>1. CASE d = c
    BY <1>2, <2>1
  <2>2. CASE d # c
    <3>1. call[d] = "waiting"
      BY <1>3, <2>2 DEF Wait, TypeOK
    <3>2. PICK i \in 1..Len(waiters) : waiters[i] = d
      BY <3>1 DEF LockInv, WaitersListed
    <3> QED BY <1>2, <3>2
  <2> QED BY <2>1, <2>2
<1> QED BY <1>1, <1>2, <1>3 DEF LockInv, WaitersListed

-----------------------------------------------------------------------------
(* The power task on record, and its successor.                            *)

\* Nobody waits for the end of a task when a new one is made, and the old one's was
\* announced.
LEMMA MakeKeeps ==
  ASSUME Inv, NEW c \in Callers, NEW p \in PowerTasks, Make(c, p), power_sign # NoAction,
         \A d \in Callers : Holds(d) => d = c,
         call[c] = "ending" => power_cancelled_event_task = power_task,
         current_power_operation' \in {current_power_operation, None}
  PROVE  RunInv' /\ EndInv'
<1>1. /\ power_task' = p /\ p # power_task /\ ~OldAlive
      /\ state' = [state EXCEPT ![p] = "scheduled"] /\ op' = [op EXCEPT ![p] = power_sign]
      /\ cancelling' = [cancelling EXCEPT ![p] = FALSE] /\ announced' = [announced EXCEPT ![p] = 0]
      /\ power_cancelled_event_task' = None /\ call' = [call EXCEPT ![c] = "idle"]
  BY DEF Make
<1>2. /\ call \in [Callers -> {"idle", "waiting", "ending", "publishing"}]
      /\ state \in [PowerTasks -> States] /\ op \in [PowerTasks -> Ops \cup {NoAction}]
      /\ cancelling \in [PowerTasks -> BOOLEAN] /\ announced \in [PowerTasks -> {0, 1}]
      /\ power_sign \in Ops /\ None \notin PowerTasks
  BY NoneAssumption DEF Inv, TypeOK
<1>3. \A q \in PowerTasks : ~Alive(q)
  BY <1>1, NoneAssumption DEF Inv, RunInv, AliveIsCurrent
<1>4. \A d \in Callers : call'[d] \notin {"ending", "publishing"}
  BY <1>1, <1>2
<1>5. RunInv'
  BY <1>1, <1>2, <1>3 DEF Inv, RunInv, AliveIsCurrent, ClosingIsExit, SnapshotTruthful
<1>6. HolderSees' /\ CancelledBySomeone'
  BY <1>1, <1>2, <1>3, <1>4 DEF HolderSees, CancelledBySomeone
<1>7. AnnouncedSoFar'
  BY <1>1, <1>2, <1>3 DEF Inv, EndInv, AnnouncedSoFar
<1>8. ASSUME NEW q \in PowerTasks, state'[q] = "done" PROVE announced'[q] = 1
  <2>1. q # p /\ state[q] = "done" /\ announced'[q] = announced[q]
    BY <1>1, <1>2, <1>8
  <2>2. announced[q] = 1
    BY <2>1 DEF Inv, EndInv, EndAnnounced, AnnouncedSoFar
  <2> QED BY <2>1, <2>2
<1> QED BY <1>5, <1>6, <1>7, <1>8 DEF EndInv, EndAnnounced

\* The first call to end the task cancels it.
LEMMA CancelKeeps ==
  ASSUME Inv, NEW c \in Callers, NEW r, CancelOld(c, r), LockFree, call[c] \in {"idle", "waiting"}
  PROVE  RunInv' /\ EndInv'
<1>1. /\ power_task \in PowerTasks /\ Alive(power_task)
      /\ cancelling' = [cancelling EXCEPT ![power_task] = TRUE]
      /\ call' = [call EXCEPT ![c] = "ending"]
      /\ UNCHANGED <<power_task, state, op, announced, showVars>>
  BY DEF CancelOld, Inv, TypeOK
<1>2. RunInv'
  BY <1>1 DEF Inv, RunInv, AliveIsCurrent, ClosingIsExit, SnapshotTruthful, showVars
<1>3. HolderSees' /\ CancelledBySomeone'
  BY <1>1, NoneAssumption DEF Inv, TypeOK, EndInv, HolderSees, CancelledBySomeone, showVars
<1>4. AnnouncedSoFar' /\ EndAnnounced'
  BY <1>1 DEF Inv, TypeOK, EndInv, AnnouncedSoFar, EndAnnounced, showVars
<1> QED BY <1>2, <1>3, <1>4 DEF EndInv

\* Calls that neither have nor get the lock for longer change nothing of it.
LEMMA OthersKeep ==
  ASSUME Inv, UNCHANGED <<power_task, runVars, showVars>>,
         call' \in [Callers -> {"idle", "waiting", "ending", "publishing"}],
         \A c \in Callers : Holds(c) \/ Holds(c)' => call'[c] = call[c]
  PROVE  RunInv' /\ EndInv'
<1>1. RunInv'
  BY DEF Inv, RunInv, AliveIsCurrent, ClosingIsExit, SnapshotTruthful, runVars, showVars
<1>2. HolderSees' /\ CancelledBySomeone'
  BY DEF Inv, TypeOK, EndInv, HolderSees, CancelledBySomeone, runVars, showVars
<1>3. AnnouncedSoFar' /\ EndAnnounced'
  BY DEF Inv, TypeOK, EndInv, AnnouncedSoFar, EndAnnounced, runVars, showVars
<1> QED BY <1>1, <1>2, <1>3 DEF EndInv

\* The end of a task that is over has been announced when the call that waited is through.
LEMMA ReturnKeeps ==
  ASSUME Inv, NEW c \in Callers, Holds(c), Return(c), ~OldAlive,
         power_cancelled_event_task = power_task,
         UNCHANGED <<power_task, runVars, power_cancelled_event_task>>,
         current_power_operation' \in {current_power_operation, None}
  PROVE  RunInv' /\ EndInv'
<1>1. \A p \in PowerTasks : ~Alive(p)
  BY NoneAssumption DEF Inv, RunInv, AliveIsCurrent
<1>2. \A d \in Callers : call'[d] \notin {"ending", "publishing"}
  BY DEF Return, Inv, TypeOK, LockInv, OneHolder
<1>3. RunInv'
  BY <1>1 DEF Inv, RunInv, AliveIsCurrent, ClosingIsExit, SnapshotTruthful, runVars
<1>4. HolderSees' /\ CancelledBySomeone' /\ AnnouncedSoFar'
  BY <1>1, <1>2 DEF Inv, EndInv, HolderSees, CancelledBySomeone, AnnouncedSoFar, runVars
<1>5. EndAnnounced'
  BY DEF Inv, EndInv, EndAnnounced, AnnouncedSoFar, runVars
<1> QED BY <1>3, <1>4, <1>5 DEF EndInv

-----------------------------------------------------------------------------
(* The steps of the calls.                                                 *)

CallType == {"idle", "waiting", "ending", "publishing"}

\* With the lock free, nobody else is about to end a task.
LEMMA WaitStep ==
  ASSUME Inv, NEW c \in Callers, NEW r \in Requests, Wait(c, r),
         power_sign' \in Ops \cup {NoAction}, SignWritten', tasks' \in BOOLEAN, due' \in BOOLEAN,
         written' \in BOOLEAN, picked' \subseteq Callers
  PROVE  Inv'
<1>1. LockInv' /\ waiters' \in Seq(Callers)
  BY LockAwaited DEF Inv
<1>2. /\ call' \in [Callers -> CallType] /\ call[c] = "idle" /\ call'[c] = "waiting"
      /\ \A d \in Callers : d # c => call'[d] = call[d]
  BY DEF Wait, MustWait, Inv, TypeOK, CallType
<1>3. RunInv' /\ EndInv'
  BY <1>2, OthersKeep DEF Wait, CallType
<1>4. TypeOK'
  BY <1>1, <1>2 DEF Wait, Inv, TypeOK, CallType, runVars, showVars
<1> QED BY <1>1, <1>3, <1>4 DEF Inv

LEMMA CallTakes ==
  ASSUME Inv, NEW c \in Callers, NEW r, TakesLock(c, r)
  PROVE  LockFree /\ call[c] \in {"idle", "waiting"} /\ \A d \in Callers : ~Holds(d)
BY DEF TakesLock

LEMMA StartGetsLockStep == ASSUME Inv, NEW c \in Callers, StartGetsLock(c) PROVE Inv'
<1>1. TakesLock(c, "start") /\ tasks' \in BOOLEAN /\ due' = due
  BY DEF StartGetsLock, StartCalled, Inv, TypeOK
<1>2. LockFree /\ call[c] \in {"idle", "waiting"} /\ \A d \in Callers : ~Holds(d)
  BY <1>1, CallTakes
<1>3. CASE power_sign # NoAction /\ CancelOld(c, "start") /\ KeepSign
  <2>1. RunInv' /\ EndInv'
    BY <1>2, <1>3, CancelKeeps
  <2>2. LockInv' /\ waiters' \in Seq(Callers)
    BY <1>1, <1>3, LockTaken DEF CancelOld, Inv
  <2>3. TypeOK' /\ SignWritten'
    BY <1>1, <1>3, <2>2 DEF CancelOld, KeepSign, Inv, TypeOK, SignWritten, Requests, histVars, showVars
  <2> QED BY <2>1, <2>2, <2>3 DEF Inv
<1>4. ASSUME NEW p \in PowerTasks, power_sign # NoAction, Make(c, p), UNCHANGED <<request, current_power_operation>>
      PROVE  Inv'
  <2>1. RunInv' /\ EndInv'
    BY <1>2, <1>4, MakeKeeps
  <2>2. LockInv' /\ waiters' \in Seq(Callers)
    BY <1>1, <1>4, LockTaken DEF Make, Inv
  <2>3. TypeOK' /\ SignWritten'
    BY <1>1, <1>4, <2>2 DEF Make, Inv, TypeOK, SignWritten, States
  <2> QED BY <2>1, <2>2, <2>3 DEF Inv
<1>5. CASE Return(c) /\ KeepSign /\ UNCHANGED <<request, power_task, runVars, showVars>>
  <2>1. call' \in [Callers -> CallType] /\ \A d \in Callers : ~Holds(d)'
    BY <1>2, <1>5 DEF Return, Inv, TypeOK, CallType
  <2>2. RunInv' /\ EndInv'
    BY <1>2, <1>5, <2>1, OthersKeep DEF CallType
  <2>3. LockInv' /\ waiters' \in Seq(Callers)
    BY <1>1, <1>5, LockTaken DEF Return, Inv
  <2>4. TypeOK' /\ SignWritten'
    BY <1>1, <1>5, <2>1, <2>3 DEF KeepSign, Inv, TypeOK, SignWritten, histVars, runVars, showVars, CallType
  <2> QED BY <2>2, <2>3, <2>4 DEF Inv
<1> QED BY <1>3, <1>4, <1>5 DEF StartGetsLock

\* The lock taken to end a task or to find there is none.
LEMMA EnderStep ==
  ASSUME Inv, NEW c \in Callers, NEW r \in Requests, TakesLock(c, r),
         \/ CancelOld(c, r)
         \/ ~OldAlive /\ Return(c) /\ UNCHANGED <<request, power_task, runVars, showVars>>,
         power_sign' \in Ops \cup {NoAction}, SignWritten', UNCHANGED envVars,
         written' \in BOOLEAN, picked' \subseteq Callers
  PROVE  Inv'
<1>1. LockFree /\ call[c] \in {"idle", "waiting"} /\ \A d \in Callers : ~Holds(d)
  BY CallTakes
<1>2. CASE CancelOld(c, r)
  <2>1. RunInv' /\ EndInv'
    BY <1>1, <1>2, CancelKeeps
  <2>2. LockInv' /\ waiters' \in Seq(Callers)
    BY <1>2, LockTaken DEF CancelOld, Inv
  <2>3. TypeOK'
    BY <1>2, <2>2 DEF CancelOld, Inv, TypeOK, envVars, showVars
  <2> QED BY <2>1, <2>2, <2>3 DEF Inv
<1>3. CASE Return(c) /\ UNCHANGED <<request, power_task, runVars, showVars>>
  <2>1. call' \in [Callers -> CallType] /\ \A d \in Callers : ~Holds(d)'
    BY <1>1, <1>3 DEF Return, Inv, TypeOK, CallType
  <2>2. RunInv' /\ EndInv'
    BY <1>1, <1>3, <2>1, OthersKeep DEF CallType
  <2>3. LockInv' /\ waiters' \in Seq(Callers)
    BY <1>3, LockTaken DEF Return, Inv
  <2>4. TypeOK'
    BY <1>3, <2>1, <2>3 DEF Inv, TypeOK, envVars, runVars, showVars, CallType
  <2> QED BY <2>2, <2>3, <2>4 DEF Inv
<1> QED BY <1>2, <1>3

LEMMA PickedSign ==
  ASSUME Inv, PickSign
  PROVE  power_sign' \in Ops \cup {NoAction} /\ SignWritten' /\ written' \in BOOLEAN /\ picked' \subseteq Callers
BY DEF PickSign, StartsUnderWay, SignWritten

LEMMA KeptSign ==
  ASSUME Inv, KeepSign
  PROVE  power_sign' \in Ops \cup {NoAction} /\ SignWritten' /\ written' \in BOOLEAN /\ picked' \subseteq Callers
BY DEF KeepSign, histVars, Inv, TypeOK, SignWritten

\* What the call does when the old task is over and its end announced.
LEMMA CompletesStep ==
  ASSUME Inv, NEW c \in Callers, Holds(c), Completes(c), ~OldAlive,
         power_cancelled_event_task = power_task,
         current_power_operation' \in {current_power_operation, None},
         UNCHANGED <<request, waiters, envVars>>
  PROVE  Inv'
<1>1. \A d \in Callers : Holds(d) => d = c
  BY DEF Inv, LockInv, OneHolder
<1>2. call' = [call EXCEPT ![c] = "idle"]
  BY DEF Completes, Make, Return
<1>3. LockInv' /\ waiters' \in Seq(Callers)
  BY <1>2, LockKept DEF Inv
<1>4. ASSUME NEW p \in PowerTasks, power_sign # NoAction, Make(c, p)
      PROVE  Inv'
  <2>1. RunInv' /\ EndInv'
    BY <1>1, <1>4, MakeKeeps
  <2>2. TypeOK' /\ SignWritten'
    BY <1>3, <1>4 DEF Make, Inv, TypeOK, SignWritten, States, envVars
  <2> QED BY <1>3, <2>1, <2>2 DEF Inv
<1>5. CASE /\ KeepSign \/ PickSign
           /\ Return(c) /\ UNCHANGED <<power_task, runVars, power_cancelled_event_task>>
  <2>1. RunInv' /\ EndInv'
    BY <1>5, ReturnKeeps
  <2>2. power_sign' \in Ops \cup {NoAction} /\ SignWritten' /\ written' \in BOOLEAN /\ picked' \subseteq Callers
    BY <1>5, KeptSign, PickedSign
  <2>3. TypeOK'
    BY <1>2, <1>3, <1>5, <2>2 DEF Inv, TypeOK, envVars, runVars
  <2> QED BY <1>3, <2>1, <2>2, <2>3 DEF Inv
<1> QED BY <1>4, <1>5 DEF Completes

\* A task cancelled before its first step is announced by the call.
LEMMA OldEndedStep == ASSUME Inv, NEW c \in Callers, OldEnded(c) PROVE Inv'
<1>1. /\ Holds(c) /\ call[c] = "ending" /\ ~OldAlive /\ current_power_operation' = None
      /\ UNCHANGED <<request, waiters, envVars>>
      /\ \A d \in Callers : Holds(d) => d = c
  BY DEF OldEnded, Inv, LockInv, OneHolder
<1>2. CASE power_cancelled_event_task = power_task /\ Completes(c)
  BY <1>1, <1>2, CompletesStep
<1>3. CASE /\ power_cancelled_event_task # power_task
           /\ PublishEnd(power_task)
           /\ call' = [call EXCEPT ![c] = "publishing"]
           /\ KeepSign
           /\ UNCHANGED <<power_task, state, op, cancelling>>
  <2>1. power_task \in PowerTasks /\ announced[power_task] = 0 /\ \A p \in PowerTasks : ~Alive(p)
    BY <1>1, <1>3, NoneAssumption
    DEF Inv, TypeOK, EndInv, HolderSees, AnnouncedSoFar, RunInv, AliveIsCurrent
  <2>2. /\ announced' = [announced EXCEPT ![power_task] = 1] /\ power_cancelled_event_task' = power_task
    BY <1>3, <2>1 DEF PublishEnd, Inv, TypeOK
  <2>3. state[power_task] = "done"
    BY <1>1, <2>1 DEF Inv, TypeOK, EndInv, HolderSees, States
  <2>4. LockInv' /\ waiters' \in Seq(Callers)
    BY <1>1, <1>3, LockKept DEF Inv
  <2>5. RunInv'
    BY <1>3, <2>1 DEF Inv, RunInv, AliveIsCurrent, ClosingIsExit, SnapshotTruthful
  <2>6. HolderSees' /\ CancelledBySomeone'
    BY <1>1, <1>3, <2>1, <2>2 DEF Inv, TypeOK, HolderSees, CancelledBySomeone
  <2>7. AnnouncedSoFar'
    BY <1>3, <2>1, <2>2, <2>3 DEF Inv, TypeOK, EndInv, AnnouncedSoFar
  <2>8. EndAnnounced'
    BY <1>3, <2>2 DEF Inv, TypeOK, EndInv, EndAnnounced
  <2>9. TypeOK' /\ SignWritten'
    BY <1>1, <1>3, <2>1, <2>2, <2>4 DEF KeepSign, Inv, TypeOK, SignWritten, histVars, envVars
  <2> QED BY <2>4, <2>5, <2>6, <2>7, <2>8, <2>9 DEF Inv, EndInv
<1> QED BY <1>2, <1>3 DEF OldEnded

LEMMA EndPublishedStep == ASSUME Inv, NEW c \in Callers, EndPublished(c) PROVE Inv'
BY CompletesStep DEF EndPublished, Inv, EndInv, HolderSees

LEMMA CallSteps ==
  ASSUME Inv, NEW c \in Callers,
         \/ StartWaits(c) \/ CancelWaits(c) \/ SelectWaits(c)
         \/ StartGetsLock(c) \/ CancelGetsLock(c) \/ SelectGetsLock(c)
         \/ OldEnded(c) \/ EndPublished(c)
  PROVE  Inv'
<1>1. CASE StartWaits(c)
  <2>1. tasks' \in BOOLEAN /\ due' \in BOOLEAN
    BY <1>1 DEF StartWaits, StartCalled, Inv, TypeOK
  <2> QED BY <1>1, <2>1, WaitStep, KeptSign DEF StartWaits, Requests
<1>2. CASE CancelWaits(c)
  BY <1>2, WaitStep DEF CancelWaits, ClearSign, Requests, Inv, TypeOK, SignWritten, envVars
<1>3. CASE SelectWaits(c)
  BY <1>3, WaitStep, KeptSign DEF SelectWaits, Requests, Inv, TypeOK, envVars
<1>4. CASE CancelGetsLock(c)
  BY <1>4, EnderStep DEF CancelGetsLock, Requests, SignWritten
<1>5. CASE SelectGetsLock(c)
  BY <1>5, EnderStep, KeptSign, PickedSign DEF SelectGetsLock, Requests
<1> QED BY <1>1, <1>2, <1>3, <1>4, <1>5, StartGetsLockStep, OldEndedStep, EndPublishedStep

-----------------------------------------------------------------------------
(* The steps of the power task.                                            *)

\* A step to the next await, with what is shown.
LEMMA GoesStep ==
  ASSUME Inv, NEW p \in PowerTasks,
         NEW from \in {"scheduled"} \cup Working, NEW to \in Working \cup {"carried"}, Goes(p, from, to),
         to = "closing" => op[p] \in Exits,
         UNCHANGED <<announced, power_cancelled_event_task>>,
         current_power_operation' = IF to = "carried" THEN None ELSE op[p]
  PROVE  Inv'
<1>1. /\ state' = [state EXCEPT ![p] = to] /\ state[p] = from /\ ~cancelling[p]
      /\ UNCHANGED <<power_sign, power_task, call, request, waiters, tasks, due, written, picked, op, cancelling>>
  BY DEF Goes, callVars, envVars, histVars
<1>2. p = power_task /\ op[p] \in Ops /\ \A q \in PowerTasks : Alive(q) => q = p
  BY <1>1 DEF Inv, RunInv, AliveIsCurrent
<1>3. RunInv'
  <2>1. AliveIsCurrent' /\ ClosingIsExit'
    BY <1>1, <1>2 DEF Inv, TypeOK, RunInv, AliveIsCurrent, ClosingIsExit
  <2>2. SnapshotTruthful'
    BY <1>1, <1>2 DEF Inv, TypeOK, SnapshotTruthful
  <2> QED BY <2>1, <2>2 DEF RunInv
<1>4. HolderSees' /\ CancelledBySomeone'
  BY <1>1, <1>2 DEF Inv, TypeOK, EndInv, HolderSees, CancelledBySomeone
<1>5. AnnouncedSoFar' /\ EndAnnounced'
  BY <1>1 DEF Inv, TypeOK, EndInv, AnnouncedSoFar, EndAnnounced
<1>6. TypeOK'
  BY <1>1, <1>2 DEF Inv, TypeOK, States
<1> QED BY <1>1, <1>3, <1>4, <1>5, <1>6 DEF Inv, EndInv, LockInv, OneHolder, WaitersListed, SignWritten

LEMMA WithdrawsStep ==
  ASSUME Inv, NEW p \in PowerTasks, state[p] \in Working, Withdraws(p)
  PROVE  Inv'
<1>1. /\ state' = [state EXCEPT ![p] = "publishing"] /\ PublishEnd(p)
      /\ UNCHANGED <<power_sign, power_task, call, request, waiters, tasks, due, written, picked, op, cancelling,
                     current_power_operation>>
  BY DEF Withdraws, callVars, envVars, histVars
<1>2. p = power_task /\ announced[p] = 0 /\ power_cancelled_event_task # p
  BY DEF Inv, TypeOK, RunInv, AliveIsCurrent, EndInv, AnnouncedSoFar
<1>3. announced' = [announced EXCEPT ![p] = 1] /\ power_cancelled_event_task' = p
  BY <1>1, <1>2 DEF PublishEnd, Inv, TypeOK
<1>4. RunInv'
  BY <1>1, <1>2 DEF Inv, TypeOK, RunInv, AliveIsCurrent, ClosingIsExit, SnapshotTruthful
<1>5. HolderSees' /\ CancelledBySomeone'
  BY <1>1, <1>2, <1>3 DEF Inv, TypeOK, EndInv, HolderSees, CancelledBySomeone
<1>6. AnnouncedSoFar' /\ EndAnnounced'
  BY <1>1, <1>2, <1>3 DEF Inv, TypeOK, EndInv, AnnouncedSoFar, EndAnnounced
<1>7. TypeOK'
  BY <1>1, <1>2, <1>3 DEF Inv, TypeOK, States
<1> QED BY <1>1, <1>4, <1>5, <1>6, <1>7 DEF Inv, EndInv, LockInv, OneHolder, WaitersListed, SignWritten

\* It is over: announced, or with a call that will announce it.
LEMMA OverStep ==
  ASSUME Inv, NEW p \in PowerTasks, WithdrawalSent(p) \/ NeverStarts(p)
  PROVE  Inv'
<1>1. /\ state[p] = "publishing" \/ (state[p] = "scheduled" /\ cancelling[p])
      /\ state' = [state EXCEPT ![p] = "done"] /\ current_power_operation' \in {current_power_operation, None}
      /\ UNCHANGED <<power_sign, power_task, call, request, waiters, tasks, due, written, picked, op, cancelling,
                     announced, power_cancelled_event_task>>
  BY DEF WithdrawalSent, NeverStarts, callVars, envVars, histVars, showVars
<1>2. p = power_task /\ \A q \in PowerTasks : Alive(q) => q = p
  BY <1>1 DEF Inv, RunInv, AliveIsCurrent
<1>3. RunInv'
  BY <1>1, <1>2 DEF Inv, TypeOK, RunInv, AliveIsCurrent, ClosingIsExit, SnapshotTruthful
<1>4. HolderSees' /\ CancelledBySomeone'
  BY <1>1, <1>2 DEF Inv, TypeOK, EndInv, HolderSees, CancelledBySomeone
<1>5. AnnouncedSoFar' /\ EndAnnounced'
  BY <1>1, <1>2 DEF Inv, TypeOK, EndInv, AnnouncedSoFar, EndAnnounced, CancelledBySomeone
<1>6. TypeOK'
  BY <1>1 DEF Inv, TypeOK, States
<1> QED BY <1>1, <1>3, <1>4, <1>5, <1>6 DEF Inv, EndInv, LockInv, OneHolder, WaitersListed, SignWritten

LEMMA RunSteps ==
  ASSUME Inv, NEW p \in PowerTasks, RunStep(p) \/ PowerFails(p)
  PROVE  Inv'
<1>1. state[p] \in Working => current_power_operation = op[p]
  BY DEF Inv, RunInv, SnapshotTruthful
<1>2. CASE PowerStarts(p)
  BY <1>2, GoesStep DEF PowerStarts
<1>3. CASE CountdownOver(p)
  <2>1. state[p] = "counting"
    BY <1>3 DEF CountdownOver, Goes
  <2> QED BY <1>1, <1>3, <2>1, GoesStep DEF CountdownOver, showVars
<1>4. CASE Drained(p)
  <2>1. state[p] = "draining"
    BY <1>4 DEF Drained, Goes
  <2>2. CASE Withdraws(p)
    BY <2>1, <2>2, WithdrawsStep
  <2>3. CASE op[p] \in Exits /\ Goes(p, "draining", "closing") /\ UNCHANGED <<announced, showVars>>
    BY <1>1, <2>1, <2>3, GoesStep DEF showVars
  <2>4. CASE Goes(p, "draining", "cleaning") /\ UNCHANGED <<announced, showVars>>
    BY <1>1, <2>1, <2>4, GoesStep DEF showVars
  <2> QED BY <1>4, <2>2, <2>3, <2>4 DEF Drained
<1>5. CASE Cleaned(p)
  <2>1. state[p] = "cleaning"
    BY <1>5 DEF Cleaned, Goes
  <2>2. CASE Withdraws(p)
    BY <2>1, <2>2, WithdrawsStep
  <2>3. CASE /\ Goes(p, "cleaning", "carried") /\ current_power_operation' = None
             /\ UNCHANGED <<announced, power_cancelled_event_task>>
    BY <2>3, GoesStep
  <2> QED BY <1>5, <2>2, <2>3 DEF Cleaned
<1>6. CASE FrontendClosed(p)
  BY <1>6, GoesStep DEF FrontendClosed
<1>7. CASE CancelDelivered(p) \/ PowerFails(p)
  BY <1>7, WithdrawsStep DEF CancelDelivered, PowerFails
<1> QED BY <1>2, <1>3, <1>4, <1>5, <1>6, <1>7, OverStep DEF RunStep

-----------------------------------------------------------------------------
(* The task manager.                                                       *)

LEMMA EnvironmentSteps ==
  ASSUME Inv, QueueEnds \/ StopAllDropsSign \/ TasksArrive \/ TasksLeave \/ ScheduleMoves
  PROVE  Inv'
<1>1. /\ Environment
      /\ power_sign' \in Ops \cup {NoAction} /\ SignWritten' /\ written' \in BOOLEAN /\ picked' \subseteq Callers
      /\ tasks' \in BOOLEAN /\ due' \in BOOLEAN
  BY KeptSign DEF QueueEnds, StopAllDropsSign, ClearSign, TasksArrive, TasksLeave, ScheduleMoves, SignWritten,
                  Inv, TypeOK, envVars
<1>2. RunInv' /\ EndInv'
  BY <1>1, OthersKeep DEF Environment, callVars, Inv, TypeOK
<1> QED BY <1>1, <1>2
        DEF Environment, callVars, runVars, showVars, Inv, TypeOK, LockInv, OneHolder, WaitersListed

-----------------------------------------------------------------------------
(* The theorems.                                                           *)

LEMMA Initially == Init => Inv
<1> SUFFICES ASSUME Init PROVE Inv
  OBVIOUS
<1>1. TypeOK
  <2>1. waiters \in Seq(Callers) /\ announced \in [PowerTasks -> {0, 1}]
    BY DEF Init
  <2> QED BY <2>1, Zenon DEF Init, TypeOK, States, Requests
<1>2. LockInv
  BY DEF Init, LockInv, OneHolder, WaitersListed
<1>3. RunInv
  BY DEF Init, RunInv, AliveIsCurrent, ClosingIsExit, SnapshotTruthful
<1>4. EndInv
  BY NoneAssumption DEF Init, EndInv, HolderSees, CancelledBySomeone, AnnouncedSoFar, EndAnnounced
<1> QED BY <1>1, <1>2, <1>3, <1>4 DEF Init, Inv, SignWritten

LEMMA Inductive == Inv /\ [Next]_vars => Inv'
<1> SUFFICES ASSUME Inv, [Next]_vars PROVE Inv'
  OBVIOUS
<1>1. CASE UNCHANGED vars
  BY <1>1
  DEF vars, callVars, runVars, showVars, envVars, histVars, Inv, TypeOK, LockInv, OneHolder, WaitersListed, RunInv,
      AliveIsCurrent, ClosingIsExit, SnapshotTruthful, EndInv, HolderSees, CancelledBySomeone, AnnouncedSoFar,
      EndAnnounced, SignWritten
<1> QED BY <1>1, CallSteps, RunSteps, EnvironmentSteps DEF Next

THEOREM Invariance == Spec => []Inv
BY Initially, Inductive, PTL DEF Spec

\* Every variable has its type.
THEOREM TypeCorrect == Spec => []TypeOK
<1>1. Inv => TypeOK
  BY DEF Inv
<1> QED BY <1>1, Invariance, PTL

\* At most one power task is alive, and the snapshot shows the operation that it is for
\* (start_power_task ends the old task before it makes a new one).
THEOREM OneOperationAsShown == Spec => []OneTruthfulPowerTask
<1>1. Inv => OneTruthfulPowerTask
  BY DEF Inv, RunInv, AliveIsCurrent, OneTruthfulPowerTask, OnePowerTask
<1> QED BY <1>1, Invariance, PTL

\* A withdrawn power task is announced as withdrawn once, whoever ended it and even if it
\* never took a step (_publish_power_cancelled).
THEOREM WithdrawalAnnouncedOnce == Spec => []WithdrawnOnce
<1>1. Inv => WithdrawnOnce
  BY DEF Inv, EndInv, AnnouncedSoFar, EndAnnounced, WithdrawnOnce
<1> QED BY <1>1, Invariance, PTL

\* cancel_power_task returns with no power task alive and nothing left of the sign that was
\* set before it had the lock.
THEOREM CancelLeavesNothing == Spec => CancelClears
<1>1. ASSUME Inv, [Next]_vars, NEW c \in Callers, call'[c] = "idle", request[c] = "cancel",
             call[c] \in {"waiting", "ending", "publishing"}
      PROVE  (\A p \in PowerTasks : ~Alive(p)) /\ (~written' => power_sign' = NoAction)
  <2>1. SignWritten'
    BY <1>1, Inductive DEF Inv
  <2>2. ~OldAlive
    <3>1. CASE StartGetsLock(c) \/ SelectGetsLock(c)
      BY <1>1, <3>1 DEF StartGetsLock, SelectGetsLock, TakesLock
    <3>2. CASE CancelGetsLock(c)
      BY <1>1, <3>2 DEF CancelGetsLock, CancelOld, Inv, TypeOK
    <3>3. CASE OldEnded(c) \/ EndPublished(c)
      BY <1>1, <3>3 DEF OldEnded, EndPublished, Inv, EndInv, HolderSees
    <3>4. CASE StartWaits(c) \/ CancelWaits(c) \/ SelectWaits(c)
      BY <1>1, <3>4 DEF StartWaits, CancelWaits, SelectWaits, Wait, MustWait
    <3>5. ASSUME call'[c] = call[c] PROVE FALSE
      BY <1>1, <3>5
    <3>6. ASSUME NEW d \in Callers, d # c,
                 \/ StartWaits(d) \/ CancelWaits(d) \/ SelectWaits(d)
                 \/ StartGetsLock(d) \/ CancelGetsLock(d) \/ SelectGetsLock(d)
                 \/ OldEnded(d) \/ EndPublished(d)
          PROVE  call'[c] = call[c]
      BY <1>1, <3>6
      DEF StartWaits, CancelWaits, SelectWaits, Wait, StartGetsLock, CancelGetsLock, SelectGetsLock, CancelOld, Make,
          Return, OldEnded, EndPublished, Completes, Inv, TypeOK
    <3>7. ASSUME NEW p \in PowerTasks, RunStep(p) \/ PowerFails(p) PROVE UNCHANGED call
      BY <3>7
      DEF RunStep, PowerStarts, CountdownOver, Drained, Cleaned, FrontendClosed, CancelDelivered, PowerFails,
          WithdrawalSent, NeverStarts, Goes, Withdraws, callVars
    <3>8. CASE QueueEnds \/ StopAllDropsSign \/ TasksArrive \/ TasksLeave \/ ScheduleMoves
      BY <3>5, <3>8
      DEF QueueEnds, StopAllDropsSign, TasksArrive, TasksLeave, ScheduleMoves, Environment, callVars
    <3>9. CASE UNCHANGED vars
      BY <3>5, <3>9 DEF vars, callVars
    <3> QED BY <1>1, <3>1, <3>2, <3>3, <3>4, <3>5, <3>6, <3>7, <3>8, <3>9 DEF Next
  <2>3. \A p \in PowerTasks : ~Alive(p)
    BY <1>1, <2>2, NoneAssumption DEF Inv, RunInv, AliveIsCurrent
  <2> QED BY <2>1, <2>3 DEF SignWritten
<1>2. Inv /\ [Next]_vars =>
        [\A c \in Callers :
           /\ call'[c] = "idle" /\ request[c] = "cancel"
           /\ call[c] \in {"waiting", "ending", "publishing"}
           => /\ \A p \in PowerTasks : ~Alive(p)
              /\ ~written' => power_sign' = NoAction]_vars
  BY <1>1
<1> QED BY <1>2, Invariance, PTL DEF Spec, CancelClears

\* With scheduled wake-up on, no operation of the system is carried out under a task or
\* across a timed start: the last look at both is in the step that carries it out.
THEOREM TasksAreSpared == Spec => PowerSparesTasks
<1>1. ASSUME Inv, [Next]_vars, NEW p \in PowerTasks, op[p] \in SystemOps, state[p] # "carried", state'[p] = "carried"
      PROVE  ~IfScheduledWakeUp \/ (~tasks /\ ~due)
  <2>1. ASSUME NEW c \in Callers,
               \/ StartWaits(c) \/ CancelWaits(c) \/ SelectWaits(c)
               \/ StartGetsLock(c) \/ CancelGetsLock(c) \/ SelectGetsLock(c)
               \/ OldEnded(c) \/ EndPublished(c)
        PROVE  state'[p] \in {state[p], "scheduled"}
    <3>1. state' = state \/ \E q \in PowerTasks : Make(c, q)
      <4>1. CASE StartWaits(c) \/ CancelWaits(c) \/ SelectWaits(c)
        BY <4>1 DEF StartWaits, CancelWaits, SelectWaits, Wait, runVars
      <4>2. CASE StartGetsLock(c) \/ CancelGetsLock(c) \/ SelectGetsLock(c)
        BY <4>2 DEF StartGetsLock, CancelGetsLock, SelectGetsLock, CancelOld, runVars
      <4>3. CASE OldEnded(c) \/ EndPublished(c)
        BY <4>3 DEF OldEnded, EndPublished, Completes, runVars
      <4> QED BY <2>1, <4>1, <4>2, <4>3
    <3> QED BY <1>1, <3>1 DEF Make, Inv, TypeOK
  <2>2. ASSUME NEW q \in PowerTasks, RunStep(q) \/ PowerFails(q) PROVE Cleaned(q) /\ ~Refused /\ q = p
    <3>1. q = p
      BY <1>1, <2>2
      DEF RunStep, PowerStarts, CountdownOver, Drained, Cleaned, FrontendClosed, CancelDelivered, PowerFails,
          WithdrawalSent, NeverStarts, Goes, Withdraws, Inv, TypeOK
    <3>2. ~FrontendClosed(p)
      BY <1>1, OpsAssumption DEF FrontendClosed, Goes, Inv, RunInv, ClosingIsExit
    <3> QED BY <1>1, <2>2, <3>1, <3>2
        DEF RunStep, PowerStarts, CountdownOver, Drained, Cleaned, FrontendClosed, CancelDelivered, PowerFails,
            WithdrawalSent, NeverStarts, Goes, Withdraws, Inv, TypeOK
  <2>3. CASE QueueEnds \/ StopAllDropsSign \/ TasksArrive \/ TasksLeave \/ ScheduleMoves \/ UNCHANGED vars
    BY <1>1, <2>3
    DEF QueueEnds, StopAllDropsSign, TasksArrive, TasksLeave, ScheduleMoves, Environment, runVars, vars
  <2> QED BY <1>1, <2>1, <2>2, <2>3 DEF Next, Refused
<1>2. Inv /\ [Next]_vars =>
        [\A p \in PowerTasks :
           op[p] \in SystemOps /\ state[p] # "carried" /\ state'[p] = "carried"
             => ~IfScheduledWakeUp \/ (~tasks /\ ~due)]_vars
  BY <1>1
<1> QED BY <1>2, Invariance, PTL DEF Spec, PowerSparesTasks
=============================================================================
