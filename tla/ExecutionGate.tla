------------------------------ MODULE ExecutionGate ------------------------------
(***************************************************************************)
(* The execution gate of the configuration manager                         *)
(* (app/config/core/manager.py): one holder at a time, which may enter     *)
(* again, and a queue of waiters to the first of which it is handed over.  *)
(* Everything under _execution_condition is one step.  An actor is a       *)
(* running asyncio task or thread; only a task can be cancelled.  A        *)
(* synchronous entry made inside the event loop while the gate is held     *)
(* raises at once and changes nothing; it is left out.                     *)
(***************************************************************************)
EXTENDS Naturals, Sequences, SequencesExt

CONSTANTS Actors, NoActor

ASSUME NoActorAssumption == NoActor \notin Actors

VARIABLES
  owner, depth,  \* _execution_owner, _execution_depth
  waiters,       \* _execution_waiters
  act            \* where each actor is, see ActStates

gateVars == <<owner, depth, waiters, act>>

(* "waiting": in the queue; "cancelled": still in the queue, its future is *)
(* cancelled; "granted": the gate is its own and it has not run since;     *)
(* "returning": granted and cancelled; "inside": it holds the gate;        *)
(* "outside": it left and has something to do before it is idle.           *)
ActStates == {"idle", "waiting", "cancelled", "granted", "returning", "inside", "outside"}
Queued  == {"waiting", "cancelled"}
Holding == {"granted", "returning", "inside"}

GateInit ==
  /\ owner = NoActor /\ depth = 0 /\ waiters = <<>>
  /\ act = [a \in Actors |-> "idle"]

-----------------------------------------------------------------------------
\* _enter_execution: nobody passes those who wait already.
EntersAtOnce(a) ==
  /\ act[a] = "idle" /\ owner = NoActor /\ waiters = <<>>
  /\ owner' = a /\ depth' = 1
  /\ act' = [act EXCEPT ![a] = "inside"]
  /\ UNCHANGED waiters

EntersQueue(a) ==
  /\ act[a] = "idle" /\ ~(owner = NoActor /\ waiters = <<>>)
  /\ waiters' = Append(waiters, a)
  /\ act' = [act EXCEPT ![a] = "waiting"]
  /\ UNCHANGED <<owner, depth>>

\* The actor that was granted the gate runs again.
Resumes(a) ==
  /\ act[a] = "granted"
  /\ act' = [act EXCEPT ![a] = "inside"]
  /\ UNCHANGED <<owner, depth, waiters>>

\* The holder enters once more, for a commit inside its transaction, and leaves it.
Reenters(a) ==
  /\ act[a] = "inside" /\ depth = 1
  /\ depth' = 2 /\ UNCHANGED <<owner, waiters, act>>

LeavesInner(a) ==
  /\ act[a] = "inside" /\ depth = 2
  /\ depth' = 1 /\ UNCHANGED <<owner, waiters, act>>

\* _leave_execution: the gate goes to the first waiter whose future is not done.
Next1 == SelectInSeq(waiters, LAMBDA w : act[w] = "waiting")

Leaves(a, to) ==
  /\ owner = a /\ depth = 1
  /\ IF Next1 = 0
     THEN /\ owner' = NoActor /\ depth' = 0 /\ waiters' = <<>>
          /\ act' = [act EXCEPT ![a] = to]
     ELSE /\ owner' = waiters[Next1] /\ depth' = 1
          /\ waiters' = SubSeq(waiters, Next1 + 1, Len(waiters))
          /\ act' = [act EXCEPT ![a] = to, ![waiters[Next1]] = "granted"]

\* A waiting or granted task is cancelled; it learns of it when it runs next.
IsCancelled(a) ==
  /\ act[a] \in {"waiting", "granted"}
  /\ act' = [act EXCEPT ![a] = IF @ = "waiting" THEN "cancelled" ELSE "returning"]
  /\ UNCHANGED <<owner, depth, waiters>>

\* Mutant: the cancelled task does not look whether it was granted the gate.
GivesUpPlace(a, to) ==
  /\ act[a] \in {"cancelled", "returning"}
  /\ waiters' = RemoveFirst(waiters, a)
  /\ act' = [act EXCEPT ![a] = to]
  /\ UNCHANGED <<owner, depth>>

\* The except branch of execution_gate: hand the gate back or leave the queue.
GivesUp(a, to) ==
  \/ act[a] = "returning" /\ Leaves(a, to)
  \/ /\ act[a] = "cancelled"
     /\ waiters' = RemoveFirst(waiters, a)
     /\ act' = [act EXCEPT ![a] = to]
     /\ UNCHANGED <<owner, depth>>

-----------------------------------------------------------------------------
GateTypeOK ==
  /\ owner \in Actors \cup {NoActor} /\ depth \in 0..2
  /\ waiters \in Seq(Actors) /\ act \in [Actors -> ActStates]

\* The gate is held by the one actor that knows it, and never free while someone
\* waits: a cancelled grant is handed on (execution_gate, "取消后归还已交接的资格").
GateNeverLost ==
  /\ \A a \in Actors : act[a] \in Holding <=> owner = a
  /\ owner = NoActor => \A a \in Actors : act[a] # "waiting"
  /\ \A a \in Actors : act[a] = "waiting" => a \in ToSet(waiters)
=============================================================================
