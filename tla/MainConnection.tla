----------------------------- MODULE MainConnection -----------------------------
(***************************************************************************)
(* The one main WebSocket connection (app/core/ws/manager.py), the         *)
(* handlers of its messages (app/core/ws/dispatcher.py) and the part of    *)
(* the teardown that ends both (main.py).                                  *)
(*                                                                         *)
(* A connection is one call of serve.  The sections under _connection_lock *)
(* contain no await, so that each is one step and the lock is always free  *)
(* between steps.  A connection is named by its generation.  It has one    *)
(* connect hook and at most one handler task at a time; a connection that  *)
(* comes while the manager is closing is turned away and leaves no trace.  *)
(***************************************************************************)
EXTENDS Naturals

CONSTANTS MaxConnections   \* bound on the connections of one program run

ASSUME MaxConnectionsAssumption == MaxConnections \in Nat \ {0}

Connections == 1..MaxConnections
None == 0

VARIABLES
  _websocket,      \* the current connection
  _generation,
  _closing,
  serving,         \* where serve is, see ServeStates
  hook,            \* the hook task of each connection, see TaskStates
  handler,         \* the handler task of each connection
  _closed,         \* of the dispatcher
  teardown         \* "none", "dispatcher", "hooks" or "services"

wsVars == <<_websocket, _generation, _closing, serving>>
taskVars == <<hook, handler>>
mainVars == <<wsVars, taskVars, _closed, teardown>>

ServeStates == {"new", "replacing", "receiving", "ending_hooks", "ending_handlers", "served"}
TaskStates  == {"none", "running", "cancelling"}
Alive(s) == s \in {"running", "cancelling"}
Cancelled(s) == IF s = "running" THEN "cancelling" ELSE s

MainInit ==
  /\ _websocket = None /\ _generation = 0 /\ _closing = FALSE
  /\ serving = [c \in Connections |-> "new"]
  /\ hook = [c \in Connections |-> "none"]
  /\ handler = [c \in Connections |-> "none"]
  /\ _closed = FALSE /\ teardown = "none"

-----------------------------------------------------------------------------
(* serve.                                                                  *)

\* _run_connect_hooks, when the connection is still the current one.
RunsHooks(c, current) ==
  hook' = IF ~_closing /\ current = c THEN [hook EXCEPT ![c] = "running"] ELSE hook

\* accept, and the first section under the lock.  Without a connection to replace,
\* the second section follows in the same step.
Connects(c) ==
  /\ ~_closing /\ c = _generation + 1
  /\ _generation' = c
  /\ _websocket' = c
  /\ IF _websocket = None
     THEN serving' = [serving EXCEPT ![c] = "receiving"] /\ RunsHooks(c, c)
     ELSE serving' = [serving EXCEPT ![c] = "replacing"] /\ UNCHANGED hook
  /\ UNCHANGED <<_closing, handler, _closed, teardown>>

\* Mutant: the hooks are run without looking whether the connection is still current.
ReplacedAnyOld(c) ==
  /\ serving[c] = "replacing"
  /\ serving' = [serving EXCEPT ![c] = "receiving"]
  /\ hook' = [hook EXCEPT ![c] = "running"]
  /\ UNCHANGED <<_websocket, _generation, _closing, handler, _closed, teardown>>

\* The old connection is closed, and the second section under the lock.
ReplacedOld(c) ==
  /\ serving[c] = "replacing"
  /\ serving' = [serving EXCEPT ![c] = "receiving"]
  /\ RunsHooks(c, _websocket)
  /\ UNCHANGED <<_websocket, _generation, _closing, handler, _closed, teardown>>

\* A message with an asynchronous handler.
Dispatches(c) ==
  /\ serving[c] = "receiving" /\ _websocket = c
  /\ ~_closed /\ ~Alive(handler[c])
  /\ handler' = [handler EXCEPT ![c] = "running"]
  /\ UNCHANGED <<wsVars, hook, _closed, teardown>>

\* Mutant: the clean-up clears whatever connection is the current one.
ClearsCurrent(c) == _websocket' = None

\* The first part of the clean-up of serve: only its own connection is cleared.
ClearsOwn(c) == _websocket' = IF _websocket = c THEN None ELSE _websocket

\* The receive loop ends: the peer may go at any time, and a replaced one does or sends
\* the frame that ends the loop.  Then the hooks of its generation are cancelled.
LoopEnds(c) ==
  /\ serving[c] = "receiving"
  /\ ClearsOwn(c)
  /\ serving' = [serving EXCEPT ![c] = "ending_hooks"]
  /\ hook' = [hook EXCEPT ![c] = Cancelled(@)]
  /\ UNCHANGED <<_generation, _closing, handler, _closed, teardown>>

\* Dispatcher.cancel_owner comes after the hooks have ended.
HooksEnded(c) ==
  /\ serving[c] = "ending_hooks" /\ ~Alive(hook[c])
  /\ serving' = [serving EXCEPT ![c] = "ending_handlers"]
  /\ handler' = [handler EXCEPT ![c] = Cancelled(@)]
  /\ UNCHANGED <<_websocket, _generation, _closing, hook, _closed, teardown>>

HandlersEnded(c) ==
  /\ serving[c] = "ending_handlers" /\ ~Alive(handler[c])
  /\ serving' = [serving EXCEPT ![c] = "served"]
  /\ UNCHANGED <<_websocket, _generation, _closing, taskVars, _closed, teardown>>

-----------------------------------------------------------------------------
(* Tasks.                                                                  *)

HandlerEnds(c) ==
  /\ Alive(handler[c])
  /\ handler' = [handler EXCEPT ![c] = "none"]
  /\ UNCHANGED <<wsVars, hook, _closed, teardown>>

-----------------------------------------------------------------------------
(* The teardown.                                                           *)

\* begin_shutdown, and Dispatcher.shutdown up to its first wait.
BeginsShutdown ==
  /\ teardown = "none" /\ teardown' = "dispatcher"
  /\ _closing' = TRUE /\ _closed' = TRUE
  /\ handler' = [c \in Connections |-> Cancelled(handler[c])]
  /\ UNCHANGED <<_websocket, _generation, serving, hook>>

\* cancel_hook_tasks, when no handler is left.
CancelsHooks ==
  /\ teardown = "dispatcher" /\ \A c \in Connections : ~Alive(handler[c])
  /\ teardown' = "hooks" /\ _closing' = TRUE
  /\ hook' = [c \in Connections |-> Cancelled(hook[c])]
  /\ UNCHANGED <<_websocket, _generation, serving, handler, _closed>>

\* The services are stopped from here on.
StopsServices ==
  /\ teardown = "hooks" /\ \A c \in Connections : ~Alive(hook[c])
  /\ teardown' = "services"
  /\ UNCHANGED <<wsVars, taskVars, _closed>>

-----------------------------------------------------------------------------
ServeStep(c) ==
  \/ ReplacedOld(c) \/ (_websocket # c /\ LoopEnds(c)) \/ HooksEnded(c) \/ HandlersEnded(c)

TeardownStep == CancelsHooks \/ StopsServices

MainStep ==
  \/ \E c \in Connections :
       \/ Connects(c) \/ Dispatches(c) \/ HandlerEnds(c)
       \/ LoopEnds(c) \/ ServeStep(c)
  \/ BeginsShutdown \/ TeardownStep

-----------------------------------------------------------------------------
MainTypeOK ==
  /\ _websocket \in Connections \cup {None}
  /\ _generation \in Connections \cup {0} /\ _closing \in BOOLEAN
  /\ serving \in [Connections -> ServeStates]
  /\ hook \in [Connections -> TaskStates] /\ handler \in [Connections -> TaskStates]
  /\ _closed \in BOOLEAN /\ teardown \in {"none", "dispatcher", "hooks", "services"}

\* The connection that came last is the current one until its own receive loop ends:
\* a connection that was replaced never takes it off, however late it cleans up.
NewestIsCurrent ==
  _generation # 0 /\ serving[_generation] \in {"replacing", "receiving"}
    => _websocket = _generation

\* No hook and no handler outlives the connection it was made for, and none runs
\* while the services are being stopped.
TasksDieWithOwner ==
  \A c \in Connections : Alive(hook[c]) \/ Alive(handler[c]) =>
    serving[c] \in {"receiving", "ending_hooks", "ending_handlers"} /\ teardown # "services"
=============================================================================
