------------------------------ MODULE TaskTable ------------------------------
(***************************************************************************)
(* What the task manager promises about its table of live tasks, whatever  *)
(* happens inside a task: a task enters the table at most once and only    *)
(* while the manager accepts tasks, and the manager accepts again after a  *)
(* "stop all" only when the table is empty.  TaskManager implements it.    *)
(***************************************************************************)
CONSTANT Tasks

VARIABLES live,       \* the tasks in the table
          used,       \* the tasks that have ever been in it
          accepting   \* FALSE while a "stop all" is in progress

Init == live = {} /\ used = {} /\ accepting = TRUE

Enter(t) ==
  /\ accepting
  /\ t \notin used
  /\ live' = live \cup {t}
  /\ used' = used \cup {t}
  /\ UNCHANGED accepting

Leave(t) ==
  /\ t \in live
  /\ live' = live \ {t}
  /\ UNCHANGED <<used, accepting>>

Close  == accepting /\ accepting' = FALSE /\ UNCHANGED <<live, used>>
Reopen == live = {} /\ accepting' = TRUE /\ UNCHANGED <<live, used>>

Next == (\E t \in Tasks : Enter(t) \/ Leave(t)) \/ Close \/ Reopen

Spec == Init /\ [][Next]_<<live, used, accepting>>
=============================================================================
