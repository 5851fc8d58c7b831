--------------------------- MODULE MCTaskManager ---------------------------
(* One script, one queue and one cycle queue, and as many calls of add_task *)
(* as there are task ids.                                                   *)
EXTENDS TaskManager, TLC

Symmetry == Permutations(Tasks)
=============================================================================
