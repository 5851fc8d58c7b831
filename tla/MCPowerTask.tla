----------------------------- MODULE MCPowerTask -----------------------------
(* Two calls at a time, each of which may be followed by others, two power   *)
(* tasks (a third may take the place of one that is over) and one operation  *)
(* of each kind.  Symmetry is for runs without liveness.                     *)
EXTENDS PowerTask, TLC

Symmetry == Permutations(Callers) \cup Permutations(PowerTasks)
=============================================================================
