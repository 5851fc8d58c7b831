------------------------------ MODULE MCConfigStore ------------------------------
(* Instances of ConfigStore for TLC. *)
EXTENDS ConfigStore

CONSTANTS a1, t1, r1
MCActors == {a1, t1, Flusher, Worker}
=============================================================================
