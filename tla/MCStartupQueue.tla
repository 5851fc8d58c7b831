----------------------------- MODULE MCStartupQueue -----------------------------
(* Instances of StartupQueue for TLC. *)
EXTENDS StartupQueue

CONSTANTS q1, q2
MCQueues == <<q1, q2>>
=============================================================================
