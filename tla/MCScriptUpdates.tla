----------------------------- MODULE MCScriptUpdates -----------------------------
(* Instances of ScriptUpdates for TLC. *)
EXTENDS ScriptUpdates, TLC

CONSTANTS s1, s2, s3

\* The last script is there twice in a row.
MCScriptAt == <<s1, s2, s3, s3>>
=============================================================================
