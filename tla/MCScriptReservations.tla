----------------------- MODULE MCScriptReservations -----------------------
(* Two tasks, two scripts, one installation nested in another beside an    *)
(* unrelated one, and one emulator instance.                               *)
EXTENDS ScriptReservations

CONSTANTS outer, inner, apart

MCRoots == {outer, inner, apart}
MCBelow == {<<inner, outer>>}
=============================================================================
