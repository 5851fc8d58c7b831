------------------------- MODULE MCNativeConfigSnapshot -------------------------
(* Instances of NativeConfigSnapshot for TLC.  The contents the script writes  *)
(* are interchangeable, and those of the user where MAS keeps none of them.    *)
EXTENDS NativeConfigSnapshot, TLC

CONSTANTS u1, u2, s1, s2
ScriptSymmetry == Permutations({s1, s2})
Symmetry == Permutations({u1, u2}) \cup ScriptSymmetry
=============================================================================
