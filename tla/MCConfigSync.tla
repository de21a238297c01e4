----------------------------- MODULE MCConfigSync -----------------------------
(* Small instances of ConfigSync for TLC.                                     *)
EXTENDS ConfigSync, TLC

CONSTANTS d1, d2, r1

NoRequest == <<>>
OneRequest == r1 :> d1

Symmetry == Permutations(Spaces) \cup Permutations(Admins)

===============================================================================
