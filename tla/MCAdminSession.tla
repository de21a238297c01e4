---------------------------- MODULE MCAdminSession -----------------------------
(* A small instance of AdminSession for TLC.                                  *)
EXTENDS AdminSession, TLC

Symmetry == Permutations(Sessions)
===============================================================================
