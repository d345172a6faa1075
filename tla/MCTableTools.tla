---------------------------- MODULE MCTableTools ----------------------------
(***************************************************************************)
(* TLC instances of TableTools: tables of a few rows on two keys.          *)
(***************************************************************************)
EXTENDS TableTools, TLC

CONSTANTS k1, k2, v1, v2, junk, t1, t2

\* Keys differ in nothing, nor do values or the processes that run tools.
Symmetry == Permutations(Keys) \cup Permutations(Values) \cup Permutations(Tools)
=============================================================================
