---------------------------- MODULE MCHashTable ----------------------------
(***************************************************************************)
(* TLC instances of HashTable: keys that share one bucket, so that every   *)
(* chain is as long as the table, and another bucket that stays empty.     *)
(***************************************************************************)
EXTENDS HashTable, TLC

CONSTANTS t1, t2, t3, j, k

OneBucket == [x \in Keys |-> 0]

\* What the threads call.
WriteFind == [t \in Threads |->
                IF t = t3 THEN {"find"} ELSE {"store", "unlink"}]

Symmetry == Permutations(Threads \ {t3})
=============================================================================
