----------------------------- MODULE KeyedLists -----------------------------
(***************************************************************************)
(* What the tables that are searched by key promise: for each key a list,  *)
(* the newest row first.  A row is put before the list of its key, the     *)
(* newest row of a key is taken off, and nothing else ever changes; where  *)
(* the table may be made anew all lists are dropped at once.               *)
(***************************************************************************)
EXTENDS Sequences

CONSTANTS Keys, Values

VARIABLE lists      \* the rows of each key, the newest first

Init == lists \in [Keys -> Seq(Values)]

Put(k, v) == lists' = [lists EXCEPT ![k] = <<v>> \o @]

TakeNewest(k) == lists[k] # <<>> /\ lists' = [lists EXCEPT ![k] = Tail(@)]

Clear == lists' = [k \in Keys |-> <<>>]

Next ==
    /\ lists' # lists
    /\ \E k \in Keys : TakeNewest(k) \/ \E v \in Values : Put(k, v)

Spec == Init /\ [][Next]_lists

SpecWithClear == Init /\ [][Next \/ Clear]_lists
=============================================================================
