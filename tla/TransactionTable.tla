-------------------------- MODULE TransactionTable --------------------------
(***************************************************************************)
(* transaction_database: the newest slab of each transaction and the cache *)
(* of unspent outputs.  Slabs are never unlinked, so an older slab of the  *)
(* same hash is never found again and is not kept here.                    *)
(***************************************************************************)
EXTENDS UnspentOutputs

CONSTANT Unverified   \* rule_fork::unverified, the forks of a popped one

VARIABLES
    slab,    \* the slab find() returns for each transaction stored
    cache,   \* cache_
    sequence \* cache_'s sequence_

Unconfirmed == MaxWord
NotSpent == MaxWord

Slab == [height : 0 .. MaxWord, position : 0 .. MaxWord,
         spent : UNION {[Outputs(tx) -> 0 .. MaxWord] : tx \in Txs}]

TableTypeOK ==
    /\ DOMAIN slab \subseteq Txs
    /\ \A tx \in DOMAIN slab : slab[tx] \in Slab
    /\ cache \subseteq Entry /\ Cardinality(cache) <= CacheCapacity
    /\ sequence \in 0 .. SequenceMax

TableInit == slab = <<>> /\ cache = {} /\ sequence = 0

\* find(hash, fork_height, require_confirmed) != nullptr
Found(s, tx, forkHeight, requireConfirmed) ==
    /\ tx \in DOMAIN s
    /\ requireConfirmed => /\ s[tx].height <= forkHeight
                           /\ s[tx].position # Unconfirmed

\* transaction_result::is_spent(max_size_t)
IsSpent(s) ==
    /\ s.position # Unconfirmed
    /\ \A i \in DOMAIN s.spent : s.spent[i] # NotSpent

\* get_output(point, fork_height, require_confirmed): the cached answer, else
\* what the slab holds, as the height and the spender of the output.
SlabOutput(point, forkHeight, requireConfirmed) ==
    {[height |-> slab[tx].height, spender |-> slab[tx].spent[point.index]] :
        tx \in {tx \in {point.tx} :
                  /\ Found(slab, tx, forkHeight, requireConfirmed)
                  /\ point.index \in Outputs(tx)}}

CachedOutput(point, forkHeight, requireConfirmed) ==
    {[height |-> e.height, spender |-> NotSpent] :
        e \in CacheGet(cache, point, forkHeight, requireConfirmed)}

-----------------------------------------------------------------------------
\* Writes.  Each returns the table after it.

WithSlab(s, tx, new) ==
    [t \in DOMAIN s \cup {tx} |-> IF t = tx THEN new ELSE s[t]]

\* confirm(hash, height, position)
Confirmed(s, tx, height, position) ==
    [s EXCEPT ![tx].height = height, ![tx].position = position]

\* Mutant: unconfirm does nothing.
UnconfirmNothing(s, tx) == s

\* unconfirm(hash)
Unconfirm(s, tx) == Confirmed(s, tx, Unverified, Unconfirmed)

\* The slab of store(tx, height, position): a pooled transaction of a block
\* is confirmed where it is, any other gets a slab of its own.
StoredSlab(tx, height, position, pooled) ==
    IF position \notin {Unconfirmed, 0} /\ pooled /\ tx \in DOMAIN slab
      THEN Confirmed(slab, tx, height, position)
      ELSE WithSlab(slab, tx, [height |-> height, position |-> position,
                               spent |-> [i \in Outputs(tx) |-> NotSpent]])

Store(tx, height, position, pooled) ==
    /\ slab' = StoredSlab(tx, height, position, pooled)
    /\ cache' = CacheAdd(cache, sequence, tx, height, position # Unconfirmed)
    /\ sequence' = NextSequence(tx, sequence)

\* spend(point, height) returns true
CanSpend(s, point, height) ==
    /\ Found(s, point.tx, height, TRUE)
    /\ point.index \in DOMAIN s[point.tx].spent

\* spend(point, height) of each of the points
SpendAll(s, points, height) ==
    [tx \in DOMAIN s |->
        [s[tx] EXCEPT !.spent =
            [i \in DOMAIN s[tx].spent |->
                IF [tx |-> tx, index |-> i] \in points THEN height
                                                     ELSE s[tx].spent[i]]]]

\* Mutant: unspend leaves the mark of the spender.
UnspendNothing(s, points) == s

\* unspend(point) of each of the points: a spend at height not_spent.
UnspendAll(s, points) == SpendAll(s, points, NotSpent)

\* Mutant: spent outputs stay in the cache.
ForgetNothing(points) == cache

\* A spend, and not an unspend, also leaves the cache.
ForgetAll(points) == CacheRemove(cache, points)
=============================================================================
