--------------------------- MODULE UnspentOutputs ---------------------------
(***************************************************************************)
(* The cache of unspent outputs (unspent_outputs.cpp): a bimap of entries  *)
(* by transaction hash and by sequence, here the set of its entries.  An   *)
(* entry holds the outputs of a transaction not seen spent.                *)
(***************************************************************************)
EXTENDS ChainData

CONSTANTS
    CacheCapacity,   \* settings.cache_capacity
    SequenceMax      \* max_uint32, the last of sequence_

ASSUME CacheAssumption == CacheCapacity \in Nat /\ SequenceMax \in Nat

Entry == [tx : Txs, height : 0 .. MaxWord, confirmed : BOOLEAN,
          left : SUBSET (0 .. MaxWord), sequence : 0 .. SequenceMax]

\* sequence_ after an add; it wraps.
NextSequence(tx, sequence) ==
    IF CacheCapacity = 0 \/ OutputsOf[tx] = <<>>
      THEN sequence
      ELSE (sequence + 1) % (SequenceMax + 1)

\* unspent_.right.begin() is erased: the entry with the lowest sequence.
Evict(cache) == {e \in cache : \E f \in cache : f.sequence < e.sequence}

\* Mutant: the cache is not emptied when the sequence is about to wrap.
BeforeWrapKept(cache, sequence) == cache

\* The cache is emptied when the sequence is about to wrap.
BeforeWrap(cache, sequence) == IF sequence = SequenceMax THEN {} ELSE cache

\* add(transaction, height, confirmed): the oldest entry leaves a full cache
\* first, and the map then keeps an entry it already has for the hash or the
\* sequence.
CacheAdd(cache, sequence, tx, height, confirmed) ==
    LET kept == BeforeWrap(cache, sequence)
        room == IF Cardinality(kept) >= CacheCapacity THEN Evict(kept) ELSE kept
        next == NextSequence(tx, sequence)
        entry == [tx |-> tx, height |-> height, confirmed |-> confirmed,
                  left |-> Outputs(tx), sequence |-> next]
    IN  IF CacheCapacity = 0 \/ OutputsOf[tx] = <<>> THEN cache
        ELSE IF \E e \in room : e.tx = tx \/ e.sequence = next THEN room
        ELSE room \cup {entry}

\* remove(point) of some points: the outputs are erased, and an entry of which
\* none is left.
CacheRemove(cache, points) ==
    LET Kept(e) == {i \in e.left : [tx |-> e.tx, index |-> i] \notin points}
    IN  {[e EXCEPT !.left = Kept(e)] : e \in {e \in cache : Kept(e) # {}}}

\* get(point, fork_height, require_confirmed): the entry that answers, if any.
CacheGet(cache, point, forkHeight, requireConfirmed) ==
    {e \in cache :
        /\ e.tx = point.tx
        /\ requireConfirmed => e.confirmed
        /\ point.index \in e.left
        /\ e.height <= forkHeight}
=============================================================================
