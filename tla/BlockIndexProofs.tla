-------------------------- MODULE BlockIndexProofs --------------------------
(***************************************************************************)
(* Theorems about the height index, for any importing threads, heights and *)
(* number of blocks.                                                       *)
(***************************************************************************)
EXTENDS BlockIndex, TLAPS

USE IndexAssumption DEF IndexAssumption

-----------------------------------------------------------------------------
\* The invariant, in parts.

\* The mutex is held from the count to the position.
MutexInv ==
    \A t \in Threads : mutex = t <=> pc[t] \in {"zeroize", "write"}

\* A thread that has stored its block knows the position of it.
PositionInv ==
    \A t \in Threads :
        pc[t] \in {"position", "zeroize", "write"} => position[t] > 0

\* Only heights from the old count on are written empty.
Zeroizing(t, h) == pc[t] = "zeroize" /\ first[t] <= h /\ h <= at[t]

ExtendInv ==
    \A t \in Threads :
        /\ pc[t] \in {"zeroize", "write"} => at[t] < count
        /\ pc[t] = "zeroize" => first[t] <= at[t]
        /\ \A h \in DOMAIN stored : ~ Zeroizing(t, h)

\* A height below the count without a block is empty, or is about to be.
Written(t, h) == pc[t] = "write" /\ at[t] = h

GapInv ==
    \A h \in AllHeights \ DOMAIN stored : h < count =>
        slot[h] = Empty \/ \E t \in Threads : Zeroizing(t, h) \/ Written(t, h)

Inv == TypeOK /\ MutexInv /\ PositionInv /\ ExtendInv /\ StoredIsKept /\ GapInv

-----------------------------------------------------------------------------
LEMMA InvInit == Init => Inv
<1>. SUFFICES ASSUME Init PROVE Inv
  OBVIOUS
<1>1. DOMAIN stored = {}
  BY DEF Init
<1>2. TypeOK
  BY <1>1 DEF Init, TypeOK, Fresh, Empty, AllHeights
<1>3. MutexInv /\ PositionInv
  BY DEF Init, MutexInv, PositionInv
<1>4. ExtendInv /\ StoredIsKept
  BY <1>1 DEF Init, ExtendInv, StoredIsKept
<1>5. GapInv
  BY DEF Init, GapInv, AllHeights
<1>. QED
  BY <1>2, <1>3, <1>4, <1>5 DEF Inv

\* A step that leaves the mutex, the count, the slots and the blocks alone.
LEMMA QuietStep ==
    ASSUME Inv, NEW t \in Threads, TypeOK',
           UNCHANGED <<count, slot, mutex, stored>>,
           pc[t] \notin {"zeroize", "write"}, pc'[t] \notin {"zeroize", "write"},
           pc'[t] = "position" => position'[t] > 0,
           \A u \in Threads \ {t} :
             /\ pc'[u] = pc[u] /\ at'[u] = at[u]
             /\ position'[u] = position[u] /\ first'[u] = first[u]
    PROVE  Inv'
<1>1. \A u \in Threads : \A h :
        /\ Zeroizing(u, h)' <=> Zeroizing(u, h)
        /\ Written(u, h)' <=> Written(u, h)
  BY DEF Zeroizing, Written
<1>2. MutexInv'
  BY DEF Inv, MutexInv
<1>3. PositionInv'
  BY DEF Inv, PositionInv
<1>4. ExtendInv'
  BY <1>1 DEF Inv, ExtendInv
<1>5. StoredIsKept'
  BY DEF Inv, StoredIsKept
<1>6. GapInv'
  BY <1>1 DEF Inv, GapInv, AllHeights, Empty
<1>. QED
  BY <1>2, <1>3, <1>4, <1>5, <1>6 DEF Inv

LEMMA InsertStep ==
    ASSUME Inv, NEW t \in Threads, NEW h \in AllHeights, Insert(t, h)
    PROVE  Inv'
<1>1. TypeOK'
  BY DEF Inv, TypeOK, Insert, Goto
<1>2. /\ pc[t] = "idle" /\ pc'[t] \in {"read", "store"}
      /\ \A u \in Threads \ {t} : pc'[u] = pc[u] /\ at'[u] = at[u]
  BY DEF Inv, TypeOK, Insert, Goto
<1>. QED
  BY <1>1, <1>2, QuietStep DEF Insert

LEMMA FinishTyped ==
    ASSUME TypeOK, NEW t \in Threads, Finish(t)
    PROVE  /\ pc' \in [Threads -> {"idle", "read", "refused", "store", "position",
                                  "zeroize", "write"}]
           /\ at' \in [Threads -> AllHeights]
           /\ position' \in [Threads -> 0 .. MaxBlocks]
           /\ first' \in [Threads -> 0 .. MaxHeight + 1]
<1>1. 0 \in AllHeights /\ 0 \in 0 .. MaxBlocks /\ 0 \in 0 .. MaxHeight + 1
  BY DEF AllHeights
<1>. QED
  BY <1>1 DEF Finish, Goto, TypeOK

LEMMA ReadStep ==
    ASSUME Inv, NEW t \in Threads, ReadPosition(t) \/ Refused(t)
    PROVE  Inv'
<1>1. TypeOK'
  <2>1. CASE ReadPosition(t)
    BY <2>1 DEF Inv, TypeOK, ReadPosition, Goto
  <2>2. CASE Refused(t)
    BY <2>2, FinishTyped DEF Inv, TypeOK, Refused
  <2>. QED
    BY <2>1, <2>2
<1>2. /\ pc[t] \in {"read", "refused"} /\ pc'[t] \in {"idle", "refused", "store"}
      /\ UNCHANGED <<count, slot, mutex, stored>>
      /\ \A u \in Threads \ {t} :
           /\ pc'[u] = pc[u] /\ at'[u] = at[u]
           /\ position'[u] = position[u] /\ first'[u] = first[u]
  BY DEF Inv, TypeOK, ReadPosition, Refused, Finish, Goto
<1>. QED
  BY <1>1, <1>2, QuietStep

LEMMA StoreStep ==
    ASSUME Inv, NEW t \in Threads, StoreBlock(t)
    PROVE  Inv'
<1>1. TypeOK'
  BY DEF Inv, TypeOK, StoreBlock, Goto
<1>2. /\ pc[t] = "store" /\ pc'[t] = "position" /\ position'[t] > 0
      /\ UNCHANGED <<count, slot, mutex, stored>>
      /\ \A u \in Threads \ {t} :
           /\ pc'[u] = pc[u] /\ at'[u] = at[u]
           /\ position'[u] = position[u] /\ first'[u] = first[u]
  BY DEF Inv, TypeOK, StoreBlock, Goto
<1>. QED
  BY <1>1, <1>2, QuietStep

LEMMA ExtendStep ==
    ASSUME Inv, NEW t \in Threads, Extend(t)
    PROVE  Inv'
<1>1. /\ pc[t] = "position" /\ mutex = NoThread /\ mutex' = t
      /\ first' = [first EXCEPT ![t] = count]
      /\ count' = IF at[t] >= count THEN at[t] + 1 ELSE count
      /\ pc' = [pc EXCEPT ![t] = IF at[t] >= count THEN "zeroize" ELSE "write"]
      /\ UNCHANGED <<slot, slabs, at, position, stored>>
  BY DEF Extend, Goto
<1>2. at[t] \in 0 .. MaxHeight /\ count \in 0 .. MaxHeight + 1
  BY DEF Inv, TypeOK, AllHeights
<1>3. TypeOK'
  <2>1. count' \in 0 .. MaxHeight + 1
    BY <1>1, <1>2
  <2>. QED
    BY <1>1, <2>1 DEF Inv, TypeOK
<1>4. \A u \in Threads : pc[u] \notin {"zeroize", "write"}
  BY <1>1 DEF Inv, MutexInv
<1>5. MutexInv'
  BY <1>1, <1>4 DEF MutexInv, Inv, TypeOK
<1>6. PositionInv'
  BY <1>1 DEF PositionInv, Inv, TypeOK
<1>7. StoredIsKept'
  BY <1>1, <1>2 DEF StoredIsKept, Inv, TypeOK, AllHeights
<1>8. ExtendInv'
  BY <1>1, <1>2, <1>4 DEF ExtendInv, Zeroizing, StoredIsKept, Inv, TypeOK, AllHeights
<1>9. GapInv'
  <2>. SUFFICES ASSUME NEW h \in AllHeights \ DOMAIN stored, h < count'
                PROVE  slot[h] = Empty \/ Zeroizing(t, h)' \/ Written(t, h)'
    BY <1>1 DEF GapInv, AllHeights, Empty
  <2>1. CASE h < count
    BY <1>4, <2>1 DEF Inv, GapInv, Zeroizing, Written
  <2>2. CASE ~ (h < count)
    BY <1>1, <1>2, <2>2 DEF Zeroizing, Inv, TypeOK, AllHeights
  <2>. QED
    BY <2>1, <2>2
<1>. QED
  BY <1>3, <1>5, <1>6, <1>7, <1>8, <1>9 DEF Inv

LEMMA ZeroizeStep ==
    ASSUME Inv, NEW t \in Threads, Zeroize(t)
    PROVE  Inv'
<1>1. /\ pc[t] = "zeroize" /\ mutex = t
      /\ UNCHANGED <<count, slabs, mutex, at, position, stored>>
  BY DEF Zeroize, Inv, MutexInv
<1>2. /\ at[t] \in 0 .. MaxHeight /\ first[t] \in 0 .. MaxHeight + 1
      /\ count \in 0 .. MaxHeight + 1 /\ at[t] < count /\ first[t] <= at[t]
  BY <1>1 DEF Inv, TypeOK, AllHeights, ExtendInv
<1>3. \A u \in Threads \ {t} : pc[u] \notin {"zeroize", "write"}
  BY <1>1 DEF Inv, MutexInv
<1>4. CASE first[t] < at[t]
  <2>1. /\ slot' = [slot EXCEPT ![first[t]] = Empty]
        /\ first' = [first EXCEPT ![t] = first[t] + 1] /\ pc' = pc
    BY <1>4 DEF Zeroize
  <2>2. first[t] \in AllHeights /\ first[t] + 1 \in 0 .. MaxHeight + 1
    BY <1>2, <1>4 DEF AllHeights
  <2>3. TypeOK'
    BY <1>1, <2>1, <2>2 DEF Inv, TypeOK, Empty
  <2>4. MutexInv' /\ PositionInv'
    BY <1>1, <2>1 DEF Inv, MutexInv, PositionInv
  <2>5. first[t] \notin DOMAIN stored
    BY <1>1, <1>2 DEF Inv, ExtendInv, Zeroizing
  <2>6. StoredIsKept'
    BY <1>1, <2>1, <2>5 DEF Inv, StoredIsKept, TypeOK
  <2>7. ExtendInv'
    <3>1. /\ first'[t] = first[t] + 1
          /\ \A u \in Threads \ {t} : first'[u] = first[u]
      BY <2>1 DEF Inv, TypeOK
    <3>2. \A u \in Threads : pc'[u] \in {"zeroize", "write"} => u = t
      BY <1>3, <2>1
    <3>3. first'[t] <= at'[t] /\ at'[t] < count'
      BY <1>1, <1>2, <1>4, <3>1
    <3>4. \A h \in DOMAIN stored : ~ Zeroizing(t, h)'
      <4>1. \A h \in DOMAIN stored : h \in 0 .. MaxHeight /\ ~ Zeroizing(t, h)
        BY DEF Inv, TypeOK, ExtendInv, AllHeights
      <4>. QED
        BY <1>1, <1>2, <2>1, <3>1, <4>1 DEF Zeroizing
    <3>. QED
      BY <1>1, <3>2, <3>3, <3>4 DEF ExtendInv, Zeroizing
  <2>8. GapInv'
    <3>. SUFFICES ASSUME NEW h \in AllHeights \ DOMAIN stored, h < count
                  PROVE  slot'[h] = Empty \/ Zeroizing(t, h)'
      BY <1>1 DEF GapInv, AllHeights, Empty
    <3>1. CASE h = first[t]
      BY <2>1, <3>1 DEF Inv, TypeOK
    <3>2. CASE h # first[t]
      <4>1. slot'[h] = slot[h]
        BY <2>1, <3>2 DEF Inv, TypeOK
      <4>2. slot[h] = Empty \/ Zeroizing(t, h)
        BY <1>1, <1>3 DEF Inv, GapInv, Zeroizing, Written
      <4>3. Zeroizing(t, h) => Zeroizing(t, h)'
        BY <1>1, <1>2, <2>1, <3>2 DEF Zeroizing, Inv, TypeOK, AllHeights
      <4>. QED
        BY <4>1, <4>2, <4>3
    <3>. QED
      BY <3>1, <3>2
  <2>. QED
    BY <2>3, <2>4, <2>6, <2>7, <2>8 DEF Inv
<1>5. CASE ~ (first[t] < at[t])
  <2>1. pc' = [pc EXCEPT ![t] = "write"] /\ UNCHANGED <<slot, first>>
    BY <1>5 DEF Zeroize, Goto
  <2>2. TypeOK'
    BY <1>1, <2>1 DEF Inv, TypeOK
  <2>3. MutexInv' /\ PositionInv' /\ StoredIsKept'
    BY <1>1, <2>1 DEF Inv, MutexInv, PositionInv, StoredIsKept, TypeOK
  <2>4. ExtendInv'
    BY <1>1, <1>2, <1>3, <2>1 DEF Inv, ExtendInv, Zeroizing, TypeOK
  <2>5. GapInv'
    <3>. SUFFICES ASSUME NEW h \in AllHeights \ DOMAIN stored, h < count
                  PROVE  slot[h] = Empty \/ Written(t, h)'
      BY <1>1, <2>1 DEF GapInv, AllHeights, Empty
    <3>1. slot[h] = Empty \/ Zeroizing(t, h)
      BY <1>1, <1>3 DEF Inv, GapInv, Zeroizing, Written
    <3>2. Zeroizing(t, h) => h = at[t]
      BY <1>2, <1>5 DEF Zeroizing, AllHeights
    <3>. QED
      BY <1>1, <2>1, <3>1, <3>2 DEF Written, Inv, TypeOK
  <2>. QED
    BY <2>2, <2>3, <2>4, <2>5 DEF Inv
<1>. QED
  BY <1>4, <1>5

LEMMA WriteStep ==
    ASSUME Inv, NEW t \in Threads, WritePosition(t)
    PROVE  Inv'
<1>1. /\ pc[t] = "write" /\ mutex = t /\ mutex' = NoThread
      /\ slot' = [slot EXCEPT ![at[t]] = position[t]]
      /\ stored' = [h \in DOMAIN stored \cup {at[t]} |->
                      IF h = at[t] THEN position[t] ELSE stored[h]]
      /\ pc' = [pc EXCEPT ![t] = "idle"] /\ at' = [at EXCEPT ![t] = 0]
      /\ position' = [position EXCEPT ![t] = 0]
      /\ first' = [first EXCEPT ![t] = 0] /\ UNCHANGED <<count, slabs>>
  BY DEF WritePosition, Finish, Goto, Inv, MutexInv
<1>2. /\ at[t] \in AllHeights /\ at[t] < count /\ position[t] \in 1 .. MaxBlocks
  BY <1>1 DEF Inv, TypeOK, ExtendInv, PositionInv
<1>3. /\ DOMAIN stored' = DOMAIN stored \cup {at[t]} /\ stored'[at[t]] = position[t]
      /\ \A h \in DOMAIN stored \ {at[t]} : stored'[h] = stored[h]
  BY <1>1
<1>4. \A u \in Threads : pc'[u] \notin {"zeroize", "write"}
  BY <1>1 DEF Inv, MutexInv, TypeOK
<1>5. TypeOK'
  <2>1. DOMAIN stored' \subseteq AllHeights /\ \A h \in DOMAIN stored' :
          stored'[h] \in 1 .. MaxBlocks
    BY <1>2, <1>3 DEF Inv, TypeOK
  <2>2. slot' \in [AllHeights -> 0 .. Empty]
    BY <1>1, <1>2 DEF Inv, TypeOK, Empty
  <2>. QED
    BY <1>1, <2>1, <2>2, FinishTyped DEF Inv, TypeOK, WritePosition
<1>6. MutexInv'
  BY <1>1, <1>4 DEF MutexInv
<1>7. PositionInv'
  BY <1>1 DEF Inv, PositionInv, TypeOK
<1>8. ExtendInv'
  BY <1>4 DEF ExtendInv, Zeroizing
<1>9. StoredIsKept'
  BY <1>1, <1>2, <1>3 DEF Inv, StoredIsKept, TypeOK
<1>10. GapInv'
  <2>. SUFFICES ASSUME NEW h \in AllHeights \ DOMAIN stored', h < count
                PROVE  slot'[h] = Empty
    BY <1>1 DEF GapInv, AllHeights, Empty
  <2>1. h # at[t] /\ h \notin DOMAIN stored
    BY <1>3
  <2>2. slot[h] = Empty
    BY <1>1, <2>1 DEF Inv, GapInv, MutexInv, Zeroizing, Written
  <2>. QED
    BY <1>1, <2>1, <2>2 DEF Inv, TypeOK
<1>. QED
  BY <1>5, <1>6, <1>7, <1>8, <1>9, <1>10 DEF Inv

LEMMA PopStep ==
    ASSUME Inv, Pop
    PROVE  Inv'
<1>1. /\ \A t \in Threads : pc[t] = "idle" /\ count > 0 /\ count' = count - 1
      /\ stored' = [h \in DOMAIN stored \ {count'} |-> stored[h]]
      /\ UNCHANGED <<slot, slabs, mutex, threadVars>>
  BY DEF Pop
<1>2. count \in 1 .. MaxHeight + 1
  BY DEF Pop, Inv, TypeOK
<1>3. /\ DOMAIN stored' = DOMAIN stored \ {count - 1}
      /\ \A h \in DOMAIN stored' : stored'[h] = stored[h]
  BY DEF Pop
<1>4. TypeOK'
  BY <1>2, <1>3 DEF Pop, threadVars, Inv, TypeOK
<1>5. MutexInv' /\ PositionInv'
  BY DEF Pop, threadVars, Inv, MutexInv, PositionInv
<1>6. ExtendInv'
  BY DEF Pop, threadVars, ExtendInv, Zeroizing
<1>7. StoredIsKept'
  BY <1>2, <1>3 DEF Pop, Inv, TypeOK, StoredIsKept, AllHeights
<1>8. GapInv'
  BY <1>2, <1>3 DEF Pop, threadVars, Inv, GapInv, AllHeights, Empty, Zeroizing, Written
<1>. QED
  BY <1>4, <1>5, <1>6, <1>7, <1>8 DEF Inv

-----------------------------------------------------------------------------
\* The theorems.

\* All the parts together are inductive.
THEOREM IndexInvariant == Spec => []Inv
<1>1. Inv /\ [Next]_vars => Inv'
  <2>1. Inv /\ UNCHANGED vars => Inv'
    BY DEF vars, Inv, TypeOK, MutexInv, PositionInv, ExtendInv, StoredIsKept,
           GapInv, Zeroizing, Written
  <2>. QED
    BY <2>1, InsertStep, ReadStep, StoreStep, ExtendStep, ZeroizeStep, WriteStep,
       PopStep
    DEF Next, Step
<1>. QED
  BY <1>1, InvInit, PTL DEF Spec

\* The state keeps its types: the index never grows past the highest height.
THEOREM IndexTyped == Spec => []TypeOK
BY IndexInvariant, PTL DEF Inv

\* write_position: what one importing thread has written at its height, no
\* thread that extends the index over it writes empty again.
THEOREM StoredKept == Spec => []StoredIsKept
BY IndexInvariant, PTL DEF Inv

\* gaps: between writes the empty indexes are the heights without a block,
\* also after pops have left old positions above the count.
THEOREM GapsExact == Spec => []GapsAreExact
<1>1. Inv => GapsAreExact
  <2>1. ASSUME Inv, \A t \in Threads : pc[t] = "idle",
               NEW h \in AllHeights, h < count
        PROVE  slot[h] = Empty <=> h \notin DOMAIN stored
    <3>1. h \in DOMAIN stored => slot[h] \in 1 .. MaxBlocks
      BY <2>1 DEF Inv, StoredIsKept, TypeOK
    <3>2. h \notin DOMAIN stored => slot[h] = Empty
      BY <2>1 DEF Inv, GapInv, Zeroizing, Written
    <3>. QED
      BY <3>1, <3>2 DEF Empty
  <2>. QED
    BY <2>1 DEF GapsAreExact
<1>. QED
  BY <1>1, IndexInvariant, PTL
=============================================================================
