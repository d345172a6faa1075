-------------------------- MODULE HashTableProofs --------------------------
(***************************************************************************)
(* Theorems about the hash tables, for any threads, keys, buckets and      *)
(* calls and any number of rows.  The type invariant holds of all callers; *)
(* those about the chains where unlinks take turns.                        *)
(***************************************************************************)
EXTENDS HashTable, FiniteSetTheorems, SequenceTheorems, TLAPS

-----------------------------------------------------------------------------
\* The inductive invariant.

Places == {"idle", "create", "created", "publish", "begin", "unhead", "walk",
           "release", "start", "search", "fault"}

USE TableAssumption DEF TableAssumption, Empty, Rows, Unset, Positions, Places

Typed ==
    /\ header \in [Buckets -> Positions]
    /\ keyOf \in [Rows -> Keys \cup {NoKey}]
    /\ next \in [Rows -> Positions \cup {Unset}]
    /\ count \in Positions /\ saved \in Positions
    /\ mutex \in Threads \cup {NoThread}
    /\ pc \in [Threads -> Places]
    /\ key \in [Threads -> Keys \cup {NoKey}]
    /\ row \in [Threads -> Positions]
    /\ other \in [Threads -> Positions]
    /\ linked \in [Buckets -> Seq(Rows)]
    /\ tops \in [Threads -> SUBSET Positions]

\* A thread at work has a key.  Stores and unlinks exclude each other.
CallInv ==
    /\ \A t \in Threads : pc[t] \notin {"idle", "fault"} => key[t] \in Keys
    /\ \A t, u \in Threads : Storing(t) => ~Unlinking(u)
    /\ \A t \in Threads : mutex = t <=> pc[t] = "publish"

\* There is room for the rows that the stores under way will create.
Creating == {t \in Threads : pc[t] = "create"}
CountInv == count + Cardinality(Creating) <= MaxRows

\* p can be walked from: it is the end of a chain, or a row that was linked.
IsLinked(p) == p = Empty \/ next[p] # Unset

\* A row that a store has made belongs to it alone until it is published.
FreshInv ==
    /\ \A p \in Rows : p > count => next[p] = Unset
    /\ \A t \in Threads :
         pc[t] \in {"created", "publish"} =>
             /\ row[t] \in 1 .. count /\ keyOf[row[t]] = key[t]
             /\ next[row[t]] = IF pc[t] = "created" THEN Unset
                                                     ELSE header[HashOf[key[t]]]
             /\ \A b \in Buckets : \A i \in 1 .. Len(linked[b]) :
                    linked[b][i] # row[t]
             /\ \A u \in Threads \ {t} :
                    pc[u] \in {"created", "publish"} => row[u] # row[t]

\* What is reached from a bucket, a row or a walk was linked.
ReachInv ==
    /\ \A b \in Buckets : IsLinked(header[b])
    /\ \A b \in Buckets : \A i \in 1 .. Len(linked[b]) : IsLinked(linked[b][i])
    /\ \A p \in Rows : IsLinked(p) => next[p] \in Positions /\ IsLinked(next[p])
    /\ \A t \in Threads :
         /\ pc[t] \in {"unhead", "walk", "release", "search"} => IsLinked(row[t])
         /\ pc[t] \in {"unhead", "walk", "release"} => IsLinked(other[t])
         /\ pc[t] \in {"unhead", "release"} => row[t] # Empty
         /\ pc[t] \in {"walk", "release"} => other[t] # Empty

BaseInv == Typed /\ CallInv /\ CountInv /\ FreshInv /\ ReachInv

\* One thread unlinks at a time.
AloneInv ==
    \A t, u \in Threads : Unlinking(t) /\ Unlinking(u) => t = u

\* The links nx lead from h through the rows of s, each once, to the end.
IsRun(h, s, nx) ==
    /\ h = IF s = <<>> THEN Empty ELSE s[1]
    /\ \A i \in 1 .. Len(s) : nx[s[i]] = IF i = Len(s) THEN Empty ELSE s[i + 1]
    /\ \A i, j \in 1 .. Len(s) : s[i] = s[j] => i = j

ChainInv ==
    \A b \in Buckets :
        /\ IsRun(header[b], linked[b], next)
        /\ \A i \in 1 .. Len(linked[b]) :
             keyOf[linked[b][i]] \in Keys /\ HashOf[keyOf[linked[b][i]]] = b

\* Where in its bucket an unlink is.
UnlinkAt(t, s) ==
    /\ pc[t] \in {"begin", "unhead"} => s # <<>>
    /\ pc[t] = "unhead" =>
         row[t] = s[1] /\ keyOf[s[1]] = key[t] /\ other[t] = next[s[1]]
    /\ pc[t] \in {"walk", "release"} =>
         \E i \in 1 .. Len(s) :
             /\ other[t] = s[i]
             /\ row[t] = IF i = Len(s) THEN Empty ELSE s[i + 1]
             /\ \A j \in 1 .. i : keyOf[s[j]] # key[t]
    /\ pc[t] = "release" => keyOf[row[t]] = key[t]
UnlinkInv ==
    \A t \in Threads : Unlinking(t) => UnlinkAt(t, linked[HashOf[key[t]]])

\* What lies before a walk: first[k][p] is the first row of key k from p on,
\* after[p] are all rows from p on.
IsFirst(first) ==
    /\ first \in [Keys -> [Positions -> Positions]]
    /\ \A k \in Keys :
         /\ first[k][Empty] = Empty
         /\ \A p \in Rows :
              IsLinked(p) =>
                  first[k][p] = IF keyOf[p] = k THEN p ELSE first[k][next[p]]
IsAfter(after) ==
    /\ after \in [Positions -> SUBSET Rows]
    /\ after[Empty] = {}
    /\ \A p \in Rows :
         IsLinked(p) => /\ after[p] = {p} \cup after[next[p]]
                        /\ p \notin after[next[p]]
                        /\ \A q \in after[p] : IsLinked(q)

\* r is the first row of the key, or Empty where there is none.
IsNewest(s, k, ko, r) ==
    \/ /\ r = Empty
       /\ \A i \in 1 .. Len(s) : ko[s[i]] # k
    \/ \E i \in 1 .. Len(s) :
         /\ r = s[i] /\ ko[s[i]] = k
         /\ \A j \in 1 .. i - 1 : ko[s[j]] # k

\* What a find may return is the newest row now, or was it during the call;
\* what it will return is among them.
FindInv(first) ==
    \A t \in Threads :
        /\ Finding(t) =>
             \A p : IsNewest(linked[HashOf[key[t]]], key[t], keyOf, p) => p \in tops[t]
        /\ pc[t] = "search" => first[key[t]][row[t]] \in tops[t]
WalkInv == \E first, after : IsFirst(first) /\ IsAfter(after) /\ FindInv(first)

Safe == \A t \in Threads : pc[t] # "fault"

TurnsInv == AloneInv /\ ChainInv /\ UnlinkInv /\ WalkInv /\ Safe

-----------------------------------------------------------------------------
\* Sequences of rows.

LEMMA ElementsOf ==
    ASSUME NEW S, NEW s \in Seq(S)
    PROVE  Len(s) \in Nat /\ \A i \in 1 .. Len(s) : s[i] \in S
OBVIOUS

LEMMA Least ==
    ASSUME NEW T \in SUBSET Nat, T # {}
    PROVE  \E m \in T : \A n \in T : m <= n
<1> DEFINE R == OpToRel(<, Nat)
<1>1. IsWellFoundedOn(R, Nat)
  BY NatLessThanWellFounded
<1>2. PICK m \in T : \A n \in T : <<n, m>> \notin R
  <2>. HIDE DEF R
  <2>. QED
    BY <1>1, WFMin
<1>3. \A n \in T : ~(n < m)
  BY <1>2, Zenon DEF OpToRel
<1>. QED
  BY <1>3

\* The first place where a test holds, as SelectInSeq finds it.
LEMMA FirstPlace ==
    ASSUME NEW n \in Nat, NEW T, T \subseteq 1 .. n, T # {}
    PROVE  Min(T) \in T /\ \A j \in T : Min(T) <= j
<1>1. T \in SUBSET Nat
  OBVIOUS
<1>2. \E m \in T : \A j \in T : m <= j
  BY <1>1, Least
<1>3. \E m \in T : \A j \in T : m =< j
  BY <1>2
<1>. QED
  BY <1>3 DEF Min

LEMMA RemoveAtIs ==
    ASSUME NEW S, NEW s \in Seq(S), NEW i \in 1 .. Len(s)
    PROVE  /\ RemoveAt(s, i) \in Seq(S)
           /\ Len(RemoveAt(s, i)) = Len(s) - 1
           /\ \A j \in 1 .. Len(s) - 1 :
                RemoveAt(s, i)[j] = IF j < i THEN s[j] ELSE s[j + 1]
<1> DEFINE a == SubSeq(s, 1, i - 1)
           b == SubSeq(s, i + 1, Len(s))
<1>1. Len(s) \in Nat /\ \A j \in 1 .. Len(s) : s[j] \in S
  BY ElementsOf
<1>2. a \in Seq(S) /\ Len(a) = i - 1 /\ \A j \in 1 .. i - 1 : a[j] = s[j]
  BY <1>1
<1>3. /\ b \in Seq(S) /\ Len(b) = Len(s) - i
      /\ \A j \in 1 .. Len(s) - i : b[j] = s[i + j]
  BY <1>1
<1>. HIDE DEF a, b
<1>4. /\ a \o b \in Seq(S) /\ Len(a \o b) = Len(s) - 1
      /\ \A j \in 1 .. Len(s) - 1 :
           (a \o b)[j] = IF j < i THEN a[j] ELSE b[j - (i - 1)]
  BY <1>1, <1>2, <1>3
<1>5. \A j \in 1 .. Len(s) - 1 : j < i => a[j] = s[j]
  BY <1>1, <1>2
<1>6. \A j \in 1 .. Len(s) - 1 : ~(j < i) => b[j - (i - 1)] = s[j + 1]
  <2>1. ASSUME NEW j \in 1 .. Len(s) - 1, ~(j < i) PROVE b[j - (i - 1)] = s[j + 1]
    <3>1. j - (i - 1) \in 1 .. Len(s) - i /\ i + (j - (i - 1)) = j + 1
      BY <1>1, <2>1
    <3>. QED
      BY <1>3, <3>1
  <2>. QED
    BY <2>1
<1>7. RemoveAt(s, i) = a \o b
  BY DEF RemoveAt, a, b
<1>. QED
  BY <1>4, <1>5, <1>6, <1>7

LEMMA RemoveFirstIs ==
    ASSUME NEW S, NEW s \in Seq(S), NEW i \in 1 .. Len(s),
           \A j \in 1 .. Len(s) : s[j] = s[i] => j = i
    PROVE  RemoveFirst(s, s[i]) = RemoveAt(s, i)
<1> DEFINE T == {j \in 1 .. Len(s) : s[j] = s[i]}
<1>1. T = {i}
  OBVIOUS
<1>2. Min({i}) = i
  BY DEF Min
<1>3. SelectInSeq(s, LAMBDA v : v = s[i]) = i
  BY <1>1, <1>2 DEF SelectInSeq
<1>. QED
  BY <1>3 DEF RemoveFirst

LEMMA RemoveFirstTyped ==
    ASSUME NEW S, NEW s \in Seq(S), NEW p
    PROVE  /\ RemoveFirst(s, p) \in Seq(S)
           /\ \A i \in 1 .. Len(RemoveFirst(s, p)) :
                \E j \in 1 .. Len(s) : RemoveFirst(s, p)[i] = s[j]
<1> DEFINE T == {j \in 1 .. Len(s) : s[j] = p}
<1>1. CASE T = {}
  BY <1>1 DEF RemoveFirst
<1>2. CASE T # {}
  <2>1. Len(s) \in Nat
    BY ElementsOf
  <2>2. Min(T) \in 1 .. Len(s)
    BY <1>2, <2>1, FirstPlace
  <2>3. RemoveFirst(s, p) = RemoveAt(s, Min(T))
    <3>1. SelectInSeq(s, LAMBDA v : v = p) = Min(T)
      BY <1>2 DEF SelectInSeq
    <3>. QED
      BY <1>2, <3>1 DEF RemoveFirst
  <2> DEFINE z == RemoveAt(s, Min(T))
             m == Min(T)
  <2>. HIDE DEF T
  <2>4. /\ z \in Seq(S) /\ Len(z) = Len(s) - 1
        /\ \A j \in 1 .. Len(s) - 1 : z[j] = IF j < m THEN s[j] ELSE s[j + 1]
    BY <2>2, RemoveAtIs
  <2>. HIDE DEF z, m
  <2>5. \A i \in 1 .. Len(z) : i \in 1 .. Len(s) /\ i + 1 \in 1 .. Len(s)
    BY <2>1, <2>4
  <2>6. \A i \in 1 .. Len(z) : \E j \in 1 .. Len(s) : z[i] = s[j]
    BY <2>1, <2>4, <2>5
  <2>. QED
    BY <2>3, <2>4, <2>6 DEF z, m
<1>. QED
  BY <1>1, <1>2

LEMMA NewestIs ==
    ASSUME NEW s \in Seq(Rows), NEW k
    PROVE  NewestOf(s, k) \in Positions /\ IsNewest(s, k, keyOf, NewestOf(s, k))
<1> DEFINE T == {i \in 1 .. Len(s) : keyOf[s[i]] = k}
<1>1. Len(s) \in Nat /\ \A i \in 1 .. Len(s) : s[i] \in Rows
  BY ElementsOf
<1>2. CASE T = {}
  <2>1. NewestOf(s, k) = Empty
    BY <1>2 DEF NewestOf, SelectInSeq
  <2>2. \A i \in 1 .. Len(s) : keyOf[s[i]] # k
    BY <1>2
  <2>. QED
    BY <2>1, <2>2 DEF IsNewest
<1>3. CASE T # {}
  <2>1. Min(T) \in T /\ \A j \in T : Min(T) <= j
    <3>1. T \subseteq 1 .. Len(s)
      OBVIOUS
    <3>. HIDE DEF T
    <3>. QED
      BY <1>1, <1>3, <3>1, FirstPlace
  <2>2. NewestOf(s, k) = s[Min(T)]
    BY <1>1, <1>3, <2>1 DEF NewestOf, SelectInSeq
  <2>3. PICK m \in 1 .. Len(s) : m = Min(T)
    BY <2>1
  <2>4. \A j \in 1 .. m - 1 : j \in 1 .. Len(s) /\ ~(m <= j)
    BY <1>1
  <2>5. keyOf[s[m]] = k /\ NewestOf(s, k) = s[m] /\ s[m] \in Positions
    BY <1>1, <2>1, <2>2, <2>3
  <2>6. \A j \in 1 .. m - 1 : keyOf[s[j]] # k
    BY <2>1, <2>3, <2>4
  <2>. QED
    BY <2>5, <2>6 DEF IsNewest
<1>. QED
  BY <1>2, <1>3

\* There is one first row of a key only.
LEMMA NewestIsOne ==
    ASSUME NEW s \in Seq(Rows), NEW k, NEW ko, NEW p, NEW q,
           IsNewest(s, k, ko, p), IsNewest(s, k, ko, q)
    PROVE  p = q
<1>1. Len(s) \in Nat
  BY ElementsOf
<1>2. ASSUME NEW i \in 1 .. Len(s), ko[s[i]] = k, \A n \in 1 .. i - 1 : ko[s[n]] # k,
             NEW j \in 1 .. Len(s), ko[s[j]] = k, \A n \in 1 .. j - 1 : ko[s[n]] # k
      PROVE  i = j
  <2>1. ~(i < j)
    <3>1. i < j => i \in 1 .. j - 1
      BY <1>1
    <3>. QED
      BY <1>2, <3>1
  <2>2. ~(j < i)
    <3>1. j < i => j \in 1 .. i - 1
      BY <1>1
    <3>. QED
      BY <1>2, <3>1
  <2>. QED
    BY <1>1, <2>1, <2>2
<1>. QED
  BY <1>2 DEF IsNewest

-----------------------------------------------------------------------------
\* The steps, and the types.

LEMMA Steps ==
    ASSUME NEW t \in Threads, Step(t)
    PROVE  \/ \E k \in Keys : CallStore(t, k) \/ CallUnlink(t, k) \/ CallFind(t, k)
           \/ Create(t) \/ LinkRow(t) \/ Publish(t)
           \/ UnlinkBegin(t) \/ UnlinkHead(t) \/ UnlinkWalk(t) \/ Release(t)
           \/ FindBegin(t) \/ FindWalk(t)
BY Zenon DEF Step

LEMMA FinishTyped ==
    ASSUME Typed, NEW t \in Threads, Finish(t)
    PROVE  /\ pc' \in [Threads -> Places] /\ key' \in [Threads -> Keys \cup {NoKey}]
           /\ row' \in [Threads -> Positions] /\ other' \in [Threads -> Positions]
BY DEF Typed, Finish, Move

LEMMA MoveTyped ==
    ASSUME Typed, NEW t \in Threads, NEW place \in Places,
           NEW r \in Positions, NEW o \in Positions, Move(t, place, r, o)
    PROVE  /\ pc' \in [Threads -> Places]
           /\ row' \in [Threads -> Positions] /\ other' \in [Threads -> Positions]
BY DEF Typed, Move

LEMMA CallTyped ==
    ASSUME Typed, NEW t \in Threads, NEW place \in Places, NEW k \in Keys,
           Call(t, place, k), tops' \in [Threads -> SUBSET Positions]
    PROVE  Typed'
BY DEF Typed, Call

LEMMA ObserveTyped ==
    ASSUME Typed, CallInv, Observe, linked' \in [Buckets -> Seq(Rows)]
    PROVE  tops' \in [Threads -> SUBSET Positions]
<1>1. ASSUME NEW t \in Threads, Finding(t) PROVE NewestAfter(key[t]) \in Positions
  <2>1. HashOf[key[t]] \in Buckets
    BY <1>1 DEF CallInv, Finding
  <2>2. linked'[HashOf[key[t]]] \in Seq(Rows)
    BY <2>1
  <2>. QED
    BY <2>2, NewestIs DEF NewestAfter
<1>2. \A t \in Threads :
        tops[t] \subseteq Positions
          /\ (Finding(t) => tops[t] \cup {NewestAfter(key[t])} \subseteq Positions)
  BY <1>1 DEF Typed
<1>. QED
  BY <1>2, Zenon DEF Observe

LEMMA RemovedTyped ==
    ASSUME Typed, CallInv, NEW t \in Threads, pc[t] \notin {"idle", "fault"}, Removed(t)
    PROVE  /\ linked' \in [Buckets -> Seq(Rows)]
           /\ tops' \in [Threads -> SUBSET Positions]
           /\ pc' \in [Threads -> Places] /\ key' \in [Threads -> Keys \cup {NoKey}]
           /\ row' \in [Threads -> Positions] /\ other' \in [Threads -> Positions]
<1>1. HashOf[key[t]] \in Buckets /\ linked[HashOf[key[t]]] \in Seq(Rows)
  BY DEF CallInv, Typed
<1>2. RemoveFirst(linked[HashOf[key[t]]], row[t]) \in Seq(Rows)
  BY <1>1, RemoveFirstTyped
<1>3. linked' \in [Buckets -> Seq(Rows)]
  BY <1>1, <1>2 DEF Removed, Typed
<1>. QED
  BY <1>3, ObserveTyped, FinishTyped DEF Removed

LEMMA CreatingCounted ==
    /\ IsFiniteSet(Creating) /\ Cardinality(Creating) \in Nat
    /\ IsFiniteSet(Creating') /\ Cardinality(Creating') \in Nat
<1>1. IsFiniteSet(Creating) /\ IsFiniteSet(Creating')
  BY FS_Subset DEF Creating
<1>. QED
  BY <1>1, FS_CardinalityType

LEMMA CountRoom ==
    ASSUME Typed, CountInv, NEW t \in Threads, pc[t] = "create"
    PROVE  count + 1 \in Rows
<1>1. t \in Creating
  BY DEF Creating
<1>2. Cardinality(Creating) \in Nat \ {0}
  BY <1>1, CreatingCounted, FS_EmptySet
<1>. QED
  BY <1>2 DEF CountInv, Typed

LEMMA TypedStep ==
    ASSUME BaseInv, NEW t \in Threads, Step(t)
    PROVE  Typed'
<1>0. Typed /\ CallInv /\ CountInv /\ FreshInv /\ ReachInv
  BY DEF BaseInv
<1>1. ASSUME NEW k \in Keys, CallStore(t, k) \/ CallUnlink(t, k) PROVE Typed'
  BY <1>0, <1>1, CallTyped DEF CallStore, CallUnlink, Typed
<1>2. ASSUME NEW k \in Keys, CallFind(t, k) PROVE Typed'
  <2>1. linked[HashOf[k]] \in Seq(Rows)
    BY <1>0 DEF Typed
  <2>2. NewestOf(linked[HashOf[k]], k) \in Positions
    BY <2>1, NewestIs
  <2>3. tops' \in [Threads -> SUBSET Positions]
    BY <1>0, <1>2, <2>2 DEF CallFind, Typed
  <2>. QED
    BY <1>0, <1>2, <2>3, CallTyped DEF CallFind
<1>3. CASE Create(t)
  <2>1. count' \in Rows
    BY <1>0, <1>3, CountRoom DEF Create
  <2>2. Move(t, "created", count', Empty)
    BY <1>3 DEF Create
  <2>3. /\ pc' \in [Threads -> Places]
        /\ row' \in [Threads -> Positions] /\ other' \in [Threads -> Positions]
    BY <1>0, <2>1, <2>2, MoveTyped
  <2>4. key[t] \in Keys
    BY <1>0, <1>3 DEF CallInv, Create
  <2>5. keyOf' \in [Rows -> Keys \cup {NoKey}]
    BY <1>0, <1>3, <2>4 DEF Typed, Create
  <2>6. next' \in [Rows -> Positions \cup {Unset}]
    BY <1>0, <1>3 DEF Typed, Create
  <2>7. count' \in Positions
    BY <2>1
  <2>8. UNCHANGED <<header, saved, mutex, key, linked, tops>>
    BY <1>3 DEF Create
  <2>. QED
    BY <1>0, <2>3, <2>5, <2>6, <2>7, <2>8 DEF Typed
<1>4. CASE LinkRow(t)
  <2>1. HashOf[key[t]] \in Buckets
    BY <1>0, <1>4 DEF CallInv, LinkRow
  <2>. QED
    BY <1>0, <1>4, <2>1 DEF Typed, LinkRow
<1>5. CASE Publish(t)
  <2>0. pc[t] = "publish"
    BY <1>5 DEF Publish
  <2>1. HashOf[key[t]] \in Buckets /\ row[t] \in Rows
    <3>1. row[t] \in 1 .. count /\ count \in Positions
      BY <1>0, <2>0 DEF FreshInv, Typed
    <3>. QED
      BY <1>0, <2>0, <3>1 DEF CallInv
  <2>2. <<row[t]>> \o linked[HashOf[key[t]]] \in Seq(Rows)
    BY <1>0, <2>1 DEF Typed
  <2>3. linked' \in [Buckets -> Seq(Rows)]
    BY <1>0, <1>5, <2>1, <2>2 DEF Typed, Publish
  <2>4. tops' \in [Threads -> SUBSET Positions]
    BY <1>0, <1>5, <2>3, ObserveTyped DEF Publish
  <2>5. /\ pc' \in [Threads -> Places] /\ key' \in [Threads -> Keys \cup {NoKey}]
        /\ row' \in [Threads -> Positions] /\ other' \in [Threads -> Positions]
    BY <1>0, <1>5, FinishTyped DEF Publish
  <2>. QED
    BY <1>0, <1>5, <2>1, <2>3, <2>4, <2>5 DEF Typed, Publish
<1>6. CASE UnlinkBegin(t)
  <2> DEFINE b == header[HashOf[key[t]]]
  <2>1. b \in Positions /\ IsLinked(b)
    BY <1>0, <1>6 DEF CallInv, UnlinkBegin, Typed, ReachInv
  <2>2. b # Empty => b \in Rows /\ next[b] \in Positions
    BY <1>0, <2>1 DEF ReachInv
  <2>3. \/ Move(t, "fault", Empty, Empty)
        \/ b # Empty /\ Move(t, "unhead", b, next[b])
        \/ b # Empty /\ Move(t, "walk", next[b], b)
    BY <1>6 DEF UnlinkBegin
  <2>4. /\ pc' \in [Threads -> Places]
        /\ row' \in [Threads -> Positions] /\ other' \in [Threads -> Positions]
    <3>. HIDE DEF b
    <3>. QED
      BY <1>0, <2>1, <2>2, <2>3, MoveTyped
  <2>. QED
    BY <1>0, <1>6, <2>4 DEF Typed, UnlinkBegin
<1>7. CASE UnlinkHead(t)
  <2>1. pc[t] = "unhead" /\ HashOf[key[t]] \in Buckets
    BY <1>0, <1>7 DEF CallInv, UnlinkHead
  <2>2. Removed(t)
    BY <1>7 DEF UnlinkHead
  <2>3. /\ linked' \in [Buckets -> Seq(Rows)]
        /\ tops' \in [Threads -> SUBSET Positions]
        /\ pc' \in [Threads -> Places] /\ key' \in [Threads -> Keys \cup {NoKey}]
        /\ row' \in [Threads -> Positions] /\ other' \in [Threads -> Positions]
    BY <1>0, <2>1, <2>2, RemovedTyped
  <2>. QED
    BY <1>0, <1>7, <2>1, <2>3 DEF Typed, UnlinkHead
<1>8. CASE UnlinkWalk(t)
  <2>1. pc[t] = "walk" /\ row[t] \in Positions /\ other[t] \in Positions
    BY <1>0, <1>8 DEF UnlinkWalk, Typed
  <2>2. row[t] # Empty => next[row[t]] \in Positions
    BY <1>0, <2>1 DEF ReachInv
  <2>3. \/ Finish(t)
        \/ Move(t, "release", row[t], other[t]) /\ UNCHANGED key
        \/ row[t] # Empty /\ Move(t, "walk", next[row[t]], row[t]) /\ UNCHANGED key
    BY <1>8 DEF UnlinkWalk
  <2>4. /\ pc' \in [Threads -> Places] /\ key' \in [Threads -> Keys \cup {NoKey}]
        /\ row' \in [Threads -> Positions] /\ other' \in [Threads -> Positions]
    <3>1. key \in [Threads -> Keys \cup {NoKey}]
      BY <1>0 DEF Typed
    <3>. QED
      BY <1>0, <2>1, <2>2, <2>3, <3>1, MoveTyped, FinishTyped
  <2>. QED
    BY <1>0, <1>8, <2>4 DEF Typed, UnlinkWalk
<1>9. CASE Release(t)
  <2>1. pc[t] = "release" /\ row[t] \in Rows /\ next[row[t]] \in Positions
    BY <1>0, <1>9 DEF Release, ReachInv, Typed
  <2>2. Removed(t)
    BY <1>9 DEF Release
  <2>3. /\ linked' \in [Buckets -> Seq(Rows)]
        /\ tops' \in [Threads -> SUBSET Positions]
        /\ pc' \in [Threads -> Places] /\ key' \in [Threads -> Keys \cup {NoKey}]
        /\ row' \in [Threads -> Positions] /\ other' \in [Threads -> Positions]
    BY <1>0, <2>1, <2>2, RemovedTyped
  <2>. QED
    BY <1>0, <1>9, <2>1, <2>3 DEF Typed, Release
<1>10. CASE FindBegin(t)
  <2>1. header[HashOf[key[t]]] \in Positions
    BY <1>0, <1>10 DEF CallInv, FindBegin, Typed
  <2>2. Move(t, "search", header[HashOf[key[t]]], Empty)
    BY <1>10 DEF FindBegin
  <2>3. /\ pc' \in [Threads -> Places]
        /\ row' \in [Threads -> Positions] /\ other' \in [Threads -> Positions]
    BY <1>0, <2>1, <2>2, MoveTyped
  <2>. QED
    BY <1>0, <1>10, <2>3 DEF Typed, FindBegin
<1>11. CASE FindWalk(t)
  <2>1. pc[t] = "search" /\ row[t] \in Positions
    BY <1>0, <1>11 DEF FindWalk, Typed
  <2>2. row[t] # Empty => next[row[t]] \in Positions
    BY <1>0, <2>1 DEF ReachInv
  <2>3. \/ Finish(t) /\ tops' = [tops EXCEPT ![t] = {}]
        \/ Move(t, "fault", Empty, Empty) /\ UNCHANGED <<key, tops>>
        \/ /\ row[t] # Empty /\ Move(t, "search", next[row[t]], Empty)
           /\ UNCHANGED <<key, tops>>
    BY <1>11 DEF FindWalk
  <2>4. /\ pc' \in [Threads -> Places] /\ key' \in [Threads -> Keys \cup {NoKey}]
        /\ row' \in [Threads -> Positions] /\ other' \in [Threads -> Positions]
    <3>1. key \in [Threads -> Keys \cup {NoKey}]
      BY <1>0 DEF Typed
    <3>. QED
      BY <1>0, <2>1, <2>2, <2>3, <3>1, MoveTyped, FinishTyped
  <2>5. tops' \in [Threads -> SUBSET Positions]
    BY <1>0, <2>3 DEF Typed
  <2>. QED
    BY <1>0, <1>11, <2>4, <2>5 DEF Typed, FindWalk
<1>. QED
  BY <1>1, <1>2, <1>3, <1>4, <1>5, <1>6, <1>7, <1>8, <1>9, <1>10, <1>11, Steps

-----------------------------------------------------------------------------
\* Who is where, and the mutex.

\* A step leaves the other threads where they are.
LEMMA OthersKept ==
    ASSUME Typed, NEW t \in Threads, Step(t)
    PROVE  \A u \in Threads \ {t} :
             /\ pc'[u] = pc[u] /\ key'[u] = key[u]
             /\ row'[u] = row[u] /\ other'[u] = other[u]
<1>1. ASSUME NEW place, NEW p, NEW o, Move(t, place, p, o)
      PROVE  \A u \in Threads \ {t} :
               pc'[u] = pc[u] /\ row'[u] = row[u] /\ other'[u] = other[u]
  BY <1>1 DEF Typed, Move
<1>2. ASSUME Finish(t)
      PROVE  \A u \in Threads \ {t} :
               /\ pc'[u] = pc[u] /\ key'[u] = key[u]
               /\ row'[u] = row[u] /\ other'[u] = other[u]
  BY <1>1, <1>2 DEF Typed, Finish
<1>3. ASSUME NEW place, NEW k, Call(t, place, k)
      PROVE  \A u \in Threads \ {t} :
               /\ pc'[u] = pc[u] /\ key'[u] = key[u]
               /\ row'[u] = row[u] /\ other'[u] = other[u]
  BY <1>3 DEF Typed, Call
<1>4. CASE \E k \in Keys : CallStore(t, k) \/ CallUnlink(t, k) \/ CallFind(t, k)
  BY <1>3, <1>4, Zenon DEF CallStore, CallUnlink, CallFind
<1>5. CASE Create(t)
  BY <1>1, <1>5 DEF Create
<1>6. CASE LinkRow(t)
  BY <1>6 DEF LinkRow, Typed
<1>7. CASE Publish(t)
  BY <1>2, <1>7, Zenon DEF Publish
<1>8. CASE UnlinkBegin(t)
  BY <1>1, <1>8 DEF UnlinkBegin
<1>9. CASE UnlinkHead(t) \/ Release(t)
  BY <1>2, <1>9, Zenon DEF UnlinkHead, Release, Removed
<1>10. CASE UnlinkWalk(t)
  BY <1>1, <1>2, <1>10 DEF UnlinkWalk
<1>11. CASE FindBegin(t)
  BY <1>1, <1>11 DEF FindBegin
<1>12. CASE FindWalk(t)
  BY <1>1, <1>2, <1>12 DEF FindWalk
<1>. QED
  BY <1>4, <1>5, <1>6, <1>7, <1>8, <1>9, <1>10, <1>11, <1>12, Steps

\* Where a step takes its thread, and what it does to the mutex.
LEMMA Moves ==
    ASSUME Typed, NEW t \in Threads, Step(t)
    PROVE  \/ /\ pc[t] = "idle" /\ key'[t] \in Keys /\ mutex' = mutex
              /\ \/ pc'[t] = "create" /\ \A u \in Threads : ~Unlinking(u)
                 \/ pc'[t] = "begin" /\ \A u \in Threads : ~Storing(u)
                 \/ pc'[t] = "start"
           \/ /\ pc[t] = "create" /\ pc'[t] = "created"
              /\ key'[t] = key[t] /\ mutex' = mutex
           \/ /\ pc[t] = "created" /\ pc'[t] = "publish"
              /\ key'[t] = key[t] /\ mutex = NoThread /\ mutex' = t
           \/ pc[t] = "publish" /\ pc'[t] = "idle" /\ mutex' = NoThread
           \/ /\ Unlinking(t) /\ mutex' = mutex
              /\ \/ pc'[t] \in {"unhead", "walk", "release"} /\ key'[t] = key[t]
                 \/ pc'[t] \in {"idle", "fault"}
           \/ /\ Finding(t) /\ mutex' = mutex
              /\ \/ pc'[t] = "search" /\ key'[t] = key[t]
                 \/ pc'[t] \in {"idle", "fault"}
<1>1. ASSUME NEW place, NEW p, NEW o, Move(t, place, p, o)
      PROVE  pc'[t] = place
  BY <1>1 DEF Typed, Move
<1>2. ASSUME Finish(t)
      PROVE  pc'[t] = "idle"
  BY <1>1, <1>2 DEF Finish
<1>3. ASSUME NEW place, NEW k \in Keys, Call(t, place, k)
      PROVE  pc[t] = "idle" /\ pc'[t] = place /\ key'[t] \in Keys /\ mutex' = mutex
  BY <1>3 DEF Typed, Call
<1>4. ASSUME NEW k \in Keys, CallStore(t, k)
      PROVE  pc'[t] = "create" /\ \A u \in Threads : ~Unlinking(u)
  BY <1>3, <1>4, Zenon DEF CallStore
<1>5. ASSUME NEW k \in Keys, CallUnlink(t, k)
      PROVE  pc'[t] = "begin" /\ \A u \in Threads : ~Storing(u)
  BY <1>3, <1>5, Zenon DEF CallUnlink, UnlinkAllowed
<1>6. ASSUME NEW k \in Keys, CallFind(t, k)
      PROVE  pc'[t] = "start"
  BY <1>3, <1>6, Zenon DEF CallFind
<1>7. CASE \E k \in Keys : CallStore(t, k) \/ CallUnlink(t, k) \/ CallFind(t, k)
  BY <1>3, <1>4, <1>5, <1>6, <1>7, Zenon DEF CallStore, CallUnlink, CallFind
<1>8. CASE Create(t)
  BY <1>1, <1>8 DEF Create
<1>9. CASE LinkRow(t)
  BY <1>9 DEF LinkRow, Typed
<1>10. CASE Publish(t)
  BY <1>2, <1>10 DEF Publish
<1>11. CASE UnlinkBegin(t)
  BY <1>1, <1>11 DEF UnlinkBegin, Unlinking
<1>12. CASE UnlinkHead(t) \/ Release(t)
  BY <1>2, <1>12 DEF UnlinkHead, Release, Removed, Unlinking
<1>13. CASE UnlinkWalk(t)
  BY <1>1, <1>2, <1>13 DEF UnlinkWalk, Unlinking
<1>14. CASE FindBegin(t)
  BY <1>1, <1>14 DEF FindBegin, Finding
<1>15. CASE FindWalk(t)
  BY <1>1, <1>2, <1>15 DEF FindWalk, Finding
<1>. QED
  BY <1>7, <1>8, <1>9, <1>10, <1>11, <1>12, <1>13, <1>14, <1>15, Steps

LEMMA CallStep ==
    ASSUME Typed, CallInv, NEW t \in Threads, Step(t)
    PROVE  CallInv'
<1>1. \A u \in Threads \ {t} : pc'[u] = pc[u] /\ key'[u] = key[u]
  BY OthersKept
<1>2. \A u \in Threads : pc'[u] \notin {"idle", "fault"} => key'[u] \in Keys
  BY <1>1, Moves DEF CallInv, Unlinking, Finding
<1>3. \A u, v \in Threads : Storing(u)' => ~Unlinking(v)'
  <2>1. \/ Storing(t)' => Storing(t)
        \/ \A v \in Threads : ~Unlinking(v)
    BY Moves DEF Storing, Unlinking, Finding
  <2>2. \/ Unlinking(t)' => Unlinking(t)
        \/ \A v \in Threads : ~Storing(v)
    BY Moves DEF Storing, Unlinking, Finding
  <2>3. ~(Storing(t)' /\ Unlinking(t)')
    BY DEF Storing, Unlinking
  <2>4. \A u \in Threads \ {t} :
          (Storing(u)' <=> Storing(u)) /\ (Unlinking(u)' <=> Unlinking(u))
    BY <1>1 DEF Storing, Unlinking
  <2>5. \A u, v \in Threads : Storing(u) => ~Unlinking(v)
    BY DEF CallInv
  <2>. QED
    BY <2>1, <2>2, <2>3, <2>4, <2>5
<1>4. \A u \in Threads : mutex' = u <=> pc'[u] = "publish"
  BY <1>1, Moves DEF CallInv, Unlinking, Finding
<1>. QED
  BY <1>2, <1>3, <1>4 DEF CallInv

LEMMA CountStep ==
    ASSUME Typed, CountInv, NEW t \in Threads, Step(t)
    PROVE  CountInv'
<1>0. /\ IsFiniteSet(Creating) /\ Cardinality(Creating) \in Nat
      /\ Cardinality(Creating') \in Nat /\ count \in Nat
      /\ count + Cardinality(Creating) <= MaxRows
  BY CreatingCounted DEF Typed, CountInv
<1>1. \A u \in Threads \ {t} : pc'[u] = pc[u]
  BY OthersKept
<1>2. ASSUME NEW k \in Keys, CallStore(t, k) PROVE CountInv'
  <2>1. pc[t] = "idle" /\ count' = count
    BY <1>2 DEF CallStore, Call
  <2>2. Creating' \subseteq Creating \cup {t} /\ t \notin Creating
    BY <1>1, <2>1 DEF Creating
  <2>3. Cardinality(Creating \cup {t}) = Cardinality(Creating) + 1
    BY <1>0, <2>2, FS_AddElement
  <2>4. Cardinality(Creating') <= Cardinality(Creating) + 1
    <3>1. IsFiniteSet(Creating \cup {t})
      BY <1>0, FS_AddElement
    <3>. QED
      BY <2>2, <2>3, <3>1, FS_Subset
  <2>5. Cardinality(Creating) + count < MaxRows
    BY <1>2, Zenon DEF CallStore, Creating
  <2>. QED
    BY <1>0, <2>1, <2>4, <2>5 DEF CountInv
<1>3. CASE Create(t)
  <2>1. pc[t] = "create" /\ pc'[t] = "created" /\ count' = count + 1
    BY <1>3 DEF Create, Move, Typed
  <2>2. Creating' = Creating \ {t} /\ t \in Creating
    BY <1>1, <2>1 DEF Creating
  <2>3. Cardinality(Creating') = Cardinality(Creating) - 1
    BY <1>0, <2>2, FS_RemoveElement
  <2>. QED
    BY <1>0, <2>1, <2>3 DEF CountInv
<1>4. CASE ~Create(t) /\ ~ \E k \in Keys : CallStore(t, k)
  <2>1. count' = count
    <3>1. \/ \E k \in Keys : CallUnlink(t, k) \/ CallFind(t, k)
          \/ LinkRow(t) \/ Publish(t)
          \/ UnlinkBegin(t) \/ UnlinkHead(t) \/ UnlinkWalk(t) \/ Release(t)
          \/ FindBegin(t) \/ FindWalk(t)
      BY <1>4, Steps
    <3>. QED
      BY <3>1, Zenon DEF CallUnlink, CallFind, Call, LinkRow, Publish, UnlinkBegin,
         UnlinkHead, UnlinkWalk, Release, FindBegin, FindWalk
  <2>2. pc'[t] # "create"
    <3>1. \A k \in Keys : CallUnlink(t, k) \/ CallFind(t, k) => pc'[t] # "create"
      BY DEF CallUnlink, CallFind, Call, Typed
    <3>2. pc[t] # "idle" => pc'[t] # "create"
      BY Moves DEF Unlinking, Finding
    <3>3. \/ \E k \in Keys : CallUnlink(t, k) \/ CallFind(t, k)
          \/ pc[t] # "idle"
      BY <1>4, Steps DEF LinkRow, Publish, UnlinkBegin, UnlinkHead, UnlinkWalk,
         Release, FindBegin, FindWalk
    <3>. QED
      BY <3>1, <3>2, <3>3
  <2>3. Creating' \subseteq Creating
    BY <1>1, <2>2 DEF Creating
  <2>4. Cardinality(Creating') <= Cardinality(Creating)
    BY <1>0, <2>3, FS_Subset
  <2>. QED
    BY <1>0, <2>1, <2>4 DEF CountInv
<1>. QED
  BY <1>2, <1>3, <1>4

-----------------------------------------------------------------------------
\* The rows: those made and not yet published, and those that walks reach.

\* What a step does to the links: nothing, or it is one of five.
Quiet(t) ==
    /\ UNCHANGED <<header, keyOf, next, count, saved, linked>>
    /\ \/ \E k \in Keys : CallStore(t, k) \/ CallUnlink(t, k) \/ CallFind(t, k)
       \/ UnlinkBegin(t) \/ UnlinkWalk(t) \/ FindBegin(t) \/ FindWalk(t)

LEMMA LinkSteps ==
    ASSUME NEW t \in Threads, Step(t)
    PROVE  \/ Quiet(t) \/ Create(t) \/ LinkRow(t) \/ Publish(t)
           \/ UnlinkHead(t) \/ Release(t)
<1>1. (\E k \in Keys : CallStore(t, k) \/ CallUnlink(t, k) \/ CallFind(t, k)) => Quiet(t)
  BY Zenon DEF CallStore, CallUnlink, CallFind, Call, Quiet
<1>2. UnlinkBegin(t) \/ UnlinkWalk(t) \/ FindBegin(t) \/ FindWalk(t) => Quiet(t)
  BY Zenon DEF UnlinkBegin, UnlinkWalk, FindBegin, FindWalk, Quiet
<1>. QED
  BY <1>1, <1>2, Steps

IsFresh(t) == pc[t] \in {"created", "publish"}

InLists(p) == \E b \in Buckets : \E i \in 1 .. Len(linked[b]) : linked[b][i] = p

LEMMA FreshIs ==
    ASSUME BaseInv, NEW t \in Threads, IsFresh(t)
    PROVE  /\ row[t] \in Rows /\ row[t] \in 1 .. count /\ keyOf[row[t]] = key[t]
           /\ key[t] \in Keys /\ HashOf[key[t]] \in Buckets
           /\ ~InLists(row[t])
           /\ pc[t] = "created" => next[row[t]] = Unset
           /\ pc[t] = "publish" => next[row[t]] = header[HashOf[key[t]]]
           /\ \A u \in Threads \ {t} : IsFresh(u) => row[u] # row[t]
<1>1. row[t] \in 1 .. count /\ count \in Positions
  BY DEF BaseInv, FreshInv, IsFresh, Typed
<1>2. row[t] \in Rows
  BY <1>1
<1>3. key[t] \in Keys /\ HashOf[key[t]] \in Buckets
  BY DEF BaseInv, CallInv, IsFresh
<1>. QED
  BY <1>1, <1>2, <1>3 DEF BaseInv, FreshInv, IsFresh, InLists

\* The fields of a row that a thread has made are its own.
LEMMA LinkedRows ==
    ASSUME Typed, NEW b \in Buckets
    PROVE  /\ linked[b] \in Seq(Rows) /\ Len(linked[b]) \in Nat
           /\ \A i \in 1 .. Len(linked[b]) : linked[b][i] \in Rows
<1>1. linked[b] \in Seq(Rows)
  BY DEF Typed
<1>. QED
  BY <1>1, ElementsOf

LEMMA FreshStep ==
    ASSUME BaseInv, BaseInv => Typed', NEW t \in Threads, Step(t)
    PROVE  FreshInv'
<1>0. Typed /\ CallInv /\ CountInv /\ FreshInv /\ ReachInv /\ Typed'
  BY DEF BaseInv
<1>1. \A u \in Threads \ {t} :
        /\ pc'[u] = pc[u] /\ key'[u] = key[u]
        /\ row'[u] = row[u] /\ other'[u] = other[u]
  BY <1>0, OthersKept
<1>2. CASE Quiet(t)
  <2>1. pc'[t] \notin {"created", "publish"}
    BY <1>0, <1>2, Moves DEF Quiet, Unlinking, Finding, UnlinkBegin, UnlinkWalk,
       FindBegin, FindWalk, CallStore, CallUnlink, CallFind, Call
  <2>2. UNCHANGED <<header, keyOf, next, count, linked>>
    BY <1>2 DEF Quiet
  <2>. QED
    BY <1>0, <1>1, <2>1, <2>2 DEF FreshInv
<1>3. CASE Create(t)
  <2>1. /\ pc[t] = "create" /\ pc'[t] = "created" /\ row'[t] = count' /\ key' = key
        /\ count' = count + 1 /\ count + 1 \in Rows /\ count \in Nat
        /\ header' = header /\ linked' = linked
    BY <1>0, <1>3, CountRoom DEF Create, Move, Typed
  <2>2. \A p \in Rows :
          /\ keyOf'[p] = IF p = count + 1 THEN key[t] ELSE keyOf[p]
          /\ next'[p] = IF p = count + 1 THEN Unset ELSE next[p]
    BY <1>0, <1>3, <2>1 DEF Create, Typed
  <2>3. next[count + 1] = Unset
    BY <1>0, <2>1 DEF FreshInv
  <2>4. \A b \in Buckets : \A i \in 1 .. Len(linked[b]) : linked[b][i] # count + 1
    <3>1. \A b \in Buckets : \A i \in 1 .. Len(linked[b]) : linked[b][i] \in Rows
      BY <1>0, LinkedRows
    <3>. QED
      BY <1>0, <2>1, <2>3, <3>1 DEF ReachInv, IsLinked
  <2>5. \A u \in Threads \ {t} : pc[u] \in {"created", "publish"} =>
          row[u] # count + 1 /\ row[u] \in 1 .. count /\ row[u] \in Rows
    <3>1. \A u \in Threads : pc[u] \in {"created", "publish"} => row[u] \in 1 .. count
      BY <1>0 DEF FreshInv
    <3>. QED
      BY <2>1, <3>1
  <2>6. \A p \in Rows : p > count + 1 => next'[p] = Unset
    BY <1>0, <2>1, <2>2 DEF FreshInv
  <2>7. ASSUME NEW u \in Threads, pc'[u] \in {"created", "publish"}
        PROVE  /\ row'[u] \in 1 .. count' /\ keyOf'[row'[u]] = key'[u]
               /\ next'[row'[u]] = IF pc'[u] = "created" THEN Unset
                                                         ELSE header'[HashOf[key'[u]]]
               /\ \A b \in Buckets : \A i \in 1 .. Len(linked'[b]) :
                      linked'[b][i] # row'[u]
               /\ \A v \in Threads \ {u} :
                      pc'[v] \in {"created", "publish"} => row'[v] # row'[u]
    <3>1. CASE u = t
      BY <1>1, <2>1, <2>2, <2>4, <2>5, <3>1
    <3>2. CASE u # t
      <4>1. pc[u] \in {"created", "publish"}
        BY <1>1, <2>7, <3>2
      <4>2. /\ row[u] \in 1 .. count /\ keyOf[row[u]] = key[u]
            /\ next[row[u]] = IF pc[u] = "created" THEN Unset
                                                   ELSE header[HashOf[key[u]]]
            /\ \A b \in Buckets : \A i \in 1 .. Len(linked[b]) : linked[b][i] # row[u]
            /\ \A v \in Threads \ {u} :
                 pc[v] \in {"created", "publish"} => row[v] # row[u]
        BY <1>0, <4>1 DEF FreshInv
      <4>3. row[u] # count + 1 /\ row[u] \in Rows /\ row[u] \in 1 .. count'
        BY <2>1, <2>5, <3>2, <4>1, <4>2
      <4>. QED
        BY <1>1, <2>1, <2>2, <3>2, <4>2, <4>3
    <3>. QED
      BY <3>1, <3>2
  <2>. QED
    BY <2>1, <2>6, <2>7 DEF FreshInv
<1>4. CASE LinkRow(t)
  <2>1. /\ pc[t] = "created" /\ pc'[t] = "publish" /\ mutex = NoThread
        /\ UNCHANGED <<header, keyOf, count, key, row, linked>>
    BY <1>0, <1>4 DEF LinkRow, Typed
  <2>2. row[t] \in Rows /\ row[t] \in 1 .. count
    BY <2>1, FreshIs DEF IsFresh
  <2>3. \A p \in Rows :
          next'[p] = IF p = row[t] THEN header[HashOf[key[t]]] ELSE next[p]
    BY <1>0, <1>4, <2>2 DEF LinkRow, Typed
  <2>4. \A p \in Rows : p > count => next'[p] = Unset
    <3>1. count \in Nat /\ ~(row[t] > count)
      BY <1>0, <2>2 DEF Typed
    <3>. QED
      BY <1>0, <2>3, <3>1 DEF FreshInv
  <2>5. ASSUME NEW u \in Threads, pc'[u] \in {"created", "publish"}
        PROVE  /\ row'[u] \in 1 .. count' /\ keyOf'[row'[u]] = key'[u]
               /\ next'[row'[u]] = IF pc'[u] = "created" THEN Unset
                                                         ELSE header'[HashOf[key'[u]]]
               /\ \A b \in Buckets : \A i \in 1 .. Len(linked'[b]) :
                      linked'[b][i] # row'[u]
               /\ \A v \in Threads \ {u} :
                      pc'[v] \in {"created", "publish"} => row'[v] # row'[u]
    <3>1. pc[u] \in {"created", "publish"}
      BY <1>1, <2>1, <2>5
    <3>2. /\ row[u] \in 1 .. count /\ keyOf[row[u]] = key[u]
          /\ next[row[u]] = IF pc[u] = "created" THEN Unset
                                                 ELSE header[HashOf[key[u]]]
          /\ \A b \in Buckets : \A i \in 1 .. Len(linked[b]) : linked[b][i] # row[u]
          /\ \A v \in Threads \ {u} :
               pc[v] \in {"created", "publish"} => row[v] # row[u]
      BY <1>0, <3>1 DEF FreshInv
    <3>3. row[u] \in Rows
      BY <3>1, FreshIs DEF IsFresh
    <3>4. CASE u = t
      BY <1>1, <2>1, <2>2, <2>3, <3>2, <3>4
    <3>5. CASE u # t
      <4>1. row[u] # row[t]
        BY <2>1, <3>2, <3>5
      <4>. QED
        BY <1>1, <2>1, <2>3, <3>2, <3>3, <3>5, <4>1
    <3>. QED
      BY <3>4, <3>5
  <2>. QED
    BY <2>1, <2>4, <2>5 DEF FreshInv
<1>5. CASE Publish(t)
  <2>1. /\ pc[t] = "publish" /\ pc'[t] = "idle" /\ mutex = t
        /\ UNCHANGED <<keyOf, next, count>>
    BY <1>0, <1>5 DEF Publish, Finish, Move, Typed, CallInv
  <2>2. /\ key[t] \in Keys /\ HashOf[key[t]] \in Buckets
        /\ linked[HashOf[key[t]]] \in Seq(Rows) /\ row[t] \in Rows
    BY <1>0, <2>1, FreshIs DEF IsFresh, Typed
  <2>3. \A b \in Buckets :
          linked'[b] = IF b = HashOf[key[t]] THEN <<row[t]>> \o linked[b] ELSE linked[b]
    BY <1>0, <1>5, <2>2 DEF Publish, Typed
  <2>4. \A b \in Buckets : \A i \in 1 .. Len(linked'[b]) :
          linked'[b][i] = row[t] \/ \E j \in 1 .. Len(linked[b]) : linked'[b][i] = linked[b][j]
    <3>1. ASSUME NEW q \in Seq(Rows)
          PROVE  \A i \in 1 .. Len(<<row[t]>> \o q) :
                   (<<row[t]>> \o q)[i] = row[t]
                     \/ \E j \in 1 .. Len(q) : (<<row[t]>> \o q)[i] = q[j]
      <4>1. Len(<<row[t]>> \o q) = Len(q) + 1 /\ Len(q) \in Nat
        BY <2>2
      <4>2. \A i \in 1 .. Len(q) + 1 :
              (<<row[t]>> \o q)[i] = IF i = 1 THEN row[t] ELSE q[i - 1]
        BY <2>2
      <4>3. \A i \in 1 .. Len(q) + 1 : i # 1 => i - 1 \in 1 .. Len(q)
        BY <4>1
      <4>. QED
        BY <4>1, <4>2, <4>3
    <3>2. ASSUME NEW b \in Buckets, NEW i \in 1 .. Len(linked'[b])
          PROVE  \/ linked'[b][i] = row[t]
                 \/ \E j \in 1 .. Len(linked[b]) : linked'[b][i] = linked[b][j]
      <4>1. CASE b = HashOf[key[t]]
        <5>1. linked[b] \in Seq(Rows) /\ linked'[b] = <<row[t]>> \o linked[b]
          BY <2>2, <2>3, <4>1
        <5>2. i \in 1 .. Len(<<row[t]>> \o linked[b])
          BY <5>1
        <5>3. \/ (<<row[t]>> \o linked[b])[i] = row[t]
              \/ \E j \in 1 .. Len(linked[b]) : (<<row[t]>> \o linked[b])[i] = linked[b][j]
          BY <3>1, <5>1, <5>2
        <5>. QED
          BY <5>1, <5>3
      <4>2. CASE b # HashOf[key[t]]
        BY <2>3, <4>2
      <4>. QED
        BY <4>1, <4>2
    <3>. QED
      BY <3>2
  <2>5. ASSUME NEW u \in Threads, pc'[u] \in {"created", "publish"}
        PROVE  /\ u # t /\ pc[u] = "created" /\ pc'[u] = pc[u]
               /\ row'[u] = row[u] /\ key'[u] = key[u] /\ row[u] # row[t]
               /\ row[u] \in 1 .. count /\ keyOf[row[u]] = key[u] /\ next[row[u]] = Unset
               /\ \A b \in Buckets : \A i \in 1 .. Len(linked[b]) : linked[b][i] # row[u]
    <3>1. u # t /\ pc'[u] = pc[u] /\ row'[u] = row[u] /\ key'[u] = key[u]
      BY <1>1, <2>1, <2>5
    <3>2. pc[u] = "created"
      BY <1>0, <2>1, <2>5, <3>1 DEF CallInv
    <3>. QED
      BY <1>0, <2>1, <3>1, <3>2 DEF FreshInv
  <2>6. \A u \in Threads : pc'[u] \in {"created", "publish"} =>
          \A b \in Buckets : \A i \in 1 .. Len(linked'[b]) : linked'[b][i] # row'[u]
    BY <2>4, <2>5
  <2>7. \A u \in Threads : pc'[u] \in {"created", "publish"} =>
          \A v \in Threads \ {u} :
            pc'[v] \in {"created", "publish"} => row'[v] # row'[u]
    BY <1>0, <2>5 DEF FreshInv
  <2>8. \A p \in Rows : p > count' => next'[p] = Unset
    BY <1>0, <2>1 DEF FreshInv
  <2>. QED
    BY <2>1, <2>5, <2>6, <2>7, <2>8 DEF FreshInv
<1>6. CASE UnlinkHead(t) \/ Release(t)
  <2>1. Unlinking(t) /\ UNCHANGED <<keyOf, count>> /\ Removed(t) /\ pc'[t] = "idle"
        /\ pc[t] \in {"unhead", "release"}
    BY <1>0, <1>6 DEF UnlinkHead, Release, Unlinking, Removed, Finish, Move, Typed
  <2>2. \A u \in Threads : pc'[u] \notin {"created", "publish"}
    BY <1>0, <1>1, <2>1 DEF CallInv, Storing
  <2>3. \A p \in Rows : p > count => next'[p] = Unset
    <3>1. CASE UnlinkHead(t)
      BY <1>0, <3>1 DEF UnlinkHead, FreshInv
    <3>2. CASE Release(t)
      <4>1. other[t] \in Rows /\ next[other[t]] # Unset
        BY <1>0, <3>2 DEF Release, ReachInv, IsLinked, Typed
      <4>2. \A p \in Rows : p # other[t] => next'[p] = next[p]
        BY <1>0, <3>2 DEF Release, Typed
      <4>. QED
        BY <1>0, <4>1, <4>2 DEF FreshInv
    <3>. QED
      BY <1>6, <3>1, <3>2
  <2>. QED
    BY <2>1, <2>2, <2>3 DEF FreshInv
<1>. QED
  BY <1>2, <1>3, <1>4, <1>5, <1>6, LinkSteps

StaysLinked(p) == p = Empty \/ next'[p] # Unset

\* What walks and buckets lead to stays linked.
LEMMA ReachStep ==
    ASSUME BaseInv, BaseInv => Typed', NEW t \in Threads, Step(t)
    PROVE  ReachInv'
<1>0. Typed /\ CallInv /\ CountInv /\ FreshInv /\ ReachInv /\ Typed'
  BY DEF BaseInv
<1>1. \A u \in Threads \ {t} :
        pc'[u] = pc[u] /\ row'[u] = row[u] /\ other'[u] = other[u]
  BY <1>0, OthersKept
\* Where links change, rows that were linked stay so.
<1>2. ASSUME \A p \in Rows : IsLinked(p) => StaysLinked(p),
             \A b \in Buckets : header'[b] = header[b] \/ StaysLinked(header'[b]),
             \A b \in Buckets : \A i \in 1 .. Len(linked'[b]) :
                 StaysLinked(linked'[b][i]),
             \A p \in Rows : StaysLinked(p) =>
                 next'[p] = next[p] \/ StaysLinked(next'[p]),
             \A p \in Rows : StaysLinked(p) /\ ~IsLinked(p) =>
                 next'[p] \in Positions /\ StaysLinked(next'[p]),
             \/ pc'[t] \notin {"unhead", "walk", "release", "search"}
             \/ /\ StaysLinked(row'[t])
                /\ pc'[t] # "search" => StaysLinked(other'[t])
                /\ pc'[t] \in {"unhead", "release"} => row'[t] # Empty
                /\ pc'[t] \in {"walk", "release"} => other'[t] # Empty
      PROVE  ReachInv'
  <2>1. \A p \in Positions : IsLinked(p) => StaysLinked(p)
    BY <1>2 DEF IsLinked, StaysLinked
  <2>2. \A b \in Buckets : StaysLinked(header'[b])
    BY <1>0, <1>2, <2>1 DEF ReachInv, Typed
  <2>3. ASSUME NEW p \in Rows, StaysLinked(p)
        PROVE  next'[p] \in Positions /\ StaysLinked(next'[p])
    <3>1. CASE IsLinked(p)
      <4>1. next[p] \in Positions /\ IsLinked(next[p])
        BY <1>0, <3>1 DEF ReachInv
      <4>2. next'[p] \in Positions
        <5>1. next'[p] \in Positions \cup {Unset} /\ next'[p] # Unset
          BY <1>0, <2>3 DEF Typed, IsLinked, StaysLinked
        <5>. QED
          BY <5>1
      <4>. QED
        BY <1>2, <2>1, <2>3, <4>1, <4>2
    <3>2. CASE ~IsLinked(p)
      BY <1>2, <2>3, <3>2
    <3>. QED
      BY <3>1, <3>2
  <2>4. ASSUME NEW u \in Threads
        PROVE  /\ pc'[u] \in {"unhead", "walk", "release", "search"} => StaysLinked(row'[u])
               /\ pc'[u] \in {"unhead", "walk", "release"} => StaysLinked(other'[u])
               /\ pc'[u] \in {"unhead", "release"} => row'[u] # Empty
               /\ pc'[u] \in {"walk", "release"} => other'[u] # Empty
    <3>1. CASE u = t
      BY <1>2, <3>1
    <3>2. CASE u # t
      <4>1. row[u] \in Positions /\ other[u] \in Positions
        BY <1>0 DEF Typed
      <4>. QED
        BY <1>0, <1>1, <2>1, <3>2, <4>1 DEF ReachInv
    <3>. QED
      BY <3>1, <3>2
  <2>. QED
    BY <1>2, <2>2, <2>3, <2>4 DEF ReachInv, IsLinked, StaysLinked
<1>3. CASE Quiet(t)
  <2>1. UNCHANGED <<header, next, linked>>
    BY <1>3 DEF Quiet
  <2>2. \A p : StaysLinked(p) <=> IsLinked(p)
    BY <2>1 DEF IsLinked, StaysLinked
  <2>3. \/ pc'[t] \notin {"unhead", "walk", "release", "search"}
        \/ /\ IsLinked(row'[t])
           /\ pc'[t] # "search" => IsLinked(other'[t])
           /\ pc'[t] \in {"unhead", "release"} => row'[t] # Empty
           /\ pc'[t] \in {"walk", "release"} => other'[t] # Empty
    <3>1. ASSUME NEW place, NEW p, NEW o, Move(t, place, p, o)
          PROVE  pc'[t] = place /\ row'[t] = p /\ other'[t] = o
      BY <1>0, <3>1 DEF Typed, Move
    <3>2. \A p \in Rows : IsLinked(p) => IsLinked(next[p])
      BY <1>0 DEF ReachInv
    <3>3. CASE \E k \in Keys : CallStore(t, k) \/ CallUnlink(t, k) \/ CallFind(t, k)
      BY <1>0, <3>3 DEF CallStore, CallUnlink, CallFind, Call, Typed
    <3>4. CASE UnlinkBegin(t)
      <4> DEFINE b == header[HashOf[key[t]]]
      <4>1. b \in Positions /\ IsLinked(b)
        BY <1>0, <3>4 DEF UnlinkBegin, CallInv, ReachInv, Typed
      <4>2. \/ Move(t, "fault", Empty, Empty)
            \/ b # Empty /\ Move(t, "unhead", b, next[b])
            \/ b # Empty /\ Move(t, "walk", next[b], b)
        BY <3>4 DEF UnlinkBegin
      <4>. HIDE DEF b
      <4>3. b # Empty => b \in Rows
        BY <4>1
      <4>. QED
        BY <3>1, <3>2, <4>1, <4>2, <4>3
    <3>5. CASE UnlinkWalk(t)
      <4>1. /\ IsLinked(row[t]) /\ IsLinked(other[t]) /\ other[t] # Empty
            /\ row[t] # Empty => row[t] \in Rows
        BY <1>0, <3>5 DEF UnlinkWalk, ReachInv, Typed
      <4>2. \/ Finish(t)
            \/ row[t] # Empty /\ Move(t, "release", row[t], other[t])
            \/ row[t] # Empty /\ Move(t, "walk", next[row[t]], row[t])
        BY <3>5 DEF UnlinkWalk
      <4>. QED
        BY <3>1, <3>2, <4>1, <4>2 DEF Finish
    <3>6. CASE FindBegin(t)
      <4>1. IsLinked(header[HashOf[key[t]]])
        BY <1>0, <3>6 DEF FindBegin, ReachInv, CallInv
      <4>. QED
        BY <3>1, <3>6, <4>1 DEF FindBegin
    <3>7. CASE FindWalk(t)
      <4>1. IsLinked(row[t]) /\ (row[t] # Empty => row[t] \in Rows)
        BY <1>0, <3>7 DEF FindWalk, ReachInv, Typed
      <4>2. \/ Finish(t)
            \/ Move(t, "fault", Empty, Empty)
            \/ row[t] # Empty /\ Move(t, "search", next[row[t]], Empty)
        BY <3>7 DEF FindWalk
      <4>. QED
        BY <3>1, <3>2, <4>1, <4>2 DEF Finish
    <3>. QED
      BY <1>3, <3>3, <3>4, <3>5, <3>6, <3>7 DEF Quiet
  <2>4. \A b \in Buckets : \A i \in 1 .. Len(linked[b]) : IsLinked(linked[b][i])
    BY <1>0 DEF ReachInv
  <2>. QED
    BY <1>2, <2>1, <2>2, <2>3, <2>4
<1>4. CASE Create(t)
  <2>1. /\ pc'[t] = "created" /\ UNCHANGED <<header, linked>>
        /\ count + 1 \in Rows /\ next' = [next EXCEPT ![count + 1] = Unset]
    BY <1>0, <1>4, CountRoom DEF Create, Move, Typed
  <2>2. next[count + 1] = Unset
    BY <1>0, <2>1 DEF FreshInv, Typed
  <2>3. next' = next
    BY <1>0, <2>1, <2>2 DEF Typed
  <2>4. \A p : StaysLinked(p) <=> IsLinked(p)
    BY <2>3 DEF IsLinked, StaysLinked
  <2>5. \A b \in Buckets : \A i \in 1 .. Len(linked[b]) : IsLinked(linked[b][i])
    BY <1>0 DEF ReachInv
  <2>. QED
    BY <1>2, <2>1, <2>3, <2>4, <2>5
<1>5. CASE LinkRow(t)
  <2>1. pc[t] = "created" /\ pc'[t] = "publish" /\ UNCHANGED <<header, linked>>
    BY <1>0, <1>5 DEF LinkRow, Typed
  <2>2. row[t] \in Rows /\ HashOf[key[t]] \in Buckets /\ next[row[t]] = Unset
    BY <2>1, FreshIs DEF IsFresh
  <2>3. \A p \in Rows :
          next'[p] = IF p = row[t] THEN header[HashOf[key[t]]] ELSE next[p]
    BY <1>0, <1>5, <2>2 DEF LinkRow, Typed
  <2>4. header[HashOf[key[t]]] \in Positions /\ IsLinked(header[HashOf[key[t]]])
    BY <1>0, <2>2 DEF Typed, ReachInv
  <2>5. \A p \in Positions : IsLinked(p) => StaysLinked(p)
    <3>1. \A p \in Rows : IsLinked(p) => p # row[t] /\ p # Empty
      BY <2>2 DEF IsLinked, StaysLinked
    <3>. QED
      BY <2>3, <3>1 DEF IsLinked, StaysLinked
  <2>6. \A b \in Buckets : \A i \in 1 .. Len(linked[b]) : StaysLinked(linked[b][i])
    <3>1. \A b \in Buckets : \A i \in 1 .. Len(linked[b]) : linked[b][i] \in Rows
      BY <1>0, LinkedRows
    <3>. QED
      BY <1>0, <2>5, <3>1 DEF ReachInv
  <2>7. \A p \in Rows : p # row[t] => (StaysLinked(p) <=> IsLinked(p))
    BY <2>3 DEF IsLinked, StaysLinked
  <2>. QED
    BY <1>2, <2>1, <2>3, <2>4, <2>5, <2>6, <2>7
<1>6. CASE Publish(t)
  <2>1. pc[t] = "publish" /\ pc'[t] = "idle" /\ next' = next
    BY <1>0, <1>6 DEF Publish, Finish, Move, Typed
  <2>2. /\ key[t] \in Keys /\ HashOf[key[t]] \in Buckets
        /\ linked[HashOf[key[t]]] \in Seq(Rows) /\ row[t] \in Rows
        /\ next[row[t]] = header[HashOf[key[t]]]
    BY <1>0, <2>1, FreshIs DEF IsFresh, Typed
  <2>3. \A p : StaysLinked(p) <=> IsLinked(p)
    BY <2>1 DEF IsLinked, StaysLinked
  <2>4. IsLinked(row[t])
    BY <1>0, <2>2 DEF IsLinked, StaysLinked, Typed
  <2>5. \A b \in Buckets :
          /\ header'[b] = IF b = HashOf[key[t]] THEN row[t] ELSE header[b]
          /\ linked'[b] = IF b = HashOf[key[t]] THEN <<row[t]>> \o linked[b]
                                                ELSE linked[b]
    BY <1>0, <1>6, <2>2 DEF Publish, Typed
  <2>6. ASSUME NEW b \in Buckets, NEW i \in 1 .. Len(linked'[b])
        PROVE  IsLinked(linked'[b][i])
    <3>0. linked[b] \in Seq(Rows)
      BY <1>0 DEF Typed
    <3>1. CASE b = HashOf[key[t]]
      <4>0. Len(linked[b]) \in Nat
        BY <3>0, ElementsOf
      <4>1. linked'[b] = <<row[t]>> \o linked[b] /\ Len(linked[b]) \in Nat
        BY <2>5, <3>1, <4>0
      <4>2. Len(<<row[t]>> \o linked[b]) = Len(linked[b]) + 1
        BY <3>0
      <4>3. i \in 1 .. Len(linked[b]) + 1
        BY <4>1, <4>2
      <4>4. linked'[b][i] = IF i = 1 THEN row[t] ELSE linked[b][i - 1]
        BY <3>0, <4>1, <4>3
      <4>5. i = 1 \/ i - 1 \in 1 .. Len(linked[b])
        BY <4>1, <4>3
      <4>. QED
        BY <1>0, <2>4, <4>4, <4>5 DEF ReachInv
    <3>2. CASE b # HashOf[key[t]]
      BY <1>0, <2>5, <2>6, <3>2 DEF ReachInv
    <3>. QED
      BY <3>1, <3>2
  <2>. QED
    BY <1>2, <2>1, <2>3, <2>4, <2>5, <2>6
<1>7. CASE UnlinkHead(t) \/ Release(t)
  <2>1. /\ pc[t] \in {"unhead", "release"} /\ Removed(t) /\ pc'[t] = "idle"
        /\ key[t] \in Keys /\ HashOf[key[t]] \in Buckets
    BY <1>0, <1>7 DEF UnlinkHead, Release, Removed, Finish, Move, Typed, CallInv
  <2>2. \A b \in Buckets :
          linked'[b] = IF b = HashOf[key[t]] THEN RemoveFirst(linked[b], row[t])
                                             ELSE linked[b]
    BY <1>0, <2>1 DEF Removed, Typed
  <2>3. \A b \in Buckets : \A i \in 1 .. Len(linked'[b]) :
          IsLinked(linked'[b][i]) /\ linked'[b][i] \in Rows
    <3>1. \A b \in Buckets : \A i \in 1 .. Len(linked[b]) :
            IsLinked(linked[b][i]) /\ linked[b][i] \in Rows
      BY <1>0, LinkedRows DEF ReachInv
    <3>2. ASSUME NEW b \in Buckets, NEW i \in 1 .. Len(linked'[b])
          PROVE  IsLinked(linked'[b][i]) /\ linked'[b][i] \in Rows
      <4>1. linked[b] \in Seq(Rows)
        BY <1>0 DEF Typed
      <4>2. CASE b = HashOf[key[t]]
        <5>1. linked'[b] = RemoveFirst(linked[b], row[t])
          BY <2>2, <4>2
        <5>2. \E j \in 1 .. Len(linked[b]) : linked'[b][i] = linked[b][j]
          BY <3>2, <4>1, <5>1, RemoveFirstTyped
        <5>. QED
          BY <3>1, <5>2
      <4>3. CASE b # HashOf[key[t]]
        <5>1. linked'[b] = linked[b]
          BY <2>2, <4>3
        <5>. QED
          BY <3>1, <3>2, <5>1
      <4>. QED
        BY <4>2, <4>3
    <3>. QED
      BY <3>2
  <2>4. CASE UnlinkHead(t)
    <3>1. next' = next /\ \A b \in Buckets : header'[b] = header[b] \/ header'[b] = other[t]
      BY <1>0, <2>4 DEF UnlinkHead, Typed
    <3>2. IsLinked(other[t])
      BY <1>0, <2>4 DEF UnlinkHead, ReachInv
    <3>3. \A p : StaysLinked(p) <=> IsLinked(p)
      BY <3>1 DEF IsLinked, StaysLinked
    <3>. QED
      BY <1>2, <2>1, <2>3, <3>1, <3>2, <3>3
  <2>5. CASE Release(t)
    <3>1. /\ other[t] \in Rows /\ row[t] \in Rows /\ IsLinked(other[t])
          /\ next[row[t]] \in Positions /\ IsLinked(next[row[t]])
      <4>1. /\ row[t] # Empty /\ other[t] # Empty
            /\ IsLinked(row[t]) /\ IsLinked(other[t])
        BY <1>0, <2>5 DEF Release, ReachInv
      <4>2. row[t] \in Rows /\ other[t] \in Rows
        BY <1>0, <4>1 DEF Typed
      <4>. QED
        BY <1>0, <4>1, <4>2 DEF ReachInv
    <3>2. header' = header
      BY <2>5 DEF Release
    <3>3. \A p \in Rows :
            next'[p] = IF p = other[t] THEN next[row[t]] ELSE next[p]
      BY <1>0, <2>5, <3>1 DEF Release, Typed
    <3>4. \A p \in Positions : StaysLinked(p) <=> IsLinked(p)
      <4>1. next[row[t]] # Unset /\ next[other[t]] # Unset
        BY <3>1 DEF IsLinked, StaysLinked
      <4>. QED
        BY <3>1, <3>3, <4>1 DEF IsLinked, StaysLinked
    <3>5. \A p \in Rows : next'[p] = next[p] \/ StaysLinked(next'[p])
      BY <3>1, <3>3, <3>4
    <3>6. \A b \in Buckets : \A i \in 1 .. Len(linked'[b]) : StaysLinked(linked'[b][i])
      BY <2>3, <3>4
    <3>. QED
      BY <1>2, <2>1, <3>2, <3>4, <3>5, <3>6
  <2>. QED
    BY <1>7, <2>4, <2>5
<1>. QED
  BY <1>3, <1>4, <1>5, <1>6, <1>7, LinkSteps

-----------------------------------------------------------------------------
\* The base of the invariant holds of any callers.

LEMMA BaseInit ==
    ASSUME Init
    PROVE  BaseInv
<1>1. Typed
  BY DEF Init, Typed
<1>2. Creating = {}
  BY DEF Init, Creating
<1>3. CountInv
  BY <1>2, FS_EmptySet DEF CountInv, Init
<1>4. CallInv /\ FreshInv /\ ReachInv
  BY DEF Init, CallInv, FreshInv, ReachInv, IsLinked, Storing, Unlinking
<1>. QED
  BY <1>1, <1>3, <1>4 DEF BaseInv

\* The managers change nothing but what the file says of the count.
LEMMA ManagersStep ==
    ASSUME BaseInv, Sync \/ Reopen \/ UNCHANGED vars
    PROVE  /\ BaseInv'
           /\ UNCHANGED <<header, keyOf, next, count, pc, key, row, other, linked, tops>>
<1>1. /\ UNCHANGED <<header, keyOf, next, count, pc, key, row, other, linked, tops, mutex>>
      /\ saved' \in {saved, count}
  BY DEF Sync, Reopen, vars, threadVars
<1>2. Creating' = Creating
  BY <1>1 DEF Creating
<1>. QED
  BY <1>1, <1>2 DEF BaseInv, Typed, CallInv, CountInv, FreshInv, ReachInv, IsLinked,
     Storing, Unlinking

LEMMA BaseStep ==
    ASSUME BaseInv, [Next]_vars
    PROVE  BaseInv'
<1>1. ASSUME NEW t \in Threads, Step(t) PROVE BaseInv'
  <2>1. Typed' /\ (BaseInv => Typed')
    BY <1>1, TypedStep
  <2>. QED
    BY <1>1, <2>1, CallStep, CountStep, FreshStep, ReachStep DEF BaseInv
<1>. QED
  BY <1>1, ManagersStep DEF Next

\* The inductive invariant of the calls and rows, for any callers: a row that a
\* store has made is its own until it is published, and what a bucket, a row
\* or a walk leads to was linked (slab_row::create, slab_row::link).
THEOREM Base == Spec => []BaseInv
BY BaseInit, BaseStep, PTL DEF Spec

\* Positions lead to rows of the file or nowhere, whoever calls.
THEOREM TypeCorrect == Spec => []TypeOK
<1>1. BaseInv => TypeOK
  BY DEF BaseInv, Typed, TypeOK
<1>. QED
  BY <1>1, Base, PTL

-----------------------------------------------------------------------------
\* Runs of rows.

LEMMA RunKept ==
    ASSUME NEW s, NEW h, NEW nx, NEW ny, IsRun(h, s, nx),
           \A i \in 1 .. Len(s) : ny[s[i]] = nx[s[i]]
    PROVE  IsRun(h, s, ny)
BY DEF IsRun

LEMMA PutIs ==
    ASSUME NEW S, NEW s \in Seq(S), NEW r \in S
    PROVE  /\ <<r>> \o s \in Seq(S) /\ Len(<<r>> \o s) = Len(s) + 1
           /\ (<<r>> \o s)[1] = r
           /\ \A i \in 1 .. Len(s) : (<<r>> \o s)[i + 1] = s[i]
           /\ <<r>> \o s # <<>>
<1>1. /\ <<r>> \in Seq(S) /\ Len(<<r>>) = 1 /\ <<r>>[1] = r /\ Len(s) \in Nat
  OBVIOUS
<1>2. /\ <<r>> \o s \in Seq(S) /\ Len(<<r>> \o s) = 1 + Len(s)
      /\ \A i \in 1 .. Len(s) + 1 :
           (<<r>> \o s)[i] = IF i <= 1 THEN <<r>>[i] ELSE s[i - 1]
  BY <1>1
<1>3. \A i \in 1 .. Len(s) : i + 1 \in 1 .. Len(s) + 1 /\ ~(i + 1 <= 1) /\ (i + 1) - 1 = i
  BY <1>1
<1>4. Len(<<r>> \o s) # 0
  BY <1>1, <1>2
<1>5. (<<r>> \o s)[1] = r
  BY <1>1, <1>2
<1>6. \A i \in 1 .. Len(s) : (<<r>> \o s)[i + 1] = s[i]
  BY <1>2, <1>3
<1>. QED
  BY <1>1, <1>2, <1>4, <1>5, <1>6

LEMMA RunPut ==
    ASSUME NEW s \in Seq(Rows), NEW h, NEW nx, IsRun(h, s, nx), NEW r \in Rows,
           nx[r] = h, \A i \in 1 .. Len(s) : s[i] # r
    PROVE  IsRun(r, <<r>> \o s, nx)
<1> DEFINE z == <<r>> \o s
<1>1. Len(s) \in Nat /\ (s = <<>> <=> Len(s) = 0)
  OBVIOUS
<1>2. /\ Len(z) = Len(s) + 1 /\ z[1] = r /\ z # <<>>
      /\ \A i \in 1 .. Len(s) : z[i + 1] = s[i]
  BY PutIs
<1>. HIDE DEF z
<1>3. ASSUME NEW i \in 1 .. Len(z)
      PROVE  i = 1 \/ \E n \in 1 .. Len(s) : i = n + 1 /\ z[i] = s[n]
  <2>1. i # 1 => i - 1 \in 1 .. Len(s) /\ i = (i - 1) + 1
    BY <1>1, <1>2
  <2>. QED
    BY <1>2, <2>1
<1>4. ASSUME NEW i \in 1 .. Len(z)
      PROVE  nx[z[i]] = IF i = Len(z) THEN Empty ELSE z[i + 1]
  <2>1. CASE i = 1
    <3>1. CASE s = <<>>
      BY <1>1, <1>2, <2>1, <3>1 DEF IsRun
    <3>2. CASE s # <<>>
      <4>1. 1 \in 1 .. Len(s) /\ 1 # Len(z)
        BY <1>1, <1>2, <3>2
      <4>2. h = s[1]
        BY <3>2 DEF IsRun
      <4>. QED
        BY <1>2, <2>1, <4>1, <4>2
    <3>. QED
      BY <3>1, <3>2
  <2>2. CASE i # 1
    <3>1. PICK n \in 1 .. Len(s) : i = n + 1 /\ z[i] = s[n]
      BY <1>3, <2>2
    <3>2. nx[s[n]] = IF n = Len(s) THEN Empty ELSE s[n + 1]
      BY DEF IsRun
    <3>3. (n = Len(s) <=> i = Len(z)) /\ (n # Len(s) => n + 1 \in 1 .. Len(s))
      BY <1>1, <1>2, <3>1
    <3>. QED
      BY <1>2, <3>1, <3>2, <3>3
  <2>. QED
    BY <2>1, <2>2
<1>5. ASSUME NEW i \in 1 .. Len(z), NEW j \in 1 .. Len(z), z[i] = z[j]
      PROVE  i = j
  <2>1. CASE i = 1 /\ j = 1
    BY <2>1
  <2>2. CASE i = 1 /\ j # 1
    BY <1>2, <1>3, <1>5, <2>2
  <2>3. CASE i # 1 /\ j = 1
    BY <1>2, <1>3, <1>5, <2>3
  <2>4. CASE i # 1 /\ j # 1
    BY <1>3, <1>5, <2>4 DEF IsRun
  <2>. QED
    BY <2>1, <2>2, <2>3, <2>4
<1>. QED
  BY <1>2, <1>4, <1>5 DEF IsRun, z

\* A row goes when the row before it, or the header, is led past it.
LEMMA RunDrop ==
    ASSUME NEW s \in Seq(Rows), NEW h, NEW nx, IsRun(h, s, nx), NEW m \in 1 .. Len(s),
           NEW g, NEW ny,
           g = IF m = 1 THEN nx[s[1]] ELSE h,
           \A i \in 1 .. Len(s) :
               ny[s[i]] = IF i + 1 = m THEN nx[s[m]] ELSE nx[s[i]]
    PROVE  IsRun(g, RemoveAt(s, m), ny)
<1> DEFINE z == RemoveAt(s, m)
<1>1. Len(s) \in Nat
  BY ElementsOf
<1>2. /\ z \in Seq(Rows) /\ Len(z) = Len(s) - 1
      /\ \A i \in 1 .. Len(s) - 1 : z[i] = IF i < m THEN s[i] ELSE s[i + 1]
  BY RemoveAtIs
<1>. HIDE DEF z
<1>3. /\ Len(z) = Len(s) - 1 /\ (z = <<>> <=> Len(s) = 1)
      /\ \A i \in 1 .. Len(s) - 1 : z[i] = IF i < m THEN s[i] ELSE s[i + 1]
  <2>1. z = <<>> <=> Len(z) = 0
    <3>1. \A q \in Seq(Rows) : q = <<>> <=> Len(q) = 0
      OBVIOUS
    <3>. QED
      BY <1>2, <3>1
  <2>. QED
    BY <1>1, <1>2, <2>1
<1>4. /\ h = s[1] /\ \A i \in 1 .. Len(s) : nx[s[i]] = IF i = Len(s) THEN Empty ELSE s[i + 1]
      /\ \A i, j \in 1 .. Len(s) : s[i] = s[j] => i = j
  BY DEF IsRun
<1>5. g = IF z = <<>> THEN Empty ELSE z[1]
  <2>1. CASE m = 1
    <3>1. nx[s[1]] = IF 1 = Len(s) THEN Empty ELSE s[2]
      <4>1. nx[s[1]] = IF 1 = Len(s) THEN Empty ELSE s[1 + 1]
        BY <1>4, <2>1
      <4>. QED
        BY <4>1
    <3>2. 1 # Len(s) => z[1] = s[2]
      BY <1>1, <1>3, <2>1
    <3>. QED
      BY <1>3, <2>1, <3>1, <3>2
  <2>2. CASE m # 1
    <3>1. Len(s) # 1 /\ 1 \in 1 .. Len(s) - 1 /\ 1 < m
      BY <1>1, <2>2
    <3>. QED
      BY <1>3, <1>4, <2>2, <3>1
  <2>. QED
    BY <2>1, <2>2
<1>6. ASSUME NEW i \in 1 .. Len(z)
      PROVE  ny[z[i]] = IF i = Len(z) THEN Empty ELSE z[i + 1]
  <2>1. i \in 1 .. Len(s) - 1 /\ i \in 1 .. Len(s) /\ i + 1 \in 1 .. Len(s)
    BY <1>1, <1>3
  <2>2. CASE i + 1 = m
    <3>1. z[i] = s[i] /\ ny[s[i]] = nx[s[m]]
      BY <1>1, <1>3, <2>1, <2>2
    <3>2. nx[s[m]] = IF m = Len(s) THEN Empty ELSE s[m + 1]
      BY <1>4
    <3>3. m = Len(s) <=> i = Len(z)
      BY <1>1, <1>3, <2>1, <2>2
    <3>4. i # Len(z) => z[i + 1] = s[m + 1]
      <4>1. i # Len(z) => i + 1 \in 1 .. Len(s) - 1 /\ ~(i + 1 < m)
        BY <1>1, <1>3, <2>1, <2>2
      <4>. QED
        BY <1>3, <2>2, <4>1
    <3>. QED
      BY <3>1, <3>2, <3>3, <3>4
  <2>3. CASE i + 1 < m
    <3>1. z[i] = s[i] /\ ny[s[i]] = nx[s[i]]
      BY <1>1, <1>3, <2>1, <2>3
    <3>2. nx[s[i]] = s[i + 1]
      BY <1>1, <1>4, <2>1
    <3>3. i # Len(z) /\ z[i + 1] = s[i + 1]
      <4>1. i + 1 \in 1 .. Len(s) - 1 /\ i # Len(z)
        BY <1>1, <1>3, <2>1, <2>3
      <4>. QED
        BY <1>3, <2>3, <4>1
    <3>. QED
      BY <3>1, <3>2, <3>3
  <2>4. CASE m < i + 1
    <3>1. z[i] = s[i + 1] /\ ny[s[i + 1]] = nx[s[i + 1]]
      <4>1. ~(i < m) /\ ~((i + 1) + 1 = m)
        BY <1>1, <2>1, <2>4
      <4>. QED
        BY <1>3, <2>1, <4>1
    <3>2. nx[s[i + 1]] = IF i + 1 = Len(s) THEN Empty ELSE s[(i + 1) + 1]
      BY <1>4, <2>1
    <3>3. i + 1 = Len(s) <=> i = Len(z)
      BY <1>1, <1>3, <2>1
    <3>4. i # Len(z) => z[i + 1] = s[(i + 1) + 1]
      <4>1. i # Len(z) => i + 1 \in 1 .. Len(s) - 1 /\ ~(i + 1 < m)
        BY <1>1, <1>3, <2>1, <2>4
      <4>. QED
        BY <1>3, <4>1
    <3>. QED
      BY <3>1, <3>2, <3>3, <3>4
  <2>. QED
    BY <1>1, <2>1, <2>2, <2>3, <2>4
<1>7. ASSUME NEW i \in 1 .. Len(z), NEW j \in 1 .. Len(z), z[i] = z[j]
      PROVE  i = j
  <2>1. /\ i \in 1 .. Len(s) - 1 /\ i \in 1 .. Len(s) /\ i + 1 \in 1 .. Len(s)
        /\ j \in 1 .. Len(s) - 1 /\ j \in 1 .. Len(s) /\ j + 1 \in 1 .. Len(s)
    BY <1>1, <1>3
  <2>2. CASE i < m /\ j < m
    BY <1>3, <1>4, <1>7, <2>1, <2>2
  <2>3. CASE i < m /\ ~(j < m)
    <3>1. i = j + 1
      BY <1>3, <1>4, <1>7, <2>1, <2>3
    <3>. QED
      BY <2>1, <2>3, <3>1
  <2>4. CASE ~(i < m) /\ j < m
    <3>1. i + 1 = j
      BY <1>3, <1>4, <1>7, <2>1, <2>4
    <3>. QED
      BY <2>1, <2>4, <3>1
  <2>5. CASE ~(i < m) /\ ~(j < m)
    <3>1. s[i + 1] = s[j + 1]
      BY <1>3, <1>7, <2>1, <2>5
    <3>2. i + 1 = j + 1
      BY <1>4, <2>1, <3>1
    <3>. QED
      BY <2>1, <3>2
  <2>. QED
    BY <2>2, <2>3, <2>4, <2>5
<1>. QED
  BY <1>5, <1>6, <1>7 DEF IsRun, z

-----------------------------------------------------------------------------
\* Unlinks that take turns: the chains, and where an unlink is in its own.

\* While a thread unlinks, no other thread changes the table.
LEMMA UnlinkAlone ==
    ASSUME Typed, CallInv, AloneInv, UnlinksAlone,
           NEW t \in Threads, Step(t), NEW u \in Threads \ {t}, Unlinking(u)
    PROVE  Quiet(t) /\ ~Unlinking(t)'
<1>1. ~Storing(t) /\ ~Unlinking(t)
  BY DEF CallInv, AloneInv
<1>2. ~(\E k \in Keys : CallUnlink(t, k) \/ CallStore(t, k))
  BY DEF CallUnlink, UnlinkAllowed, CallStore
<1>3. Quiet(t)
  BY <1>1, LinkSteps DEF Create, LinkRow, Publish, UnlinkHead, Release, Storing, Unlinking
<1>4. ~Unlinking(t)'
  <2>1. \/ \E k \in Keys : CallFind(t, k)
        \/ FindBegin(t) \/ FindWalk(t)
    BY <1>1, <1>2, <1>3 DEF Quiet, UnlinkBegin, UnlinkWalk, Unlinking
  <2>2. \A k \in Keys : CallFind(t, k) => pc'[t] = "start"
    BY DEF CallFind, Call, Typed
  <2>3. FindBegin(t) \/ FindWalk(t) => pc'[t] \in {"search", "idle", "fault"}
    BY DEF FindBegin, FindWalk, Move, Finish, Typed
  <2>. QED
    BY <2>1, <2>2, <2>3 DEF Unlinking
<1>. QED
  BY <1>3, <1>4

LEMMA AloneStep ==
    ASSUME Typed, CallInv, AloneInv, UnlinksAlone, NEW t \in Threads, Step(t)
    PROVE  AloneInv'
<1>1. \A u \in Threads \ {t} : Unlinking(u)' <=> Unlinking(u)
  BY OthersKept DEF Unlinking
<1>2. \A u \in Threads \ {t} : Unlinking(u) => ~Unlinking(t)'
  BY UnlinkAlone
<1>. QED
  BY <1>1, <1>2 DEF AloneInv

\* The row an unlink takes out of its bucket.
Taken(t, m) ==
    /\ m \in 1 .. Len(linked[HashOf[key[t]]])
    /\ row[t] = linked[HashOf[key[t]]][m] /\ keyOf[row[t]] = key[t]
    /\ \A j \in 1 .. Len(linked[HashOf[key[t]]]) :
         j < m => keyOf[linked[HashOf[key[t]]][j]] # key[t]

LEMMA TakenIs ==
    ASSUME BaseInv, ChainInv, UnlinkInv, NEW t \in Threads, UnlinkHead(t) \/ Release(t)
    PROVE  /\ key[t] \in Keys /\ HashOf[key[t]] \in Buckets
           /\ linked[HashOf[key[t]]] \in Seq(Rows)
           /\ \E m \in 1 .. Len(linked[HashOf[key[t]]]) :
                /\ Taken(t, m)
                /\ m = 1 <=> UnlinkHead(t)
                /\ m = 1 => other[t] = next[linked[HashOf[key[t]]][1]]
                /\ m # 1 => /\ m - 1 \in 1 .. Len(linked[HashOf[key[t]]])
                            /\ other[t] = linked[HashOf[key[t]]][m - 1]
<1> DEFINE s == linked[HashOf[key[t]]]
<1>1. /\ key[t] \in Keys /\ HashOf[key[t]] \in Buckets /\ s \in Seq(Rows)
      /\ Len(s) \in Nat /\ \A i \in 1 .. Len(s) : s[i] \in Rows
  <2>1. pc[t] \in {"unhead", "release"}
    BY DEF UnlinkHead, Release
  <2>2. key[t] \in Keys /\ HashOf[key[t]] \in Buckets
    BY <2>1 DEF BaseInv, CallInv
  <2>3. s \in Seq(Rows)
    BY <2>2 DEF BaseInv, Typed
  <2>. QED
    BY <2>2, <2>3, ElementsOf
<1>2. UnlinkAt(t, s)
  BY DEF UnlinkInv, UnlinkHead, Release, Unlinking
<1>. HIDE DEF s
<1>3. CASE UnlinkHead(t)
  <2>1. pc[t] = "unhead"
    BY <1>3 DEF UnlinkHead
  <2>2. s # <<>> /\ row[t] = s[1] /\ keyOf[s[1]] = key[t] /\ other[t] = next[s[1]]
    BY <1>2, <2>1 DEF UnlinkAt
  <2>3. 1 \in 1 .. Len(s) /\ \A j \in 1 .. Len(s) : ~(j < 1)
    <3>1. \A q \in Seq(Rows) : q # <<>> => Len(q) # 0
      OBVIOUS
    <3>. QED
      BY <1>1, <2>2, <3>1
  <2>. QED
    BY <1>1, <1>3, <2>2, <2>3 DEF Taken, s
<1>4. CASE Release(t) /\ ~UnlinkHead(t)
  <2>1. pc[t] = "release"
    BY <1>4 DEF Release
  <2>2. PICK i \in 1 .. Len(s) :
          /\ other[t] = s[i]
          /\ row[t] = IF i = Len(s) THEN Empty ELSE s[i + 1]
          /\ \A j \in 1 .. i : keyOf[s[j]] # key[t]
    BY <1>2, <2>1 DEF UnlinkAt
  <2>3. keyOf[row[t]] = key[t] /\ row[t] # Empty
    BY <1>2, <2>1 DEF UnlinkAt, BaseInv, ReachInv
  <2>4. i # Len(s) /\ i + 1 \in 1 .. Len(s) /\ i + 1 # 1 /\ (i + 1) - 1 = i
    BY <1>1, <2>2, <2>3
  <2>5. \A j \in 1 .. Len(s) : j < i + 1 => j \in 1 .. i
    BY <1>1
  <2>6. Taken(t, i + 1)
    BY <2>2, <2>3, <2>4, <2>5 DEF Taken, s
  <2>. QED
    BY <1>1, <1>4, <2>2, <2>4, <2>6 DEF s
<1>. QED
  BY <1>3, <1>4

LEMMA TakenLeaves ==
    ASSUME BaseInv, ChainInv, NEW t \in Threads, pc[t] \in {"unhead", "release"}, Removed(t),
           NEW m, Taken(t, m)
    PROVE  \A b \in Buckets :
             linked'[b] = IF b = HashOf[key[t]] THEN RemoveAt(linked[b], m) ELSE linked[b]
<1> DEFINE c == HashOf[key[t]]
<1>1. c \in Buckets /\ linked[c] \in Seq(Rows)
  BY DEF BaseInv, CallInv, Typed
<1>2. RemoveFirst(linked[c], linked[c][m]) = RemoveAt(linked[c], m)
  <2>1. \A j \in 1 .. Len(linked[c]) : linked[c][j] = linked[c][m] => j = m
    BY <1>1 DEF ChainInv, IsRun, Taken
  <2>. QED
    BY <1>1, <2>1, RemoveFirstIs DEF Taken
<1>3. \A b \in Buckets :
        linked'[b] = IF b = c THEN RemoveFirst(linked[b], row[t]) ELSE linked[b]
  BY <1>1 DEF Removed, BaseInv, Typed
<1>. QED
  BY <1>2, <1>3 DEF Taken

LEMMA ChainStep ==
    ASSUME BaseInv, ChainInv, UnlinkInv, NEW t \in Threads, Step(t)
    PROVE  ChainInv'
<1>0. Typed /\ CallInv /\ CountInv /\ FreshInv /\ ReachInv
  BY DEF BaseInv
<1>1. \A b \in Buckets :
        /\ linked[b] \in Seq(Rows) /\ Len(linked[b]) \in Nat
        /\ \A i \in 1 .. Len(linked[b]) : linked[b][i] \in Rows /\ IsLinked(linked[b][i])
  BY <1>0, ElementsOf DEF Typed, ReachInv
<1>2. CASE Quiet(t)
  BY <1>2 DEF Quiet, ChainInv
<1>3. CASE Create(t)
  <2>1. /\ UNCHANGED <<header, linked>> /\ count + 1 \in Rows
        /\ next' = [next EXCEPT ![count + 1] = Unset]
        /\ keyOf' = [keyOf EXCEPT ![count + 1] = key[t]]
    BY <1>0, <1>3, CountRoom DEF Create
  <2>2. next[count + 1] = Unset
    BY <1>0, <2>1 DEF FreshInv, Typed
  <2>3. \A b \in Buckets : \A i \in 1 .. Len(linked[b]) : linked[b][i] # count + 1
    <3>1. \A p \in Rows : IsLinked(p) => p # count + 1
      BY <2>2 DEF IsLinked
    <3>. QED
      BY <1>1, <3>1
  <2>4. next' = next
    BY <1>0, <2>1, <2>2 DEF Typed
  <2>5. \A b \in Buckets : \A i \in 1 .. Len(linked[b]) :
          keyOf'[linked[b][i]] = keyOf[linked[b][i]]
    BY <1>0, <1>1, <2>1, <2>3 DEF Typed
  <2>. QED
    BY <2>1, <2>4, <2>5 DEF ChainInv
<1>4. CASE LinkRow(t)
  <2>1. pc[t] = "created" /\ UNCHANGED <<header, keyOf, linked>>
    BY <1>4 DEF LinkRow
  <2>2. row[t] \in Rows /\ ~InLists(row[t])
    BY <2>1, FreshIs DEF IsFresh
  <2>3. \A p \in Rows : p # row[t] => next'[p] = next[p]
    BY <1>0, <1>4, <2>2 DEF LinkRow, Typed
  <2>4. \A b \in Buckets : \A i \in 1 .. Len(linked[b]) :
          next'[linked[b][i]] = next[linked[b][i]]
    BY <1>1, <2>2, <2>3 DEF InLists
  <2>5. \A b \in Buckets : IsRun(header[b], linked[b], next')
    BY <2>4, RunKept DEF ChainInv
  <2>. QED
    BY <2>1, <2>5 DEF ChainInv
<1>5. CASE Publish(t)
  <2> DEFINE c == HashOf[key[t]]
  <2>1. pc[t] = "publish" /\ UNCHANGED <<keyOf, next>>
    BY <1>5 DEF Publish
  <2>2. /\ row[t] \in Rows /\ ~InLists(row[t]) /\ next[row[t]] = header[c]
        /\ key[t] \in Keys /\ c \in Buckets /\ keyOf[row[t]] = key[t]
    BY <2>1, FreshIs DEF IsFresh
  <2>3. \A b \in Buckets :
          /\ header'[b] = IF b = c THEN row[t] ELSE header[b]
          /\ linked'[b] = IF b = c THEN <<row[t]>> \o linked[b] ELSE linked[b]
    BY <1>0, <1>5, <2>2 DEF Publish, Typed
  <2>4. ASSUME NEW b \in Buckets
        PROVE  /\ IsRun(header'[b], linked'[b], next')
               /\ \A i \in 1 .. Len(linked'[b]) :
                    keyOf[linked'[b][i]] \in Keys /\ HashOf[keyOf[linked'[b][i]]] = b
    <3>1. CASE b = c
      <4>1. header'[b] = row[t] /\ linked'[b] = <<row[t]>> \o linked[b]
        BY <2>3, <3>1
      <4>2. IsRun(row[t], <<row[t]>> \o linked[b], next)
        <5>1. IsRun(header[b], linked[b], next) /\ linked[b] \in Seq(Rows)
          BY <1>1 DEF ChainInv
        <5>2. next[row[t]] = header[b] /\ \A i \in 1 .. Len(linked[b]) : linked[b][i] # row[t]
          BY <2>2, <3>1 DEF InLists
        <5>. QED
          BY <2>2, <5>1, <5>2, RunPut
      <4>3. /\ Len(linked'[b]) = Len(linked[b]) + 1 /\ linked'[b][1] = row[t]
            /\ \A i \in 1 .. Len(linked[b]) : linked'[b][i + 1] = linked[b][i]
        <5>1. linked[b] \in Seq(Rows)
          BY <1>1
        <5>. QED
          BY <2>2, <4>1, <5>1, PutIs
      <4>4. ASSUME NEW i \in 1 .. Len(linked'[b])
            PROVE  keyOf[linked'[b][i]] \in Keys /\ HashOf[keyOf[linked'[b][i]]] = b
        <5>1. CASE i = 1
          BY <2>2, <3>1, <4>3, <5>1
        <5>2. CASE i # 1
          <6>1. i - 1 \in 1 .. Len(linked[b]) /\ (i - 1) + 1 = i
            BY <1>1, <4>3, <5>2
          <6>2. linked'[b][i] = linked[b][i - 1]
            BY <4>3, <6>1
          <6>. QED
            BY <6>1, <6>2 DEF ChainInv
        <5>. QED
          BY <5>1, <5>2
      <4>. QED
        BY <2>1, <4>1, <4>2, <4>4
    <3>2. CASE b # c
      BY <2>1, <2>3, <3>2 DEF ChainInv
    <3>. QED
      BY <3>1, <3>2
  <2>. QED
    BY <2>1, <2>4 DEF ChainInv
<1>6. CASE UnlinkHead(t) \/ Release(t)
  <2> DEFINE c == HashOf[key[t]]
  <2>1. PICK m \in 1 .. Len(linked[c]) :
          /\ Taken(t, m)
          /\ m = 1 <=> UnlinkHead(t)
          /\ m = 1 => other[t] = next[linked[c][1]]
          /\ m # 1 => m - 1 \in 1 .. Len(linked[c]) /\ other[t] = linked[c][m - 1]
    BY <1>6, TakenIs
  <2>2. key[t] \in Keys /\ c \in Buckets /\ keyOf' = keyOf /\ Removed(t)
        /\ pc[t] \in {"unhead", "release"}
    BY <1>6, TakenIs DEF UnlinkHead, Release
  <2>3. \A b \in Buckets :
          linked'[b] = IF b = c THEN RemoveAt(linked[b], m) ELSE linked[b]
    BY <2>1, <2>2, TakenLeaves
  <2>4. \A b \in Buckets :
          header'[b] = IF b = c /\ m = 1 THEN next[linked[c][1]] ELSE header[b]
    <3>1. CASE m = 1
      <4>1. header' = [header EXCEPT ![c] = next[linked[c][1]]]
        BY <2>1, <3>1 DEF UnlinkHead
      <4>. QED
        BY <1>0, <2>2, <3>1, <4>1 DEF Typed
    <3>2. CASE m # 1
      <4>1. header' = header
        BY <1>6, <2>1, <3>2 DEF Release
      <4>. QED
        BY <3>2, <4>1
    <3>. QED
      BY <3>1, <3>2
  <2>5. \A p \in Rows :
          next'[p] = IF m # 1 /\ p = linked[c][m - 1] THEN next[linked[c][m]] ELSE next[p]
    <3>1. CASE m = 1
      BY <2>1, <3>1 DEF UnlinkHead
    <3>2. CASE m # 1
      <4>1. next' = [next EXCEPT ![linked[c][m - 1]] = next[linked[c][m]]]
        BY <1>6, <2>1, <3>2 DEF Release, Taken
      <4>2. linked[c][m - 1] \in Rows
        BY <1>1, <2>1, <2>2, <3>2
      <4>. QED
        BY <1>0, <3>2, <4>1, <4>2 DEF Typed
    <3>. QED
      BY <3>1, <3>2
  <2>6. IsRun(header'[c], linked'[c], next')
    <3> DEFINE s == linked[c]
               g == header'[c]
    <3>1. IsRun(header[c], s, next) /\ s \in Seq(Rows) /\ m \in 1 .. Len(s)
      BY <1>1, <2>2 DEF ChainInv
    <3>2. g = IF m = 1 THEN next[s[1]] ELSE header[c]
      BY <2>2, <2>4
    <3>3. ASSUME NEW i \in 1 .. Len(s)
          PROVE  next'[s[i]] = IF i + 1 = m THEN next[s[m]] ELSE next[s[i]]
      <4>1. s[i] \in Rows
        BY <1>1, <2>2
      <4>2. (m # 1 /\ s[i] = s[m - 1]) <=> i + 1 = m
        <5>1. m # 1 /\ s[i] = s[m - 1] => i = m - 1
          BY <2>1, <3>1 DEF IsRun
        <5>2. (i = m - 1 <=> i + 1 = m) /\ (i + 1 = m => m # 1)
          BY <1>1, <2>2
        <5>. QED
          BY <5>1, <5>2
      <4>. QED
        BY <2>5, <4>1, <4>2
    <3>4. linked'[c] = RemoveAt(s, m)
      BY <2>2, <2>3
    <3>. HIDE DEF s, g
    <3>5. IsRun(g, RemoveAt(s, m), next')
      BY <3>1, <3>2, <3>3, RunDrop
    <3>. QED
      BY <3>4, <3>5 DEF g
  <2>7. ASSUME NEW b \in Buckets, b # c
        PROVE  IsRun(header'[b], linked'[b], next')
    <3>1. IsRun(header[b], linked[b], next) /\ header'[b] = header[b] /\ linked'[b] = linked[b]
      BY <2>3, <2>4, <2>7 DEF ChainInv
    <3>2. m # 1 => HashOf[keyOf[linked[c][m - 1]]] = c
      BY <2>1, <2>2 DEF ChainInv
    <3>3. \A i \in 1 .. Len(linked[b]) :
            linked[b][i] \in Rows /\ HashOf[keyOf[linked[b][i]]] = b
      BY <1>1 DEF ChainInv
    <3>4. \A i \in 1 .. Len(linked[b]) : next'[linked[b][i]] = next[linked[b][i]]
      BY <2>5, <2>7, <3>2, <3>3
    <3>. QED
      BY <3>1, <3>4, RunKept
  <2>8. ASSUME NEW b \in Buckets, NEW i \in 1 .. Len(linked'[b])
        PROVE  \E j \in 1 .. Len(linked[b]) : linked'[b][i] = linked[b][j]
    <3>1. CASE b = c
      <4>1. /\ linked'[b] = RemoveAt(linked[b], m) /\ Len(linked'[b]) = Len(linked[b]) - 1
            /\ \A j \in 1 .. Len(linked[b]) - 1 :
                 linked'[b][j] = IF j < m THEN linked[b][j] ELSE linked[b][j + 1]
        <5>1. linked[b] \in Seq(Rows) /\ m \in 1 .. Len(linked[b])
          BY <1>1, <3>1
        <5>2. linked'[b] = RemoveAt(linked[b], m)
          BY <2>3, <3>1
        <5>3. /\ Len(RemoveAt(linked[b], m)) = Len(linked[b]) - 1
              /\ \A j \in 1 .. Len(linked[b]) - 1 :
                   RemoveAt(linked[b], m)[j] = IF j < m THEN linked[b][j] ELSE linked[b][j + 1]
          BY <5>1, RemoveAtIs
        <5>. QED
          BY <5>2, <5>3
      <4>2. i \in 1 .. Len(linked[b]) /\ i + 1 \in 1 .. Len(linked[b])
        BY <1>1, <4>1
      <4>. QED
        BY <2>8, <4>1, <4>2
    <3>2. CASE b # c
      BY <2>3, <2>8, <3>2
    <3>. QED
      BY <3>1, <3>2
  <2>9. \A b \in Buckets : IsRun(header[b], linked[b], next)'
    BY <2>6, <2>7
  <2>10. ASSUME NEW b \in Buckets, NEW i \in 1 .. Len(linked'[b])
         PROVE  keyOf'[linked'[b][i]] \in Keys /\ HashOf[keyOf'[linked'[b][i]]] = b
    <3>1. PICK j \in 1 .. Len(linked[b]) : linked'[b][i] = linked[b][j]
      BY <2>8
    <3>2. keyOf[linked[b][j]] \in Keys /\ HashOf[keyOf[linked[b][j]]] = b
      BY DEF ChainInv
    <3>. QED
      BY <2>2, <3>1, <3>2
  <2>. QED
    BY <2>9, <2>10 DEF ChainInv
<1>. QED
  BY <1>2, <1>3, <1>4, <1>5, <1>6, LinkSteps
LEMMA UnlinkStep ==
    ASSUME BaseInv, AloneInv, ChainInv, UnlinkInv, UnlinksAlone,
           NEW t \in Threads, Step(t)
    PROVE  UnlinkInv'
<1>0. Typed /\ CallInv /\ CountInv /\ FreshInv /\ ReachInv
  BY DEF BaseInv
<1>1. ASSUME NEW u \in Threads \ {t}, Unlinking(u)'
      PROVE  UnlinkAt(u, linked[HashOf[key[u]]])'
  <2>1. /\ pc'[u] = pc[u] /\ key'[u] = key[u]
        /\ row'[u] = row[u] /\ other'[u] = other[u]
    BY <1>0, OthersKept
  <2>2. Unlinking(u)
    BY <1>1, <2>1 DEF Unlinking
  <2>3. UNCHANGED <<keyOf, next, linked>>
    BY <1>0, <2>2, UnlinkAlone DEF Quiet
  <2>4. UnlinkAt(u, linked[HashOf[key[u]]])
    BY <2>2 DEF UnlinkInv
  <2>. QED
    BY <2>1, <2>3, <2>4 DEF UnlinkAt
<1>2. ASSUME Unlinking(t)'
      PROVE  UnlinkAt(t, linked[HashOf[key[t]]])'
  <2> DEFINE c == HashOf[key[t]]
             s == linked[c]
  <2>1. ASSUME NEW k \in Keys, CallStore(t, k) \/ CallFind(t, k) PROVE FALSE
    BY <1>0, <1>2, <2>1 DEF CallStore, CallFind, Call, Unlinking, Typed
  <2>2. ASSUME NEW k \in Keys, CallUnlink(t, k) PROVE UnlinkAt(t, linked[HashOf[key[t]]])'
    <3>1. pc'[t] = "begin" /\ key'[t] = k /\ linked' = linked /\ header[HashOf[k]] # Empty
      BY <1>0, <2>2 DEF CallUnlink, Call, Typed
    <3>2. linked[HashOf[k]] # <<>>
      BY <3>1 DEF ChainInv, IsRun
    <3>. QED
      BY <3>1, <3>2 DEF UnlinkAt
  <2>3. ASSUME UnlinkBegin(t) \/ UnlinkWalk(t)
        PROVE  /\ UnlinkAt(t, s) /\ s \in Seq(Rows) /\ Len(s) \in Nat
               /\ header[c] = IF s = <<>> THEN Empty ELSE s[1]
               /\ s # <<>> => 1 \in 1 .. Len(s)
               /\ \A i \in 1 .. Len(s) :
                    /\ s[i] \in Rows
                    /\ next[s[i]] = IF i = Len(s) THEN Empty ELSE s[i + 1]
    <3>1. Unlinking(t) /\ key[t] \in Keys /\ c \in Buckets
      BY <1>0, <2>3 DEF UnlinkBegin, UnlinkWalk, Unlinking, CallInv
    <3>2. s \in Seq(Rows)
      BY <1>0, <3>1 DEF Typed
    <3>3. \A q \in Seq(Rows) : q # <<>> => 1 \in 1 .. Len(q)
      OBVIOUS
    <3>4. IsRun(header[c], s, next)
      BY <3>1 DEF ChainInv
    <3>5. UnlinkAt(t, s)
      BY <3>1 DEF UnlinkInv
    <3>. QED
      BY <3>2, <3>3, <3>4, <3>5, ElementsOf DEF IsRun
  <2>4. UnlinkBegin(t) \/ UnlinkWalk(t) => UNCHANGED <<header, keyOf, next, linked>>
    BY DEF UnlinkBegin, UnlinkWalk
  <2>5. ASSUME NEW place, NEW p, NEW o, Move(t, place, p, o)
        PROVE  pc'[t] = place /\ row'[t] = p /\ other'[t] = o
    BY <1>0, <2>5 DEF Typed, Move
  <2>6. CASE UnlinkBegin(t)
    <3>1. pc[t] = "begin" /\ key' = key /\ s # <<>> /\ header[c] = s[1]
      BY <2>3, <2>6 DEF UnlinkBegin, UnlinkAt
    <3>2. 1 \in 1 .. Len(s) /\ s[1] # Empty
      BY <2>3, <2>6, <3>1
    <3>3. \/ keyOf[s[1]] = key[t] /\ Move(t, "unhead", s[1], next[s[1]])
          \/ keyOf[s[1]] # key[t] /\ Move(t, "walk", next[s[1]], s[1])
      BY <2>6, <3>1, <3>2 DEF UnlinkBegin
    <3>0. linked'[HashOf[key'[t]]] = s /\ keyOf' = keyOf /\ next' = next /\ key'[t] = key[t]
      BY <2>4, <2>6, <3>1
    <3>4. CASE keyOf[s[1]] = key[t] /\ Move(t, "unhead", s[1], next[s[1]])
      <4>1. pc'[t] = "unhead" /\ row'[t] = s[1] /\ other'[t] = next[s[1]]
        BY <2>5, <3>4
      <4>. HIDE DEF s, c
      <4>. QED
        BY <3>0, <3>1, <3>4, <4>1 DEF UnlinkAt
    <3>5. CASE keyOf[s[1]] # key[t] /\ Move(t, "walk", next[s[1]], s[1])
      <4>1. pc'[t] = "walk" /\ row'[t] = next[s[1]] /\ other'[t] = s[1]
        BY <2>5, <3>5
      <4>2. next[s[1]] = IF 1 = Len(s) THEN Empty ELSE s[1 + 1]
        BY <2>3, <2>6, <3>2
      <4>3. \A j \in 1 .. 1 : keyOf[s[j]] # key[t]
        BY <3>5
      <4>4. \E i \in 1 .. Len(s) :
              /\ other'[t] = s[i]
              /\ row'[t] = IF i = Len(s) THEN Empty ELSE s[i + 1]
              /\ \A j \in 1 .. i : keyOf[s[j]] # key[t]
        BY <3>2, <4>1, <4>2, <4>3
      <4>. HIDE DEF s, c
      <4>. QED
        BY <3>0, <4>1, <4>4 DEF UnlinkAt
    <3>. QED
      BY <3>3, <3>4, <3>5
  <2>7. CASE UnlinkWalk(t)
    <3>1. PICK i \in 1 .. Len(s) :
            /\ other[t] = s[i]
            /\ row[t] = IF i = Len(s) THEN Empty ELSE s[i + 1]
            /\ \A j \in 1 .. i : keyOf[s[j]] # key[t]
      BY <2>3, <2>7 DEF UnlinkWalk, UnlinkAt
    <3>2. /\ pc'[t] # "idle" /\ row[t] # Empty
          /\ \/ /\ Move(t, "release", row[t], other[t]) /\ key' = key
                /\ keyOf[row[t]] = key[t]
             \/ /\ Move(t, "walk", next[row[t]], row[t]) /\ key' = key
                /\ keyOf[row[t]] # key[t]
      <4>1. Finish(t) => pc'[t] = "idle"
        BY <2>5 DEF Finish
      <4>2. pc'[t] # "idle"
        BY <1>2 DEF Unlinking
      <4>. QED
        BY <2>7, <4>1, <4>2 DEF UnlinkWalk
    <3>0. /\ linked'[HashOf[key'[t]]] = s /\ keyOf' = keyOf /\ next' = next
          /\ key'[t] = key[t]
      BY <2>4, <2>7, <3>2
    <3>3. i # Len(s) /\ i + 1 \in 1 .. Len(s) /\ row[t] = s[i + 1]
      <4>1. i # Len(s) /\ row[t] = s[i + 1]
        BY <3>1, <3>2
      <4>2. Len(s) \in Nat
        BY <2>3, <2>7
      <4>. HIDE DEF s
      <4>. QED
        BY <4>1, <4>2
    <3>4. CASE Move(t, "release", row[t], other[t]) /\ keyOf[row[t]] = key[t]
      <4>1. pc'[t] = "release" /\ row'[t] = row[t] /\ other'[t] = other[t]
        BY <2>5, <3>4
      <4>. HIDE DEF s, c
      <4>. QED
        BY <3>0, <3>1, <3>4, <4>1 DEF UnlinkAt
    <3>5. CASE Move(t, "walk", next[row[t]], row[t]) /\ keyOf[row[t]] # key[t]
      <4>1. pc'[t] = "walk" /\ row'[t] = next[row[t]] /\ other'[t] = row[t]
        BY <2>5, <3>5
      <4>2. next[s[i + 1]] = IF i + 1 = Len(s) THEN Empty ELSE s[(i + 1) + 1]
        BY <2>3, <2>7, <3>3
      <4>3. \A j \in 1 .. i + 1 : j = i + 1 \/ j \in 1 .. i
        BY <2>3, <2>7
      <4>4. \A j \in 1 .. i + 1 : keyOf[s[j]] # key[t]
        BY <3>1, <3>3, <3>5, <4>3
      <4>5. \E n \in 1 .. Len(s) :
              /\ other'[t] = s[n]
              /\ row'[t] = IF n = Len(s) THEN Empty ELSE s[n + 1]
              /\ \A j \in 1 .. n : keyOf[s[j]] # key[t]
        BY <3>3, <4>1, <4>2, <4>4
      <4>. HIDE DEF s, c
      <4>. QED
        BY <3>0, <4>1, <4>5 DEF UnlinkAt
    <3>. QED
      BY <3>2, <3>4, <3>5
  <2>8. CASE ~UnlinkBegin(t) /\ ~UnlinkWalk(t)
            /\ ~ \E k \in Keys : CallStore(t, k) \/ CallUnlink(t, k) \/ CallFind(t, k)
    <3>1. pc'[t] \in {"begin", "unhead", "walk", "release"}
      BY <1>2 DEF Unlinking
    <3>2. pc[t] = "idle" \/ Unlinking(t)
      BY <1>0, <3>1, Moves DEF Finding
    <3>3. UnlinkHead(t) \/ Release(t)
      BY <2>8, <3>2, Steps DEF Create, LinkRow, Publish, FindBegin, FindWalk, Unlinking
    <3>. QED
      BY <1>0, <3>1, <3>3 DEF UnlinkHead, Release, Removed, Finish, Move, Typed
  <2>. QED
    BY <2>1, <2>2, <2>6, <2>7, <2>8
<1>. QED
  BY <1>1, <1>2 DEF UnlinkInv
-----------------------------------------------------------------------------
\* Walks: what the first row of a key is from a place of a chain on.

At(s, m) == IF m = Len(s) + 1 THEN Empty ELSE s[m]

IsNewestFrom(s, k, ko, m, r) ==
    \/ /\ r = Empty
       /\ \A i \in m .. Len(s) : ko[s[i]] # k
    \/ \E i \in m .. Len(s) :
         /\ r = s[i] /\ ko[s[i]] = k
         /\ \A j \in m .. i - 1 : ko[s[j]] # k

\* f is the first row of key k, from each row of s on.
FirstIn(s, nx, ko, k, f) ==
    /\ f[Empty] = Empty
    /\ \A i \in 1 .. Len(s) :
         f[s[i]] = IF ko[s[i]] = k THEN s[i] ELSE f[nx[s[i]]]

LEMMA FirstFrom ==
    ASSUME NEW s \in Seq(Rows), NEW h, NEW nx, NEW ko, NEW k, NEW f,
           IsRun(h, s, nx), FirstIn(s, nx, ko, k, f), NEW m \in 1 .. Len(s) + 1
    PROVE  IsNewestFrom(s, k, ko, m, f[At(s, m)])
<1> DEFINE N == Len(s) + 1
           P(i) == IsNewestFrom(s, k, ko, i, f[At(s, i)])
           T == {d \in Nat : d < N /\ ~P(N - d)}
<1>1. Len(s) \in Nat /\ N \in Nat /\ m <= N
  BY ElementsOf
<1>2. P(N)
  <2>1. \A i \in N .. Len(s) : FALSE
    BY <1>1
  <2>. QED
    BY <2>1 DEF At, IsNewestFrom, FirstIn
<1>3. ASSUME NEW i \in 1 .. Len(s), P(i + 1)
      PROVE  P(i)
  <2>0. i # Len(s) + 1 /\ At(s, i) = s[i]
    BY <1>1 DEF At
  <2>1. CASE ko[s[i]] = k
    <3>1. f[s[i]] = s[i] /\ i \in i .. Len(s) /\ \A j \in i .. i - 1 : FALSE
      BY <1>1, <2>1 DEF FirstIn
    <3>. QED
      BY <2>0, <2>1, <3>1 DEF IsNewestFrom
  <2>2. CASE ko[s[i]] # k
    <3>1. nx[s[i]] = At(s, i + 1)
      BY <1>1 DEF At, IsRun
    <3>2. f[s[i]] = f[At(s, i + 1)]
      BY <2>2, <3>1 DEF FirstIn
    <3>3. IsNewestFrom(s, k, ko, i + 1, f[s[i]])
      BY <1>3, <3>2
    <3>4. \A n : \A j \in i .. n : j = i \/ j \in i + 1 .. n
      BY <1>1
    <3>5. \A j \in i + 1 .. Len(s) : j \in i .. Len(s)
      BY <1>1
    <3>. HIDE DEF P
    <3>. QED
      BY <2>0, <2>2, <3>3, <3>4, <3>5 DEF IsNewestFrom, P
  <2>. QED
    BY <2>1, <2>2
<1>. HIDE DEF P, N
<1>4. T = {}
  <2>1. SUFFICES ASSUME T # {} PROVE FALSE
    OBVIOUS
  <2>2. PICK d \in T : \A n \in T : d <= n
    <3>1. T \in SUBSET Nat
      OBVIOUS
    <3>. HIDE DEF T
    <3>. QED
      BY <2>1, <3>1, Least
  <2>3. d \in Nat /\ d < N /\ ~P(N - d)
    OBVIOUS
  <2>4. d # 0
    BY <1>1, <1>2, <2>3
  <2>5. d - 1 \in Nat /\ d - 1 < N /\ ~(d <= d - 1)
    BY <1>1, <2>3, <2>4
  <2>6. P(N - (d - 1))
    BY <2>2, <2>5
  <2>7. N - d \in 1 .. Len(s) /\ N - (d - 1) = (N - d) + 1
    BY <1>1, <2>3, <2>4 DEF N
  <2>. QED
    BY <1>3, <2>3, <2>6, <2>7
<1>5. N - m \in Nat /\ N - m < N /\ N - (N - m) = m
  BY <1>1
<1>6. P(m)
  BY <1>4, <1>5
<1>. QED
  BY <1>6 DEF P

\* From the header of a bucket on that is the newest row of the key.
LEMMA FirstOfBucket ==
    ASSUME NEW s \in Seq(Rows), NEW h, NEW nx, NEW ko, NEW k, NEW f,
           IsRun(h, s, nx), FirstIn(s, nx, ko, k, f)
    PROVE  IsNewest(s, k, ko, f[h])
<1>1. Len(s) \in Nat /\ (s = <<>> <=> Len(s) = 0)
  OBVIOUS
<1>2. 1 \in 1 .. Len(s) + 1
  BY <1>1
<1>3. h = At(s, 1)
  <2>1. s = <<>> <=> 1 = Len(s) + 1
    BY <1>1
  <2>. QED
    BY <2>1 DEF IsRun, At
<1>4. IsNewestFrom(s, k, ko, 1, f[At(s, 1)])
  BY <1>2, FirstFrom
<1>. QED
  BY <1>3, <1>4 DEF IsNewestFrom, IsNewest

\* Where the newest row of a key goes, the first behind it is the newest.
LEMMA NewestBehind ==
    ASSUME NEW s \in Seq(Rows), NEW k, NEW ko, NEW r, NEW m \in 1 .. Len(s),
           \A j \in 1 .. Len(s) : j < m => ko[s[j]] # k,
           IsNewestFrom(s, k, ko, m + 1, r)
    PROVE  IsNewest(RemoveAt(s, m), k, ko, r)
<1> DEFINE z == RemoveAt(s, m)
<1>1. Len(s) \in Nat
  BY ElementsOf
<1>2. /\ Len(z) = Len(s) - 1
      /\ \A i \in 1 .. Len(s) - 1 : z[i] = IF i < m THEN s[i] ELSE s[i + 1]
  BY RemoveAtIs
<1>. HIDE DEF z
<1>3. \A i \in 1 .. Len(z) :
        \/ i \in 1 .. Len(s) /\ i < m /\ z[i] = s[i]
        \/ i + 1 \in m + 1 .. Len(s) /\ ~(i < m) /\ z[i] = s[i + 1]
  BY <1>1, <1>2
<1>4. CASE r = Empty /\ \A i \in m + 1 .. Len(s) : ko[s[i]] # k
  BY <1>3, <1>4 DEF IsNewest, z
<1>5. ASSUME NEW i \in m + 1 .. Len(s), r = s[i], ko[s[i]] = k,
             \A j \in m + 1 .. i - 1 : ko[s[j]] # k
      PROVE  IsNewest(z, k, ko, r)
  <2>1. i - 1 \in 1 .. Len(z) /\ ~(i - 1 < m) /\ (i - 1) + 1 = i
    BY <1>1, <1>2
  <2>2. z[i - 1] = s[i]
    BY <1>3, <2>1
  <2>3. ASSUME NEW j \in 1 .. (i - 1) - 1 PROVE ko[z[j]] # k
    <3>1. j \in 1 .. Len(z)
      BY <1>1, <1>2
    <3>2. j + 1 \in m + 1 .. Len(s) => j + 1 \in m + 1 .. i - 1
      BY <1>1
    <3>. QED
      BY <1>3, <1>5, <3>1, <3>2
  <2>. QED
    BY <1>5, <2>1, <2>2, <2>3 DEF IsNewest
<1>. QED
  BY <1>4, <1>5 DEF IsNewestFrom, z
-----------------------------------------------------------------------------
\* Walks: what a step does to what lies before them.

\* The finds under way when the chains stay: each is where it was, or goes on.
LEMMA FindsGoOn ==
    ASSUME BaseInv, ChainInv, NEW first, IsFirst(first), FindInv(first),
           NEW t \in Threads, Quiet(t)
    PROVE  FindInv(first)'
<1>0. Typed /\ CallInv /\ ReachInv /\ Step(t) /\ UNCHANGED <<header, keyOf, next, linked>>
  BY DEF BaseInv, Quiet, Step
<1>1. \A u \in Threads \ {t} :
        pc'[u] = pc[u] /\ key'[u] = key[u] /\ row'[u] = row[u]
  BY <1>0, OthersKept
<1>3. tops' = tops \/ tops' = [tops EXCEPT ![t] = tops'[t]]
  BY <1>0 DEF Quiet, CallStore, CallUnlink, CallFind, UnlinkBegin, UnlinkWalk,
     FindBegin, FindWalk, Typed
<1>4. \A u \in Threads \ {t} : tops'[u] = tops[u]
  BY <1>0, <1>3 DEF Typed
<1>5. ASSUME NEW u \in Threads \ {t}
      PROVE  /\ Finding(u)' =>
                  \A p : IsNewest(linked'[HashOf[key'[u]]], key'[u], keyOf', p) => p \in tops'[u]
             /\ pc'[u] = "search" => first[key'[u]][row'[u]] \in tops'[u]
  <2>1. Finding(u)' =>
          \A p : IsNewest(linked[HashOf[key[u]]], key[u], keyOf, p) => p \in tops[u]
    BY <1>1 DEF FindInv, Finding
  <2>2. pc'[u] = "search" => first[key[u]][row[u]] \in tops[u]
    BY <1>1 DEF FindInv
  <2>. QED
    BY <1>0, <1>1, <1>4, <2>1, <2>2
<1>6. ASSUME Finding(t)'
      PROVE  /\ \A p : IsNewest(linked'[HashOf[key'[t]]], key'[t], keyOf', p) => p \in tops'[t]
             /\ pc'[t] = "search" => first[key'[t]][row'[t]] \in tops'[t]
  <2>0. ASSUME NEW place, NEW p, NEW o, Move(t, place, p, o)
        PROVE  pc'[t] = place /\ row'[t] = p
    BY <1>0, <2>0 DEF Typed, Move
  <2>1. ASSUME NEW k \in Keys, CallFind(t, k)
        PROVE  /\ \A p : IsNewest(linked'[HashOf[key'[t]]], key'[t], keyOf', p) => p \in tops'[t]
               /\ pc'[t] = "search" => first[key'[t]][row'[t]] \in tops'[t]
    <3>1. /\ pc'[t] = "start" /\ key'[t] = k
          /\ tops'[t] = {NewestOf(linked[HashOf[k]], k)}
      BY <1>0, <2>1 DEF CallFind, Call, Typed
    <3>2. linked[HashOf[k]] \in Seq(Rows)
      BY <1>0 DEF Typed
    <3>3. \A p : IsNewest(linked[HashOf[k]], k, keyOf, p) => p = NewestOf(linked[HashOf[k]], k)
      BY <3>2, NewestIs, NewestIsOne
    <3>. QED
      BY <1>0, <3>1, <3>3
  <2>2. ASSUME Finding(t), key'[t] = key[t], tops'[t] = tops[t],
               pc'[t] = "search" => first[key[t]][row'[t]] \in tops[t]
        PROVE  /\ \A p : IsNewest(linked'[HashOf[key'[t]]], key'[t], keyOf', p) => p \in tops'[t]
               /\ pc'[t] = "search" => first[key'[t]][row'[t]] \in tops'[t]
    <3>1. \A p : IsNewest(linked[HashOf[key[t]]], key[t], keyOf, p) => p \in tops[t]
      BY <2>2 DEF FindInv
    <3>. QED
      BY <1>0, <2>2, <3>1
  <2>3. CASE FindBegin(t)
    <3> DEFINE k == key[t]
               s == linked[HashOf[key[t]]]
               h == header[HashOf[key[t]]]
    <3>1. /\ Finding(t) /\ key' = key /\ tops' = tops /\ row'[t] = h
          /\ k \in Keys /\ HashOf[k] \in Buckets
      BY <1>0, <2>0, <2>3 DEF FindBegin, Finding, CallInv
    <3>2. /\ s \in Seq(Rows) /\ IsRun(h, s, next)
          /\ \A i \in 1 .. Len(s) : s[i] \in Rows /\ IsLinked(s[i])
      BY <1>0, <3>1, ElementsOf DEF Typed, ChainInv, ReachInv
    <3>3. FirstIn(s, next, keyOf, k, first[k])
      <4>1. \A p \in Rows : IsLinked(p) =>
              first[k][p] = IF keyOf[p] = k THEN p ELSE first[k][next[p]]
        BY <3>1 DEF IsFirst
      <4>2. first[k][Empty] = Empty
        BY <3>1 DEF IsFirst
      <4>. HIDE DEF k, s, h
      <4>. QED
        BY <3>2, <4>1, <4>2 DEF FirstIn
    <3>4. \A p : IsNewest(s, k, keyOf, p) => p \in tops[t]
      BY <3>1 DEF FindInv
    <3>. HIDE DEF k, s, h
    <3>5. IsNewest(s, k, keyOf, first[k][h])
      BY <3>2, <3>3, FirstOfBucket
    <3>. QED
      BY <2>2, <3>1, <3>4, <3>5 DEF k
  <2>4. CASE FindWalk(t)
    <3>1. pc[t] = "search" /\ key[t] \in Keys /\ first[key[t]][row[t]] \in tops[t]
          /\ IsLinked(row[t])
      BY <1>0, <2>4 DEF FindWalk, FindInv, CallInv, ReachInv
    <3>2. ~Finish(t) /\ ~Move(t, "fault", Empty, Empty)
      BY <1>6, <2>0 DEF Finish, Finding
    <3>3. /\ row[t] # Empty /\ keyOf[row[t]] # key[t]
          /\ row'[t] = next[row[t]] /\ key' = key /\ tops' = tops
      BY <2>0, <2>4, <3>2 DEF FindWalk
    <3>4. row[t] \in Rows
      BY <1>0, <3>3 DEF Typed
    <3>5. first[key[t]][row[t]] = first[key[t]][next[row[t]]]
      BY <3>1, <3>3, <3>4 DEF IsFirst
    <3>6. Finding(t)
      BY <3>1 DEF Finding
    <3>. QED
      BY <2>2, <3>1, <3>3, <3>5, <3>6
  <2>5. CASE ~FindBegin(t) /\ ~FindWalk(t) /\ ~ \E k \in Keys : CallFind(t, k)
    <3>1. \A k \in Keys : CallStore(t, k) \/ CallUnlink(t, k) => ~Finding(t)'
      BY <1>0 DEF CallStore, CallUnlink, Call, Finding, Typed
    <3>2. UnlinkBegin(t) => ~Finding(t)'
      BY <2>0 DEF UnlinkBegin, Finding
    <3>3. UnlinkWalk(t) => ~Finding(t)'
      BY <2>0 DEF UnlinkWalk, Finish, Finding
    <3>. QED
      BY <1>6, <2>5, <3>1, <3>2, <3>3 DEF Quiet
  <2>. QED
    BY <2>1, <2>3, <2>4, <2>5
<1>7. ~Finding(t)' => pc'[t] # "search"
  BY DEF Finding
<1>. QED
  BY <1>5, <1>6, <1>7 DEF FindInv
\* A write to the table beside the finds: each of them may return the newest
\* row as it is after the write.
LEMMA FindsSee ==
    ASSUME BaseInv, NEW first, FindInv(first), NEW t \in Threads, Step(t), Observe,
           ~Finding(t), pc'[t] = "idle", linked' \in [Buckets -> Seq(Rows)], keyOf' = keyOf
    PROVE  \A u \in Threads : Finding(u)' =>
             /\ u # t /\ pc'[u] = pc[u] /\ key'[u] = key[u] /\ row'[u] = row[u]
             /\ key[u] \in Keys /\ HashOf[key[u]] \in Buckets
             /\ tops'[u] = tops[u] \cup {NewestOf(linked'[HashOf[key[u]]], key[u])}
             /\ \A p : IsNewest(linked'[HashOf[key'[u]]], key'[u], keyOf', p) =>
                         p \in tops'[u]
<1>1. SUFFICES ASSUME NEW u \in Threads, Finding(u)'
      PROVE /\ u # t /\ pc'[u] = pc[u] /\ key'[u] = key[u] /\ row'[u] = row[u]
            /\ key[u] \in Keys /\ HashOf[key[u]] \in Buckets
            /\ tops'[u] = tops[u] \cup {NewestOf(linked'[HashOf[key[u]]], key[u])}
            /\ \A p : IsNewest(linked'[HashOf[key'[u]]], key'[u], keyOf', p) =>
                        p \in tops'[u]
  OBVIOUS
<1>2. u # t
  BY <1>1 DEF Finding
<1>3. pc'[u] = pc[u] /\ key'[u] = key[u] /\ row'[u] = row[u]
  BY <1>2, OthersKept DEF BaseInv
<1>4. Finding(u)
  BY <1>1, <1>3 DEF Finding
<1>5. key[u] \in Keys /\ HashOf[key[u]] \in Buckets
  BY <1>4 DEF BaseInv, CallInv, Finding
<1>6. tops'[u] = tops[u] \cup {NewestOf(linked'[HashOf[key[u]]], key[u])}
  BY <1>4, Zenon DEF Observe, NewestAfter
<1>7. linked'[HashOf[key[u]]] \in Seq(Rows)
  BY <1>5
<1>8. \A p : IsNewest(linked'[HashOf[key[u]]], key[u], keyOf, p) =>
               p = NewestOf(linked'[HashOf[key[u]]], key[u])
  BY <1>7, NewestIs, NewestIsOne
<1>. QED
  BY <1>2, <1>3, <1>5, <1>6, <1>8

\* Steps that leave the links as they are.
LEMMA LinksStay ==
    ASSUME BaseInv, ChainInv, NEW first, NEW after,
           IsFirst(first), IsAfter(after), FindInv(first),
           NEW t \in Threads, Quiet(t) \/ Create(t) \/ Publish(t) \/ UnlinkHead(t)
    PROVE  IsFirst(first)' /\ IsAfter(after)' /\ FindInv(first)'
<1>0. Typed /\ CallInv /\ CountInv /\ FreshInv /\ ReachInv
  BY DEF BaseInv
<1>1. Step(t)
  BY DEF Quiet, Step
<1>2. next' = next /\ \A p \in Rows : IsLinked(p) => keyOf'[p] = keyOf[p]
  <2>1. CASE Create(t)
    <3>1. /\ count + 1 \in Rows /\ next' = [next EXCEPT ![count + 1] = Unset]
          /\ keyOf' = [keyOf EXCEPT ![count + 1] = key[t]]
      BY <1>0, <2>1, CountRoom DEF Create
    <3>2. next[count + 1] = Unset /\ count + 1 # Empty
      BY <1>0, <3>1 DEF FreshInv, Typed
    <3>3. next' = next
      BY <1>0, <3>1, <3>2 DEF Typed
    <3>4. \A p \in Rows : IsLinked(p) => p # count + 1
      BY <3>2 DEF IsLinked
    <3>. QED
      BY <1>0, <3>1, <3>3, <3>4 DEF Typed
  <2>2. CASE Quiet(t) \/ Publish(t) \/ UnlinkHead(t)
    BY <2>2 DEF Quiet, Publish, UnlinkHead
  <2>. QED
    BY <2>1, <2>2
<1>3. \A p : StaysLinked(p) <=> IsLinked(p)
  BY <1>2 DEF IsLinked, StaysLinked
<1>4. IsFirst(first)' /\ IsAfter(after)'
  <2>1. \A p \in Rows : StaysLinked(p) => \A k \in Keys :
          first[k][p] = IF keyOf'[p] = k THEN p ELSE first[k][next'[p]]
    <3>1. ASSUME NEW p \in Rows, StaysLinked(p), NEW k \in Keys
          PROVE  first[k][p] = IF keyOf'[p] = k THEN p ELSE first[k][next'[p]]
      <4>1. IsLinked(p) /\ keyOf'[p] = keyOf[p] /\ next'[p] = next[p]
        BY <1>2, <1>3, <3>1
      <4>2. \A q \in Rows : IsLinked(q) =>
              first[k][q] = IF keyOf[q] = k THEN q ELSE first[k][next[q]]
        BY Zenon DEF IsFirst
      <4>3. first[k][p] = IF keyOf[p] = k THEN p ELSE first[k][next[p]]
        BY <4>1, <4>2
      <4>. QED
        BY <4>1, <4>3
    <3>. QED
      BY <3>1
  <2>2. IsFirst(first)'
    BY <2>1 DEF IsFirst, IsLinked, StaysLinked
  <2>3. IsAfter(after)'
    BY <1>2 DEF IsAfter, IsLinked
  <2>. QED
    BY <2>2, <2>3
<1>5. CASE Quiet(t)
  BY <1>4, <1>5, FindsGoOn
<1>6. CASE Create(t)
  <2>1. \A u \in Threads \ {t} :
          pc'[u] = pc[u] /\ key'[u] = key[u] /\ row'[u] = row[u]
    BY <1>0, <1>1, OthersKept
  <2>2. pc'[t] = "created" /\ linked' = linked /\ tops' = tops
    BY <1>0, <1>6 DEF Create, Move, Typed
  <2>3. ASSUME NEW u \in Threads, Finding(u)'
        PROVE  /\ \A p : IsNewest(linked'[HashOf[key'[u]]], key'[u], keyOf', p) =>
                           p \in tops'[u]
               /\ pc'[u] = "search" => first[key'[u]][row'[u]] \in tops'[u]
    <3>1. u # t /\ Finding(u)
      BY <2>1, <2>2, <2>3 DEF Finding
    <3>2. HashOf[key[u]] \in Buckets
      BY <1>0, <3>1 DEF CallInv, Finding
    <3>3. \A i \in 1 .. Len(linked[HashOf[key[u]]]) :
            keyOf'[linked[HashOf[key[u]]][i]] = keyOf[linked[HashOf[key[u]]][i]]
      BY <1>0, <1>2, <3>2, ElementsOf DEF ReachInv, Typed
    <3>4. ASSUME NEW s, NEW k, NEW p, \A i \in 1 .. Len(s) : keyOf'[s[i]] = keyOf[s[i]],
                 Len(s) \in Nat, IsNewest(s, k, keyOf', p)
          PROVE  IsNewest(s, k, keyOf, p)
      <4>1. \A i \in 1 .. Len(s) : \A j \in 1 .. i - 1 : j \in 1 .. Len(s)
        BY <3>4
      <4>2. CASE p = Empty /\ \A i \in 1 .. Len(s) : keyOf'[s[i]] # k
        BY <3>4, <4>2 DEF IsNewest
      <4>3. ASSUME NEW i \in 1 .. Len(s), p = s[i], keyOf'[s[i]] = k,
                   \A j \in 1 .. i - 1 : keyOf'[s[j]] # k
            PROVE  IsNewest(s, k, keyOf, p)
        <5>1. \A j \in 1 .. i - 1 : keyOf[s[j]] # k
          BY <3>4, <4>1, <4>3
        <5>2. keyOf[s[i]] = k
          BY <3>4, <4>3
        <5>. QED
          BY <4>3, <5>1, <5>2 DEF IsNewest
      <4>. QED
        BY <3>4, <4>2, <4>3 DEF IsNewest
    <3>5. Len(linked[HashOf[key[u]]]) \in Nat
      BY <1>0, <3>2, ElementsOf DEF Typed
    <3>6. \A p : IsNewest(linked[HashOf[key[u]]], key[u], keyOf', p) =>
                   IsNewest(linked[HashOf[key[u]]], key[u], keyOf, p)
      BY <3>3, <3>4, <3>5
    <3>. QED
      BY <2>1, <2>2, <3>1, <3>6 DEF FindInv
  <2>4. \A u \in Threads : ~Finding(u)' => pc'[u] # "search"
    BY DEF Finding
  <2>. QED
    BY <1>4, <2>3, <2>4 DEF FindInv
<1>7. CASE Publish(t) \/ UnlinkHead(t)
  <2>1. Observe /\ ~Finding(t) /\ pc'[t] = "idle" /\ keyOf' = keyOf
    BY <1>0, <1>7 DEF Publish, UnlinkHead, Removed, Finish, Move, Finding, Typed
  <2>2. linked' \in [Buckets -> Seq(Rows)]
    BY <1>1, TypedStep DEF Typed
  <2>3. \A u \in Threads : Finding(u)' =>
          /\ u # t /\ pc'[u] = pc[u] /\ key'[u] = key[u] /\ row'[u] = row[u]
          /\ tops[u] \subseteq tops'[u]
          /\ \A p : IsNewest(linked'[HashOf[key'[u]]], key'[u], keyOf', p) =>
                      p \in tops'[u]
    BY <1>1, <2>1, <2>2, FindsSee
  <2>4. \A u \in Threads : pc'[u] = "search" => Finding(u)'
    BY DEF Finding
  <2>. QED
    BY <1>4, <2>3, <2>4 DEF FindInv
<1>. QED
  BY <1>5, <1>6, <1>7

\* A row is led to the bucket's first: what lies before that lies before it.
LEMMA RowLinked ==
    ASSUME BaseInv, NEW first, NEW after,
           IsFirst(first), IsAfter(after), FindInv(first), NEW t \in Threads, LinkRow(t)
    PROVE  WalkInv'
<1> DEFINE r == row[t]
           h == header[HashOf[key[t]]]
           after2 == [p \in Positions |-> IF p = r THEN {r} \cup after[h] ELSE after[p]]
           first2 == [k \in Keys |-> [p \in Positions |->
                   IF p = r THEN (IF keyOf[r] = k THEN r ELSE first[k][h])
                   ELSE first[k][p]]]
<1>0. Typed /\ CallInv /\ FreshInv /\ ReachInv
  BY DEF BaseInv
<1>1. pc[t] = "created" /\ pc'[t] = "publish" /\ UNCHANGED <<header, keyOf, linked, tops>>
  BY <1>0 DEF LinkRow, Typed
<1>2. r \in Rows /\ next[r] = Unset /\ h \in Positions /\ IsLinked(h)
  BY <1>0, <1>1, FreshIs DEF IsFresh, Typed, ReachInv
<1>3. \A p \in Rows : next'[p] = IF p = r THEN h ELSE next[p]
  BY <1>0, <1>2 DEF LinkRow, Typed
<1>. HIDE DEF r, h
<1>4. r # Empty /\ h # r /\ h # Unset /\ ~IsLinked(r)
  BY <1>2 DEF IsLinked
<1>5. \A p \in Rows : IsLinked(p) => p # r /\ next[p] # r /\ next[p] \in Positions
  BY <1>0, <1>4 DEF ReachInv
<1>6. \A p \in Rows : StaysLinked(p) <=> IsLinked(p) \/ p = r
  BY <1>3, <1>4 DEF StaysLinked, IsLinked
<1>. PICK F : F = first2
  OBVIOUS
<1>. PICK A : A = after2
  OBVIOUS
<1>7. IsFirst(F)'
  <2>1. F \in [Keys -> [Positions -> Positions]]
    <3>1. \A k \in Keys : first[k] \in [Positions -> Positions]
      BY DEF IsFirst
    <3>2. \A k \in Keys, p \in Positions : first2[k][p] \in Positions
      BY <1>2, <3>1
    <3>. QED
      BY <3>2
  <2>2. \A k \in Keys : F[k][Empty] = Empty
    BY <1>4 DEF IsFirst
  <2>3. ASSUME NEW k \in Keys, NEW p \in Rows, StaysLinked(p)
        PROVE  F[k][p] = IF keyOf[p] = k THEN p ELSE F[k][next'[p]]
    <3>1. CASE p = r
      <4>1. next'[p] = h /\ F[k][h] = first[k][h]
        BY <1>2, <1>3, <1>4, <3>1
      <4>2. F[k][r] = IF keyOf[r] = k THEN r ELSE first[k][h]
        BY <1>2
      <4>. QED
        BY <3>1, <4>1, <4>2
    <3>2. CASE p # r
      <4>1. IsLinked(p) /\ next'[p] = next[p]
        BY <1>3, <1>6, <2>3, <3>2
      <4>2. F[k][p] = first[k][p] /\ F[k][next[p]] = first[k][next[p]]
        BY <1>5, <3>2, <4>1
      <4>3. first[k][p] = IF keyOf[p] = k THEN p ELSE first[k][next[p]]
        BY <4>1 DEF IsFirst
      <4>. QED
        BY <4>1, <4>2, <4>3
    <3>. QED
      BY <3>1, <3>2
  <2>4. \A k \in Keys : \A p \in Rows : p = Empty \/ next'[p] # Unset =>
          F[k][p] = IF keyOf'[p] = k THEN p ELSE F[k][next'[p]]
    <3>1. keyOf' = keyOf
      BY <1>1
    <3>2. ASSUME NEW k \in Keys, NEW p \in Rows, StaysLinked(p)
          PROVE  F[k][p] = IF keyOf'[p] = k THEN p ELSE F[k][next'[p]]
      <4>. HIDE DEF first2, after2
      <4>1. F[k][p] = IF keyOf[p] = k THEN p ELSE F[k][next'[p]]
        BY <2>3, <3>2
      <4>. QED
        BY <3>1, <4>1
    <3>. QED
      BY <3>2, Zenon DEF StaysLinked
  <2>. QED
    BY <2>1, <2>2, <2>4, Zenon DEF IsFirst, IsLinked
<1>8. IsAfter(A)'
  <2>0. /\ after \in [Positions -> SUBSET Rows] /\ after[Empty] = {}
        /\ \A p \in Rows : IsLinked(p) =>
             /\ after[p] = {p} \cup after[next[p]] /\ p \notin after[next[p]]
             /\ \A q \in after[p] : IsLinked(q)
    BY DEF IsAfter
  <2>1. A \in [Positions -> SUBSET Rows] /\ A[Empty] = {}
    BY <1>2, <1>4, <2>0
  <2>2. \A q \in after[h] : q \in Rows /\ IsLinked(q)
    BY <1>2, <2>0
  <2>3. ASSUME NEW p \in Rows, StaysLinked(p)
        PROVE  /\ A[p] = {p} \cup A[next'[p]] /\ p \notin A[next'[p]]
               /\ \A q \in A[p] : StaysLinked(q)
    <3>1. CASE p = r
      <4>1. next'[p] = h /\ A[h] = after[h] /\ A[p] = {p} \cup after[h]
        BY <1>2, <1>3, <1>4, <3>1
      <4>2. r \notin after[h]
        BY <1>4, <2>2
      <4>. QED
        BY <1>2, <1>6, <2>2, <3>1, <4>1, <4>2
    <3>2. CASE p # r
      <4>1. IsLinked(p) /\ next'[p] = next[p]
        BY <1>3, <1>6, <2>3, <3>2
      <4>2. A[p] = after[p] /\ A[next[p]] = after[next[p]]
        BY <1>5, <3>2, <4>1
      <4>3. \A q \in after[p] : q \in Rows
        BY <2>0
      <4>. QED
        BY <1>6, <2>0, <4>1, <4>2, <4>3
    <3>. QED
      BY <3>1, <3>2
  <2>. QED
    BY <2>1, <2>3 DEF IsAfter, IsLinked, StaysLinked
<1>9. FindInv(F)'
  <2>1. ASSUME NEW u \in Threads, Finding(u)'
        PROVE  /\ u # t /\ pc'[u] = pc[u] /\ key'[u] = key[u] /\ row'[u] = row[u]
               /\ Finding(u) /\ key[u] \in Keys
    <3>1. u # t
      BY <1>1, <2>1 DEF Finding
    <3>2. pc'[u] = pc[u] /\ key'[u] = key[u] /\ row'[u] = row[u]
      BY <1>0, <3>1, OthersKept DEF Step
    <3>. QED
      BY <1>0, <2>1, <3>1, <3>2 DEF Finding, CallInv
  <2>2. ASSUME NEW u \in Threads, pc[u] = "search", key[u] \in Keys
        PROVE  F[key[u]][row[u]] = first[key[u]][row[u]]
    <3>1. row[u] \in Positions /\ row[u] # r
      BY <1>0, <1>4, <2>2 DEF Typed, ReachInv
    <3>. QED
      BY <2>2, <3>1
  <2>3. \A u \in Threads : pc'[u] = "search" => Finding(u)'
    BY DEF Finding
  <2>4. ASSUME NEW u \in Threads, Finding(u)'
        PROVE  \A p : IsNewest(linked'[HashOf[key'[u]]], key'[u], keyOf', p) => p \in tops'[u]
    <3>1. \A p : IsNewest(linked[HashOf[key[u]]], key[u], keyOf, p) => p \in tops[u]
      BY <2>1, <2>4 DEF FindInv
    <3>. QED
      BY <1>1, <2>1, <2>4, <3>1
  <2>5. ASSUME NEW u \in Threads, pc'[u] = "search"
        PROVE  F[key'[u]][row'[u]] \in tops'[u]
    <3>1. Finding(u)'
      BY <2>3, <2>5
    <3>2. first[key[u]][row[u]] \in tops[u]
      BY <2>1, <2>5, <3>1 DEF FindInv
    <3>3. F[key[u]][row[u]] = first[key[u]][row[u]]
      BY <2>1, <2>2, <2>5, <3>1
    <3>4. tops' = tops
      BY <1>1
    <3>. HIDE DEF first2
    <3>. QED
      BY <2>1, <3>1, <3>2, <3>3, <3>4
  <2>. QED
    BY <2>4, <2>5 DEF FindInv
<1>. QED
  BY <1>7, <1>8, <1>9 DEF WalkInv
\* A row is led past: its own key finds the next of the key from before it.
LEMMA RowReleased ==
    ASSUME BaseInv, ChainInv, UnlinkInv, NEW first, NEW after,
           IsFirst(first), IsAfter(after), FindInv(first), NEW t \in Threads, Release(t)
    PROVE  WalkInv'
<1> DEFINE k == key[t]
           c == HashOf[key[t]]
           s == linked[c]
           x == row[t]
           b == other[t]
           q == next[x]
           first2 == [j \in Keys |-> [p \in Positions |->
                        IF j = k /\ b \in after[p] /\ first[k][p] = x
                          THEN first[k][q] ELSE first[j][p]]]
           after2 == [p \in Positions |->
                        IF b \in after[p] THEN after[p] \ {x} ELSE after[p]]
<1>0. Typed /\ CallInv /\ FreshInv /\ ReachInv /\ Step(t)
  BY DEF BaseInv, Step
<1>1. /\ k \in Keys /\ c \in Buckets /\ s \in Seq(Rows) /\ Len(s) \in Nat
      /\ \A i \in 1 .. Len(s) : s[i] \in Rows /\ IsLinked(s[i])
      /\ IsRun(header[c], s, next)
  BY <1>0, TakenIs, ElementsOf DEF ReachInv, ChainInv
<1>2. PICK m \in 1 .. Len(s) :
        /\ Taken(t, m) /\ m - 1 \in 1 .. Len(s) /\ b = s[m - 1]
  <2>1. ~UnlinkHead(t)
    BY DEF UnlinkHead, Release
  <2>. QED
    BY <2>1, TakenIs
<1>3. /\ x = s[m] /\ keyOf[x] = k /\ keyOf[b] # k
      /\ \A j \in 1 .. Len(s) : j < m => keyOf[s[j]] # k
  <2>1. m - 1 < m
    BY <1>1
  <2>. QED
    BY <1>2, <2>1 DEF Taken
<1>4. /\ x \in Rows /\ IsLinked(x) /\ b \in Rows /\ IsLinked(b) /\ b # x
      /\ next[b] = x /\ q = At(s, m + 1) /\ q \in Positions /\ IsLinked(q)
  <2>1. x \in Rows /\ IsLinked(x) /\ b \in Rows /\ IsLinked(b)
    BY <1>1, <1>2, <1>3
  <2>2. next[b] = x
    <3>1. m - 1 # Len(s) /\ (m - 1) + 1 = m
      BY <1>1, <1>2
    <3>. QED
      BY <1>1, <1>2, <1>3, <3>1 DEF IsRun
  <2>3. q = At(s, m + 1)
    <3>1. m = Len(s) <=> m + 1 = Len(s) + 1
      BY <1>1, <1>2
    <3>. QED
      BY <1>1, <1>3, <3>1 DEF IsRun, At
  <2>4. q \in Positions /\ IsLinked(q)
    BY <1>0, <2>1 DEF ReachInv
  <2>. QED
    BY <1>3, <2>1, <2>2, <2>3, <2>4
<1>5. /\ \A p \in Rows : next'[p] = IF p = b THEN q ELSE next[p]
      /\ header' = header /\ keyOf' = keyOf /\ Removed(t)
  BY <1>0, <1>4 DEF Release, Typed
<1>6. \A p \in Rows : StaysLinked(p) <=> IsLinked(p)
  <2>1. q # Unset /\ next[b] # Unset
    BY <1>4 DEF IsLinked
  <2>. QED
    BY <1>4, <1>5, <2>1 DEF StaysLinked, IsLinked
<1>7. linked'[c] = RemoveAt(s, m)
  BY <1>1, <1>2, <1>5, TakenLeaves DEF Release
<1>8. IsNewest(linked'[c], k, keyOf, first[k][q])
  <2>1. FirstIn(s, next, keyOf, k, first[k])
    <3>1. \A p \in Rows : IsLinked(p) =>
            first[k][p] = IF keyOf[p] = k THEN p ELSE first[k][next[p]]
      BY <1>1 DEF IsFirst
    <3>2. first[k][Empty] = Empty
      BY <1>1 DEF IsFirst
    <3>. HIDE DEF k, s
    <3>. QED
      BY <1>1, <3>1, <3>2 DEF FirstIn
  <2>2. m + 1 \in 1 .. Len(s) + 1
    BY <1>1
  <2>. HIDE DEF k, s, c, x, b, q, first2, after2
  <2>3. IsNewestFrom(s, k, keyOf, m + 1, first[k][At(s, m + 1)])
    BY <1>1, <2>1, <2>2, FirstFrom
  <2>4. IsNewest(RemoveAt(s, m), k, keyOf, first[k][At(s, m + 1)])
    BY <1>1, <1>2, <1>3, <2>3, NewestBehind
  <2>. QED
    BY <1>4, <1>7, <2>4
<1>9. /\ after \in [Positions -> SUBSET Rows] /\ after[Empty] = {}
      /\ \A p \in Rows : IsLinked(p) =>
           /\ after[p] = {p} \cup after[next[p]] /\ p \notin after[next[p]]
           /\ \A r \in after[p] : IsLinked(r)
  BY DEF IsAfter
<1>10. /\ first \in [Keys -> [Positions -> Positions]]
       /\ \A j \in Keys : first[j][Empty] = Empty
       /\ \A j \in Keys, p \in Rows : IsLinked(p) =>
            first[j][p] = IF keyOf[p] = j THEN p ELSE first[j][next[p]]
  BY DEF IsFirst
<1>. PICK F : F = first2
  OBVIOUS
<1>. PICK A : A = after2
  OBVIOUS
<1>11. \A j \in Keys, p \in Positions :
         F[j][p] = IF j = k /\ b \in after[p] /\ first[k][p] = x
                     THEN first[k][q] ELSE first[j][p]
  OBVIOUS
<1>12. \A p \in Positions :
         A[p] = IF b \in after[p] THEN after[p] \ {x} ELSE after[p]
  OBVIOUS
<1>13. F \in [Keys -> [Positions -> Positions]]
  <2>1. \A j \in Keys : first[j] \in [Positions -> Positions]
    BY <1>10
  <2>2. \A j \in Keys, p \in Positions : first2[j][p] \in Positions
    BY <1>1, <1>4, <2>1
  <2>. QED
    BY <2>2
<1>14. A \in [Positions -> SUBSET Rows]
  BY <1>9
<1>. HIDE DEF first2, after2, k, c, s, x, b, q
\* What the row before leads to no longer leads back to it.
<1>15. b \in after[b] /\ b \notin after[x] /\ b \notin after[q] /\ x \notin after[q]
       /\ after[b] = {b} \cup after[x] /\ after[x] = {x} \cup after[q]
  <2>1. after[b] = {b} \cup after[x] /\ b \notin after[x]
    BY <1>4, <1>9
  <2>2. after[x] = {x} \cup after[q] /\ x \notin after[q]
    BY <1>4, <1>9 DEF q
  <2>. QED
    BY <2>1, <2>2
<1>16. \A p \in Rows : IsLinked(p) /\ p # b =>
         (b \in after[p] <=> b \in after[next[p]]) /\ next[p] \in Positions
  <2>1. \A p \in Rows : IsLinked(p) => next[p] \in Positions
    BY <1>0 DEF ReachInv
  <2>. QED
    BY <1>9, <2>1
<1>17. ASSUME NEW j \in Keys, NEW p \in Rows, IsLinked(p)
       PROVE  F[j][p] = IF keyOf[p] = j THEN p ELSE F[j][next'[p]]
  <2>1. CASE p = b
    <3>1. next'[p] = q
      BY <1>5, <2>1
    <3>2. F[j][q] = first[j][q]
      BY <1>4, <1>11, <1>15
    <3>3. first[j][b] = IF keyOf[b] = j THEN b ELSE first[j][x]
      BY <1>4, <1>10
    <3>4. first[j][x] = IF keyOf[x] = j THEN x ELSE first[j][q]
      BY <1>4, <1>10 DEF q
    <3>5. CASE j = k
      <4>1. first[j][b] = x
        BY <1>3, <3>3, <3>4, <3>5
      <4>2. F[j][b] = first[j][q]
        BY <1>4, <1>11, <1>15, <3>5, <4>1
      <4>. QED
        BY <1>3, <2>1, <3>1, <3>2, <3>5, <4>2
    <3>6. CASE j # k
      <4>1. F[j][b] = first[j][b]
        BY <1>4, <1>11, <3>6
      <4>. QED
        BY <1>3, <2>1, <3>1, <3>2, <3>3, <3>4, <3>6, <4>1
    <3>. QED
      BY <3>5, <3>6
  <2>2. CASE p # b
    <3>1. next'[p] = next[p] /\ next[p] \in Positions
      BY <1>5, <1>16, <1>17, <2>2
    <3>2. first[j][p] = IF keyOf[p] = j THEN p ELSE first[j][next[p]]
      BY <1>10, <1>17
    <3>3. b \in after[p] <=> b \in after[next[p]]
      BY <1>16, <1>17, <2>2
    <3>4. CASE keyOf[p] = j
      <4>1. ~(b \in after[p] /\ first[j][p] = x)
        BY <1>15, <3>2, <3>4
      <4>. QED
        BY <1>11, <3>2, <3>4, <4>1
    <3>5. CASE keyOf[p] # j
      BY <1>11, <3>1, <3>2, <3>3, <3>5
    <3>. QED
      BY <3>4, <3>5
  <2>. QED
    BY <2>1, <2>2
<1>18. IsFirst(F)'
  <2>1. \A j \in Keys : F[j][Empty] = Empty
    <3>1. Empty \in Positions /\ b \notin after[Empty]
      BY <1>9
    <3>2. \A j \in Keys : F[j][Empty] = first[j][Empty]
      BY <1>11, <3>1, Zenon
    <3>. QED
      BY <1>10, <3>2
  <2>2. ASSUME NEW j \in Keys, NEW p \in Rows, StaysLinked(p)
        PROVE  F[j][p] = IF keyOf'[p] = j THEN p ELSE F[j][next'[p]]
    <3>1. F[j][p] = IF keyOf[p] = j THEN p ELSE F[j][next'[p]]
      BY <1>6, <1>17, <2>2
    <3>. QED
      BY <1>5, <3>1
  <2>. QED
    BY <1>13, <2>1, <2>2, Zenon DEF IsFirst, IsLinked, StaysLinked
<1>19. IsAfter(A)'
  <2>0. Empty \in Positions /\ \A p \in Rows : p \in Positions
    OBVIOUS
  <2>1. A[Empty] = {}
    BY <1>9, <1>12, <2>0, Zenon
  <2>2. ASSUME NEW p \in Rows, IsLinked(p)
        PROVE  A[p] = {p} \cup A[next'[p]] /\ p \notin A[next'[p]]
    <3>1. CASE p = b
      <4>1. A[q] = after[q] /\ A[p] = after[p] \ {x}
        BY <1>4, <1>12, <1>15, <2>0, <3>1, Zenon
      <4>2. next'[p] = q
        BY <1>5, <3>1
      <4>. QED
        BY <1>4, <1>15, <3>1, <4>1, <4>2
    <3>2. CASE p # b
      <4>1. next'[p] = next[p] /\ next[p] \in Positions
        BY <1>5, <1>16, <2>2, <3>2
      <4>2. b \in after[p] <=> b \in after[next[p]]
        BY <1>16, <2>2, <3>2
      <4>3. after[p] = {p} \cup after[next[p]] /\ p \notin after[next[p]]
        BY <1>9, <2>2
      <4>4. b \in after[p] => p # x
        BY <1>15
      <4>5. A[next[p]] = IF b \in after[p] THEN after[next[p]] \ {x} ELSE after[next[p]]
        BY <1>12, <4>1, <4>2, Zenon
      <4>6. A[p] = IF b \in after[p] THEN after[p] \ {x} ELSE after[p]
        BY <1>12, <2>0, Zenon
      <4>. QED
        BY <4>1, <4>3, <4>4, <4>5, <4>6
    <3>. QED
      BY <3>1, <3>2
  <2>3. ASSUME NEW p \in Rows, IsLinked(p)
        PROVE  \A r \in A[p] : StaysLinked(r)
    <3>1. \A r \in A[p] : r \in after[p] /\ r \in Rows
      BY <1>12, <1>14
    <3>. QED
      BY <1>6, <1>9, <2>3, <3>1
  <2>. QED
    BY <1>6, <1>14, <2>1, <2>2, <2>3 DEF IsAfter, IsLinked, StaysLinked
<1>20. FindInv(F)'
  <2>1. Observe /\ ~Finding(t) /\ pc'[t] = "idle" /\ keyOf' = keyOf
    BY <1>0, <1>5 DEF Release, Removed, Finish, Move, Finding, Typed
  <2>2. linked' \in [Buckets -> Seq(Rows)]
    BY <1>0, TypedStep DEF Typed
  <2>3. \A u \in Threads : Finding(u)' =>
          /\ u # t /\ pc'[u] = pc[u] /\ key'[u] = key[u] /\ row'[u] = row[u]
          /\ key[u] \in Keys /\ tops[u] \subseteq tops'[u]
          /\ \A p : IsNewest(linked'[HashOf[key'[u]]], key'[u], keyOf', p) =>
                      p \in tops'[u]
    BY <1>0, <2>1, <2>2, FindsSee
  <2>4. ASSUME NEW u \in Threads, pc'[u] = "search"
        PROVE  F[key'[u]][row'[u]] \in tops'[u]
    <3>1. /\ Finding(u)' /\ pc[u] = "search" /\ key'[u] = key[u] /\ row'[u] = row[u]
          /\ key[u] \in Keys /\ tops[u] \subseteq tops'[u] /\ row[u] \in Positions
      BY <1>0, <2>3, <2>4 DEF Finding, Typed
    <3>2. first[key[u]][row[u]] \in tops'[u]
      BY <3>1 DEF FindInv
    <3>3. CASE F[key[u]][row[u]] = first[key[u]][row[u]]
      BY <3>1, <3>2, <3>3
    <3>4. CASE key[u] = k /\ F[key[u]][row[u]] = first[k][q]
      <4>1. IsNewest(linked'[HashOf[key'[u]]], key'[u], keyOf', first[k][q])
        BY <1>8, <2>1, <3>1, <3>4 DEF c, k
      <4>. QED
        BY <2>3, <3>1, <3>4, <4>1
    <3>. QED
      BY <1>11, <3>1, <3>3, <3>4
  <2>. QED
    BY <2>3, <2>4 DEF FindInv
<1>. QED
  BY <1>18, <1>19, <1>20 DEF WalkInv
LEMMA WalkStep ==
    ASSUME BaseInv, ChainInv, UnlinkInv, WalkInv, NEW t \in Threads, Step(t)
    PROVE  WalkInv'
<1>1. PICK first, after : IsFirst(first) /\ IsAfter(after) /\ FindInv(first)
  BY DEF WalkInv
<1>2. CASE Quiet(t) \/ Create(t) \/ Publish(t) \/ UnlinkHead(t)
  <2>1. IsFirst(first)' /\ IsAfter(after)' /\ FindInv(first)'
    BY <1>1, <1>2, LinksStay
  <2>. QED
    BY <2>1 DEF WalkInv
<1>3. CASE LinkRow(t)
  BY <1>1, <1>3, RowLinked
<1>4. CASE Release(t)
  BY <1>1, <1>4, RowReleased
<1>. QED
  BY <1>2, <1>3, <1>4, LinkSteps

LEMMA SafeStep ==
    ASSUME BaseInv, ChainInv, UnlinkInv, Safe, NEW t \in Threads, Step(t)
    PROVE  Safe'
<1>0. Typed /\ CallInv /\ ReachInv
  BY DEF BaseInv
<1>1. \A u \in Threads \ {t} : pc'[u] = pc[u]
  BY <1>0, OthersKept
<1>2. ASSUME NEW place, NEW p, NEW o, Move(t, place, p, o)
      PROVE  pc'[t] = place
  BY <1>0, <1>2 DEF Typed, Move
<1>3. pc'[t] # "fault"
  <2>1. CASE UnlinkBegin(t)
    <3>1. pc[t] = "begin" /\ HashOf[key[t]] \in Buckets
      BY <1>0, <2>1 DEF UnlinkBegin, CallInv
    <3>2. linked[HashOf[key[t]]] # <<>>
      BY <3>1 DEF UnlinkInv, UnlinkAt, Unlinking
    <3>3. linked[HashOf[key[t]]][1] \in Rows
      <4>1. linked[HashOf[key[t]]] \in Seq(Rows)
        BY <1>0, <3>1 DEF Typed
      <4>2. \A s \in Seq(Rows) : s # <<>> => s[1] \in Rows
        OBVIOUS
      <4>. QED
        BY <3>2, <4>1, <4>2
    <3>4. header[HashOf[key[t]]] = linked[HashOf[key[t]]][1]
      BY <3>1, <3>2 DEF ChainInv, IsRun
    <3>5. header[HashOf[key[t]]] # Empty
      BY <3>3, <3>4
    <3>6. \/ \E p, o : Move(t, "unhead", p, o)
          \/ \E p, o : Move(t, "walk", p, o)
      BY <2>1, <3>5 DEF UnlinkBegin
    <3>. QED
      BY <1>2, <3>6
  <2>2. CASE FindWalk(t)
    <3>1. pc[t] = "search" /\ IsLinked(row[t])
      BY <1>0, <2>2 DEF FindWalk, ReachInv
    <3>2. row[t] # Empty => next[row[t]] # Unset
      BY <3>1 DEF IsLinked
    <3>3. Finish(t) \/ \E p, o : Move(t, "search", p, o)
      BY <2>2, <3>2 DEF FindWalk
    <3>. QED
      BY <1>2, <3>3 DEF Finish
  <2>3. CASE UnlinkWalk(t)
    BY <1>2, <2>3 DEF UnlinkWalk, Finish
  <2>4. CASE UnlinkHead(t) \/ Release(t)
    BY <1>2, <2>4 DEF UnlinkHead, Release, Removed, Finish
  <2>5. CASE FindBegin(t)
    BY <1>2, <2>5 DEF FindBegin
  <2>6. CASE pc[t] \in {"idle", "create", "created", "publish"}
    BY <1>0, <2>6, Moves DEF Unlinking, Finding
  <2>. QED
    BY <2>1, <2>2, <2>3, <2>4, <2>5, <2>6, Steps
       DEF CallStore, CallUnlink, CallFind, Call, Create, LinkRow, Publish
<1>. QED
  BY <1>1, <1>3 DEF Safe

-----------------------------------------------------------------------------
\* The invariant of unlinks that take turns, and what follows from it.

LEMMA TurnsInit ==
    ASSUME Init
    PROVE  TurnsInv
<1>1. AloneInv /\ UnlinkInv /\ Safe
  BY DEF Init, AloneInv, UnlinkInv, Unlinking, Safe
<1>2. ChainInv
  <2>1. Len(<<>>) = 0
    OBVIOUS
  <2>2. \A b \in Buckets : header[b] = Empty /\ linked[b] = <<>>
    BY DEF Init
  <2>. QED
    BY <2>1, <2>2 DEF ChainInv, IsRun
<1>3. WalkInv
  <2>1. PICK first : first = [k \in Keys |-> [p \in Positions |-> Empty]]
    OBVIOUS
  <2>2. PICK after : after = [p \in Positions |-> {}]
    OBVIOUS
  <2>3. \A p \in Rows : ~IsLinked(p)
    BY DEF Init, IsLinked
  <2>4. IsFirst(first) /\ IsAfter(after)
    BY <2>1, <2>2, <2>3 DEF IsFirst, IsAfter
  <2>5. FindInv(first)
    BY DEF Init, FindInv, Finding
  <2>. QED
    BY <2>4, <2>5 DEF WalkInv
<1>. QED
  BY <1>1, <1>2, <1>3 DEF TurnsInv

LEMMA TurnsStep ==
    ASSUME BaseInv, TurnsInv, UnlinksAlone, [Next]_vars
    PROVE  TurnsInv'
<1>0. AloneInv /\ ChainInv /\ UnlinkInv /\ WalkInv /\ Safe /\ Typed /\ CallInv
  BY DEF TurnsInv, BaseInv
<1>1. ASSUME NEW t \in Threads, Step(t) PROVE TurnsInv'
  <2>1. AloneInv' /\ ChainInv' /\ UnlinkInv'
    BY <1>0, <1>1, AloneStep, ChainStep, UnlinkStep
  <2>2. WalkInv' /\ Safe'
    BY <1>0, <1>1, WalkStep, SafeStep
  <2>. QED
    BY <2>1, <2>2 DEF TurnsInv
<1>2. ASSUME Sync \/ Reopen \/ UNCHANGED vars PROVE TurnsInv'
  <2>1. UNCHANGED <<header, keyOf, next, count, pc, key, row, other, linked, tops>>
    BY <1>2, ManagersStep
  <2>2. AloneInv' /\ ChainInv' /\ UnlinkInv' /\ Safe'
    BY <1>0, <2>1 DEF AloneInv, ChainInv, UnlinkInv, UnlinkAt, Unlinking, Safe
  <2>3. PICK first, after : IsFirst(first) /\ IsAfter(after) /\ FindInv(first)
    BY <1>0 DEF WalkInv
  <2>4. IsFirst(first)' /\ IsAfter(after)' /\ FindInv(first)'
    BY <2>1, <2>3 DEF IsFirst, IsAfter, FindInv, IsLinked, Finding
  <2>. QED
    BY <2>2, <2>4 DEF TurnsInv, WalkInv
<1>. QED
  BY <1>1, <1>2 DEF Next

\* The inductive invariant of the chains, the unlink and the finds, where
\* unlinks take turns (slab_hash_table::unlink).
THEOREM Turns ==
    ASSUME UnlinksAlone
    PROVE  Spec => [](BaseInv /\ TurnsInv)
<1>1. Init => TurnsInv
  BY TurnsInit
<1>2. BaseInv /\ TurnsInv /\ [Next]_vars => TurnsInv'
  BY TurnsStep
<1>. QED
  BY <1>1, <1>2, Base, PTL DEF Spec

\* The links of each bucket lead through exactly the rows stored and not
\* unlinked, the newest first, where unlinks take turns: that unlink and
\* release may write the position of the next row and be done.
THEOREM ChainsAreRight ==
    ASSUME UnlinksAlone
    PROVE  Spec => []ChainsMatch
<1>1. BaseInv /\ TurnsInv => ChainsMatch
  <2>1. SUFFICES ASSUME BaseInv, TurnsInv, NEW b \in Buckets
                 PROVE  /\ header[b] = Newest(linked[b])
                        /\ \A i \in DOMAIN linked[b] :
                             next[linked[b][i]]
                               = Newest(SubSeq(linked[b], i + 1, Len(linked[b])))
    BY DEF ChainsMatch
  <2>2. linked[b] \in Seq(Rows) /\ IsRun(header[b], linked[b], next)
    BY <2>1 DEF BaseInv, Typed, TurnsInv, ChainInv
  <2>3. ASSUME NEW s \in Seq(Rows), NEW i \in 1 .. Len(s)
        PROVE  Newest(SubSeq(s, i + 1, Len(s))) = IF i = Len(s) THEN Empty ELSE s[i + 1]
    <3>1. Len(s) \in Nat
      BY ElementsOf
    <3>2. CASE i = Len(s)
      <4>1. SubSeq(s, i + 1, Len(s)) = <<>>
        BY <3>1, <3>2
      <4>. QED
        BY <3>2, <4>1 DEF Newest
    <3>3. CASE i # Len(s)
      <4>1. /\ Len(SubSeq(s, i + 1, Len(s))) = Len(s) - i
            /\ SubSeq(s, i + 1, Len(s))[1] = s[i + 1]
            /\ SubSeq(s, i + 1, Len(s)) \in Seq(Rows)
        BY <3>1, <3>3
      <4>2. \A z \in Seq(Rows) : Len(z) # 0 => z # <<>> /\ Head(z) = z[1]
        OBVIOUS
      <4>3. Len(s) - i # 0
        BY <3>1, <3>3
      <4>. QED
        BY <3>3, <4>1, <4>2, <4>3 DEF Newest
    <3>. QED
      BY <3>2, <3>3
  <2>4. \A s \in Seq(Rows) : s # <<>> => Head(s) = s[1]
    OBVIOUS
  <2>5. DOMAIN linked[b] = 1 .. Len(linked[b])
    BY <2>2
  <2>6. header[b] = Newest(linked[b])
    BY <2>2, <2>4 DEF IsRun, Newest
  <2>7. ASSUME NEW i \in 1 .. Len(linked[b])
        PROVE  next[linked[b][i]] = Newest(SubSeq(linked[b], i + 1, Len(linked[b])))
    <3>1. Newest(SubSeq(linked[b], i + 1, Len(linked[b])))
            = IF i = Len(linked[b]) THEN Empty ELSE linked[b][i + 1]
      BY <2>2, <2>3
    <3>. QED
      BY <2>2, <3>1 DEF IsRun
  <2>. QED
    BY <2>5, <2>6, <2>7
<1>. QED
  BY <1>1, Turns, PTL

\* No find and no unlink follows a position that is no row of the file, where
\* unlinks take turns; finds are free to run beside them.
THEOREM FindsSafe ==
    ASSUME UnlinksAlone
    PROVE  Spec => []NoFault
<1>1. TurnsInv => NoFault
  BY DEF TurnsInv, Safe, NoFault
<1>. QED
  BY <1>1, Turns, PTL

\* A find without a lock, beside stores or an unlink, returns the newest row
\* that its key had at some moment of the call, where unlinks take turns.
THEOREM FindsCurrent ==
    ASSUME UnlinksAlone
    PROVE  Spec => []FindsAreCurrent
<1>1. BaseInv /\ TurnsInv => FindsAreCurrent
  <2>1. SUFFICES ASSUME BaseInv, TurnsInv, NEW t \in Threads, pc[t] = "search",
                        row[t] = Empty \/ keyOf[row[t]] = key[t]
                 PROVE  row[t] \in tops[t]
    BY DEF FindsAreCurrent
  <2>2. PICK first, after : IsFirst(first) /\ IsAfter(after) /\ FindInv(first)
    BY <2>1 DEF TurnsInv, WalkInv
  <2>3. first[key[t]][row[t]] \in tops[t]
    BY <2>1, <2>2 DEF FindInv
  <2>4. key[t] \in Keys /\ row[t] \in Positions /\ IsLinked(row[t])
    BY <2>1 DEF BaseInv, CallInv, Typed, ReachInv
  <2>5. first[key[t]][row[t]] = row[t]
    BY <2>1, <2>2, <2>4 DEF IsFirst
  <2>. QED
    BY <2>3, <2>5
<1>. QED
  BY <1>1, Turns, PTL
-----------------------------------------------------------------------------
\* The list of a key: its rows among those of its bucket, in their order.

\* h leads from the end of s to its start: h[i] are the rows of k from i on.
Collects(s, k, ko, h) ==
    /\ h \in [1 .. Len(s) + 1 -> Seq(Rows)]
    /\ h[Len(s) + 1] = <<>>
    /\ \A i \in 1 .. Len(s) :
         h[i] = IF ko[s[i]] = k THEN <<s[i]>> \o h[i + 1] ELSE h[i + 1]

IsListOf(s, k, ko, r) == \E h : Collects(s, k, ko, h) /\ r = h[1]

LEMMA ListTyped ==
    ASSUME NEW s \in Seq(Rows), NEW k, NEW ko, NEW r, IsListOf(s, k, ko, r)
    PROVE  r \in Seq(Rows)
<1>1. 1 \in 1 .. Len(s) + 1
  BY ElementsOf
<1>2. PICK h : Collects(s, k, ko, h) /\ r = h[1]
  BY DEF IsListOf
<1>3. h \in [1 .. Len(s) + 1 -> Seq(Rows)]
  BY <1>2 DEF Collects
<1>. QED
  BY <1>1, <1>2, <1>3

LEMMA ListIsOne ==
    ASSUME NEW s \in Seq(Rows), NEW k, NEW ko, NEW p, NEW q,
           IsListOf(s, k, ko, p), IsListOf(s, k, ko, q)
    PROVE  p = q
<1>0. Len(s) \in Nat
  BY ElementsOf
<1>1. PICK g : Collects(s, k, ko, g) /\ p = g[1]
  BY DEF IsListOf
<1>2. PICK h : Collects(s, k, ko, h) /\ q = h[1]
  BY DEF IsListOf
<1> DEFINE N == Len(s) + 1
           T == {d \in Nat : d < N /\ g[N - d] # h[N - d]}
<1>3. g[N] = h[N]
  BY <1>1, <1>2 DEF Collects
<1>4. ASSUME NEW i \in 1 .. Len(s), g[i + 1] = h[i + 1]
      PROVE  g[i] = h[i]
  BY <1>1, <1>2, <1>4 DEF Collects
<1>5. N \in Nat /\ 1 <= N
  BY <1>0
<1>6. \A d \in Nat : d < N /\ d # 0 =>
        N - d \in 1 .. Len(s) /\ N - (d - 1) = (N - d) + 1 /\ N - 0 = N
  BY <1>0
<1>. HIDE DEF N
<1>7. T = {}
  <2>1. SUFFICES ASSUME T # {} PROVE FALSE
    OBVIOUS
  <2>2. PICK d \in T : \A n \in T : d <= n
    <3>1. T \in SUBSET Nat
      OBVIOUS
    <3>. HIDE DEF T
    <3>. QED
      BY <2>1, <3>1, Least
  <2>3. d \in Nat /\ d < N /\ g[N - d] # h[N - d]
    OBVIOUS
  <2>4. d # 0
    BY <1>3, <1>5, <2>3
  <2>5. d - 1 \in Nat /\ d - 1 < N /\ ~(d <= d - 1)
    BY <1>5, <2>3, <2>4
  <2>6. g[N - (d - 1)] = h[N - (d - 1)]
    BY <2>2, <2>5
  <2>. QED
    BY <1>4, <1>6, <2>3, <2>4, <2>6
<1>8. N - 1 \in Nat /\ N - 1 < N /\ N - (N - 1) = 1
  BY <1>5
<1>. QED
  BY <1>1, <1>2, <1>7, <1>8

LEMMA ListKept ==
    ASSUME NEW s \in Seq(Rows), NEW k, NEW ko, NEW kp, NEW r, IsListOf(s, k, ko, r),
           \A i \in 1 .. Len(s) : kp[s[i]] = ko[s[i]]
    PROVE  IsListOf(s, k, kp, r)
<1>1. PICK h : Collects(s, k, ko, h) /\ r = h[1]
  BY DEF IsListOf
<1>2. \A i \in 1 .. Len(s) :
        h[i] = IF kp[s[i]] = k THEN <<s[i]>> \o h[i + 1] ELSE h[i + 1]
  BY <1>1 DEF Collects
<1>3. Collects(s, k, kp, h)
  BY <1>1, <1>2 DEF Collects
<1>. QED
  BY <1>1, <1>3 DEF IsListOf

LEMMA ListPut ==
    ASSUME NEW s \in Seq(Rows), NEW k, NEW ko, NEW r, IsListOf(s, k, ko, r),
           NEW x \in Rows
    PROVE  IsListOf(<<x>> \o s, k, ko, IF ko[x] = k THEN <<x>> \o r ELSE r)
<1> DEFINE z == <<x>> \o s
           e == IF ko[x] = k THEN <<x>> \o r ELSE r
<1>0. Len(s) \in Nat
  BY ElementsOf
<1>1. /\ Len(z) = Len(s) + 1 /\ z[1] = x
      /\ \A i \in 1 .. Len(s) : z[i + 1] = s[i]
  BY PutIs
<1>2. e \in Seq(Rows)
  BY ListTyped, PutIs
<1>3. PICK h : Collects(s, k, ko, h) /\ r = h[1]
  BY DEF IsListOf
<1>4. /\ h \in [1 .. Len(s) + 1 -> Seq(Rows)] /\ h[Len(s) + 1] = <<>>
      /\ \A i \in 1 .. Len(s) :
           h[i] = IF ko[s[i]] = k THEN <<s[i]>> \o h[i + 1] ELSE h[i + 1]
  BY <1>3 DEF Collects
<1>. HIDE DEF z, e
<1>5. PICK f : f = [i \in 1 .. (Len(s) + 1) + 1 |-> IF i = 1 THEN e ELSE h[i - 1]]
  OBVIOUS
<1>6. f[1] = e /\ f[2] = r
  BY <1>0, <1>3, <1>5
<1>7. \A i \in 1 .. Len(s) + 1 : f[i + 1] = h[i]
  BY <1>0, <1>5
<1>8. f \in [1 .. (Len(s) + 1) + 1 -> Seq(Rows)]
  <2>1. \A i \in 1 .. (Len(s) + 1) + 1 : i # 1 => i - 1 \in 1 .. Len(s) + 1
    BY <1>0
  <2>2. \A i \in 1 .. (Len(s) + 1) + 1 : i # 1 => h[i - 1] \in Seq(Rows)
    BY <1>4, <2>1
  <2>. QED
    BY <1>2, <1>5, <2>2
<1>9. f[(Len(s) + 1) + 1] = <<>>
  <2>1. Len(s) + 1 \in 1 .. Len(s) + 1
    BY <1>0
  <2>. QED
    BY <1>4, <1>7, <2>1
<1>10. ASSUME NEW i \in 1 .. Len(s) + 1
       PROVE  f[i] = IF ko[z[i]] = k THEN <<z[i]>> \o f[i + 1] ELSE f[i + 1]
  <2>1. CASE i = 1
    <3>1. f[i] = e /\ f[i + 1] = r /\ z[i] = x
      BY <1>1, <1>6, <2>1
    <3>. QED
      BY <3>1 DEF e
  <2>2. CASE i # 1
    <3>1. i - 1 \in 1 .. Len(s) /\ (i - 1) + 1 = i
      BY <1>0, <2>2
    <3>2. i - 1 \in 1 .. Len(s) + 1
      BY <1>0, <2>2
    <3>3. z[i] = s[i - 1] /\ f[i] = h[i - 1] /\ f[i + 1] = h[i]
      BY <1>1, <1>7, <3>1, <3>2
    <3>4. h[i - 1] = IF ko[s[i - 1]] = k THEN <<s[i - 1]>> \o h[i] ELSE h[i]
      BY <1>4, <3>1
    <3>. QED
      BY <3>3, <3>4
  <2>. QED
    BY <2>1, <2>2
<1>11. Collects(z, k, ko, f)
  BY <1>1, <1>8, <1>9, <1>10 DEF Collects
<1>. QED
  BY <1>6, <1>11 DEF IsListOf, z, e

\* A row of another key goes: the list stays.
LEMMA ListStays ==
    ASSUME NEW s \in Seq(Rows), NEW k, NEW ko, NEW r, IsListOf(s, k, ko, r),
           NEW m \in 1 .. Len(s), ko[s[m]] # k
    PROVE  IsListOf(RemoveAt(s, m), k, ko, r)
<1> DEFINE z == RemoveAt(s, m)
<1>0. Len(s) \in Nat
  BY ElementsOf
<1>1. /\ Len(z) = Len(s) - 1
      /\ \A i \in 1 .. Len(s) - 1 : z[i] = IF i < m THEN s[i] ELSE s[i + 1]
  BY RemoveAtIs
<1>2. PICK h : Collects(s, k, ko, h) /\ r = h[1]
  BY DEF IsListOf
<1>3. /\ h \in [1 .. Len(s) + 1 -> Seq(Rows)] /\ h[Len(s) + 1] = <<>>
      /\ \A i \in 1 .. Len(s) :
           h[i] = IF ko[s[i]] = k THEN <<s[i]>> \o h[i + 1] ELSE h[i + 1]
  BY <1>2 DEF Collects
<1>. HIDE DEF z
<1>4. PICK f : f = [i \in 1 .. Len(s) |-> IF i < m THEN h[i] ELSE h[i + 1]]
  OBVIOUS
<1>5. h[m] = h[m + 1]
  BY <1>3
<1>6. f \in [1 .. Len(s) -> Seq(Rows)]
  <2>1. \A i \in 1 .. Len(s) : i \in 1 .. Len(s) + 1 /\ i + 1 \in 1 .. Len(s) + 1
    BY <1>0
  <2>. QED
    BY <1>3, <1>4, <2>1
<1>7. f[Len(s)] = <<>> /\ f[1] = r
  <2>1. /\ 1 \in 1 .. Len(s) /\ Len(s) \in 1 .. Len(s) /\ ~(Len(s) < m)
        /\ ~(1 < m) => m = 1
    BY <1>0
  <2>. QED
    BY <1>2, <1>3, <1>4, <1>5, <2>1
<1>8. ASSUME NEW i \in 1 .. Len(s) - 1
      PROVE  f[i] = IF ko[z[i]] = k THEN <<z[i]>> \o f[i + 1] ELSE f[i + 1]
  <2>1. i \in 1 .. Len(s) /\ i + 1 \in 1 .. Len(s)
    BY <1>0
  <2>2. CASE i < m
    <3>1. z[i] = s[i] /\ f[i] = h[i]
      BY <1>1, <1>4, <2>1, <2>2
    <3>2. f[i + 1] = h[i + 1]
      <4>1. ~(i + 1 < m) => i + 1 = m
        BY <2>1, <2>2
      <4>2. f[i + 1] = IF i + 1 < m THEN h[i + 1] ELSE h[(i + 1) + 1]
        BY <1>4, <2>1
      <4>. QED
        BY <1>5, <4>1, <4>2
    <3>3. h[i] = IF ko[s[i]] = k THEN <<s[i]>> \o h[i + 1] ELSE h[i + 1]
      BY <1>3, <2>1
    <3>. QED
      BY <3>1, <3>2, <3>3
  <2>3. CASE ~(i < m)
    <3>1. ~(i + 1 < m)
      BY <2>1, <2>3
    <3>2. z[i] = s[i + 1] /\ f[i] = h[i + 1] /\ f[i + 1] = h[(i + 1) + 1]
      BY <1>1, <1>4, <2>1, <2>3, <3>1
    <3>3. h[i + 1] = IF ko[s[i + 1]] = k THEN <<s[i + 1]>> \o h[(i + 1) + 1]
                                        ELSE h[(i + 1) + 1]
      BY <1>3, <2>1
    <3>. QED
      BY <3>2, <3>3
  <2>. QED
    BY <2>2, <2>3
<1>9. Len(z) + 1 = Len(s)
  BY <1>0, <1>1
<1>10. Collects(z, k, ko, f)
  BY <1>1, <1>6, <1>7, <1>8, <1>9 DEF Collects
<1>. QED
  BY <1>7, <1>10 DEF IsListOf, z

\* The newest row of the key goes: it is the first of the list.
LEMMA ListDrop ==
    ASSUME NEW s \in Seq(Rows), NEW k, NEW ko, NEW r, IsListOf(s, k, ko, r),
           NEW m \in 1 .. Len(s), ko[s[m]] = k,
           \A j \in 1 .. Len(s) : j < m => ko[s[j]] # k
    PROVE  /\ r # <<>> /\ r # Tail(r)
           /\ IsListOf(RemoveAt(s, m), k, ko, Tail(r))
<1> DEFINE z == RemoveAt(s, m)
<1>0. Len(s) \in Nat /\ s[m] \in Rows
  BY ElementsOf
<1>1. /\ Len(z) = Len(s) - 1
      /\ \A i \in 1 .. Len(s) - 1 : z[i] = IF i < m THEN s[i] ELSE s[i + 1]
  BY RemoveAtIs
<1>2. PICK h : Collects(s, k, ko, h) /\ r = h[1]
  BY DEF IsListOf
<1>3. /\ h \in [1 .. Len(s) + 1 -> Seq(Rows)] /\ h[Len(s) + 1] = <<>>
      /\ \A i \in 1 .. Len(s) :
           h[i] = IF ko[s[i]] = k THEN <<s[i]>> \o h[i + 1] ELSE h[i + 1]
  BY <1>2 DEF Collects
<1>. HIDE DEF z
<1>4. h[m] = <<s[m]>> \o h[m + 1] /\ h[m + 1] \in Seq(Rows)
  <2>1. h[m] = <<s[m]>> \o h[m + 1]
    BY <1>3
  <2>2. m + 1 \in 1 .. Len(s) + 1
    BY <1>0
  <2>. QED
    BY <1>3, <2>1, <2>2
\* No row before it is of the key.
<1>5. h[1] = h[m]
  <2> DEFINE T == {j \in Nat : j \in 1 .. m /\ h[j] = h[m]}
  <2>1. m \in T
    BY <1>0
  <2>2. PICK j \in T : \A n \in T : j <= n
    <3>1. T \in SUBSET Nat /\ T # {}
      BY <2>1
    <3>. HIDE DEF T
    <3>. QED
      BY <3>1, Least
  <2>3. CASE j = 1
    BY <2>3
  <2>4. CASE j # 1
    <3>1. /\ j - 1 \in Nat /\ j - 1 \in 1 .. m /\ j - 1 \in 1 .. Len(s) /\ j - 1 < m
          /\ (j - 1) + 1 = j /\ ~(j <= j - 1)
      BY <1>0, <2>4
    <3>2. h[j - 1] = h[j]
      BY <1>3, <3>1
    <3>. QED
      BY <2>2, <3>1, <3>2
  <2>. QED
    BY <2>3, <2>4
<1>6. \A q \in Seq(Rows), x \in Rows :
        <<x>> \o q # <<>> /\ Tail(<<x>> \o q) = q /\ <<x>> \o q # q
  <2>1. ASSUME NEW q \in Seq(Rows), NEW x \in Rows
        PROVE  <<x>> \o q # <<>> /\ Tail(<<x>> \o q) = q /\ <<x>> \o q # q
    <3>1. <<x>> \o q # <<>> /\ Len(<<x>> \o q) = Len(q) + 1 /\ Len(q) \in Nat
      BY PutIs, ElementsOf
    <3>2. <<x>> \o q # q
      BY <3>1
    <3>3. Tail(<<x>> \o q) = q
      <4> DEFINE p == <<x>> \o q
      <4>1. /\ p \in Seq(Rows) /\ p # <<>> /\ Len(p) = Len(q) + 1 /\ Len(q) \in Nat
            /\ \A i \in 1 .. Len(q) : p[i + 1] = q[i]
        BY PutIs, ElementsOf
      <4>. HIDE DEF p
      <4>2. /\ Tail(p) \in Seq(Rows) /\ Len(Tail(p)) = Len(p) - 1
            /\ \A i \in 1 .. Len(Tail(p)) : Tail(p)[i] = p[i + 1]
        BY <4>1, HeadTailProperties
      <4>3. Len(Tail(p)) = Len(q) /\ \A i \in 1 .. Len(q) : Tail(p)[i] = q[i]
        BY <4>1, <4>2
      <4>4. Tail(p) \in Seq(Rows)
        BY <4>2
      <4>5. Len(Tail(p)) = Len(q) /\ \A i \in 1 .. Len(Tail(p)) : Tail(p)[i] = q[i]
        BY <4>3
      <4>6. Tail(p) = q
        BY <2>1, <4>4, <4>5, SeqEqual
      <4>. QED
        BY <4>6 DEF p
    <3>. QED
      BY <3>1, <3>2, <3>3
  <2>. QED
    BY <2>1
<1>7. r # <<>> /\ r # Tail(r) /\ Tail(r) = h[m + 1]
  BY <1>0, <1>2, <1>4, <1>5, <1>6
<1>8. PICK f : f = [i \in 1 .. Len(s) |-> IF i < m THEN h[m + 1] ELSE h[i + 1]]
  OBVIOUS
<1>9. f \in [1 .. Len(s) -> Seq(Rows)]
  <2>1. \A i \in 1 .. Len(s) : i + 1 \in 1 .. Len(s) + 1
    BY <1>0
  <2>. QED
    BY <1>3, <1>4, <1>8, <2>1
<1>10. f[Len(s)] = <<>> /\ f[1] = h[m + 1]
  <2>1. /\ 1 \in 1 .. Len(s) /\ Len(s) \in 1 .. Len(s) /\ ~(Len(s) < m)
        /\ ~(1 < m) => m = 1
    BY <1>0
  <2>. QED
    BY <1>3, <1>8, <2>1
<1>11. ASSUME NEW i \in 1 .. Len(s) - 1
       PROVE  f[i] = IF ko[z[i]] = k THEN <<z[i]>> \o f[i + 1] ELSE f[i + 1]
  <2>1. i \in 1 .. Len(s) /\ i + 1 \in 1 .. Len(s)
    BY <1>0
  <2>2. CASE i < m
    <3>1. ko[z[i]] # k /\ f[i] = h[m + 1]
      BY <1>1, <1>8, <2>1, <2>2
    <3>2. f[i + 1] = h[m + 1]
      <4>1. ~(i + 1 < m) => i + 1 = m
        BY <2>1, <2>2
      <4>2. f[i + 1] = IF i + 1 < m THEN h[m + 1] ELSE h[(i + 1) + 1]
        BY <1>8, <2>1
      <4>. QED
        BY <4>1, <4>2
    <3>. QED
      BY <3>1, <3>2
  <2>3. CASE ~(i < m)
    <3>1. ~(i + 1 < m)
      BY <2>1, <2>3
    <3>2. z[i] = s[i + 1] /\ f[i] = h[i + 1] /\ f[i + 1] = h[(i + 1) + 1]
      BY <1>1, <1>8, <2>1, <2>3, <3>1
    <3>3. h[i + 1] = IF ko[s[i + 1]] = k THEN <<s[i + 1]>> \o h[(i + 1) + 1]
                                        ELSE h[(i + 1) + 1]
      BY <1>3, <2>1
    <3>. QED
      BY <3>2, <3>3
  <2>. QED
    BY <2>2, <2>3
<1>12. Len(z) + 1 = Len(s)
  BY <1>0, <1>1
<1>13. Collects(z, k, ko, f)
  BY <1>1, <1>9, <1>10, <1>11, <1>12 DEF Collects
<1>. QED
  BY <1>7, <1>10, <1>13 DEF IsListOf, z
\* A bucket holds each row once, so that a walk of MaxRows rows sees them all.
LEMMA RowsAreFew ==
    ASSUME NEW s \in Seq(Rows), \A i, j \in 1 .. Len(s) : s[i] = s[j] => i = j
    PROVE  Len(s) <= MaxRows
<1>1. Len(s) \in Nat /\ \A i \in 1 .. Len(s) : s[i] \in Rows
  BY ElementsOf
<1>2. /\ IsFiniteSet(1 .. Len(s)) /\ Cardinality(1 .. Len(s)) = Len(s)
      /\ IsFiniteSet(Rows) /\ Cardinality(Rows) = MaxRows
  <2>1. \A n \in Nat : IsFiniteSet(1 .. n) /\ Cardinality(1 .. n) = n
    <3>1. ASSUME NEW n \in Nat PROVE IsFiniteSet(1 .. n) /\ Cardinality(1 .. n) = n
      <4>1. /\ IsFiniteSet(1 .. n)
            /\ Cardinality(1 .. n) = IF 1 > n THEN 0 ELSE n - 1 + 1
        BY FS_Interval
      <4>. QED
        BY <4>1
    <3>. QED
      BY <3>1
  <2>. QED
    BY <1>1, <2>1
<1> DEFINE f == [i \in 1 .. Len(s) |-> s[i]]
<1>3. f \in [1 .. Len(s) -> Rows] /\ \A i \in 1 .. Len(s) : f[i] = s[i]
  BY <1>1
<1>. HIDE DEF f
<1>4. ~(MaxRows < Len(s))
  <2>1. SUFFICES ASSUME MaxRows < Len(s) PROVE FALSE
    OBVIOUS
  <2>2. PICK i, j \in 1 .. Len(s) : i # j /\ f[i] = f[j]
    <3> DEFINE S == 1 .. Len(s)
               R == Rows
    <3>1. /\ IsFiniteSet(S) /\ IsFiniteSet(R) /\ f \in [S -> R]
          /\ Cardinality(R) < Cardinality(S)
      BY <1>2, <1>3, <2>1
    <3>. HIDE DEF S, R
    <3>2. \E i, j \in S : i # j /\ f[i] = f[j]
      BY <3>1, FS_PigeonHole
    <3>. QED
      BY <3>2 DEF S
  <2>. QED
    BY <1>3, <2>2
<1>. QED
  BY <1>1, <1>4

\* The walk of RowsOf, one row at a time.
NextRows(k, n, rest) ==
    [p \in Positions \cup {Unset} |->
        IF n = 0 \/ p \notin Rows THEN <<>>
        ELSE IF keyOf[p] = k THEN <<p>> \o rest[next[p]]
        ELSE rest[next[p]]]

LEMMA WalkExists ==
    ASSUME NEW k
    PROVE  \E f : f = [n \in 0 .. MaxRows |-> NextRows(k, n, f[n - 1])]
<1> DEFINE P(N) == \E f : f = [n \in 0 .. N |-> NextRows(k, n, f[n - 1])]
           T == {N \in Nat : ~P(N)}
<1>1. \A x, y : NextRows(k, 0, x) = NextRows(k, 0, y)
  BY DEF NextRows
<1>2. P(0)
  <2>1. PICK g : g = [n \in 0 .. 0 |-> NextRows(k, n, n)]
    OBVIOUS
  <2>2. g = [n \in 0 .. 0 |-> NextRows(k, n, g[n - 1])]
    <3>1. \A n \in 0 .. 0 : NextRows(k, n, n) = NextRows(k, n, g[n - 1])
      <4>1. \A n \in 0 .. 0 : n = 0
        OBVIOUS
      <4>. QED
        BY <1>1, <4>1
    <3>. QED
      BY <2>1, <3>1
  <2>. QED
    BY <2>2
<1>3. ASSUME NEW N \in Nat, P(N)
      PROVE  P(N + 1)
  <2>1. PICK g : g = [n \in 0 .. N |-> NextRows(k, n, g[n - 1])]
    BY <1>3
  <2>2. PICK f : f = [n \in 0 .. N + 1 |-> NextRows(k, n, g[n - 1])]
    OBVIOUS
  <2>3. \A n \in 0 .. N : f[n] = g[n]
    BY <2>1, <2>2
  <2>4. \A n \in 0 .. N + 1 : NextRows(k, n, g[n - 1]) = NextRows(k, n, f[n - 1])
    <3>1. ASSUME NEW n \in 0 .. N + 1
          PROVE  NextRows(k, n, g[n - 1]) = NextRows(k, n, f[n - 1])
      <4>1. CASE n = 0
        BY <1>1, <4>1
      <4>2. CASE n # 0
        <5>1. n - 1 \in 0 .. N
          BY <4>2
        <5>. QED
          BY <2>3, <5>1
      <4>. QED
        BY <4>1, <4>2
    <3>. QED
      BY <3>1
  <2>5. f = [n \in 0 .. N + 1 |-> NextRows(k, n, f[n - 1])]
    BY <2>2, <2>4
  <2>. QED
    BY <2>5
<1>. HIDE DEF P
<1>4. T = {}
  <2>1. SUFFICES ASSUME T # {} PROVE FALSE
    OBVIOUS
  <2>2. PICK N \in T : \A n \in T : N <= n
    <3>1. T \in SUBSET Nat
      OBVIOUS
    <3>. HIDE DEF T
    <3>. QED
      BY <2>1, <3>1, Least
  <2>3. N # 0
    BY <1>2, <2>2
  <2>4. N - 1 \in Nat /\ ~(N <= N - 1) /\ (N - 1) + 1 = N
    BY <2>3
  <2>5. P(N - 1)
    BY <2>2, <2>4
  <2>6. P((N - 1) + 1)
    BY <1>3, <2>4, <2>5
  <2>. QED
    BY <2>4, <2>6
<1>5. P(MaxRows)
  BY <1>4
<1>. QED
  BY <1>5 DEF P

LEMMA RowsOfIs ==
    ASSUME Typed, NEW k \in Keys,
           IsRun(header[HashOf[k]], linked[HashOf[k]], next)
    PROVE  IsListOf(linked[HashOf[k]], k, keyOf, RowsOf(k))
<1> DEFINE s == linked[HashOf[k]]
           hd == header[HashOf[k]]
           from == CHOOSE f : f = [n \in 0 .. MaxRows |-> NextRows(k, n, f[n - 1])]
<1>1. s \in Seq(Rows) /\ Len(s) \in Nat /\ Len(s) <= MaxRows
      /\ \A i \in 1 .. Len(s) : s[i] \in Rows
  <2>1. s \in Seq(Rows)
    BY DEF Typed
  <2>2. \A i, j \in 1 .. Len(s) : s[i] = s[j] => i = j
    BY DEF IsRun
  <2>. QED
    BY <2>1, <2>2, RowsAreFew, ElementsOf
<1>2. RowsOf(k) = from[MaxRows][hd]
  BY DEF RowsOf, NextRows
<1>3. from = [n \in 0 .. MaxRows |-> NextRows(k, n, from[n - 1])]
  BY WalkExists
<1>. PICK g : g = from
  OBVIOUS
<1>4. g = [n \in 0 .. MaxRows |-> NextRows(k, n, g[n - 1])] /\ RowsOf(k) = g[MaxRows][hd]
  BY <1>2, <1>3
<1>. HIDE DEF from
<1>5. \A n \in 0 .. MaxRows : g[n] = NextRows(k, n, g[n - 1])
  BY <1>4
<1>6. \A n \in 0 .. MaxRows, p \in Positions \cup {Unset} :
        g[n][p] = IF n = 0 \/ p \notin Rows THEN <<>>
                  ELSE IF keyOf[p] = k THEN <<p>> \o g[n - 1][next[p]]
                  ELSE g[n - 1][next[p]]
  <2>1. ASSUME NEW n \in 0 .. MaxRows, NEW p \in Positions \cup {Unset}
        PROVE  g[n][p] = IF n = 0 \/ p \notin Rows THEN <<>>
                         ELSE IF keyOf[p] = k THEN <<p>> \o g[n - 1][next[p]]
                         ELSE g[n - 1][next[p]]
    <3>1. g[n] = NextRows(k, n, g[n - 1])
      BY <1>5
    <3>2. NextRows(k, n, g[n - 1])[p]
            = IF n = 0 \/ p \notin Rows THEN <<>>
              ELSE IF keyOf[p] = k THEN <<p>> \o g[n - 1][next[p]]
              ELSE g[n - 1][next[p]]
      BY Zenon DEF NextRows
    <3>. HIDE DEF s, hd
    <3>. QED
      BY <3>1, <3>2, Zenon
  <2>. QED
    BY <2>1, Zenon
<1>7. \A n \in 0 .. MaxRows : \A p \in Positions \cup {Unset} : g[n][p] \in Seq(Rows)
  <2> DEFINE P(n) == \A p \in Positions \cup {Unset} : g[n][p] \in Seq(Rows)
             T == {n \in Nat : n <= MaxRows /\ ~P(n)}
  <2>1. <<>> \in Seq(Rows)
    OBVIOUS
  <2>2. P(0)
    <3>1. 0 \in 0 .. MaxRows
      OBVIOUS
    <3>. QED
      BY <1>6, <2>1, <3>1
  <2>3. ASSUME NEW n \in Nat, n # 0, n <= MaxRows, P(n - 1)
        PROVE  P(n)
    <3>1. n \in 0 .. MaxRows
      BY <2>3
    <3>2. ASSUME NEW p \in Positions \cup {Unset} PROVE g[n][p] \in Seq(Rows)
      <4>1. p \in Rows => next[p] \in Positions \cup {Unset}
        BY DEF Typed
      <4>2. p \in Rows => g[n - 1][next[p]] \in Seq(Rows)
        BY <2>3, <4>1
      <4>3. p \in Rows => <<p>> \o g[n - 1][next[p]] \in Seq(Rows)
        BY <4>2, PutIs
      <4>. QED
        BY <1>6, <2>1, <3>1, <4>2, <4>3
    <3>. QED
      BY <3>2
  <2>. HIDE DEF P
  <2>4. T = {}
    <3>1. SUFFICES ASSUME T # {} PROVE FALSE
      OBVIOUS
    <3>2. PICK n \in T : \A j \in T : n <= j
      <4>1. T \in SUBSET Nat
        OBVIOUS
      <4>. HIDE DEF T
      <4>. QED
        BY <3>1, <4>1, Least
    <3>3. n # 0
      BY <2>2, <3>2
    <3>4. n - 1 \in Nat /\ n - 1 <= MaxRows /\ ~(n <= n - 1)
      BY <3>2, <3>3
    <3>5. P(n - 1)
      BY <3>2, <3>4
    <3>. QED
      BY <2>3, <3>2, <3>3, <3>5
  <2>. QED
    BY <2>4 DEF P
<1>. HIDE DEF s, hd
<1>8. PICK h : h = [i \in 1 .. Len(s) + 1 |-> g[MaxRows + 1 - i][At(s, i)]]
  OBVIOUS
<1>9. \A i \in 1 .. Len(s) + 1 : MaxRows + 1 - i \in 0 .. MaxRows /\ At(s, i) \in Positions
  <2>1. \A i \in 1 .. Len(s) + 1 : i = Len(s) + 1 \/ i \in 1 .. Len(s)
    BY <1>1
  <2>. QED
    BY <1>1, <2>1 DEF At
<1>10. h \in [1 .. Len(s) + 1 -> Seq(Rows)]
  BY <1>7, <1>8, <1>9
<1>11. h[Len(s) + 1] = <<>>
  <2>1. Len(s) + 1 \in 1 .. Len(s) + 1
    BY <1>1
  <2>2. h[Len(s) + 1] = g[MaxRows + 1 - (Len(s) + 1)][Empty]
    BY <1>8, <2>1 DEF At
  <2>3. MaxRows + 1 - (Len(s) + 1) \in 0 .. MaxRows /\ Empty \notin Rows
        /\ Empty \in Positions
    BY <1>1
  <2>. QED
    BY <1>6, <2>2, <2>3
<1>12. ASSUME NEW i \in 1 .. Len(s)
       PROVE  h[i] = IF keyOf[s[i]] = k THEN <<s[i]>> \o h[i + 1] ELSE h[i + 1]
  <2>1. /\ i \in 1 .. Len(s) + 1 /\ i + 1 \in 1 .. Len(s) + 1 /\ i # Len(s) + 1
        /\ MaxRows + 1 - i \in 0 .. MaxRows /\ MaxRows + 1 - i # 0
        /\ (MaxRows + 1 - i) - 1 = MaxRows + 1 - (i + 1)
        /\ (i + 1 = Len(s) + 1 <=> i = Len(s))
    BY <1>1
  <2>2. next[s[i]] = At(s, i + 1)
    BY <2>1 DEF IsRun, At, s
  <2>3. h[i] = g[MaxRows + 1 - i][s[i]]
    BY <1>8, <2>1 DEF At
  <2>4. h[i + 1] = g[(MaxRows + 1 - i) - 1][next[s[i]]]
    BY <1>8, <2>1, <2>2
  <2>5. s[i] \in Rows /\ s[i] \in Positions \cup {Unset}
    BY <1>1
  <2>6. g[MaxRows + 1 - i][s[i]] =
          IF keyOf[s[i]] = k THEN <<s[i]>> \o g[(MaxRows + 1 - i) - 1][next[s[i]]]
                             ELSE g[(MaxRows + 1 - i) - 1][next[s[i]]]
    <3>1. PICK n \in 0 .. MaxRows : n = MaxRows + 1 - i
      BY <2>1
    <3>2. n # 0
      BY <2>1, <3>1
    <3>3. g[n][s[i]] = IF keyOf[s[i]] = k THEN <<s[i]>> \o g[n - 1][next[s[i]]]
                                          ELSE g[n - 1][next[s[i]]]
      BY <1>6, <2>5, <3>2
    <3>. QED
      BY <3>1, <3>3
  <2>. QED
    BY <2>3, <2>4, <2>6
<1>13. Collects(s, k, keyOf, h)
  BY <1>10, <1>11, <1>12 DEF Collects
<1>14. RowsOf(k) = h[1]
  <2>1. 1 \in 1 .. Len(s) + 1 /\ MaxRows + 1 - 1 = MaxRows
    BY <1>1
  <2>2. hd = At(s, 1)
    <3>1. s = <<>> <=> 1 = Len(s) + 1
      <4>1. \A q \in Seq(Rows) : q = <<>> <=> Len(q) = 0
        OBVIOUS
      <4>2. Len(s) = 0 <=> 1 = Len(s) + 1
        BY <1>1
      <4>. QED
        BY <1>1, <4>1, <4>2
    <3>. QED
      BY <3>1 DEF IsRun, At, s, hd
  <2>. QED
    BY <1>4, <1>8, <2>1, <2>2
<1>. QED
  BY <1>13, <1>14 DEF IsListOf, s
ListInv ==
    /\ Listed \in [Keys -> Seq(Rows)]
    /\ \A k \in Keys : IsListOf(linked[HashOf[k]], k, keyOf, Listed[k])

LEMMA ListsMatch ==
    ASSUME BaseInv, TurnsInv
    PROVE  ListInv
<1>1. ASSUME NEW k \in Keys
      PROVE  /\ IsListOf(linked[HashOf[k]], k, keyOf, RowsOf(k))
             /\ RowsOf(k) \in Seq(Rows)
  <2>1. linked[HashOf[k]] \in Seq(Rows) /\ Typed
    BY DEF BaseInv, Typed
  <2>2. IsRun(header[HashOf[k]], linked[HashOf[k]], next)
    BY DEF TurnsInv, ChainInv
  <2>. QED
    BY <2>1, <2>2, RowsOfIs, ListTyped
<1>. QED
  BY <1>1 DEF ListInv, Listed

\* The keys of the rows in the buckets stay.
LEMMA KeysStay ==
    ASSUME BaseInv, NEW t \in Threads, Step(t)
    PROVE  \A b \in Buckets : \A i \in 1 .. Len(linked[b]) :
             keyOf'[linked[b][i]] = keyOf[linked[b][i]]
<1>0. Typed /\ CountInv /\ FreshInv /\ ReachInv
  BY DEF BaseInv
<1>1. CASE Create(t)
  <2>1. count + 1 \in Rows /\ keyOf' = [keyOf EXCEPT ![count + 1] = key[t]]
    BY <1>0, <1>1, CountRoom DEF Create
  <2>2. next[count + 1] = Unset /\ count + 1 # Empty
    BY <1>0, <2>1 DEF FreshInv, Typed
  <2>3. \A p \in Rows : IsLinked(p) => p # count + 1
    BY <2>2 DEF IsLinked
  <2>4. \A b \in Buckets : \A i \in 1 .. Len(linked[b]) :
          linked[b][i] \in Rows /\ IsLinked(linked[b][i])
    BY <1>0, ElementsOf DEF Typed, ReachInv
  <2>. QED
    BY <1>0, <2>1, <2>3, <2>4 DEF Typed
<1>2. CASE ~Create(t)
  BY <1>2, LinkSteps DEF Quiet, LinkRow, Publish, UnlinkHead, Release
<1>. QED
  BY <1>1, <1>2

\* Where a bucket stays, the lists of its keys stay.
LEMMA ListsStay ==
    ASSUME BaseInv, ListInv, ListInv', NEW k \in Keys,
           linked'[HashOf[k]] = linked[HashOf[k]],
           \A i \in 1 .. Len(linked[HashOf[k]]) :
             keyOf'[linked[HashOf[k]][i]] = keyOf[linked[HashOf[k]][i]]
    PROVE  Listed'[k] = Listed[k]
<1>1. linked[HashOf[k]] \in Seq(Rows)
  BY DEF BaseInv, Typed
<1>2. IsListOf(linked[HashOf[k]], k, keyOf', Listed[k])
  BY <1>1, ListKept DEF ListInv
<1>3. IsListOf(linked[HashOf[k]], k, keyOf', Listed'[k])
  BY DEF ListInv
<1>. QED
  BY <1>1, <1>2, <1>3, ListIsOne

\* A published row comes before the list of its key.
LEMMA PublishPuts ==
    ASSUME BaseInv, TurnsInv, ListInv, ListInv', NEW t \in Threads, Publish(t)
    PROVE  Lists!Next
<1> DEFINE x == row[t]
           c == HashOf[key[t]]
<1>0. Typed /\ CallInv /\ Step(t)
  BY DEF BaseInv, Step
<1>1. pc[t] = "publish" /\ keyOf' = keyOf
  BY DEF Publish
<1>2. x \in Rows /\ key[t] \in Keys /\ c \in Buckets /\ keyOf[x] = key[t]
  BY <1>1, FreshIs DEF IsFresh
<1>3. \A b \in Buckets :
        linked'[b] = IF b = c THEN <<x>> \o linked[b] ELSE linked[b]
  BY <1>0, <1>2 DEF Publish, Typed
<1>4. \A k \in Keys : linked[HashOf[k]] \in Seq(Rows) /\ HashOf[k] \in Buckets
  BY <1>0 DEF Typed
<1>5. ASSUME NEW k \in Keys
      PROVE  Listed'[k] = IF k = key[t] THEN <<x>> \o Listed[k] ELSE Listed[k]
  <2>1. CASE HashOf[k] = c
    <3>1. IsListOf(<<x>> \o linked[c], k, keyOf,
                   IF keyOf[x] = k THEN <<x>> \o Listed[k] ELSE Listed[k])
      <4>1. IsListOf(linked[c], k, keyOf, Listed[k]) /\ linked[c] \in Seq(Rows)
        BY <1>4, <2>1 DEF ListInv
      <4>. QED
        BY <1>2, <4>1, ListPut
    <3>2. IsListOf(<<x>> \o linked[c], k, keyOf, Listed'[k])
      <4>1. IsListOf(linked'[HashOf[k]], k, keyOf', Listed'[k])
        BY DEF ListInv
      <4>2. linked'[HashOf[k]] = <<x>> \o linked[c]
        BY <1>2, <1>3, <2>1
      <4>. QED
        BY <1>1, <4>1, <4>2
    <3>3. <<x>> \o linked[c] \in Seq(Rows)
      BY <1>2, <1>4, PutIs
    <3>4. Listed'[k] = IF keyOf[x] = k THEN <<x>> \o Listed[k] ELSE Listed[k]
      BY <3>1, <3>2, <3>3, ListIsOne
    <3>. QED
      BY <1>2, <3>4
  <2>2. CASE HashOf[k] # c
    <3>1. linked'[HashOf[k]] = linked[HashOf[k]]
      BY <1>3, <1>4, <2>2
    <3>2. Listed'[k] = Listed[k]
      BY <1>1, <3>1, ListsStay
    <3>. QED
      BY <2>2, <3>2
  <2>. QED
    BY <2>1, <2>2
<1>. HIDE DEF x, c
<1>6. Listed \in [Keys -> Seq(Rows)] /\ Listed' \in [Keys -> Seq(Rows)]
  BY DEF ListInv
<1>7. Listed' = [Listed EXCEPT ![key[t]] = <<x>> \o @]
  BY <1>2, <1>5, <1>6
<1>8. Listed' # Listed
  <2>1. Len(<<x>> \o Listed[key[t]]) = Len(Listed[key[t]]) + 1
        /\ Len(Listed[key[t]]) \in Nat
    BY <1>2, <1>6, PutIs, ElementsOf
  <2>2. Listed'[key[t]] = <<x>> \o Listed[key[t]]
    BY <1>2, <1>5
  <2>. QED
    BY <2>1, <2>2
<1>. QED
  BY <1>2, <1>7, <1>8 DEF Lists!Next, Lists!Put

\* An unlinked row was the first in the list of its key.
LEMMA UnlinkTakes ==
    ASSUME BaseInv, TurnsInv, ListInv, ListInv', NEW t \in Threads,
           UnlinkHead(t) \/ Release(t)
    PROVE  Lists!Next
<1> DEFINE c == HashOf[key[t]]
<1>0. Typed /\ CallInv /\ ChainInv /\ UnlinkInv /\ Step(t)
  BY DEF BaseInv, TurnsInv, Step
<1>1. pc[t] \in {"unhead", "release"} /\ keyOf' = keyOf /\ Removed(t)
  BY DEF UnlinkHead, Release
<1>2. /\ key[t] \in Keys /\ c \in Buckets /\ linked[c] \in Seq(Rows)
      /\ \E m \in 1 .. Len(linked[c]) : Taken(t, m)
  BY <1>0, TakenIs
<1>3. PICK m \in 1 .. Len(linked[c]) : Taken(t, m)
  BY <1>2
<1>4. /\ keyOf[linked[c][m]] = key[t]
      /\ \A j \in 1 .. Len(linked[c]) : j < m => keyOf[linked[c][j]] # key[t]
  BY <1>3 DEF Taken
<1>5. \A b \in Buckets :
        linked'[b] = IF b = c THEN RemoveAt(linked[b], m) ELSE linked[b]
  BY <1>0, <1>1, <1>3, TakenLeaves
<1>6. \A k \in Keys : linked[HashOf[k]] \in Seq(Rows) /\ HashOf[k] \in Buckets
  BY <1>0 DEF Typed
<1>7. RemoveAt(linked[c], m) \in Seq(Rows) /\ linked'[c] = RemoveAt(linked[c], m)
  BY <1>2, <1>5, RemoveAtIs
<1>8. /\ Listed'[key[t]] = Tail(Listed[key[t]]) /\ Listed[key[t]] # <<>>
      /\ Listed[key[t]] # Tail(Listed[key[t]])
  <2>1. IsListOf(linked[c], key[t], keyOf, Listed[key[t]])
    BY <1>2 DEF ListInv
  <2>2. /\ Listed[key[t]] # <<>> /\ Listed[key[t]] # Tail(Listed[key[t]])
        /\ IsListOf(RemoveAt(linked[c], m), key[t], keyOf, Tail(Listed[key[t]]))
    BY <1>2, <1>4, <2>1, ListDrop
  <2>3. IsListOf(RemoveAt(linked[c], m), key[t], keyOf, Listed'[key[t]])
    BY <1>1, <1>2, <1>7 DEF ListInv
  <2>. QED
    BY <1>7, <2>2, <2>3, ListIsOne
<1>9. ASSUME NEW k \in Keys, k # key[t]
      PROVE  Listed'[k] = Listed[k]
  <2>1. CASE HashOf[k] = c
    <3>1. IsListOf(RemoveAt(linked[c], m), k, keyOf, Listed[k])
      <4>1. IsListOf(linked[c], k, keyOf, Listed[k])
        BY <2>1 DEF ListInv
      <4>. QED
        BY <1>2, <1>4, <1>9, <4>1, ListStays
    <3>2. IsListOf(RemoveAt(linked[c], m), k, keyOf, Listed'[k])
      BY <1>1, <1>7, <2>1 DEF ListInv
    <3>. QED
      BY <1>7, <3>1, <3>2, ListIsOne
  <2>2. CASE HashOf[k] # c
    <3>1. linked'[HashOf[k]] = linked[HashOf[k]]
      BY <1>5, <1>6, <2>2
    <3>. QED
      BY <1>1, <3>1, ListsStay
  <2>. QED
    BY <2>1, <2>2
<1>10. Listed \in [Keys -> Seq(Rows)] /\ Listed' \in [Keys -> Seq(Rows)]
  BY DEF ListInv
<1>. HIDE DEF c
<1>11. Listed' = [Listed EXCEPT ![key[t]] = Tail(@)]
  BY <1>2, <1>8, <1>9, <1>10
<1>12. Listed' # Listed
  BY <1>8
<1>. QED
  BY <1>2, <1>8, <1>11, <1>12 DEF Lists!Next, Lists!TakeNewest

LEMMA ListStep ==
    ASSUME BaseInv, TurnsInv, ListInv, ListInv', [Next]_vars
    PROVE  [Lists!Next]_Listed
<1>1. ASSUME linked' = linked,
             \A b \in Buckets : \A i \in 1 .. Len(linked[b]) :
               keyOf'[linked[b][i]] = keyOf[linked[b][i]]
      PROVE  Listed' = Listed
  <2>1. \A k \in Keys : Listed'[k] = Listed[k]
    <3>1. ASSUME NEW k \in Keys PROVE Listed'[k] = Listed[k]
      <4>1. /\ linked'[HashOf[k]] = linked[HashOf[k]]
            /\ \A i \in 1 .. Len(linked[HashOf[k]]) :
                 keyOf'[linked[HashOf[k]][i]] = keyOf[linked[HashOf[k]][i]]
        BY <1>1
      <4>. QED
        BY <4>1, ListsStay
    <3>. QED
      BY <3>1
  <2>2. Listed \in [Keys -> Seq(Rows)] /\ Listed' \in [Keys -> Seq(Rows)]
    BY DEF ListInv
  <2>. QED
    BY <2>1, <2>2
<1>2. ASSUME NEW t \in Threads, Step(t) PROVE [Lists!Next]_Listed
  <2>1. CASE Publish(t)
    BY <2>1, PublishPuts
  <2>2. CASE UnlinkHead(t) \/ Release(t)
    BY <2>2, UnlinkTakes
  <2>3. CASE ~Publish(t) /\ ~UnlinkHead(t) /\ ~Release(t)
    <3>1. linked' = linked
      BY <1>2, <2>3, LinkSteps DEF Quiet, Create, LinkRow
    <3>2. Listed' = Listed
      BY <1>1, <1>2, <3>1, KeysStay
    <3>. QED
      BY <3>2
  <2>. QED
    BY <2>1, <2>2, <2>3
<1>3. ASSUME Sync \/ Reopen \/ UNCHANGED vars PROVE [Lists!Next]_Listed
  <2>1. linked' = linked /\ keyOf' = keyOf
    BY <1>3, ManagersStep
  <2>2. Listed' = Listed
    BY <1>1, <2>1
  <2>. QED
    BY <2>2
<1>. QED
  BY <1>2, <1>3 DEF Next

\* The table implements lists for each key, where unlinks take turns: a step
\* puts a row in front of the list of one key, takes its first, or changes no
\* list, whatever other keys are in the bucket and when the table is reopened.
THEOREM RefinesLists ==
    ASSUME UnlinksAlone
    PROVE  Spec => ImplementsLists
<1>1. BaseInv /\ TurnsInv => ListInv
  BY ListsMatch
<1>2. ListInv => Lists!Init
  BY DEF ListInv, Lists!Init
<1>3. BaseInv /\ TurnsInv /\ ListInv /\ ListInv' /\ [Next]_vars => [Lists!Next]_Listed
  BY ListStep
<1>4. Spec => [](BaseInv /\ TurnsInv)
  BY Turns
<1>. QED
  BY <1>1, <1>2, <1>3, <1>4, PTL DEF Spec, ImplementsLists, Lists!Spec
=============================================================================
