------------------------ MODULE RecordMultimapProofs ------------------------
(***************************************************************************)
(* Theorems about the record multimap, for any threads, keys and calls and *)
(* any number of records: of every key, that its lookups return rows of    *)
(* its own, each once and in order; of the keys that no two threads add to *)
(* at a time, that no row is lost, whatever is added to the others.        *)
(***************************************************************************)
EXTENDS RecordMultimap, FiniteSetTheorems, SequenceTheorems, TLAPS

-----------------------------------------------------------------------------
\* The inductive invariant.

Places == {"idle", "find", "create", "data", "store", "read", "insert",
           "link", "erase", "lookup", "begin", "walk", "fault"}

USE MultimapAssumption DEF MultimapAssumption, Empty, Records, Links, Mappings,
                           Places

Typed ==
    /\ starts \in [Keys -> Seq(Records)]
    /\ begin \in [Records -> Links] /\ next \in [Records -> Links]
    /\ count \in Links /\ mapping \in 0 .. count
    /\ pc \in [Threads -> Places]
    /\ key \in [Threads -> Keys \cup {NoKey}]
    /\ start \in [Threads -> Links] /\ old \in [Threads -> Links]
    /\ new \in [Threads -> Links] /\ pointer \in [Threads -> Mappings]
    /\ seen \in [Threads -> Seq(Records)]
    /\ owner \in [Records -> Keys \cup {NoKey}]
    /\ lists \in [Keys -> Seq(Records)]
    /\ states \in [Threads -> SUBSET Seq(Records)]

\* There is room for what the calls in progress will create.
CountInv == count + Pending <= MaxRecords

\* The writers of a key are buckets that add rows of it, or one thread.
WriterInv ==
    /\ \A t \in Threads : pc[t] = "idle" <=> key[t] = NoKey
    /\ \A t, u \in Threads :
         /\ t # u /\ key[t] = key[u] /\ key[t] # NoKey
         /\ ~Looking(t) /\ ~Looking(u)
         => key[t] \notin Sole /\ ~Deleting(t) /\ ~Deleting(u)

\* A key that is not raced has at most one start info.
StartInv == \A k \in Sole : starts[k] # <<>> => starts[k] = <<Start(k)>>

\* The links of a record, its start infos and what the threads at work for a
\* key hold are of one key, and each record leads to an older one.
Owned(r, k) == r \in 1 .. count /\ owner[r] = k

OwnInv ==
    /\ \A r \in 1 .. count :
         /\ owner[r] \in Keys
         /\ next[r] # Empty => Owned(next[r], owner[r]) /\ next[r] < r
    /\ \A r \in Records :
         begin[r] # Empty => r \in 1 .. count /\ Owned(begin[r], owner[r])
    /\ \A k \in Keys : \A i \in 1 .. Len(starts[k]) :
         Owned(starts[k][i], k) /\ begin[starts[k][i]] # Empty
    /\ \A t \in Threads : \A r \in {start[t], old[t], new[t]} :
         r # Empty => Owned(r, key[t])

\* The rows of a lookup are of its key, and each is older than the last.
Falls(s) == \A i, j \in 1 .. Len(s) : i <= j => s[j] + j <= s[i] + i

SeenOf(t) ==
    /\ \A i \in 1 .. Len(seen[t]) : Owned(seen[t][i], key[t])
    /\ Falls(seen[t])
    /\ seen[t] # <<>> => old[t] < seen[t][Len(seen[t])]
    /\ pc[t] # "walk" => seen[t] = <<>>

SeenInv == \A t \in Threads : SeenOf(t)

\* The record of a new start info is nobody else's.
HasNew(t) == pc[t] \in {"data", "store"}

FreshInv ==
    \A t \in Threads : HasNew(t) =>
        /\ new[t] \in 1 .. count /\ next[new[t]] = Empty
        /\ \A k \in Keys : \A i \in 1 .. Len(starts[k]) : starts[k][i] # new[t]
        /\ \A u \in Threads : start[u] # new[t]
        /\ \A u \in Threads : HasNew(u) /\ new[u] = new[t] => u = t

\* What a writer without another has read is still so when it uses it.
InNew == {"create", "data", "store"}
InList == {"read", "insert", "link", "erase"}

Alone(t) == key[t] \in Sole \/ Deleting(t)

AlonePlace(t) ==
    /\ pc[t] \in InNew => starts[key[t]] = <<>>
    /\ pc[t] \in InList => starts[key[t]] # <<>> /\ Start(key[t]) = start[t]
    /\ pc[t] \in {"insert", "erase"} => old[t] = begin[start[t]]
    /\ pc[t] = "link" =>
         /\ new[t] \in 1 .. count
         /\ next[new[t]] = begin[start[t]] /\ begin[start[t]] < new[t]

PlaceOf(t) ==
    /\ pc[t] \in InList \cup {"begin"} => start[t] # Empty
    /\ pc[t] \in InNew \ {"create"} => new[t] # Empty
    /\ pc[t] = "link" => new[t] # Empty
    /\ Alone(t) => AlonePlace(t)

PlaceInv == \A t \in Threads : PlaceOf(t)

\* The links lead through the list, each to an older record, and end with it.
IsList(s) ==
    /\ s \in Seq(1 .. count)
    /\ \A i \in 1 .. Len(s) :
         next[s[i]] = IF i = Len(s) THEN Empty ELSE s[i + 1]
    /\ Falls(s)

\* The list of a key that is not raced starts in its start info.
ListInv ==
    \A k \in Sole :
        /\ IsList(lists[k])
        /\ starts[k] = <<>> <=> lists[k] = <<>>
        /\ starts[k] # <<>> => begin[Start(k)] = lists[k][1]

\* A walk is within one of the lists the key had since the call began.
Within(t, s) ==
    /\ Len(seen[t]) <= Len(s)
    /\ \A i \in 1 .. Len(seen[t]) : seen[t][i] = s[i]
    /\ old[t] = IF Len(seen[t]) = Len(s) THEN Empty ELSE s[Len(seen[t]) + 1]

Current(t) ==
    /\ lists[key[t]] \in states[t]
    /\ \A s \in states[t] : IsList(s)
    /\ pc[t] = "begin" => \E s \in states[t] : s # <<>> /\ begin[start[t]] = s[1]
    /\ pc[t] = "walk" => \E s \in states[t] : Within(t, s)

LookOf(t) ==
    /\ Looking(t) /\ key[t] \in Sole => Current(t)
    /\ pc[t] \in {"idle", "lookup", "begin"} => old[t] = Empty

LookInv == \A t \in Threads : LookOf(t)

TableInv == StartInv /\ OwnInv /\ FreshInv /\ PlaceInv /\ ListInv

Inv == Typed /\ CountInv /\ WriterInv /\ TableInv /\ LookInv /\ SeenInv

-----------------------------------------------------------------------------
\* What the steps use.

LEMMA ElementsOf ==
    ASSUME NEW S, NEW s \in Seq(S)
    PROVE  Len(s) \in Nat /\ \A i \in 1 .. Len(s) : s[i] \in S
OBVIOUS

LEMMA FirstOf ==
    ASSUME NEW S, NEW s \in Seq(S), s # <<>>
    PROVE  s[1] \in S /\ Len(s) \in Nat \ {0}
OBVIOUS

LEMMA RestOf ==
    ASSUME NEW S, NEW s \in Seq(S), s # <<>>
    PROVE  /\ Rest(s) \in Seq(S) /\ Len(Rest(s)) = Len(s) - 1
           /\ \A i \in 1 .. Len(s) - 1 : Rest(s)[i] = s[i + 1]
           /\ Rest(s) = Tail(s)
BY TailIsSubSeq, HeadTailProperties DEF Rest

LEMMA RestTyped ==
    ASSUME NEW S, NEW s \in Seq(S)
    PROVE  Rest(s) \in Seq(S)
<1>1. CASE s = <<>>
  BY <1>1 DEF Rest
<1>2. CASE s # <<>>
  BY <1>2, RestOf
<1>. QED
  BY <1>1, <1>2

\* The first start info of a key is of this key, and of no other.
LEMMA StartOwned ==
    ASSUME Typed, OwnInv, NEW k \in Keys
    PROVE  /\ Start(k) \in Links
           /\ Start(k) = Empty <=> starts[k] = <<>>
           /\ starts[k] # <<>> =>
                /\ Start(k) \in 1 .. count /\ owner[Start(k)] = k
                /\ begin[Start(k)] \in 1 .. count
                /\ starts[k][1] = Start(k) /\ 1 \in 1 .. Len(starts[k])
<1>0. count \in Links /\ starts[k] \in Seq(Records)
  BY DEF Typed
<1>1. CASE starts[k] = <<>>
  BY <1>1 DEF Start
<1>2. CASE starts[k] # <<>>
  <2>1. 1 \in 1 .. Len(starts[k]) /\ starts[k][1] = Start(k)
    BY <1>0, <1>2 DEF Start
  <2>2. Owned(Start(k), k) /\ begin[Start(k)] # Empty
    BY <2>1 DEF OwnInv
  <2>3. begin[Start(k)] \in 1 .. count
    BY <1>0, <2>2 DEF OwnInv, Owned
  <2>. QED
    BY <1>0, <1>2, <2>1, <2>2, <2>3 DEF Owned
<1>. QED
  BY <1>1, <1>2

LEMMA StartTyped ==
    ASSUME Typed, OwnInv, NEW k \in Keys
    PROVE  Start(k) \in Links /\ (Start(k) = Empty <=> starts[k] = <<>>)
BY StartOwned

LEMMA FirstTyped ==
    ASSUME Typed, TableInv, NEW k \in Keys, starts[k] # <<>>
    PROVE  Start(k) \in 1 .. count /\ begin[Start(k)] \in 1 .. count
BY StartOwned DEF TableInv

\* A thread holds no pointer to the start info of another key.
LEMMA StartHeld ==
    ASSUME Typed, OwnInv, NEW t \in Threads
    PROVE  /\ start[t] \in 0 .. count
           /\ \A k \in Keys : starts[k] # <<>> /\ Start(k) = start[t] => k = key[t]
<1>1. start[t] # Empty => Owned(start[t], key[t])
  BY DEF OwnInv
<1>2. ASSUME NEW k \in Keys, starts[k] # <<>>, Start(k) = start[t]
      PROVE  k = key[t]
  BY <1>1, <1>2, StartOwned DEF Owned
<1>. QED
  BY <1>1, <1>2 DEF Owned, Typed

LEMMA KeyTyped ==
    ASSUME Typed, WriterInv, NEW t \in Threads, pc[t] # "idle"
    PROVE  key[t] \in Keys
BY DEF Typed, WriterInv

\* A writer that is alone is the only one of its key.
LEMMA OneWriter ==
    ASSUME Typed, WriterInv, NEW t \in Threads, NEW u \in Threads,
           pc[t] # "idle", ~Looking(t), Alone(t), key[u] = key[t], ~Looking(u)
    PROVE  u = t
BY KeyTyped DEF WriterInv, Alone

LEMMA Steps ==
    ASSUME NEW t \in Threads, Step(t)
    PROVE  \/ \E k \in Keys : AddRow(t, k)
           \/ \E k \in Keys : DeleteRow(t, k)
           \/ \E k \in Keys : Lookup(t, k)
           \/ FindStart(t) \/ CreateRecord(t) \/ WriteRecord(t) \/ StoreStart(t)
           \/ ReadBegin(t) \/ Insert(t) \/ LinkBegin(t) \/ EraseRow(t)
           \/ LookupStart(t) \/ LookupBegin(t) \/ Walk(t) \/ Return(t)
BY Zenon DEF Step

-----------------------------------------------------------------------------
\* The records counted.

IsPending(p) == p \in {"find", "create", "read", "insert"}
PendingSet == {t \in Threads : IsPending(pc[t])}

LEMMA PendingCounted ==
    /\ IsFiniteSet(PendingSet) /\ Pending = Cardinality(PendingSet)
    /\ Pending \in Nat
    /\ IsFiniteSet(PendingSet') /\ Pending' = Cardinality(PendingSet')
    /\ Pending' \in Nat
<1>1. IsFiniteSet(PendingSet) /\ IsFiniteSet(PendingSet')
  BY FS_Subset DEF PendingSet
<1>2. Pending = Cardinality(PendingSet) /\ Pending' = Cardinality(PendingSet')
  BY Zenon DEF Pending, PendingSet, IsPending
<1>. QED
  BY <1>1, <1>2, FS_CardinalityType

Room(p) == IF p \in {"find", "create", "read", "insert"} THEN 1 ELSE 0

\* The room of a thread is that of the place it is at.
LEMMA PendingMoves ==
    ASSUME Typed, NEW t \in Threads, NEW p, Goto(t, p)
    PROVE  Pending' = Pending + Room(p) - Room(pc[t])
<1>0. Pending \in Nat /\ Pending' \in Nat
  BY PendingCounted
<1>1. \A u \in Threads : pc'[u] = IF u = t THEN p ELSE pc[u]
  BY DEF Typed, Goto
<1>2. CASE IsPending(pc[t]) <=> IsPending(p)
  <2>1. PendingSet' = PendingSet
    BY <1>1, <1>2 DEF PendingSet
  <2>2. Room(p) = Room(pc[t]) /\ Room(p) \in Nat
    BY <1>2 DEF Room, IsPending
  <2>. QED
    BY <1>0, <2>1, <2>2, PendingCounted
<1>3. CASE IsPending(pc[t]) /\ ~IsPending(p)
  <2>1. PendingSet' = PendingSet \ {t} /\ t \in PendingSet
    BY <1>1, <1>3 DEF PendingSet
  <2>2. Room(p) = 0 /\ Room(pc[t]) = 1
    BY <1>3 DEF Room, IsPending
  <2>. QED
    BY <1>0, <2>1, <2>2, PendingCounted, FS_RemoveElement
<1>4. CASE ~IsPending(pc[t]) /\ IsPending(p)
  <2>1. PendingSet' = PendingSet \cup {t} /\ t \notin PendingSet
    BY <1>1, <1>4 DEF PendingSet
  <2>2. Room(p) = 1 /\ Room(pc[t]) = 0
    BY <1>4 DEF Room, IsPending
  <2>. QED
    BY <1>0, <2>1, <2>2, PendingCounted, FS_AddElement
<1>. QED
  BY <1>2, <1>3, <1>4

LEMMA CountRoom ==
    ASSUME Typed, CountInv, NEW t \in Threads, pc[t] \in {"create", "insert"}
    PROVE  count + 1 \in Records
<1>1. t \in PendingSet
  BY DEF PendingSet, IsPending
<1>2. Pending \in Nat \ {0}
  BY <1>1, PendingCounted, FS_EmptySet
<1>. QED
  BY <1>2 DEF CountInv, Typed

\* What a step makes of the room and of the records.
LEMMA CountStep ==
    ASSUME Typed, CountInv, NEW t \in Threads, Step(t)
    PROVE  CountInv'
<1>0. count \in Nat /\ Pending \in Nat
  BY PendingCounted DEF Typed
<1>1. CASE \E k \in Keys : AddRow(t, k)
  <2>1. pc[t] = "idle" /\ Goto(t, "find") /\ count' = count
    BY <1>1 DEF AddRow, Call, CanAdd
  <2>2. count + Pending < MaxRecords
    BY <1>1 DEF AddRow
  <2>3. Pending' = Pending + 1
    BY <1>0, <2>1, PendingMoves DEF Room
  <2>. QED
    BY <1>0, <2>1, <2>2, <2>3 DEF CountInv
<1>2. CASE CreateRecord(t) \/ Insert(t)
  <2>1. count' = count + 1
    BY <1>2 DEF CreateRecord, Insert, NewRecord
  <2>2. PICK p \in {"data", "link"} : Goto(t, p)
    BY <1>2 DEF CreateRecord, Insert
  <2>3. pc[t] \in {"create", "insert"}
    BY <1>2 DEF CreateRecord, Insert
  <2>4. Pending' = Pending - 1
    BY <1>0, <2>2, <2>3, PendingMoves DEF Room
  <2>. QED
    BY <1>0, <2>1, <2>4 DEF CountInv
<1>3. CASE FindStart(t)
  <2>1. PICK p \in {"create", "read"} : Goto(t, p)
    BY <1>3 DEF FindStart
  <2>2. pc[t] = "find" /\ count' = count
    BY <1>3 DEF FindStart
  <2>3. Pending' = Pending
    BY <1>0, <2>1, <2>2, PendingMoves DEF Room
  <2>. QED
    BY <2>2, <2>3 DEF CountInv
<1>4. CASE ReadBegin(t)
  <2>1. pc[t] = "read" /\ Goto(t, "insert") /\ count' = count
    BY <1>4 DEF ReadBegin
  <2>2. Pending' = Pending
    BY <1>0, <2>1, PendingMoves DEF Room
  <2>. QED
    BY <2>1, <2>2 DEF CountInv
<1>5. ASSUME NEW p \in {"store", "fault", "idle", "erase", "lookup", "begin",
                        "walk"},
             Goto(t, p), count' = count
      PROVE  CountInv'
  <2>1. Pending' = Pending - Room(pc[t])
    BY <1>0, <1>5, PendingMoves DEF Room
  <2>2. Room(pc[t]) \in Nat
    BY DEF Room
  <2>3. Pending' \in Nat
    BY PendingCounted
  <2>. QED
    BY <1>0, <1>5, <2>1, <2>2, <2>3 DEF CountInv
<1>6. CASE \E k \in Keys : DeleteRow(t, k) \/ Lookup(t, k)
  BY <1>5, <1>6 DEF DeleteRow, Lookup, Call
<1>7. CASE WriteRecord(t)
  BY <1>5, <1>7 DEF WriteRecord
<1>8. CASE StoreStart(t) \/ LinkBegin(t) \/ EraseRow(t) \/ Return(t)
  BY <1>5, <1>8 DEF StoreStart, LinkBegin, EraseRow, Return, Finish
<1>9. CASE LookupStart(t) \/ LookupBegin(t)
  BY <1>5, <1>9 DEF LookupStart, LookupBegin
<1>10. CASE Walk(t)
  BY <1>10 DEF Walk, Pending, CountInv
<1>. QED
  BY <1>1, <1>2, <1>3, <1>4, <1>6, <1>7, <1>8, <1>9, <1>10, Steps

-----------------------------------------------------------------------------
\* Types, and writers.

LEMMA ListTyped ==
    ASSUME Typed, NEW t \in Threads, NEW k \in Keys, NEW list \in Seq(Records),
           SetList(k, list)
    PROVE  /\ lists' \in [Keys -> Seq(Records)]
           /\ states' \in [Threads -> SUBSET Seq(Records)]
BY DEF Typed, SetList

LEMMA FinishTyped ==
    ASSUME Typed, NEW t \in Threads, Finish(t)
    PROVE  /\ pc' = [pc EXCEPT ![t] = "idle"]
           /\ key' \in [Threads -> Keys \cup {NoKey}]
           /\ start' \in [Threads -> Links] /\ old' \in [Threads -> Links]
           /\ new' \in [Threads -> Links] /\ pointer' \in [Threads -> Mappings]
BY DEF Typed, Finish, Goto

LEMMA NewTyped ==
    ASSUME Typed, CountInv, NEW t \in Threads, NEW link \in Links,
           pc[t] \in {"create", "insert"}, NewRecord(t, link)
    PROVE  /\ next' \in [Records -> Links] /\ new' \in [Threads -> Links]
           /\ count' = count + 1 /\ count' \in Links /\ mapping' \in 0 .. count'
           /\ pointer' \in [Threads -> Mappings]
           /\ owner' \in [Records -> Keys \cup {NoKey}]
<1>1. count' = count + 1 /\ count' \in Records
  BY CountRoom DEF NewRecord
<1>2. mapping' = mapping \/ mapping' = mapping + 1
  BY DEF NewRecord
<1>3. mapping' \in 0 .. count' /\ mapping' \in Mappings
  <2>1. count \in Nat /\ mapping \in 0 .. count
    BY DEF Typed
  <2>. QED
    BY <1>1, <1>2, <2>1
<1>4. next' \in [Records -> Links] /\ new' \in [Threads -> Links]
  BY <1>1 DEF Typed, NewRecord
<1>5. pointer' \in [Threads -> Mappings]
  BY <1>3 DEF Typed, NewRecord
<1>6. owner' \in [Records -> Keys \cup {NoKey}]
  BY <1>1 DEF Typed, NewRecord
<1>. QED
  BY <1>1, <1>3, <1>4, <1>5, <1>6

LEMMA TypedStep ==
    ASSUME Inv, NEW t \in Threads, Step(t)
    PROVE  Typed'
<1>0. /\ Typed /\ CountInv /\ WriterInv /\ TableInv /\ LookInv
      /\ pc[t] # "idle" => key[t] \in Keys
  BY KeyTyped DEF Inv
<1>1. CASE \E k \in Keys : AddRow(t, k)
  <2>1. PICK k \in Keys : AddRow(t, k)
    BY <1>1
  <2>. QED
    BY <1>0, <2>1 DEF AddRow, Call, Typed, Goto
<1>2. CASE \E k \in Keys : DeleteRow(t, k)
  <2>1. PICK k \in Keys : DeleteRow(t, k)
    BY <1>2
  <2>2. starts[k] # <<>> /\ Start(k) \in 1 .. count
    BY <1>0, <2>1, StartTyped, FirstTyped DEF DeleteRow, TableInv
  <2>3. Start(k) \in Records /\ begin[Start(k)] \in Links
    BY <1>0, <2>2 DEF Typed
  <2>4. start' \in [Threads -> Links] /\ old' \in [Threads -> Links]
    BY <1>0, <2>1, <2>3 DEF DeleteRow, Typed
  <2>5. key' \in [Threads -> Keys \cup {NoKey}] /\ pc' = [pc EXCEPT ![t] = "erase"]
    BY <1>0, <2>1 DEF DeleteRow, Typed, Goto
  <2>. QED
    BY <1>0, <2>1, <2>4, <2>5 DEF DeleteRow, Typed
<1>3. CASE \E k \in Keys : Lookup(t, k)
  BY SMTT(20), <1>0, <1>3 DEF Lookup, Call, Typed, Goto
<1>4. CASE FindStart(t) \/ LookupStart(t)
  <2>1. Start(key[t]) \in Links
    BY <1>0, <1>4, StartTyped DEF FindStart, LookupStart, TableInv
  <2>2. start' = [start EXCEPT ![t] = Start(key[t])]
    BY <1>4 DEF FindStart, LookupStart
  <2>3. \E p \in {"create", "read", "walk", "begin"} : Goto(t, p)
    BY <1>4 DEF FindStart, LookupStart
  <2>. QED
    BY <1>0, <1>4, <2>1, <2>2, <2>3 DEF FindStart, LookupStart, Typed, Goto
<1>5. CASE CreateRecord(t)
  <2>1. NewRecord(t, Empty) /\ pc[t] = "create" /\ Goto(t, "data")
    BY <1>5 DEF CreateRecord
  <2>2. /\ next' \in [Records -> Links] /\ new' \in [Threads -> Links]
        /\ count' \in Links /\ mapping' \in 0 .. count'
        /\ pointer' \in [Threads -> Mappings]
        /\ owner' \in [Records -> Keys \cup {NoKey}]
    <3>1. Empty \in Links
      OBVIOUS
    <3>. QED
      BY <1>0, <2>1, <3>1, NewTyped
  <2>. QED
    BY <1>0, <1>5, <2>1, <2>2 DEF CreateRecord, Typed, Goto
<1>6. CASE Insert(t)
  <2>1. NewRecord(t, old[t]) /\ pc[t] = "insert" /\ Goto(t, "link")
    BY <1>6 DEF Insert
  <2>2. /\ next' \in [Records -> Links] /\ new' \in [Threads -> Links]
        /\ count' \in Links /\ mapping' \in 0 .. count'
        /\ pointer' \in [Threads -> Mappings]
        /\ owner' \in [Records -> Keys \cup {NoKey}]
    <3>1. old[t] \in Links
      BY <1>0 DEF Typed
    <3>. QED
      BY <1>0, <2>1, <3>1, NewTyped
  <2>. QED
    BY <1>0, <1>6, <2>1, <2>2 DEF Insert, Typed, Goto
<1>7. CASE WriteRecord(t)
  <2>1. \E p \in {"store", "fault"} : Goto(t, p)
    BY <1>7 DEF WriteRecord
  <2>. QED
    BY <1>0, <1>7, <2>1 DEF WriteRecord, Typed, Goto
<1>8. CASE StoreStart(t)
  <2>0. new[t] \in 1 .. count
    BY <1>0, <1>8 DEF StoreStart, TableInv, FreshInv, HasNew
  <2>1. new[t] \in Records
    BY <1>0, <2>0 DEF Typed
  <2>2. key[t] \in Keys /\ SetList(key[t], <<new[t]>> \o lists[key[t]]) /\ Finish(t)
    BY <1>0, <1>8 DEF StoreStart
  <2>3. <<new[t]>> \o lists[key[t]] \in Seq(Records)
    BY <2>1, <2>2, <1>0 DEF Typed
  <2>4. starts' \in [Keys -> Seq(Records)] /\ begin' \in [Records -> Links]
    BY <1>0, <1>8, <2>1, <2>2 DEF StoreStart, Typed
  <2>5. lists' \in [Keys -> Seq(Records)] /\ states' \in [Threads -> SUBSET Seq(Records)]
    BY <1>0, <2>2, <2>3, ListTyped
  <2>6. /\ pc' = [pc EXCEPT ![t] = "idle"] /\ key' \in [Threads -> Keys \cup {NoKey}]
        /\ start' \in [Threads -> Links] /\ old' \in [Threads -> Links]
        /\ new' \in [Threads -> Links] /\ pointer' \in [Threads -> Mappings]
    BY <1>0, <2>2, FinishTyped
  <2>7. UNCHANGED <<next, count, mapping, seen, owner>>
    BY <1>8 DEF StoreStart
  <2>. QED
    BY <1>0, <2>4, <2>5, <2>6, <2>7 DEF Typed
<1>9. CASE ReadBegin(t) \/ LookupBegin(t)
  <2>1. begin[start[t]] \in Links
    <3>1. start[t] # 0 /\ start[t] \in Links
      BY <1>0, <1>9 DEF ReadBegin, LookupBegin, TableInv, PlaceInv, PlaceOf, InList, Typed
    <3>2. start[t] \in Records
      BY <3>1
    <3>. QED
      BY <1>0, <3>2 DEF Typed
  <2>2. old' = [old EXCEPT ![t] = begin[start[t]]]
    BY <1>9 DEF ReadBegin, LookupBegin
  <2>3. \E p \in {"insert", "walk"} : Goto(t, p)
    BY <1>9 DEF ReadBegin, LookupBegin
  <2>. QED
    BY <1>0, <1>9, <2>1, <2>2, <2>3 DEF ReadBegin, LookupBegin, Typed, Goto
<1>10. CASE LinkBegin(t)
  <2>0. new[t] \in 1 .. count
    BY <1>0, <1>10 DEF LinkBegin, TableInv, PlaceInv, PlaceOf, OwnInv, Owned
  <2>1. new[t] \in Records
    BY <1>0, <2>0 DEF Typed
  <2>2. key[t] \in Keys /\ SetList(key[t], <<new[t]>> \o lists[key[t]]) /\ Finish(t)
    BY <1>0, <1>10 DEF LinkBegin
  <2>3. <<new[t]>> \o lists[key[t]] \in Seq(Records)
    BY <2>1, <2>2, <1>0 DEF Typed
  <2>. QED
    BY <1>0, <1>10, <2>1, <2>2, <2>3, ListTyped, FinishTyped DEF LinkBegin, Typed, Goto
<1>11. CASE EraseRow(t)
  <2>1. /\ key[t] \in Keys /\ SetList(key[t], Rest(lists[key[t]])) /\ Finish(t)
        /\ starts[key[t]] # <<>> /\ old[t] = begin[start[t]]
        /\ Start(key[t]) = start[t]
    BY <1>0, <1>11
       DEF EraseRow, TableInv, PlaceInv, PlaceOf, Alone, AlonePlace, Deleting, InList
  <2>2. old[t] \in 1 .. count /\ start[t] \in 1 .. count
    BY <1>0, <2>1, FirstTyped
  <2>3. Rest(lists[key[t]]) \in Seq(Records)
    <3>1. lists[key[t]] \in Seq(Records)
      BY <1>0, <2>1 DEF Typed
    <3>. QED
      BY <3>1, RestTyped
  <2>4. begin' \in [Records -> Links]
    <3>1. next[old[t]] \in Links
      BY <1>0, <2>2 DEF Typed
    <3>2. begin' = begin \/ begin' = [begin EXCEPT ![start[t]] = next[old[t]]]
      BY <1>11 DEF EraseRow
    <3>. QED
      BY <1>0, <3>1, <3>2 DEF Typed
  <2>5. starts' \in [Keys -> Seq(Records)]
    <3>1. Tail(starts[key[t]]) \in Seq(Records)
      BY <1>0, <2>1 DEF Typed
    <3>2. starts' = starts \/ starts' = [starts EXCEPT ![key[t]] = Tail(@)]
      BY <1>11 DEF EraseRow
    <3>. QED
      BY <1>0, <3>1, <3>2 DEF Typed
  <2>6. /\ lists' \in [Keys -> Seq(Records)]
        /\ states' \in [Threads -> SUBSET Seq(Records)]
    BY <1>0, <2>1, <2>3, ListTyped
  <2>. QED
    BY <1>0, <1>11, <2>1, <2>4, <2>5, <2>6, FinishTyped DEF EraseRow, Typed
<1>12. CASE Walk(t)
  <2>1. old[t] \in Records
    BY <1>0, <1>12 DEF Walk, Typed
  <2>2. Append(seen[t], old[t]) \in Seq(Records) /\ next[old[t]] \in Links
    BY <1>0, <2>1 DEF Typed
  <2>. QED
    BY <1>0, <1>12, <2>2 DEF Walk, Typed, Goto
<1>13. CASE Return(t)
  <2>1. Finish(t)
    BY <1>13 DEF Return
  <2>2. /\ pc' = [pc EXCEPT ![t] = "idle"]
        /\ key' \in [Threads -> Keys \cup {NoKey}]
        /\ start' \in [Threads -> Links] /\ old' \in [Threads -> Links]
        /\ new' \in [Threads -> Links] /\ pointer' \in [Threads -> Mappings]
    BY <1>0, <2>1, FinishTyped
  <2>3. /\ seen' \in [Threads -> Seq(Records)]
        /\ states' \in [Threads -> SUBSET Seq(Records)]
    <3>1. <<>> \in Seq(Records) /\ {} \in SUBSET Seq(Records)
      OBVIOUS
    <3>. QED
      BY <1>0, <1>13, <3>1, Zenon DEF Return, Typed
  <2>. QED
    BY <1>0, <1>13, <2>2, <2>3 DEF Return, Typed
<1>. QED
  BY <1>1, <1>2, <1>3, <1>4, <1>5, <1>6, <1>7, <1>8, <1>9, <1>10, <1>11, <1>12,
     <1>13, Steps

\* Where a step leaves the threads, and the keys they work for.
LEMMA WriterStep ==
    ASSUME Typed, WriterInv, NEW t \in Threads, Step(t)
    PROVE  WriterInv'
<1>. USE DEF Looking, Deleting
<1>1. ASSUME NEW k \in Keys, NEW p \in {"find", "erase", "lookup"}, Goto(t, p),
             key' = [key EXCEPT ![t] = k], pc[t] = "idle",
             p # "lookup" => \A u \in Threads :
                               key[u] = k => \/ Looking(u)
                                             \/ k \notin Sole /\ ~Deleting(u) /\ p = "find"
      PROVE  WriterInv'
  <2>1. \A u \in Threads : /\ pc'[u] = IF u = t THEN p ELSE pc[u]
                           /\ key'[u] = IF u = t THEN k ELSE key[u]
    BY <1>1 DEF Typed, Goto
  <2>2. (Looking(t)' <=> p = "lookup") /\ (Deleting(t)' <=> p = "erase")
    BY <2>1
  <2>3. \A u \in Threads \ {t} : /\ Looking(u)' <=> Looking(u)
                                 /\ Deleting(u)' <=> Deleting(u)
    BY <2>1
  <2>4. ASSUME NEW u \in Threads PROVE pc'[u] = "idle" <=> key'[u] = NoKey
    BY <2>1 DEF WriterInv
  <2>5. ASSUME NEW u \in Threads, NEW v \in Threads, u # v, key'[u] = key'[v],
               key'[u] # NoKey, ~Looking(u)', ~Looking(v)'
        PROVE  key'[u] \notin Sole /\ ~Deleting(u)' /\ ~Deleting(v)'
    <3>1. CASE u # t /\ v # t
      BY <2>1, <2>3, <2>5, <3>1 DEF WriterInv
    <3>2. CASE u = t \/ v = t
      BY <1>1, <2>1, <2>2, <2>3, <2>5, <3>2
    <3>. QED
      BY <3>1, <3>2
  <2>. HIDE DEF Looking, Deleting
  <2>. QED
    BY <2>4, <2>5, Zenon DEF WriterInv
<1>2. ASSUME NEW p \in {"create", "data", "store", "read", "insert", "link",
                        "fault", "begin", "walk"}, Goto(t, p), key' = key,
             p \in {"begin", "walk"} <=> Looking(t), pc[t] \notin {"idle", "erase"}
      PROVE  WriterInv'
  <2>1. \A u \in Threads : pc'[u] = IF u = t THEN p ELSE pc[u]
    BY <1>2 DEF Typed, Goto
  <2>2. \A u \in Threads : /\ Looking(u)' <=> Looking(u)
                           /\ Deleting(u)' <=> Deleting(u)
                           /\ pc'[u] = "idle" <=> pc[u] = "idle"
    BY <1>2, <2>1
  <2>. QED
    BY <1>2, <2>2 DEF WriterInv
<1>3. CASE Finish(t)
  <2>1. \A u \in Threads : /\ pc'[u] = IF u = t THEN "idle" ELSE pc[u]
                           /\ key'[u] = IF u = t THEN NoKey ELSE key[u]
    BY <1>3 DEF Typed, Finish, Goto
  <2>2. \A u \in Threads \ {t} : /\ Looking(u)' <=> Looking(u)
                                 /\ Deleting(u)' <=> Deleting(u)
    BY <2>1
  <2>. HIDE DEF Looking, Deleting
  <2>. QED
    BY <2>1, <2>2 DEF WriterInv
<1>4. CASE \E k \in Keys : AddRow(t, k)
  <2>. HIDE DEF Looking, Deleting
  <2>1. PICK k \in Keys : AddRow(t, k)
    BY <1>4
  <2>2. \A u \in Threads : key[u] = k => Looking(u) \/ (k \notin Sole /\ ~Deleting(u))
    BY <2>1 DEF AddRow, CanAdd, Writers
  <2>. QED
    BY <1>1, <2>1, <2>2 DEF AddRow, Call, CanAdd
<1>5. CASE \E k \in Keys : DeleteRow(t, k)
  <2>. HIDE DEF Looking, Deleting
  <2>1. PICK k \in Keys : DeleteRow(t, k)
    BY <1>5
  <2>2. \A u \in Threads : key[u] = k => Looking(u)
    BY <2>1 DEF DeleteRow, CanDelete, Writers
  <2>. QED
    BY <1>1, <2>1, <2>2 DEF DeleteRow, CanDelete
<1>6. CASE \E k \in Keys : Lookup(t, k)
  BY <1>1, <1>6 DEF Lookup, Call
<1>7. CASE FindStart(t)
  BY <1>2, <1>7 DEF FindStart
<1>8. CASE CreateRecord(t)
  BY <1>2, <1>8 DEF CreateRecord
<1>9. CASE WriteRecord(t)
  BY <1>2, <1>9 DEF WriteRecord
<1>10. CASE ReadBegin(t)
  BY <1>2, <1>10 DEF ReadBegin
<1>11. CASE Insert(t)
  BY <1>2, <1>11 DEF Insert
<1>12. CASE LookupStart(t) \/ LookupBegin(t)
  BY <1>2, <1>12 DEF LookupStart, LookupBegin
<1>13. CASE Walk(t)
  BY <1>13 DEF Walk, WriterInv
<1>14. CASE StoreStart(t) \/ LinkBegin(t) \/ EraseRow(t) \/ Return(t)
  BY <1>3, <1>14 DEF StoreStart, LinkBegin, EraseRow, Return
<1>. QED
  BY <1>4, <1>5, <1>6, <1>7, <1>8, <1>9, <1>10, <1>11, <1>12, <1>13, <1>14,
     Steps

-----------------------------------------------------------------------------
\* Lists, and what the steps that change the table do to it.

LEMMA ListFirst ==
    ASSUME Typed, NEW s, IsList(s), s # <<>>
    PROVE  /\ Len(s) \in Nat \ {0} /\ s[1] \in 1 .. count
           /\ next[s[1]] = IF Len(s) = 1 THEN Empty ELSE s[2]
           /\ next[s[1]] = Empty <=> Len(s) = 1
<1>1. s \in Seq(1 .. count)
  BY DEF IsList
<1>2. Len(s) \in Nat \ {0} /\ \A i \in 1 .. Len(s) : s[i] \in 1 .. count
  BY <1>1, FirstOf, ElementsOf
<1>3. 1 \in 1 .. Len(s) /\ 1 + 1 = 2
  BY <1>2
<1>4. next[s[1]] = IF Len(s) = 1 THEN Empty ELSE s[2]
  BY <1>2, <1>3 DEF IsList
<1>5. Len(s) # 1 => s[2] \in 1 .. count
  <2>1. \A n \in Nat \ {0} : n # 1 => 2 \in 1 .. n
    OBVIOUS
  <2>2. Len(s) # 1 => 2 \in 1 .. Len(s)
    BY <1>2, <2>1
  <2>. QED
    BY <1>2, <2>2
<1>6. Len(s) # 1 => s[2] # 0
  BY <1>5
<1>. QED
  BY <1>2, <1>3, <1>4, <1>6

LEMMA ListKept ==
    ASSUME Typed, Typed', NEW s, IsList(s), count <= count',
           \A r \in 1 .. count : next'[r] = next[r]
    PROVE  IsList(s)'
<1>1. count \in Nat /\ count' \in Nat
  BY DEF Typed
<1>2. s \in Seq(1 .. count) /\ s \in Seq(1 .. count')
  BY <1>1 DEF IsList, Falls
<1>3. \A i \in 1 .. Len(s) : s[i] \in 1 .. count
  BY <1>2, ElementsOf
<1>. QED
  BY <1>2, <1>3 DEF IsList, Falls

LEMMA ListPut ==
    ASSUME Typed, NEW s, IsList(s), NEW r \in 1 .. count,
           next[r] = IF s = <<>> THEN Empty ELSE s[1],
           s # <<>> => s[1] < r
    PROVE  IsList(<<r>> \o s)
<1> DEFINE z == <<r>> \o s
<1>1. s \in Seq(1 .. count) /\ Len(s) \in Nat /\ count \in Nat
  BY DEF IsList, Falls, Typed
<1>2. /\ z \in Seq(1 .. count) /\ Len(z) = Len(s) + 1 /\ z[1] = r
      /\ \A i \in 2 .. Len(z) : i - 1 \in 1 .. Len(s) /\ z[i] = s[i - 1]
      /\ \A i \in 1 .. Len(s) : z[i + 1] = s[i]
  BY <1>1
<1>3. \A i \in 1 .. Len(s) : s[i] \in 1 .. count
  BY <1>1, ElementsOf
<1>. HIDE DEF z
<1>0. Len(s) \in Nat /\ count \in Nat
  BY <1>1
<1>z. /\ Len(z) = Len(s) + 1 /\ z[1] = r
      /\ \A i \in 2 .. Len(z) : i - 1 \in 1 .. Len(s) /\ z[i] = s[i - 1]
      /\ \A i \in 1 .. Len(s) : z[i + 1] = s[i]
  BY <1>2
<1>4. ASSUME NEW i \in 1 .. Len(z)
      PROVE  next[z[i]] = IF i = Len(z) THEN Empty ELSE z[i + 1]
  <2>1. CASE i = 1 /\ s = <<>>
    BY <1>2, <2>1
  <2>2. CASE i = 1 /\ s # <<>>
    <3>1. Len(s) # 0
      BY <1>1, <2>2
    <3>2. 2 \in 2 .. Len(z) /\ z[2] = s[1]
      BY <1>0, <1>z, <3>1
    <3>3. i # Len(z) /\ i + 1 = 2
      BY <1>0, <1>z, <2>2, <3>1
    <3>. QED
      BY <1>z, <2>2, <3>2, <3>3
  <2>3. CASE i # 1
    <3>1. i - 1 \in 1 .. Len(s) /\ z[i] = s[i - 1]
      <4>1. i \in 2 .. Len(z)
        BY <1>0, <1>z, <2>3
      <4>. QED
        BY <1>z, <4>1
    <3>2. next[s[i - 1]] = IF i - 1 = Len(s) THEN Empty ELSE s[i]
      <4>1. next[s[i - 1]] = IF i - 1 = Len(s) THEN Empty ELSE s[(i - 1) + 1]
        BY <3>1 DEF IsList, Falls
      <4>2. (i - 1) + 1 = i
        BY <1>0, <1>z
      <4>. QED
        BY <4>1, <4>2
    <3>3. i # Len(z) => i \in 1 .. Len(s) /\ z[i + 1] = s[i]
      <4>1. i # Len(s) + 1 => i \in 1 .. Len(s)
        BY <1>0, <1>z
      <4>. QED
        BY <1>z, <4>1
    <3>4. i - 1 = Len(s) <=> i = Len(z)
      BY <1>0, <1>z
    <3>. QED
      BY <3>1, <3>2, <3>3, <3>4
  <2>. QED
    BY <2>1, <2>2, <2>3
<1>5. ASSUME NEW i \in 1 .. Len(z), NEW j \in 1 .. Len(z), i <= j
      PROVE  z[j] + j <= z[i] + i
  <2>1. CASE j = 1
    BY <1>0, <1>z, <1>5, <2>1
  <2>2. CASE i # 1
    <3>0. i \in 2 .. Len(z) /\ j \in 2 .. Len(z) /\ i - 1 <= j - 1
      BY <1>0, <1>z, <1>5, <2>2
    <3>1. /\ i - 1 \in 1 .. Len(s) /\ z[i] = s[i - 1]
          /\ j - 1 \in 1 .. Len(s) /\ z[j] = s[j - 1]
      BY <1>z, <3>0
    <3>2. s[j - 1] + (j - 1) <= s[i - 1] + (i - 1)
      BY <3>0, <3>1 DEF IsList, Falls
    <3>3. s[i - 1] \in Nat /\ s[j - 1] \in Nat /\ i \in Nat /\ j \in Nat
      BY <1>0, <1>3, <1>z, <3>1
    <3>4. \A a, b, c, d \in Nat : a + (b - 1) <= c + (d - 1) => a + b <= c + d
      OBVIOUS
    <3>. QED
      BY <3>1, <3>2, <3>3, <3>4
  <2>3. CASE i = 1 /\ j # 1
    <3>1. /\ 1 \in 1 .. Len(s) /\ s # <<>>
          /\ j - 1 \in 1 .. Len(s) /\ z[j] = s[j - 1]
      <4>1. j \in 2 .. Len(z) /\ 1 <= Len(s)
        BY <1>0, <1>z, <2>3
      <4>2. s # <<>>
        BY <4>1
      <4>. QED
        BY <1>0, <1>z, <4>1, <4>2
    <3>2. s[j - 1] + (j - 1) <= s[1] + 1
      BY <3>1 DEF IsList, Falls
    <3>3. s[1] \in Nat /\ s[j - 1] \in Nat /\ j \in Nat /\ r \in Nat /\ s[1] < r
      <4>1. s[1] \in 1 .. count /\ s[j - 1] \in 1 .. count
        BY <1>3, <3>1
      <4>2. j \in Nat
        BY <1>0, <1>z
      <4>3. s[1] < r
        BY <3>1
      <4>. QED
        BY <1>0, <4>1, <4>2, <4>3
    <3>4. \A a, b, c, d \in Nat : a + (b - 1) <= c + 1 /\ c < d => a + b <= d + 1
      OBVIOUS
    <3>5. s[j - 1] + j <= r + 1
      BY <3>2, <3>3, <3>4
    <3>. QED
      BY <1>z, <2>3, <3>1, <3>5
  <2>. QED
    BY <2>1, <2>2, <2>3
<1>. QED
  BY <1>2, <1>4, <1>5 DEF IsList, Falls, z

LEMMA ListRest ==
    ASSUME Typed, NEW s, IsList(s), s # <<>>
    PROVE  IsList(Rest(s))
<1> DEFINE z == Rest(s)
<1>1. s \in Seq(1 .. count) /\ Len(s) \in Nat \ {0}
  BY FirstOf DEF IsList, Falls
<1>2. /\ z \in Seq(1 .. count) /\ Len(z) = Len(s) - 1
      /\ \A i \in 1 .. Len(z) : z[i] = s[i + 1]
  BY <1>1, RestOf
<1>3. \A i \in 1 .. Len(s) : s[i] \in 1 .. count
  BY <1>1, ElementsOf
<1>. HIDE DEF z
<1>4. ASSUME NEW i \in 1 .. Len(z)
      PROVE  next[z[i]] = IF i = Len(z) THEN Empty ELSE z[i + 1]
  <2>1. i + 1 \in 1 .. Len(s) /\ z[i] = s[i + 1]
    BY <1>1, <1>2
  <2>2. next[s[i + 1]] = IF i + 1 = Len(s) THEN Empty ELSE s[(i + 1) + 1]
    BY <2>1 DEF IsList, Falls
  <2>3. i # Len(z) => z[i + 1] = s[(i + 1) + 1]
    BY <1>1, <1>2
  <2>. QED
    BY <1>1, <1>2, <2>1, <2>2, <2>3
<1>5. ASSUME NEW i \in 1 .. Len(z), NEW j \in 1 .. Len(z), i <= j
      PROVE  z[j] + j <= z[i] + i
  <2>1. /\ i + 1 \in 1 .. Len(s) /\ z[i] = s[i + 1]
        /\ j + 1 \in 1 .. Len(s) /\ z[j] = s[j + 1]
    BY <1>1, <1>2
  <2>2. s[j + 1] + (j + 1) <= s[i + 1] + (i + 1)
    BY <1>5, <2>1 DEF IsList, Falls
  <2>. QED
    BY <1>3, <2>1, <2>2
<1>. QED
  BY <1>2, <1>4, <1>5 DEF IsList, Falls, z

\* The steps that leave the table alone.
Reads(t) ==
    \/ \E k \in Keys : AddRow(t, k) \/ DeleteRow(t, k) \/ Lookup(t, k)
    \/ FindStart(t) \/ WriteRecord(t) \/ ReadBegin(t)
    \/ LookupStart(t) \/ LookupBegin(t) \/ Walk(t) \/ Return(t)

LEMMA TableSteps ==
    ASSUME NEW t \in Threads, Step(t)
    PROVE  \/ Reads(t) \/ CreateRecord(t) \/ Insert(t) \/ StoreStart(t)
           \/ LinkBegin(t) \/ EraseRow(t)
BY Zenon DEF Step, Reads

LEMMA TableRead ==
    ASSUME NEW t \in Threads, Reads(t)
    PROVE  /\ UNCHANGED <<starts, begin, next, count, owner, lists>>
           /\ \A k : Start(k)' = Start(k)
<1>1. UNCHANGED <<starts, begin, next, count, owner, lists>>
  BY DEF Reads, AddRow, DeleteRow, Lookup, Call, FindStart, WriteRecord,
         ReadBegin, LookupStart, LookupBegin, Walk, Return
<1>. QED
  BY <1>1 DEF Start

LEMMA RecordMade ==
    ASSUME Inv, NEW t \in Threads, CreateRecord(t) \/ Insert(t)
    PROVE  /\ count' = count + 1 /\ count' \in Records /\ key[t] \in Keys
           /\ new'[t] = count' /\ \A u \in Threads \ {t} : new'[u] = new[u]
           /\ next'[count'] = IF pc[t] = "create" THEN Empty ELSE old[t]
           /\ owner'[count'] = key[t]
           /\ \A r \in 1 .. count : next'[r] = next[r] /\ owner'[r] = owner[r]
           /\ \A k \in Keys : Start(k)' = Start(k)
<1>1. PICK link \in {Empty, old[t]} :
        /\ NewRecord(t, link) /\ pc[t] \in {"create", "insert"}
        /\ link = IF pc[t] = "create" THEN Empty ELSE old[t]
  BY DEF CreateRecord, Insert
<1>2. count' = count + 1 /\ count' \in Records
  BY <1>1, CountRoom DEF Inv, NewRecord
<1>3. /\ next' = [next EXCEPT ![count'] = link]
      /\ owner' = [owner EXCEPT ![count'] = key[t]]
      /\ new' = [new EXCEPT ![t] = count']
  BY <1>1 DEF NewRecord
<1>4. starts' = starts
  BY DEF CreateRecord, Insert
<1>5. key[t] \in Keys
  BY <1>1, KeyTyped DEF Inv
<1>6. count \in Nat /\ \A r \in 1 .. count : r \in Records /\ r # count'
  BY <1>2 DEF Inv, Typed
<1>. QED
  BY <1>1, <1>2, <1>3, <1>4, <1>5, <1>6 DEF Inv, Typed, Start

\* What a start info and a step that puts or takes a row do to the table, for
\* any key, and for one that is not raced.
LEMMA StartPut ==
    ASSUME Inv, NEW t \in Threads, StoreStart(t)
    PROVE  /\ key[t] \in Keys /\ new[t] \in 1 .. count /\ next[new[t]] = Empty
           /\ owner[new[t]] = key[t]
           /\ \A k \in Keys : starts'[k] = IF k = key[t] THEN <<new[t]>> \o starts[k]
                                           ELSE starts[k]
           /\ \A k \in Keys : lists'[k] = IF k = key[t] THEN <<new[t]>> \o lists[k]
                                          ELSE lists[k]
           /\ \A r \in Records : begin'[r] = IF r = new[t] THEN r ELSE begin[r]
<1>1. key[t] \in Keys
  BY KeyTyped DEF Inv, StoreStart
<1>2. new[t] \in 1 .. count /\ next[new[t]] = Empty /\ owner[new[t]] = key[t]
  BY DEF Inv, TableInv, FreshInv, HasNew, OwnInv, Owned, StoreStart
<1>3. \A k \in Keys : starts'[k] = IF k = key[t] THEN <<new[t]>> \o starts[k]
                                   ELSE starts[k]
  BY <1>1 DEF Inv, Typed, StoreStart
<1>4. \A k \in Keys : lists'[k] = IF k = key[t] THEN <<new[t]>> \o lists[k]
                                  ELSE lists[k]
  BY <1>1 DEF Inv, Typed, StoreStart, SetList
<1>5. \A r \in Records : begin'[r] = IF r = new[t] THEN r ELSE begin[r]
  BY <1>2 DEF Inv, Typed, StoreStart
<1>. QED
  BY <1>1, <1>2, <1>3, <1>4, <1>5

LEMMA StartStored ==
    ASSUME Inv, NEW t \in Threads, StoreStart(t)
    PROVE  /\ \A k \in Sole :
                /\ starts'[k] = IF k = key[t] THEN <<new[t]>> ELSE starts[k]
                /\ Start(k)' = IF k = key[t] THEN new[t] ELSE Start(k)
                /\ lists'[k] = IF k = key[t] THEN <<new[t]>> ELSE lists[k]
           /\ key[t] \in Sole => starts[key[t]] = <<>> /\ lists[key[t]] = <<>>
<1>1. key[t] \in Sole => starts[key[t]] = <<>> /\ lists[key[t]] = <<>>
  BY DEF Inv, TableInv, PlaceInv, PlaceOf, Alone, AlonePlace, InNew, ListInv,
         StoreStart
<1>2. \A s : s = <<>> => <<new[t]>> \o s = <<new[t]>>
  OBVIOUS
<1>3. \A k \in Sole : k \in Keys
  OBVIOUS
<1>4. ASSUME NEW k \in Sole
      PROVE  /\ starts'[k] = IF k = key[t] THEN <<new[t]>> ELSE starts[k]
             /\ lists'[k] = IF k = key[t] THEN <<new[t]>> ELSE lists[k]
  <2>1. CASE k = key[t]
    <3>1. starts[k] = <<>> /\ lists[k] = <<>>
      BY <1>1, <2>1
    <3>2. starts'[k] = <<new[t]>> \o starts[k] /\ lists'[k] = <<new[t]>> \o lists[k]
      BY <1>3, <2>1, StartPut
    <3>3. <<new[t]>> \o starts[k] = <<new[t]>> /\ <<new[t]>> \o lists[k] = <<new[t]>>
      BY <1>2, <3>1, Zenon
    <3>. QED
      BY <2>1, <3>2, <3>3
  <2>2. CASE k # key[t]
    BY <1>3, <2>2, StartPut
  <2>. QED
    BY <2>1, <2>2
<1>5. ASSUME NEW k \in Sole
      PROVE  Start(k)' = IF k = key[t] THEN new[t] ELSE Start(k)
  <2>1. CASE k = key[t]
    <3>1. starts'[k] = <<new[t]>>
      BY <1>4, <2>1
    <3>2. <<new[t]>> # <<>> /\ Head(<<new[t]>>) = new[t]
      OBVIOUS
    <3>3. Start(k)' = new[t]
      BY <3>1, <3>2, Zenon DEF Start
    <3>. QED
      BY <2>1, <3>3
  <2>2. CASE k # key[t]
    BY <1>4, <2>2 DEF Start
  <2>. QED
    BY <2>1, <2>2
<1>. QED
  BY <1>1, <1>4, <1>5

LEMMA BeginLinked ==
    ASSUME Inv, NEW t \in Threads, LinkBegin(t)
    PROVE  /\ key[t] \in Keys /\ new[t] \in 1 .. count /\ owner[new[t]] = key[t]
           /\ start[t] \in 1 .. count /\ owner[start[t]] = key[t]
           /\ key[t] \in Sole => starts[key[t]] # <<>> /\ Start(key[t]) = start[t]
           /\ \A k \in Keys :
                /\ Start(k)' = Start(k)
                /\ lists'[k] = IF k = key[t] THEN <<new[t]>> \o lists[k]
                               ELSE lists[k]
           /\ \A r \in Records :
                begin'[r] = IF r = start[t] THEN new[t] ELSE begin[r]
<1>1. key[t] \in Keys
  BY KeyTyped DEF Inv, LinkBegin
<1>2. key[t] \in Sole => starts[key[t]] # <<>> /\ Start(key[t]) = start[t]
  BY DEF Inv, TableInv, PlaceInv, PlaceOf, Alone, AlonePlace, InList, LinkBegin
<1>3. /\ new[t] \in 1 .. count /\ owner[new[t]] = key[t]
      /\ start[t] \in 1 .. count /\ owner[start[t]] = key[t]
  <2>1. new[t] # Empty /\ start[t] # Empty
    BY DEF Inv, TableInv, PlaceInv, PlaceOf, InList, LinkBegin
  <2>. QED
    BY <2>1 DEF Inv, TableInv, OwnInv, Owned
<1>4. \A k \in Keys :
        lists'[k] = IF k = key[t] THEN <<new[t]>> \o lists[k] ELSE lists[k]
  BY <1>1 DEF Inv, Typed, LinkBegin, SetList
<1>5. \A r \in Records : begin'[r] = IF r = start[t] THEN new[t] ELSE begin[r]
  BY <1>3 DEF Inv, Typed, LinkBegin
<1>6. \A k \in Keys : Start(k)' = Start(k)
  BY DEF LinkBegin, Start
<1>. QED
  BY <1>1, <1>2, <1>3, <1>4, <1>5, <1>6

LEMMA RowTaken ==
    ASSUME Inv, NEW t \in Threads, EraseRow(t)
    PROVE  /\ key[t] \in Keys /\ starts[key[t]] # <<>> /\ Start(key[t]) = start[t]
           /\ start[t] \in 1 .. count /\ owner[start[t]] = key[t]
           /\ old[t] = begin[start[t]] /\ old[t] \in 1 .. count
           /\ owner[old[t]] = key[t]
           /\ \A k \in Keys :
                starts'[k] = IF k = key[t] /\ next[old[t]] = Empty
                               THEN Tail(starts[k]) ELSE starts[k]
           /\ \A k \in Keys :
                lists'[k] = IF k = key[t] THEN Rest(lists[k]) ELSE lists[k]
           /\ \A r \in Records :
                begin'[r] = IF r = start[t] /\ next[old[t]] # Empty
                              THEN next[old[t]] ELSE begin[r]
<1>1. key[t] \in Keys
  BY KeyTyped DEF Inv, EraseRow
<1>2. /\ starts[key[t]] # <<>> /\ Start(key[t]) = start[t]
      /\ old[t] = begin[start[t]]
  BY DEF Inv, TableInv, PlaceInv, PlaceOf, Alone, AlonePlace, Deleting, InList,
         EraseRow
<1>3. /\ start[t] \in 1 .. count /\ owner[start[t]] = key[t]
      /\ old[t] \in 1 .. count /\ owner[old[t]] = key[t]
  <2>1. start[t] \in 1 .. count /\ old[t] \in 1 .. count
    BY <1>1, <1>2, FirstTyped DEF Inv
  <2>2. Owned(start[t], key[t]) /\ Owned(old[t], key[t])
    BY <2>1 DEF Inv, TableInv, OwnInv
  <2>. QED
    BY <2>2 DEF Owned
<1>4. \A k \in Keys : starts'[k] = IF k = key[t] /\ next[old[t]] = Empty
                                     THEN Tail(starts[k]) ELSE starts[k]
  <2>1. CASE next[old[t]] = Empty
    <3>1. starts' = [starts EXCEPT ![key[t]] = Tail(@)]
      BY <2>1 DEF EraseRow
    <3>. QED
      BY <1>1, <2>1, <3>1 DEF Inv, Typed
  <2>2. CASE next[old[t]] # Empty
    BY <2>2 DEF EraseRow
  <2>. QED
    BY <2>1, <2>2
<1>5. \A k \in Keys : lists'[k] = IF k = key[t] THEN Rest(lists[k]) ELSE lists[k]
  BY <1>1 DEF Inv, Typed, EraseRow, SetList
<1>6. \A r \in Records : begin'[r] = IF r = start[t] /\ next[old[t]] # Empty
                                        THEN next[old[t]] ELSE begin[r]
  BY <1>3 DEF Inv, Typed, EraseRow
<1>. QED
  BY <1>1, <1>2, <1>3, <1>4, <1>5, <1>6

LEMMA RowErased ==
    ASSUME Inv, NEW t \in Threads, EraseRow(t)
    PROVE  /\ \A k \in Sole :
                /\ starts'[k] = IF k = key[t] /\ Len(lists[k]) = 1 THEN <<>>
                                ELSE starts[k]
                /\ starts'[k] # <<>> => Start(k)' = Start(k)
                /\ lists'[k] = IF k = key[t] THEN Rest(lists[k]) ELSE lists[k]
           /\ key[t] \in Sole =>
                /\ lists[key[t]] # <<>>
                /\ \A r \in Records :
                     begin'[r] = IF r = start[t] /\ Len(lists[key[t]]) # 1
                                   THEN lists[key[t]][2] ELSE begin[r]
<1>1. /\ key[t] \in Keys /\ starts[key[t]] # <<>> /\ Start(key[t]) = start[t]
      /\ old[t] = begin[start[t]]
  BY RowTaken
<1>2. \A k \in Sole : k \in Keys
  OBVIOUS
<1>3. ASSUME key[t] \in Sole
      PROVE  /\ lists[key[t]] # <<>> /\ Tail(starts[key[t]]) = <<>>
             /\ next[old[t]] = Empty <=> Len(lists[key[t]]) = 1
             /\ next[old[t]] = IF Len(lists[key[t]]) = 1 THEN Empty
                               ELSE lists[key[t]][2]
  <2>1. /\ lists[key[t]] # <<>> /\ old[t] = lists[key[t]][1]
        /\ IsList(lists[key[t]])
    BY <1>1, <1>3 DEF Inv, TableInv, ListInv
  <2>2. starts[key[t]] = <<Start(key[t])>> /\ Tail(<<Start(key[t])>>) = <<>>
    BY <1>1, <1>3 DEF Inv, TableInv, StartInv
  <2>. QED
    BY <2>1, <2>2, ListFirst DEF Inv
<1>4. ASSUME NEW k \in Sole
      PROVE  /\ starts'[k] = IF k = key[t] /\ Len(lists[k]) = 1 THEN <<>>
                             ELSE starts[k]
             /\ lists'[k] = IF k = key[t] THEN Rest(lists[k]) ELSE lists[k]
  <2>1. CASE k = key[t]
    BY <1>2, <1>3, <2>1, RowTaken
  <2>2. CASE k # key[t]
    BY <1>2, <2>2, RowTaken
  <2>. QED
    BY <2>1, <2>2
<1>5. \A k \in Sole : starts'[k] # <<>> => Start(k)' = Start(k)
  BY <1>4 DEF Start
<1>6. ASSUME key[t] \in Sole, NEW r \in Records
      PROVE  begin'[r] = IF r = start[t] /\ Len(lists[key[t]]) # 1
                           THEN lists[key[t]][2] ELSE begin[r]
  BY <1>3, <1>6, RowTaken
<1>. QED
  BY <1>3, <1>4, <1>5, <1>6

\* A step of a thread leaves what the others have.
LEMMA Others ==
    ASSUME Typed, NEW t \in Threads, Step(t), NEW u \in Threads, u # t
    PROVE  /\ pc'[u] = pc[u] /\ key'[u] = key[u] /\ start'[u] = start[u]
           /\ old'[u] = old[u] /\ new'[u] = new[u] /\ seen'[u] = seen[u]
<1>. USE DEF Typed, Goto
<1>1. CASE \E k \in Keys : AddRow(t, k)
  BY <1>1 DEF AddRow, Call
<1>2. CASE \E k \in Keys : DeleteRow(t, k)
  BY <1>2 DEF DeleteRow
<1>3. CASE \E k \in Keys : Lookup(t, k)
  BY <1>3 DEF Lookup, Call
<1>4. CASE FindStart(t) \/ LookupStart(t)
  BY <1>4 DEF FindStart, LookupStart
<1>5. CASE CreateRecord(t) \/ Insert(t)
  BY <1>5 DEF CreateRecord, Insert, NewRecord
<1>6. CASE WriteRecord(t)
  BY <1>6 DEF WriteRecord
<1>7. CASE ReadBegin(t) \/ LookupBegin(t)
  BY <1>7 DEF ReadBegin, LookupBegin
<1>8. CASE Walk(t)
  BY <1>8 DEF Walk
<1>9. CASE Return(t)
  BY <1>9 DEF Return, Finish
<1>10. CASE StoreStart(t) \/ LinkBegin(t) \/ EraseRow(t)
  BY <1>10 DEF StoreStart, LinkBegin, EraseRow, Finish
<1>. QED
  BY <1>1, <1>2, <1>3, <1>4, <1>5, <1>6, <1>7, <1>8, <1>9, <1>10, Steps

\* A start info is stored, or unlinked, or the start infos stay.
LEMMA StartsMove ==
    ASSUME Inv, NEW t \in Threads, Step(t), NEW k \in Keys
    PROVE  \/ starts'[k] = starts[k]
           \/ StoreStart(t) /\ k = key[t] /\ starts'[k] = <<new[t]>> \o starts[k]
           \/ /\ EraseRow(t) /\ k = key[t] /\ starts[k] # <<>>
              /\ starts'[k] = Tail(starts[k])
<1>1. CASE Reads(t)
  BY <1>1, TableRead
<1>2. CASE CreateRecord(t) \/ Insert(t) \/ LinkBegin(t)
  BY <1>2 DEF CreateRecord, Insert, LinkBegin
<1>3. CASE StoreStart(t)
  <2>1. starts'[k] = IF k = key[t] THEN <<new[t]>> \o starts[k] ELSE starts[k]
    BY <1>3, StartPut
  <2>. QED
    BY <1>3, <2>1, Zenon
<1>4. CASE EraseRow(t)
  BY <1>4, RowTaken
<1>. QED
  BY <1>1, <1>2, <1>3, <1>4, TableSteps

\* Each of the start infos after a step was one before, or is the one stored.
LEMMA StartsKept ==
    ASSUME Inv, Typed', NEW t \in Threads, Step(t), NEW k \in Keys,
           NEW i \in 1 .. Len(starts'[k])
    PROVE  \/ \E j \in 1 .. Len(starts[k]) : starts'[k][i] = starts[k][j]
           \/ StoreStart(t) /\ k = key[t] /\ starts'[k][i] = new[t]
<1>0. starts[k] \in Seq(Records) /\ starts'[k] \in Seq(Records)
  BY DEF Inv, Typed
<1>1. CASE starts'[k] = starts[k]
  BY <1>1
<1>2. CASE StoreStart(t) /\ k = key[t] /\ starts'[k] = <<new[t]>> \o starts[k]
  <2>0. new[t] \in Records
    <3>1. new[t] \in 1 .. count /\ count \in Links
      BY <1>2, StartPut DEF Inv, Typed
    <3>. QED
      BY <3>1
  <2>1. CASE i = 1
    BY <1>0, <1>2, <2>0, <2>1
  <2>2. CASE i # 1
    <3>1. i - 1 \in 1 .. Len(starts[k]) /\ starts'[k][i] = starts[k][i - 1]
      BY <1>0, <1>2, <2>0, <2>2
    <3>. QED
      BY <3>1
  <2>. QED
    BY <2>1, <2>2
<1>3. CASE starts[k] # <<>> /\ starts'[k] = Tail(starts[k])
  <2>1. i + 1 \in 1 .. Len(starts[k]) /\ starts'[k][i] = starts[k][i + 1]
    BY <1>0, <1>3
  <2>. QED
    BY <2>1
<1>. QED
  BY <1>1, <1>2, <1>3, StartsMove

LEMMA CountGrows ==
    ASSUME Inv, NEW t \in Threads, Step(t)
    PROVE  /\ count \in Nat /\ count' \in Nat /\ count <= count'
           /\ \A r \in 1 .. count : next'[r] = next[r] /\ owner'[r] = owner[r]
<1>0. count \in Nat
  BY DEF Inv, Typed
<1>1. CASE Reads(t)
  BY <1>0, <1>1, TableRead
<1>2. CASE CreateRecord(t) \/ Insert(t)
  BY <1>0, <1>2, RecordMade
<1>3. CASE StoreStart(t) \/ LinkBegin(t) \/ EraseRow(t)
  BY <1>0, <1>3 DEF StoreStart, LinkBegin, EraseRow
<1>. QED
  BY <1>1, <1>2, <1>3, TableSteps

\* What is of a key stays so.
OwnedNext(r, k) == r \in 1 .. count' /\ owner'[r] = k

LEMMA OwnedStays ==
    ASSUME Inv, NEW t \in Threads, Step(t), NEW r, NEW k, Owned(r, k)
    PROVE  OwnedNext(r, k)
BY CountGrows DEF Owned, OwnedNext

\* A thread gets a pointer to the newest start info of a key.
LEMMA StartMoves ==
    ASSUME Typed, WriterInv, OwnInv, NEW t \in Threads, Step(t)
    PROVE  \/ start'[t] = start[t] \/ start'[t] = Empty
           \/ \E k \in Keys : starts[k] # <<>> /\ start'[t] = Start(k)
<1>1. CASE \E k \in Keys : AddRow(t, k) \/ Lookup(t, k)
  BY <1>1 DEF AddRow, Lookup, Call
<1>2. CASE \E k \in Keys : DeleteRow(t, k)
  <2>1. PICK k \in Keys : DeleteRow(t, k)
    BY <1>2
  <2>2. starts[k] # <<>> /\ start'[t] = Start(k)
    BY <2>1, StartTyped DEF DeleteRow, Typed
  <2>. QED
    BY <2>2
<1>3. CASE FindStart(t) \/ LookupStart(t)
  <2>1. key[t] \in Keys /\ start'[t] = Start(key[t])
    BY <1>3, KeyTyped DEF FindStart, LookupStart, Typed
  <2>2. starts[key[t]] # <<>> \/ Start(key[t]) = Empty
    BY <2>1, StartTyped
  <2>. QED
    BY <2>1, <2>2
<1>4. CASE CreateRecord(t) \/ WriteRecord(t) \/ Insert(t) \/ ReadBegin(t)
  BY <1>4 DEF CreateRecord, WriteRecord, Insert, ReadBegin
<1>5. CASE LookupBegin(t) \/ Walk(t)
  BY <1>5 DEF LookupBegin, Walk
<1>6. CASE StoreStart(t) \/ LinkBegin(t) \/ EraseRow(t) \/ Return(t)
  BY <1>6 DEF StoreStart, LinkBegin, EraseRow, Return, Finish, Typed
<1>. QED
  BY <1>1, <1>2, <1>3, <1>4, <1>5, <1>6, Steps

\* What a thread has after a step is of the key it works for.
LEMMA OwnHeld ==
    ASSUME Inv, Typed', NEW t \in Threads, Step(t), NEW u \in Threads,
           NEW r \in {start'[u], old'[u], new'[u]}, r # Empty
    PROVE  OwnedNext(r, key'[u])
<1>0. /\ Typed /\ WriterInv /\ OwnInv /\ TableInv /\ count \in Links
      /\ pc[t] # "idle" => key[t] \in Keys
  BY KeyTyped DEF Inv, TableInv, Typed
<1>1. CASE u # t
  <2>1. r \in {start[u], old[u], new[u]} /\ key'[u] = key[u]
    BY <1>0, <1>1, Others
  <2>2. Owned(r, key[u])
    BY <1>0, <2>1 DEF OwnInv
  <2>. QED
    BY <2>1, <2>2, OwnedStays
\* What a thread had stays its own; an idle one has nothing.
<1>2. ASSUME r \in {start[t], old[t], new[t]}, u = t,
             key'[t] = key[t] \/ pc[t] = "idle"
      PROVE  OwnedNext(r, key'[u])
  <2>1. Owned(r, key[t])
    BY <1>0, <1>2 DEF OwnInv
  <2>2. pc[t] # "idle"
    BY <1>0, <2>1 DEF WriterInv, OwnInv, Owned
  <2>. QED
    BY <1>2, <2>1, <2>2, OwnedStays
\* A link or a start info of its key.
<1>3. ASSUME u = t, NEW k \in Keys, Owned(r, k), key'[t] = k PROVE OwnedNext(r, key'[u])
  BY <1>3, OwnedStays
<1>4. ASSUME NEW x, Owned(x, key[t]), key[t] \in Keys, r \in {begin[x], next[x]},
             key'[t] = key[t], u = t
      PROVE  OwnedNext(r, key'[u])
  <2>1. Owned(r, owner[x])
    BY <1>0, <1>4 DEF OwnInv, Owned
  <2>. QED
    BY <1>3, <1>4, <2>1 DEF Owned
<1>5. CASE u = t
  <2>1. CASE \E k \in Keys : AddRow(t, k) \/ Lookup(t, k)
    BY <1>0, <1>2, <1>5, <2>1 DEF AddRow, CanAdd, Lookup, Call
  <2>2. CASE \E k \in Keys : DeleteRow(t, k)
    <3>1. PICK k \in Keys : DeleteRow(t, k)
      BY <2>2
    <3>2. /\ start'[t] = Start(k) /\ old'[t] = begin[Start(k)] /\ new' = new
          /\ key'[t] = k /\ starts[k] # <<>> /\ pc[t] = "idle"
      BY <1>0, <3>1, StartTyped DEF DeleteRow, CanDelete, Typed
    <3>3. Owned(Start(k), k) /\ begin[Start(k)] # Empty
      BY <1>0, <3>2, StartOwned DEF Owned
    <3>4. Owned(begin[Start(k)], k)
      BY <1>0, <3>3 DEF OwnInv, Owned
    <3>. QED
      BY <1>2, <1>3, <1>5, <3>2, <3>3, <3>4
  <2>3. CASE FindStart(t) \/ LookupStart(t)
    <3>1. /\ start'[t] = Start(key[t]) /\ key' = key /\ old' = old /\ new' = new
          /\ key[t] \in Keys
      BY <1>0, <2>3 DEF FindStart, LookupStart, Typed
    <3>2. Start(key[t]) # Empty => Owned(Start(key[t]), key[t])
      BY <1>0, <3>1, StartOwned DEF Owned
    <3>. QED
      BY <1>2, <1>3, <1>5, <3>1, <3>2
  <2>4. CASE CreateRecord(t) \/ Insert(t)
    <3>1. /\ start' = start /\ old' = old /\ key' = key /\ new'[t] = count'
          /\ owner'[count'] = key[t] /\ count' \in Nat \ {0}
      BY <2>4, RecordMade DEF CreateRecord, Insert
    <3>2. r = count' => OwnedNext(r, key'[u])
      BY <1>5, <3>1 DEF OwnedNext
    <3>. QED
      BY <1>2, <1>5, <3>1, <3>2
  <2>5. CASE WriteRecord(t)
    BY <1>2, <1>5, <2>5 DEF WriteRecord
  <2>6. CASE ReadBegin(t) \/ LookupBegin(t)
    <3>1. /\ start' = start /\ old'[t] = begin[start[t]] /\ key' = key /\ new' = new
          /\ key[t] \in Keys /\ start[t] # Empty
      BY <1>0, <2>6
         DEF ReadBegin, LookupBegin, Typed, TableInv, PlaceInv, PlaceOf, InList
    <3>2. Owned(start[t], key[t])
      BY <1>0, <3>1 DEF OwnInv
    <3>. QED
      BY <1>2, <1>4, <1>5, <3>1, <3>2
  <2>7. CASE Walk(t)
    <3>1. /\ start' = start /\ old'[t] = next[old[t]] /\ key' = key /\ new' = new
          /\ key[t] \in Keys /\ old[t] # Empty
      BY <1>0, <2>7 DEF Walk, Typed
    <3>2. Owned(old[t], key[t])
      BY <1>0, <3>1 DEF OwnInv
    <3>. QED
      BY <1>2, <1>4, <1>5, <3>1, <3>2
  <2>8. CASE StoreStart(t) \/ LinkBegin(t) \/ EraseRow(t) \/ Return(t)
    <3>1. Finish(t)
      BY <2>8 DEF StoreStart, LinkBegin, EraseRow, Return
    <3>2. start'[t] = Empty /\ old'[t] = Empty /\ new'[t] = Empty
      BY <1>0, <3>1 DEF Finish, Typed
    <3>. QED
      BY <1>5, <3>2
  <2>. QED
    BY <2>1, <2>2, <2>3, <2>4, <2>5, <2>6, <2>7, <2>8, Steps
<1>. QED
  BY <1>1, <1>5

-----------------------------------------------------------------------------
\* The table keeps its invariant.

LEMMA StartStep ==
    ASSUME Inv, Typed', NEW t \in Threads, Step(t)
    PROVE  StartInv'
<1>. SUFFICES ASSUME NEW k \in Sole, starts'[k] # <<>>
              PROVE  starts'[k] = <<Start(k)'>>
  BY DEF StartInv
<1>0. StartInv /\ k \in Keys /\ Typed
  BY DEF Inv, TableInv
<1>1. CASE starts'[k] = starts[k]
  BY <1>0, <1>1 DEF StartInv, Start
<1>2. CASE StoreStart(t) /\ k = key[t]
  BY <1>2, StartStored
<1>3. CASE EraseRow(t) /\ k = key[t]
  BY <1>0, <1>3, RowErased DEF StartInv
<1>. QED
  BY <1>0, <1>1, <1>2, <1>3, StartsMove

\* What the first record of a start info becomes is of the same key.
LEMMA BeginOwned ==
    ASSUME Inv, NEW t \in Threads, Step(t), NEW r \in Records
    PROVE  \/ begin'[r] = begin[r]
           \/ r \in 1 .. count /\ begin'[r] # Empty /\ Owned(begin'[r], owner[r])
<1>0. OwnInv /\ count \in Links
  BY DEF Inv, TableInv, Typed
<1>1. CASE Reads(t)
  BY <1>1, TableRead
<1>2. CASE CreateRecord(t) \/ Insert(t)
  BY <1>2 DEF CreateRecord, Insert
<1>3. CASE StoreStart(t)
  <2>1. /\ new[t] \in 1 .. count /\ owner[new[t]] = key[t]
        /\ begin'[r] = IF r = new[t] THEN r ELSE begin[r]
    BY <1>3, StartPut
  <2>. QED
    BY <1>0, <2>1 DEF Owned
<1>4. CASE LinkBegin(t)
  <2>1. /\ new[t] \in 1 .. count /\ owner[new[t]] = key[t]
        /\ start[t] \in 1 .. count /\ owner[start[t]] = key[t]
        /\ begin'[r] = IF r = start[t] THEN new[t] ELSE begin[r]
    BY <1>4, BeginLinked
  <2>. QED
    BY <1>0, <2>1 DEF Owned
<1>5. CASE EraseRow(t)
  <2>1. /\ old[t] \in 1 .. count /\ owner[old[t]] = key[t]
        /\ start[t] \in 1 .. count /\ owner[start[t]] = key[t]
        /\ begin'[r] = IF r = start[t] /\ next[old[t]] # Empty
                         THEN next[old[t]] ELSE begin[r]
    BY <1>5, RowTaken
  <2>2. next[old[t]] # Empty => Owned(next[old[t]], owner[old[t]])
    BY <1>0, <2>1 DEF OwnInv
  <2>. QED
    BY <1>0, <2>1, <2>2
<1>. QED
  BY <1>1, <1>2, <1>3, <1>4, <1>5, TableSteps

LEMMA OwnStep ==
    ASSUME Inv, Typed', NEW t \in Threads, Step(t)
    PROVE  OwnInv'
<1>0. /\ Typed /\ OwnInv /\ count \in Nat /\ count' \in Nat /\ count <= count'
      /\ count \in Links
      /\ \A r \in 1 .. count : next'[r] = next[r] /\ owner'[r] = owner[r]
  BY CountGrows DEF Inv, TableInv, Typed
<1>1. ASSUME NEW r \in 1 .. count
      PROVE  /\ owner'[r] \in Keys
             /\ next'[r] # Empty => OwnedNext(next'[r], owner'[r]) /\ next'[r] < r
  <2>1. /\ owner[r] \in Keys /\ owner'[r] = owner[r] /\ next'[r] = next[r]
        /\ next[r] # Empty => Owned(next[r], owner[r]) /\ next[r] < r
    BY <1>0 DEF OwnInv
  <2>. QED
    BY <2>1, OwnedStays
<1>2. ASSUME NEW r \in 1 .. count', r \notin 1 .. count
      PROVE  /\ owner'[r] \in Keys
             /\ next'[r] # Empty => OwnedNext(next'[r], owner'[r]) /\ next'[r] < r
  <2>1. CreateRecord(t) \/ Insert(t)
    <3>1. CASE Reads(t)
      BY <1>2, <3>1, TableRead
    <3>2. CASE StoreStart(t) \/ LinkBegin(t) \/ EraseRow(t)
      BY <1>2, <3>2 DEF StoreStart, LinkBegin, EraseRow
    <3>. QED
      BY <3>1, <3>2, TableSteps
  <2>2. /\ count' = count + 1 /\ key[t] \in Keys /\ owner'[count'] = key[t]
        /\ next'[count'] = IF pc[t] = "create" THEN Empty ELSE old[t]
    BY <2>1, RecordMade
  <2>3. r = count'
    BY <1>0, <1>2, <2>2
  <2>4. next'[r] # Empty => Owned(next'[r], key[t])
    BY <1>0, <2>2, <2>3 DEF OwnInv
  <2>5. next'[r] # Empty => OwnedNext(next'[r], key[t]) /\ next'[r] < r
    BY <1>0, <2>2, <2>3, <2>4, OwnedStays DEF Owned
  <2>. QED
    BY <2>2, <2>3, <2>5
<1>3. ASSUME NEW r \in Records, begin'[r] # Empty
      PROVE  r \in 1 .. count' /\ OwnedNext(begin'[r], owner'[r])
  <2>1. r \in 1 .. count /\ Owned(begin'[r], owner[r])
    BY <1>0, <1>3, BeginOwned DEF OwnInv
  <2>. QED
    BY <1>0, <2>1, OwnedStays
<1>4. ASSUME NEW k \in Keys, NEW i \in 1 .. Len(starts'[k])
      PROVE  OwnedNext(starts'[k][i], k) /\ begin'[starts'[k][i]] # Empty
  <2>1. CASE \E j \in 1 .. Len(starts[k]) : starts'[k][i] = starts[k][j]
    <3>1. PICK r : r = starts'[k][i] /\ Owned(r, k) /\ begin[r] # Empty
      BY <1>0, <2>1 DEF OwnInv
    <3>2. r \in Records
      BY <1>0, <3>1 DEF Owned
    <3>3. OwnedNext(r, k) /\ begin'[r] # Empty
      BY <3>1, <3>2, OwnedStays, BeginOwned
    <3>. QED
      BY <3>1, <3>3
  <2>2. CASE StoreStart(t) /\ k = key[t] /\ starts'[k][i] = new[t]
    <3>1. Owned(new[t], k)
      BY <2>2, StartPut DEF Owned
    <3>2. new[t] \in Records
      BY <1>0, <3>1 DEF Owned
    <3>3. begin'[new[t]] = new[t]
      BY <2>2, <3>2, StartPut
    <3>. QED
      BY <2>2, <3>1, <3>2, <3>3, OwnedStays
  <2>. QED
    BY <2>1, <2>2, StartsKept
<1>5. \A u \in Threads : \A r \in {start'[u], old'[u], new'[u]} :
        r # Empty => OwnedNext(r, key'[u])
  BY OwnHeld
<1>. QED
  BY <1>1, <1>2, <1>3, <1>4, <1>5 DEF OwnInv, Owned, OwnedNext

LEMMA FreshStep ==
    ASSUME Inv, Typed', NEW t \in Threads, Step(t)
    PROVE  FreshInv'
<1>0. /\ Typed /\ WriterInv /\ OwnInv /\ FreshInv
      /\ count \in Nat /\ count' \in Nat /\ count <= count'
  BY CountGrows DEF Inv, TableInv
\* Who has a new record had it, or has just made it.
<1>1. ASSUME NEW v \in Threads, HasNew(v)'
      PROVE  \/ /\ HasNew(v) /\ new'[v] = new[v] /\ new[v] \in 1 .. count
                /\ ~(v = t /\ (CreateRecord(t) \/ StoreStart(t)))
             \/ v = t /\ CreateRecord(t) /\ new'[v] = count' /\ count' = count + 1
  <2>1. CASE v # t
    BY <1>0, <1>1, <2>1, Others DEF HasNew, FreshInv
  <2>2. CASE v = t /\ CreateRecord(t)
    BY <2>2, RecordMade
  <2>3. CASE v = t /\ WriteRecord(t)
    <3>1. HasNew(t) /\ new'[t] = new[t] /\ ~CreateRecord(t) /\ ~StoreStart(t)
      BY <2>3 DEF WriteRecord, HasNew, CreateRecord, StoreStart
    <3>. QED
      BY <1>0, <2>3, <3>1 DEF FreshInv
  <2>4. CASE v = t /\ ~CreateRecord(t) /\ ~WriteRecord(t)
    <3>1. pc'[t] \notin {"data", "store"}
      <4>. USE DEF Goto, Typed
      <4>1. CASE \E k \in Keys : AddRow(t, k)
        BY <1>0, <4>1 DEF AddRow, Call
      <4>2. CASE \E k \in Keys : DeleteRow(t, k)
        BY <1>0, <4>2 DEF DeleteRow
      <4>3. CASE \E k \in Keys : Lookup(t, k)
        BY <1>0, <4>3 DEF Lookup, Call
      <4>4. CASE FindStart(t) \/ LookupStart(t)
        BY <1>0, <4>4 DEF FindStart, LookupStart
      <4>5. CASE Insert(t)
        BY <1>0, <4>5 DEF Insert
      <4>6. CASE ReadBegin(t) \/ LookupBegin(t)
        BY <1>0, <4>6 DEF ReadBegin, LookupBegin
      <4>7. CASE StoreStart(t) \/ LinkBegin(t) \/ EraseRow(t)
        BY <1>0, <4>7 DEF StoreStart, LinkBegin, EraseRow, Finish
      <4>8. CASE Walk(t)
        BY <1>0, <4>8 DEF Walk
      <4>9. CASE Return(t)
        BY <1>0, <4>9 DEF Return, Finish
      <4>. QED
        BY <2>4, <4>1, <4>2, <4>3, <4>4, <4>5, <4>6, <4>7, <4>8, <4>9, Steps
    <3>. QED
      BY <1>1, <2>4, <3>1 DEF HasNew
  <2>. QED
    BY <2>1, <2>2, <2>3, <2>4
<1>2. ASSUME NEW v \in Threads, HasNew(v)'
      PROVE  new'[v] \in 1 .. count' /\ next'[new'[v]] = Empty
  <2>1. CASE HasNew(v) /\ new'[v] = new[v]
    BY <1>0, <2>1, CountGrows DEF FreshInv
  <2>2. CASE CreateRecord(t) /\ new'[v] = count' /\ count' = count + 1
    BY <1>0, <2>2, RecordMade DEF CreateRecord
  <2>. QED
    BY <1>1, <1>2, <2>1, <2>2
<1>3. ASSUME NEW v \in Threads, HasNew(v)', NEW k \in Keys,
             NEW i \in 1 .. Len(starts'[k])
      PROVE  starts'[k][i] # new'[v]
  <2>1. \A j \in 1 .. Len(starts[k]) : starts[k][j] \in 1 .. count
    BY <1>0 DEF OwnInv, Owned
  <2>2. StoreStart(t) => new[t] \in 1 .. count /\ HasNew(t) /\ ~CreateRecord(t)
    BY <1>0 DEF StoreStart, HasNew, FreshInv, CreateRecord
  <2>3. CASE HasNew(v) /\ new'[v] = new[v] /\ ~(v = t /\ StoreStart(t))
    BY <1>0, <1>3, <2>2, <2>3, StartsKept DEF FreshInv
  <2>4. CASE CreateRecord(t) /\ new'[v] = count' /\ count' = count + 1
    BY SMTT(20), <1>0, <1>3, <2>1, <2>2, <2>4, StartsKept
  <2>. QED
    BY <1>1, <1>3, <2>3, <2>4
<1>4. ASSUME NEW v \in Threads, HasNew(v)', NEW u \in Threads
      PROVE  start'[u] # new'[v]
  <2>1. start[u] \in 0 .. count /\ \A k \in Keys : starts[k] # <<>> => Start(k) \in 1 .. count
    BY <1>0, StartHeld, StartOwned
  <2>2. \/ start'[u] = start[u] \/ start'[u] = Empty
        \/ \E k \in Keys : starts[k] # <<>> /\ start'[u] = Start(k)
    BY <1>0, Others, StartMoves
  <2>3. CASE HasNew(v) /\ new'[v] = new[v] /\ new[v] \in 1 .. count
    <3>1. \A k \in Keys : starts[k] # <<>> => Start(k) # new[v]
      BY <1>0, <2>3, StartOwned DEF FreshInv
    <3>. QED
      BY <1>0, <2>2, <2>3, <3>1 DEF FreshInv
  <2>4. CASE new'[v] = count' /\ count' = count + 1
    BY <1>0, <2>1, <2>2, <2>4
  <2>. QED
    BY <1>1, <1>4, <2>3, <2>4
<1>5. ASSUME NEW v \in Threads, HasNew(v)', NEW u \in Threads, HasNew(u)',
             new'[u] = new'[v]
      PROVE  u = v
  <2>1. CASE HasNew(u) /\ new'[u] = new[u] /\ HasNew(v) /\ new'[v] = new[v]
    BY <1>0, <1>5, <2>1 DEF FreshInv
  <2>2. CASE u # v /\ (u = t \/ v = t) /\ CreateRecord(t)
    BY <1>0, <1>1, <1>5, <2>2
  <2>. QED
    BY <1>1, <1>5, <2>1, <2>2
<1>. QED
  BY <1>2, <1>3, <1>4, <1>5 DEF FreshInv

\* A start info of a key that is not raced goes with its last row alone, and
\* its first record is changed by its writer alone.
LEMMA StartsStay ==
    ASSUME Inv, NEW t \in Threads, Step(t), NEW k \in Keys, starts[k] # <<>>
    PROVE  \/ starts'[k] # <<>> /\ Start(k)' = Start(k)
           \/ (EraseRow(t) \/ StoreStart(t)) /\ k = key[t]
<1>1. starts'[k] = starts[k] => Start(k)' = Start(k)
  BY DEF Start
<1>. QED
  BY <1>1, StartsMove

LEMMA BeginKept ==
    ASSUME Inv, NEW t \in Threads, Step(t), NEW k \in Keys, starts[k] # <<>>
    PROVE  \/ begin'[Start(k)] = begin[Start(k)]
           \/ (LinkBegin(t) \/ EraseRow(t)) /\ k = key[t]
<1>1. /\ Start(k) \in 1 .. count /\ owner[Start(k)] = k /\ count \in Links
      /\ starts[k][1] = Start(k) /\ 1 \in 1 .. Len(starts[k]) /\ FreshInv
  BY StartOwned DEF Inv, TableInv, Typed
<1>2. Start(k) \in Records
  BY <1>1
<1>3. CASE Reads(t)
  BY <1>3, TableRead
<1>4. CASE CreateRecord(t) \/ Insert(t)
  BY <1>4 DEF CreateRecord, Insert
<1>5. CASE StoreStart(t)
  <2>1. Start(k) # new[t]
    BY <1>1, <1>5 DEF StoreStart, FreshInv, HasNew
  <2>. QED
    BY <1>2, <1>5, <2>1, StartPut
<1>6. CASE LinkBegin(t)
  BY <1>1, <1>2, <1>6, BeginLinked
<1>7. CASE EraseRow(t)
  BY <1>1, <1>2, <1>7, RowTaken
<1>. QED
  BY <1>3, <1>4, <1>5, <1>6, <1>7, TableSteps

LEMMA PlaceStep ==
    ASSUME Inv, Typed', NEW t \in Threads, Step(t)
    PROVE  PlaceInv'
<1>0. /\ Typed /\ WriterInv /\ StartInv /\ OwnInv /\ TableInv /\ PlaceInv
      /\ count \in Nat /\ count' \in Nat /\ count <= count'
      /\ \A r \in 1 .. count : next'[r] = next[r]
  BY CountGrows DEF Inv, TableInv
<1>1. ASSUME NEW u \in Threads, u # t, pc[u] \in InNew \cup InList, Alone(u)
      PROVE  AlonePlace(u)'
  <2>1. /\ pc'[u] = pc[u] /\ key'[u] = key[u] /\ start'[u] = start[u]
        /\ old'[u] = old[u] /\ new'[u] = new[u]
    BY <1>0, <1>1, Others
  <2>2. AlonePlace(u) /\ key[u] \in Keys /\ ~Looking(u)
    BY <1>0, <1>1, KeyTyped DEF PlaceInv, PlaceOf, InNew, InList, Looking
  <2>3. ~Looking(t) => key[u] # key[t]
    BY <1>0, <1>1, <2>2, OneWriter DEF InNew, InList
  <2>4. ASSUME StoreStart(t) \/ LinkBegin(t) \/ EraseRow(t) PROVE ~Looking(t)
    BY <2>4 DEF StoreStart, LinkBegin, EraseRow, Looking
  <2>5. CASE pc[u] \in InNew
    <3>1. starts'[key[u]] = <<>>
      BY <2>2, <2>3, <2>4, <2>5, StartsMove DEF AlonePlace
    <3>. QED
      BY <2>1, <2>5, <3>1 DEF AlonePlace, InNew, InList
  <2>6. CASE pc[u] \in InList
    <3>1. starts[key[u]] # <<>> /\ Start(key[u]) = start[u]
      BY <2>2, <2>6 DEF AlonePlace
    <3>2. starts'[key[u]] # <<>> /\ Start(key[u])' = start[u]
      <4>1. \A k \in Keys : k = key[u] => starts'[k] # <<>> /\ Start(k)' = start[u]
        BY <2>2, <2>3, <2>4, <3>1, StartsStay
      <4>. QED
        BY <2>1, <2>2, <4>1
    <3>3. begin'[start[u]] = begin[start[u]]
      BY <2>2, <2>3, <2>4, <3>1, BeginKept
    <3>4. ASSUME pc[u] = "link"
          PROVE  new[u] \in 1 .. count' /\ next'[new[u]] = next[new[u]]
      BY <1>0, <2>2, <3>4 DEF AlonePlace
    <3>. QED
      BY <2>1, <2>2, <2>6, <3>2, <3>3, <3>4 DEF AlonePlace, InNew, InList
  <2>. QED
    BY <1>1, <2>5, <2>6
<1>2. ASSUME NEW u \in Threads, u # t PROVE PlaceOf(u)'
  <2>1. /\ pc'[u] = pc[u] /\ start'[u] = start[u] /\ new'[u] = new[u]
        /\ key'[u] = key[u] /\ PlaceOf(u)
    BY <1>0, <1>2, Others DEF PlaceInv
  <2>2. pc[u] \notin InNew \cup InList => AlonePlace(u)'
    BY <2>1 DEF AlonePlace, InNew, InList
  <2>3. Alone(u)' => Alone(u)
    BY <2>1 DEF Alone, Deleting
  <2>. QED
    BY <1>1, <1>2, <2>1, <2>2, <2>3 DEF PlaceOf
<1>3. PlaceOf(t)'
  <2>0. PlaceOf(t) /\ (pc[t] # "idle" => key[t] \in Keys)
    BY <1>0, KeyTyped DEF PlaceInv
  <2>1. ASSUME pc'[t] \notin InNew \cup InList \cup {"begin"} PROVE PlaceOf(t)'
    BY <2>1 DEF PlaceOf, AlonePlace, InNew, InList
  <2>2. CASE \E k \in Keys : AddRow(t, k)
    BY <1>0, <2>1, <2>2 DEF AddRow, Call, Goto, Typed, InNew, InList
  <2>3. CASE \E k \in Keys : Lookup(t, k)
    BY <1>0, <2>1, <2>3 DEF Lookup, Call, Goto, Typed, InNew, InList
  <2>4. CASE LookupStart(t)
    <3>1. /\ pc'[t] = IF start'[t] = Empty THEN "walk" ELSE "begin"
      BY <1>0, <2>4 DEF LookupStart, Goto, Typed
    <3>. QED
      BY <3>1 DEF PlaceOf, AlonePlace, InNew, InList
  <2>5. CASE LookupBegin(t)
    BY <1>0, <2>1, <2>5 DEF LookupBegin, Goto, Typed, InNew, InList
  <2>6. CASE Walk(t)
    BY <1>0, <2>1, <2>6 DEF Walk, InNew, InList
  <2>7. CASE StoreStart(t) \/ LinkBegin(t) \/ EraseRow(t) \/ Return(t)
    BY <1>0, <2>1, <2>7
       DEF StoreStart, LinkBegin, EraseRow, Return, Finish, Goto, Typed, InNew, InList
  <2>8. CASE \E k \in Keys : DeleteRow(t, k)
    <3>1. PICK k \in Keys : DeleteRow(t, k)
      BY <2>8
    <3>2. starts[k] # <<>> /\ Start(k) # Empty
      BY <1>0, <3>1, StartTyped DEF DeleteRow
    <3>3. /\ pc'[t] = "erase" /\ key'[t] = k /\ start'[t] = Start(k)
          /\ old'[t] = begin[Start(k)] /\ starts' = starts /\ begin' = begin
      BY <1>0, <3>1 DEF DeleteRow, Goto, Typed
    <3>4. Start(k)' = Start(k)
      BY <3>3 DEF Start
    <3>. QED
      BY <3>2, <3>3, <3>4 DEF PlaceOf, AlonePlace, InNew, InList
  <2>9. CASE FindStart(t)
    <3>1. key[t] \in Keys /\ starts' = starts /\ key' = key
      BY <2>0, <2>9 DEF FindStart
    <3>2. Start(key[t])' = Start(key[t])
      BY <3>1 DEF Start
    <3>3. start'[t] = Start(key[t])
      BY <1>0, <2>9 DEF FindStart, Typed
    <3>4. pc'[t] = IF Start(key[t]) = Empty THEN "create" ELSE "read"
      BY <1>0, <2>9, <3>3 DEF FindStart, Goto, Typed
    <3>5. Start(key[t]) = Empty <=> starts[key[t]] = <<>>
      BY <1>0, <3>1, StartTyped
    <3>. QED
      BY <3>1, <3>2, <3>3, <3>4, <3>5 DEF PlaceOf, AlonePlace, InNew, InList
  <2>10. CASE CreateRecord(t)
    <3>1. pc'[t] = "data" /\ starts' = starts /\ key' = key /\ pc[t] = "create"
      BY <1>0, <2>10 DEF CreateRecord, Goto, Typed
    <3>2. new'[t] # Empty
      BY <1>0, <2>10, RecordMade
    <3>. QED
      BY <2>0, <3>1, <3>2 DEF PlaceOf, AlonePlace, Alone, Deleting, InNew, InList
  <2>11. CASE WriteRecord(t)
    <3>1. /\ pc[t] = "data" /\ starts' = starts /\ key' = key /\ new' = new
          /\ pc'[t] \in {"store", "fault"}
      BY <1>0, <2>11 DEF WriteRecord, Goto, Typed
    <3>. QED
      BY <2>0, <3>1 DEF PlaceOf, AlonePlace, Alone, Deleting, InNew, InList
  <2>12. CASE ReadBegin(t)
    <3>1. /\ pc'[t] = "insert" /\ pc[t] = "read" /\ key' = key /\ start' = start
          /\ old'[t] = begin[start[t]] /\ starts' = starts /\ begin' = begin
      BY <1>0, <2>12 DEF ReadBegin, Goto, Typed
    <3>2. Start(key[t])' = Start(key[t])
      BY <3>1 DEF Start
    <3>. QED
      BY <2>0, <3>1, <3>2 DEF PlaceOf, AlonePlace, Alone, Deleting, InNew, InList
  <2>13. CASE Insert(t)
    <3>1. /\ pc'[t] = "link" /\ pc[t] = "insert" /\ key' = key /\ start' = start
          /\ starts' = starts /\ begin' = begin
      BY <1>0, <2>13 DEF Insert, Goto, Typed
    <3>2. Start(key[t])' = Start(key[t])
      BY <3>1 DEF Start
    <3>3. /\ new'[t] = count' /\ count' = count + 1 /\ next'[count'] = old[t]
          /\ key[t] \in Keys
      BY <2>13, <3>1, RecordMade
    <3>4. start'[t] # Empty /\ new'[t] # Empty
      BY <1>0, <2>0, <3>1, <3>3 DEF PlaceOf, InList
    <3>5. ASSUME Alone(t)' PROVE AlonePlace(t)'
      <4>1. /\ starts[key[t]] # <<>> /\ Start(key[t]) = start[t]
            /\ old[t] = begin[start[t]]
        BY <2>0, <3>1, <3>5 DEF PlaceOf, AlonePlace, Alone, Deleting, InList
      <4>2. begin[start[t]] \in 1 .. count
        BY <1>0, <3>3, <4>1, FirstTyped
      <4>. QED
        BY <1>0, <3>1, <3>2, <3>3, <4>1, <4>2 DEF AlonePlace, InNew, InList
    <3>. QED
      BY <3>1, <3>4, <3>5 DEF PlaceOf, InNew, InList
  <2>. QED
    BY <2>2, <2>3, <2>4, <2>5, <2>6, <2>7, <2>8, <2>9, <2>10, <2>11, <2>12, <2>13,
       Steps
<1>. QED
  BY <1>2, <1>3 DEF PlaceInv

LEMMA ListStep ==
    ASSUME Inv, Typed', NEW t \in Threads, Step(t)
    PROVE  ListInv'
<1>0. /\ Typed /\ StartInv /\ OwnInv /\ TableInv /\ PlaceInv /\ ListInv
      /\ count \in Nat /\ count' \in Nat /\ count <= count'
      /\ \A r \in 1 .. count : next'[r] = next[r]
      /\ Sole \subseteq Keys
  BY CountGrows DEF Inv, TableInv
<1>1. ASSUME NEW s, IsList(s) PROVE IsList(s)'
  BY <1>0, <1>1, ListKept
<1>2. ASSUME NEW k \in Sole, lists'[k] = lists[k],
             starts'[k] = <<>> <=> starts[k] = <<>>,
             starts[k] # <<>> =>
               Start(k)' = Start(k) /\ begin'[Start(k)] = begin[Start(k)]
      PROVE  /\ IsList(lists[k])'
             /\ starts'[k] = <<>> <=> lists'[k] = <<>>
             /\ starts'[k] # <<>> => begin'[Start(k)'] = lists'[k][1]
  <2>1. PICK s : s = lists[k]
    OBVIOUS
  <2>2. IsList(s)
    BY <1>0, <2>1 DEF ListInv
  <2>3. IsList(s)'
    BY <1>1, <2>2
  <2>. QED
    BY <1>0, <1>2, <2>1, <2>3 DEF ListInv
<1>3. ASSUME NEW k \in Sole, Reads(t) \/ CreateRecord(t) \/ Insert(t)
      PROVE  /\ lists'[k] = lists[k] /\ starts'[k] = starts[k]
             /\ Start(k)' = Start(k) /\ begin' = begin
  <2>1. CASE Reads(t)
    BY <2>1, TableRead
  <2>2. CASE CreateRecord(t) \/ Insert(t)
    BY <2>2, RecordMade DEF CreateRecord, Insert
  <2>. QED
    BY <1>3, <2>1, <2>2
<1>4. CASE Reads(t) \/ CreateRecord(t) \/ Insert(t)
  BY <1>2, <1>3, <1>4 DEF ListInv
<1>5. ASSUME NEW k \in Sole, StoreStart(t) \/ LinkBegin(t) \/ EraseRow(t), k # key[t]
      PROVE  /\ lists'[k] = lists[k]
             /\ starts'[k] = <<>> <=> starts[k] = <<>>
             /\ starts[k] # <<>> =>
                  Start(k)' = Start(k) /\ begin'[Start(k)] = begin[Start(k)]
  <2>1. lists'[k] = lists[k]
    <3>1. CASE StoreStart(t)
      BY <1>0, <1>5, <3>1, StartPut
    <3>2. CASE LinkBegin(t)
      BY <1>0, <1>5, <3>2, BeginLinked
    <3>3. CASE EraseRow(t)
      BY <1>0, <1>5, <3>3, RowTaken
    <3>. QED
      BY <1>5, <3>1, <3>2, <3>3
  <2>2. starts[k] # <<>> => starts'[k] # <<>> /\ Start(k)' = Start(k)
    BY <1>0, <1>5, StartsStay
  <2>3. starts'[k] # <<>> => starts[k] # <<>>
    BY <1>0, <1>5, StartsMove
  <2>4. starts[k] # <<>> => begin'[Start(k)] = begin[Start(k)]
    BY <1>0, <1>5, BeginKept
  <2>. QED
    BY <2>1, <2>2, <2>3, <2>4
\* The rows of a key that is raced are in no list.
<1>9. ASSUME StoreStart(t) \/ LinkBegin(t) \/ EraseRow(t), key[t] \notin Sole
      PROVE  ListInv'
  BY <1>2, <1>5, <1>9 DEF ListInv
<1>6. CASE StoreStart(t) /\ key[t] \in Sole
  <2>1. /\ key[t] \in Keys /\ new[t] \in 1 .. count /\ next[new[t]] = Empty
        /\ starts'[key[t]] = <<new[t]>> /\ lists'[key[t]] = <<new[t]>>
    BY <1>0, <1>6, StartPut, StartStored
  <2>2. PICK k \in Sole, r \in 1 .. count : k = key[t] /\ r = new[t]
    BY <1>6, <2>1
  <2>3. Start(k)' = r /\ begin'[r] = r
    <3>1. r \in Records
      BY <1>0, <2>2 DEF Typed
    <3>. QED
      BY <1>6, <2>2, <3>1, StartPut, StartStored
  <2>4. IsList(<<r>>)
    BY <1>0, <2>1, <2>2 DEF IsList, Falls
  <2>5. IsList(<<r>>)'
    BY <1>1, <2>4
  <2>6. /\ IsList(lists[k])'
        /\ starts'[k] = <<>> <=> lists'[k] = <<>>
        /\ starts'[k] # <<>> => begin'[Start(k)'] = lists'[k][1]
    BY <2>1, <2>2, <2>3, <2>5
  <2>. QED
    BY <1>2, <1>5, <1>6, <2>2, <2>6 DEF ListInv
<1>7. CASE LinkBegin(t) /\ key[t] \in Sole
  <2>1. /\ key[t] \in Keys /\ starts[key[t]] # <<>> /\ Start(key[t]) = start[t]
        /\ new[t] \in 1 .. count /\ start[t] \in 1 .. count
        /\ lists'[key[t]] = <<new[t]>> \o lists[key[t]]
    BY <1>7, BeginLinked
  <2>0. PICK s : s = lists[key[t]]
    OBVIOUS
  <2>2. PICK k \in Sole, r \in 1 .. count :
          k = key[t] /\ r = new[t] /\ s = lists[key[t]]
    BY <1>7, <2>0, <2>1
  <2>3. next[r] = begin[start[t]] /\ begin[start[t]] < r
    BY <1>0, <1>7, <2>2 DEF LinkBegin, PlaceInv, PlaceOf, Alone, AlonePlace
  <2>4. IsList(s) /\ s # <<>> /\ begin[start[t]] = s[1]
    BY <1>0, <2>1, <2>2 DEF ListInv
  <2>5. IsList(<<r>> \o s)
    BY <1>0, <2>3, <2>4, ListPut
  <2>6. IsList(<<r>> \o s)'
    BY <1>1, <2>5
  <2>7. Start(k)' = start[t] /\ begin'[start[t]] = r /\ starts' = starts
    <3>1. start[t] \in Records
      BY <1>0, <2>1 DEF Typed
    <3>2. /\ Start(k)' = Start(k)
          /\ begin'[start[t]] = new[t]
      BY <1>0, <1>7, <3>1, BeginLinked
    <3>. QED
      BY <1>7, <2>1, <2>2, <3>2 DEF LinkBegin
  <2>8. <<r>> \o s # <<>> /\ (<<r>> \o s)[1] = r
    <3>1. s \in Seq(1 .. count)
      BY <2>4 DEF IsList
    <3>. QED
      BY <3>1
  <2>9. /\ IsList(lists[k])'
        /\ starts'[k] = <<>> <=> lists'[k] = <<>>
        /\ starts'[k] # <<>> => begin'[Start(k)'] = lists'[k][1]
    BY <2>1, <2>2, <2>6, <2>7, <2>8
  <2>. QED
    BY <1>2, <1>5, <1>7, <2>2, <2>9 DEF ListInv
<1>8. CASE EraseRow(t) /\ key[t] \in Sole
  <2>1. /\ key[t] \in Keys /\ starts[key[t]] # <<>> /\ Start(key[t]) = start[t]
        /\ start[t] \in 1 .. count /\ lists[key[t]] # <<>>
        /\ lists'[key[t]] = Rest(lists[key[t]])
    BY <1>8, RowTaken, RowErased
  <2>0. PICK s : s = lists[key[t]]
    OBVIOUS
  <2>2. PICK k \in Sole : k = key[t] /\ s = lists[key[t]]
    BY <1>8, <2>0, <2>1
  <2>3. IsList(s) /\ s # <<>> /\ IsList(Rest(s)) /\ Len(s) \in Nat \ {0}
    BY <1>0, <2>1, <2>2, ListRest, ListFirst DEF ListInv
  <2>4. IsList(Rest(s))'
    <3>1. PICK z : z = Rest(s)
      OBVIOUS
    <3>2. IsList(z)'
      BY <1>1, <2>3, <3>1
    <3>. QED
      BY <3>1, <3>2 DEF Rest
  <2>5. /\ starts'[k] = <<>> <=> Len(s) = 1
        /\ starts'[k] # <<>> => Start(k)' = start[t] /\ begin'[start[t]] = s[2]
    <3>1. start[t] \in Records
      BY <1>0, <2>1 DEF Typed
    <3>. QED
      BY <1>8, <2>1, <2>2, <3>1, RowErased
  <2>6. /\ Rest(s) = <<>> <=> Len(s) = 1
        /\ Len(s) # 1 => Rest(s)[1] = s[2]
    <3>1. s \in Seq(1 .. count)
      BY <2>3 DEF IsList
    <3>2. /\ Rest(s) \in Seq(1 .. count) /\ Len(Rest(s)) = Len(s) - 1
          /\ \A i \in 1 .. Len(s) - 1 : Rest(s)[i] = s[i + 1]
      BY <2>3, <3>1, RestOf
    <3>3. Rest(s) = <<>> <=> Len(Rest(s)) = 0
      BY <3>2
    <3>4. \A n \in Nat \ {0} : n # 1 => 1 \in 1 .. n - 1 /\ 1 + 1 = 2
      OBVIOUS
    <3>5. Len(s) # 1 => Rest(s)[1] = s[2]
      BY <2>3, <3>2, <3>4
    <3>. QED
      BY <2>3, <3>2, <3>3, <3>5
  <2>7. /\ IsList(lists[k])'
        /\ starts'[k] = <<>> <=> lists'[k] = <<>>
        /\ starts'[k] # <<>> => begin'[Start(k)'] = lists'[k][1]
    <3>1. lists'[k] = Rest(s)
      BY <2>1, <2>2
    <3>2. PICK z : z = Rest(s)
      OBVIOUS
    <3>3. IsList(z)' /\ lists'[k] = z
      BY <2>4, <3>1, <3>2 DEF Rest
    <3>. QED
      BY <2>5, <2>6, <3>2, <3>3
  <2>. QED
    BY <1>2, <1>5, <1>8, <2>2, <2>7 DEF ListInv
<1>. QED
  BY <1>4, <1>9, <1>6, <1>7, <1>8, TableSteps

-----------------------------------------------------------------------------
\* The lookups.

\* A lookup has the lists it had, and the new one of its key.
LEMMA StatesMove ==
    ASSUME Inv, NEW t \in Threads, Step(t), NEW u \in Threads, Looking(u)',
           key'[u] \in Sole
    PROVE  \/ /\ Looking(u) /\ key'[u] = key[u] /\ lists'[key[u]] \in states'[u]
              /\ states'[u] = states[u] \cup {lists'[key[u]]}
           \/ /\ u = t /\ pc'[u] = "lookup" /\ states'[u] = {lists'[key'[u]]}
              /\ ~Looking(u)
<1>0. /\ Typed /\ WriterInv /\ LookInv /\ Sole \subseteq Keys
      /\ pc[u] # "idle" => key[u] \in Keys
      /\ Looking(u) /\ key[u] \in Sole => lists[key[u]] \in states[u]
  BY KeyTyped DEF Inv, LookInv, LookOf, Current
<1>1. CASE \E k \in Keys : Lookup(t, k)
  <2>1. PICK k \in Keys : Lookup(t, k)
    BY <1>1
  <2>2. CASE u = t
    BY <1>0, <2>1, <2>2 DEF Lookup, Call, Goto, Looking, Typed
  <2>3. CASE u # t
    <3>1. /\ pc'[u] = pc[u] /\ key'[u] = key[u] /\ lists' = lists
          /\ states'[u] = states[u]
      BY <1>0, <2>1, <2>3 DEF Lookup, Call, Goto, Typed
    <3>. QED
      BY <1>0, <3>1 DEF Looking
  <2>. QED
    BY <2>2, <2>3
<1>2. CASE Return(t)
  BY <1>0, <1>2 DEF Return, Finish, Goto, Looking, Typed
<1>3. CASE StoreStart(t) \/ LinkBegin(t) \/ EraseRow(t)
  <2>1. u # t /\ pc'[u] = pc[u] /\ key'[u] = key[u]
    BY <1>0, <1>3 DEF StoreStart, LinkBegin, EraseRow, Finish, Goto, Looking, Typed
  <2>2. PICK list : SetList(key[t], list)
    BY <1>3 DEF StoreStart, LinkBegin, EraseRow
  <2>3. pc[t] # "idle"
    BY <1>3 DEF StoreStart, LinkBegin, EraseRow
  <2>4. key[t] \in Keys /\ key[u] \in Keys /\ Looking(u)
    BY <1>0, <2>1, <2>3, KeyTyped DEF Looking
  <2>5. /\ lists'[key[u]] = IF key[u] = key[t] THEN list ELSE lists[key[u]]
        /\ states'[u] = IF key[u] = key[t] THEN states[u] \cup {list} ELSE states[u]
    BY <1>0, <2>2, <2>4 DEF SetList, Typed
  <2>. QED
    BY <1>0, <2>1, <2>4, <2>5
<1>4. ASSUME lists' = lists, states' = states, key'[u] = key[u], Looking(u)
      PROVE  /\ lists'[key[u]] \in states'[u]
             /\ states'[u] = states[u] \cup {lists'[key[u]]}
  BY <1>0, <1>4
<1>5. CASE \E k \in Keys : AddRow(t, k)
  BY <1>0, <1>4, <1>5 DEF AddRow, Call, Goto, Looking, Typed
<1>6. CASE \E k \in Keys : DeleteRow(t, k)
  BY <1>0, <1>4, <1>6 DEF DeleteRow, Goto, Looking, Typed
<1>7. CASE FindStart(t) \/ LookupStart(t)
  BY <1>0, <1>4, <1>7 DEF FindStart, LookupStart, Goto, Looking, Typed
<1>8. CASE CreateRecord(t) \/ Insert(t)
  BY <1>0, <1>4, <1>8 DEF CreateRecord, Insert, Goto, Looking, Typed
<1>9. CASE WriteRecord(t)
  BY <1>0, <1>4, <1>9 DEF WriteRecord, Goto, Looking, Typed
<1>10. CASE ReadBegin(t) \/ LookupBegin(t)
  BY <1>0, <1>4, <1>10 DEF ReadBegin, LookupBegin, Goto, Looking, Typed
<1>11. CASE Walk(t)
  BY <1>0, <1>4, <1>11 DEF Walk, Looking, Typed
<1>. QED
  BY <1>1, <1>2, <1>3, <1>5, <1>6, <1>7, <1>8, <1>9, <1>10, <1>11, Steps

\* The first record changes under the pointer of a lookup only where the key
\* is left with a list that starts in it.
LEMMA BeginMoves ==
    ASSUME Inv, NEW t \in Threads, Step(t), NEW k \in Sole, NEW r \in 1 .. count,
           owner[r] = k, \A v \in Threads : HasNew(v) => r # new[v]
    PROVE  \/ begin'[r] = begin[r]
           \/ starts'[k] # <<>> /\ Start(k)' = r
<1>0. r \in Records
  BY DEF Inv, Typed
<1>1. CASE Reads(t)
  BY <1>1, TableRead
<1>2. CASE CreateRecord(t) \/ Insert(t)
  BY <1>2 DEF CreateRecord, Insert
<1>3. CASE StoreStart(t)
  <2>1. r # new[t]
    BY <1>3 DEF StoreStart, HasNew
  <2>. QED
    BY <1>0, <1>3, <2>1, StartPut
<1>4. CASE LinkBegin(t)
  <2>1. begin'[r] # begin[r] => r = start[t]
    BY <1>0, <1>4, BeginLinked
  <2>2. ASSUME r = start[t] PROVE starts'[k] # <<>> /\ Start(k)' = r
    <3>0. k = key[t]
      BY <1>4, <2>2, BeginLinked
    <3>1. starts[k] # <<>> /\ Start(k) = r
      BY <1>4, <2>2, <3>0, BeginLinked
    <3>2. starts' = starts
      BY <1>4 DEF LinkBegin
    <3>. QED
      BY <1>4, <3>1, <3>2, BeginLinked
  <2>. QED
    BY <2>1, <2>2
<1>5. CASE EraseRow(t)
  <2>1. begin'[r] # begin[r] => r = start[t] /\ next[old[t]] # Empty
    BY <1>0, <1>5, RowTaken
  <2>2. ASSUME r = start[t], next[old[t]] # Empty
        PROVE  starts'[k] # <<>> /\ Start(k)' = r
    <3>1. k = key[t] /\ starts[k] # <<>> /\ Start(k) = r /\ starts'[k] = starts[k]
      BY <1>5, <2>2, RowTaken
    <3>. QED
      BY <3>1 DEF Start
  <2>. QED
    BY <2>1, <2>2
<1>. QED
  BY <1>1, <1>2, <1>3, <1>4, <1>5, TableSteps

LEMMA LookStep ==
    ASSUME Inv, Typed', ListInv', NEW t \in Threads, Step(t)
    PROVE  LookInv'
<1>0. /\ Typed /\ WriterInv /\ StartInv /\ OwnInv /\ FreshInv /\ TableInv
      /\ PlaceInv /\ ListInv /\ LookInv /\ SeenInv
      /\ count \in Nat /\ count' \in Nat /\ count <= count'
      /\ \A r \in 1 .. count : next'[r] = next[r]
  BY CountGrows DEF Inv, TableInv
\* What Current says of the lists, but for the place of the walk.
<1>1. ASSUME NEW u \in Threads, Looking(u)', key'[u] \in Sole
      PROVE  /\ lists'[key'[u]] \in states'[u]
             /\ \A s \in states'[u] : IsList(s)'
             /\ pc'[u] # "lookup" => states[u] \subseteq states'[u]
  <2>0. ASSUME NEW s, s = lists'[key'[u]] PROVE IsList(s)'
    BY <1>1, <2>0 DEF ListInv, IsList, Falls
  <2>1. CASE /\ Looking(u) /\ key'[u] = key[u] /\ lists'[key[u]] \in states'[u]
             /\ states'[u] = states[u] \cup {lists'[key[u]]}
    <3>1. \A s \in states[u] : IsList(s)
      BY <1>0, <1>1, <2>1 DEF LookInv, LookOf, Current
    <3>2. ASSUME NEW s, IsList(s) PROVE IsList(s)'
      BY <1>0, <3>2, ListKept
    <3>. QED
      BY <2>0, <2>1, <3>1, <3>2
  <2>2. CASE pc'[u] = "lookup" /\ states'[u] = {lists'[key'[u]]}
    BY <2>0, <2>2
  <2>. QED
    BY <1>1, <2>1, <2>2, StatesMove
<1>2. ASSUME NEW u \in Threads, u # t PROVE LookOf(u)'
  <2>1. /\ pc'[u] = pc[u] /\ key'[u] = key[u] /\ start'[u] = start[u]
        /\ old'[u] = old[u] /\ seen'[u] = seen[u]
    BY <1>0, <1>2, Others
  <2>2. LookOf(u)
    BY <1>0 DEF LookInv
  <2>3. ASSUME Looking(u), key[u] \in Sole PROVE Current(u)'
    <3>0. Looking(u)' /\ key'[u] \in Sole /\ Current(u)
      BY <2>1, <2>2, <2>3 DEF Looking, LookOf
    <3>1. ASSUME pc[u] = "begin"
          PROVE  \E s \in states'[u] : s # <<>> /\ begin'[start[u]] = s[1]
      <4>1. /\ start[u] \in 1 .. count /\ owner[start[u]] = key[u]
            /\ \A v \in Threads : HasNew(v) => start[u] # new[v]
        <5>1. start[u] # Empty
          BY <1>0, <3>1 DEF PlaceInv, PlaceOf
        <5>. QED
          BY <1>0, <5>1 DEF OwnInv, Owned, FreshInv
      <4>2. CASE begin'[start[u]] = begin[start[u]]
        BY <1>1, <2>1, <3>0, <3>1, <4>2 DEF Current
      <4>3. PICK k \in Sole : k = key[u]
        BY <2>3
      <4>4. CASE starts'[k] # <<>> /\ Start(k)' = start[u]
        <5>1. lists'[k] # <<>> /\ begin'[start[u]] = lists'[k][1]
          BY <4>4 DEF ListInv
        <5>2. lists'[k] \in states'[u]
          BY <1>1, <2>1, <3>0, <4>3
        <5>. QED
          BY <5>1, <5>2
      <4>. QED
        BY <4>1, <4>2, <4>3, <4>4, BeginMoves
    <3>2. ASSUME pc[u] = "walk" PROVE \E s \in states'[u] : Within(u, s)'
      <4>1. PICK s \in states[u] : Within(u, s)
        BY <3>0, <3>2 DEF Current
      <4>2. s \in states'[u]
        BY <1>1, <2>1, <3>0, <3>2
      <4>3. Within(u, s)'
        BY <2>1, <4>1 DEF Within
      <4>. QED
        BY <4>2, <4>3
    <3>. QED
      BY <1>1, <2>1, <3>0, <3>1, <3>2 DEF Current
  <2>4. Looking(u)' <=> Looking(u)
    BY <2>1 DEF Looking
  <2>. QED
    BY <2>1, <2>2, <2>3, <2>4 DEF LookOf
<1>3. ASSUME pc'[t] \notin {"begin", "walk"},
             pc'[t] \in {"idle", "lookup"} => old'[t] = Empty
      PROVE  LookOf(t)'
  BY <1>1, <1>3 DEF LookOf, Current
<1>4. ASSUME pc'[t] = "walk",
             key'[t] \in Sole => \E s \in states'[t] : Within(t, s)'
      PROVE  LookOf(t)'
  BY <1>1, <1>4 DEF LookOf, Current, Looking
<1>5. LookOf(t) /\ (pc[t] # "walk" => seen[t] = <<>>)
  BY <1>0 DEF LookInv, SeenInv, SeenOf
<1>6. LookOf(t)'
  <2>1. CASE \E k \in Keys : AddRow(t, k)
    BY <1>0, <1>3, <2>1 DEF AddRow, Call, Goto, Typed
  <2>2. CASE \E k \in Keys : Lookup(t, k)
    BY <1>0, <1>3, <1>5, <2>2 DEF Lookup, Call, Goto, Typed, LookOf
  <2>3. CASE \E k \in Keys : DeleteRow(t, k)
    BY <1>0, <1>3, <2>3 DEF DeleteRow, Goto, Typed
  <2>4. CASE FindStart(t)
    BY <1>0, <1>3, <2>4 DEF FindStart, Goto, Typed
  <2>5. CASE CreateRecord(t) \/ Insert(t)
    BY <1>0, <1>3, <2>5 DEF CreateRecord, Insert, Goto, Typed
  <2>6. CASE WriteRecord(t) \/ ReadBegin(t)
    BY <1>0, <1>3, <2>6 DEF WriteRecord, ReadBegin, Goto, Typed
  <2>7. CASE StoreStart(t) \/ LinkBegin(t) \/ EraseRow(t) \/ Return(t)
    <3>1. pc'[t] = "idle" /\ old'[t] = Empty
      BY <1>0, <2>7 DEF StoreStart, LinkBegin, EraseRow, Return, Finish, Goto, Typed
    <3>. QED
      BY <1>3, <3>1
  <2>8. CASE LookupStart(t)
    <3>1. /\ key[t] \in Keys /\ key' = key /\ starts' = starts /\ begin' = begin
          /\ old' = old /\ seen' = seen /\ lists' = lists /\ states' = states
          /\ start'[t] = Start(key[t]) /\ pc[t] = "lookup"
          /\ pc'[t] = IF start'[t] = Empty THEN "walk" ELSE "begin"
      BY <1>0, <2>8, KeyTyped DEF LookupStart, Goto, Typed
    <3>2. key[t] \in Sole => lists[key[t]] \in states'[t]
      BY <1>5, <3>1 DEF LookOf, Looking, Current
    <3>3. old'[t] = Empty /\ seen'[t] = <<>>
      BY <1>5, <3>1 DEF LookOf
    <3>4. CASE Start(key[t]) = Empty
      <4>1. ASSUME key[t] \in Sole PROVE \E s \in states'[t] : Within(t, s)'
        <5>1. lists[key[t]] = <<>>
          BY <1>0, <3>1, <3>4, <4>1, StartTyped DEF ListInv
        <5>2. PICK s \in states'[t] : s = <<>>
          BY <3>2, <4>1, <5>1
        <5>3. Within(t, s)'
          BY <3>3, <5>2 DEF Within
        <5>. QED
          BY <5>3
      <4>. QED
        BY <1>4, <3>1, <3>4, <4>1
    <3>5. CASE Start(key[t]) # Empty
      <4>1. ASSUME key[t] \in Sole
            PROVE  \E s \in states'[t] : s # <<>> /\ begin'[start'[t]] = s[1]
        <5>1. lists[key[t]] # <<>> /\ begin[Start(key[t])] = lists[key[t]][1]
          BY <1>0, <3>1, <3>5, <4>1, StartTyped DEF ListInv
        <5>. QED
          BY <3>1, <3>2, <4>1, <5>1
      <4>2. pc'[t] = "begin" /\ start'[t] # Empty
        BY <3>1, <3>5
      <4>. QED
        BY <1>1, <3>1, <3>3, <4>1, <4>2 DEF LookOf, Current
    <3>. QED
      BY <3>4, <3>5
  <2>9. CASE LookupBegin(t)
    <3>1. /\ states' = states /\ seen'[t] = <<>> /\ pc'[t] = "walk" /\ key' = key
          /\ old'[t] = begin[start[t]] /\ pc[t] = "begin"
      BY <1>0, <1>5, <2>9 DEF LookupBegin, Goto, Typed
    <3>2. ASSUME key[t] \in Sole PROVE \E s \in states'[t] : Within(t, s)'
      <4>1. PICK s \in states[t] : s # <<>> /\ begin[start[t]] = s[1]
        BY <1>5, <3>1, <3>2 DEF LookOf, Looking, Current
      <4>2. s \in Seq(Records) /\ Len(s) # 0
        BY <1>0, <4>1 DEF Typed
      <4>3. Within(t, s)'
        BY <3>1, <4>1, <4>2 DEF Within
      <4>. QED
        BY <3>1, <4>3
    <3>. QED
      BY <1>4, <3>1, <3>2
  <2>10. CASE Walk(t)
    <3>1. /\ states' = states /\ pc'[t] = "walk" /\ old[t] # Empty /\ key' = key
          /\ seen'[t] = Append(seen[t], old[t]) /\ old'[t] = next[old[t]]
          /\ pc[t] = "walk" /\ seen[t] \in Seq(Records)
      BY <1>0, <2>10 DEF Walk, Typed
    <3>2. ASSUME key[t] \in Sole PROVE \E s \in states'[t] : Within(t, s)'
      <4>1. PICK s \in states[t] : Within(t, s)
        BY <1>5, <3>1, <3>2 DEF LookOf, Looking, Current
      <4>2. IsList(s)
        BY <1>5, <3>1, <3>2 DEF LookOf, Looking, Current
      <4>3. PICK n \in Nat : n = Len(seen[t])
        BY <3>1
      <4>4. Len(s) \in Nat /\ n < Len(s) /\ old[t] = s[n + 1] /\ n + 1 \in 1 .. Len(s)
        BY <3>1, <4>1, <4>2, <4>3 DEF Within, IsList
      <4>5. next[s[n + 1]] = IF n + 1 = Len(s) THEN Empty ELSE s[(n + 1) + 1]
        BY <4>2, <4>4 DEF IsList
      <4>6. /\ Len(seen'[t]) = n + 1
            /\ \A i \in 1 .. n : seen'[t][i] = seen[t][i]
            /\ seen'[t][n + 1] = old[t]
        <5>1. old[t] \in Records
          BY <1>0, <3>1 DEF Typed
        <5>. QED
          BY <3>1, <4>3, <5>1, AppendProperties
      <4>7. \A i \in 1 .. n + 1 : seen'[t][i] = s[i]
        <5>1. \A i \in 1 .. n : seen[t][i] = s[i]
          BY <4>1, <4>3 DEF Within
        <5>2. \A i \in 1 .. n + 1 : i \in 1 .. n \/ i = n + 1
          BY <4>3
        <5>. QED
          BY <4>4, <4>6, <5>1, <5>2
      <4>8. Within(t, s)'
        BY <3>1, <4>4, <4>5, <4>6, <4>7 DEF Within
      <4>. QED
        BY <3>1, <4>8
    <3>. QED
      BY <1>4, <3>1, <3>2
  <2>. QED
    BY <2>1, <2>2, <2>3, <2>4, <2>5, <2>6, <2>7, <2>8, <2>9, <2>10, Steps
<1>. QED
  BY <1>2, <1>6 DEF LookInv

-----------------------------------------------------------------------------
\* What a lookup went by, of any key.

LEMMA SeenStep ==
    ASSUME Inv, Typed', NEW t \in Threads, Step(t)
    PROVE  SeenInv'
<1>0. /\ Typed /\ WriterInv /\ OwnInv /\ TableInv /\ PlaceInv /\ LookInv /\ SeenInv
  BY DEF Inv, TableInv
<1>1. ASSUME NEW u \in Threads, u # t PROVE SeenOf(u)'
  <2>1. /\ pc'[u] = pc[u] /\ key'[u] = key[u] /\ old'[u] = old[u]
        /\ seen'[u] = seen[u] /\ SeenOf(u)
    BY <1>0, <1>1, Others DEF SeenInv
  <2>2. \A i \in 1 .. Len(seen[u]) : OwnedNext(seen[u][i], key[u])
    BY <2>1, OwnedStays DEF SeenOf
  <2>. QED
    BY <2>1, <2>2 DEF SeenOf, Falls, Owned, OwnedNext
<1>2. ASSUME seen'[t] = <<>> PROVE SeenOf(t)'
  BY <1>2 DEF SeenOf, Falls
<1>3. SeenOf(t) /\ (pc[t] # "walk" => seen[t] = <<>>)
  BY <1>0 DEF SeenInv, SeenOf
<1>4. SeenOf(t)'
  <2>1. CASE \E k \in Keys : AddRow(t, k) \/ DeleteRow(t, k) \/ Lookup(t, k)
    <3>1. pc[t] = "idle" /\ seen' = seen
      BY <2>1 DEF AddRow, CanAdd, DeleteRow, CanDelete, Lookup, Call
    <3>. QED
      BY <1>2, <1>3, <3>1
  <2>2. CASE FindStart(t) \/ CreateRecord(t) \/ WriteRecord(t) \/ ReadBegin(t) \/ Insert(t)
    BY <1>2, <1>3, <2>2 DEF FindStart, CreateRecord, WriteRecord, ReadBegin, Insert
  <2>3. CASE StoreStart(t) \/ LinkBegin(t) \/ EraseRow(t)
    BY <1>2, <1>3, <2>3 DEF StoreStart, LinkBegin, EraseRow
  <2>4. CASE LookupStart(t) \/ LookupBegin(t)
    BY <1>2, <1>3, <2>4 DEF LookupStart, LookupBegin
  <2>5. CASE Return(t)
    BY <1>0, <1>2, <2>5 DEF Return, Typed
  <2>6. CASE Walk(t)
    <3>1. /\ pc[t] = "walk" /\ pc' = pc /\ key' = key /\ old[t] # Empty
          /\ seen'[t] = Append(seen[t], old[t]) /\ old'[t] = next[old[t]]
          /\ seen[t] \in Seq(Records)
      BY <1>0, <2>6 DEF Walk, Typed
    <3>2. /\ Owned(old[t], key[t]) /\ old[t] \in Records
          /\ next[old[t]] # Empty => next[old[t]] < old[t]
      BY <1>0, <3>1 DEF OwnInv, Owned, Typed
    <3>3. PICK n \in Nat : n = Len(seen[t])
      BY <3>1
    <3>4. /\ Len(seen'[t]) = n + 1 /\ seen'[t][n + 1] = old[t]
          /\ \A i \in 1 .. n : seen'[t][i] = seen[t][i] /\ seen[t][i] \in Records
      BY <3>1, <3>2, <3>3, AppendProperties, ElementsOf
    <3>5. \A i \in 1 .. n + 1 : i \in 1 .. n \/ i = n + 1
      OBVIOUS
    <3>6. \A i \in 1 .. n + 1 : OwnedNext(seen'[t][i], key[t])
      <4>1. \A i \in 1 .. n : Owned(seen[t][i], key[t])
        BY <1>3, <3>3 DEF SeenOf
      <4>. QED
        BY <3>2, <3>4, <3>5, <4>1, OwnedStays
    <3>7. Falls(seen'[t])
      <4>1. ASSUME NEW i \in 1 .. n PROVE old[t] + (n + 1) <= seen[t][i] + i
        <5>1. n \in 1 .. n /\ i <= n /\ seen[t] # <<>>
          BY <3>3, <4>1
        <5>2. seen[t][n] + n <= seen[t][i] + i /\ old[t] < seen[t][n]
          BY <1>3, <3>3, <5>1 DEF SeenOf, Falls
        <5>3. seen[t][n] \in Nat /\ seen[t][i] \in Nat /\ old[t] \in Nat
          BY <3>2, <3>4, <5>1
        <5>. QED
          BY <5>2, <5>3
      <4>2. \A i, j \in 1 .. n : i <= j => seen[t][j] + j <= seen[t][i] + i
        BY <1>3, <3>3 DEF SeenOf, Falls
      <4>. QED
        BY SMTT(20), <3>2, <3>4, <3>5, <4>1, <4>2 DEF Falls
    <3>8. old'[t] < seen'[t][Len(seen'[t])]
      BY <3>1, <3>2, <3>4
    <3>. QED
      BY <3>1, <3>4, <3>6, <3>7, <3>8 DEF SeenOf, Falls, Owned, OwnedNext
  <2>. QED
    BY <2>1, <2>2, <2>3, <2>4, <2>5, <2>6, Steps
<1>. QED
  BY <1>1, <1>4 DEF SeenInv

-----------------------------------------------------------------------------
\* The theorems.

LEMMA InvInit == Init => Inv
<1>. SUFFICES ASSUME Init PROVE Inv
  OBVIOUS
<1>. USE DEF Init
<1>1. Typed
  <2>1. <<>> \in Seq(Records) /\ {} \in SUBSET Seq(Records)
    OBVIOUS
  <2>. QED
    BY <2>1 DEF Typed
<1>2. CountInv
  <2>1. PendingSet = {}
    BY DEF PendingSet, IsPending
  <2>2. Pending = 0
    BY <2>1, PendingCounted, FS_EmptySet
  <2>. QED
    BY <2>2 DEF CountInv
<1>3. WriterInv
  BY DEF WriterInv
<1>4. StartInv /\ OwnInv /\ FreshInv /\ PlaceInv
  BY DEF StartInv, OwnInv, FreshInv, HasNew, PlaceInv, PlaceOf, AlonePlace, InNew,
         InList
<1>5. ListInv
  <2>1. IsList(<<>>)
    BY DEF IsList, Falls
  <2>. QED
    BY <2>1 DEF ListInv
<1>6. LookInv /\ SeenInv
  BY DEF LookInv, LookOf, Looking, SeenInv, SeenOf, Falls
<1>. QED
  BY <1>1, <1>2, <1>3, <1>4, <1>5, <1>6 DEF Inv, TableInv

LEMMA InvStep == Inv /\ [Next]_vars => Inv'
<1>. SUFFICES ASSUME Inv, [Next]_vars PROVE Inv'
  OBVIOUS
<1>1. CASE UNCHANGED vars
  BY <1>1 DEF vars, threadVars, Inv, Typed, CountInv, Pending, WriterInv, Looking,
              Deleting, TableInv, StartInv, Start, OwnInv, Owned, FreshInv, HasNew,
              PlaceInv, PlaceOf, Alone, AlonePlace, ListInv, IsList, Falls, LookInv,
              LookOf, Current, Within, SeenInv, SeenOf
<1>2. ASSUME NEW t \in Threads, Step(t) PROVE Inv'
  <2>1. Typed'
    BY <1>2, TypedStep
  <2>2. CountInv' /\ WriterInv'
    BY <1>2, CountStep, WriterStep DEF Inv
  <2>3. StartInv' /\ OwnInv' /\ FreshInv' /\ PlaceInv' /\ ListInv'
    BY <1>2, <2>1, StartStep, OwnStep, FreshStep, PlaceStep, ListStep
  <2>4. LookInv' /\ SeenInv'
    BY <1>2, <2>1, <2>3, LookStep, SeenStep
  <2>. QED
    BY <2>1, <2>2, <2>3, <2>4 DEF Inv, TableInv
<1>. QED
  BY <1>1, <1>2 DEF Next

\* The invariant holds at every step of the threads.
THEOREM Invariant == Spec => []Inv
<1>1. Inv /\ [Next]_vars => Inv'
  BY InvStep
<1>. QED
  BY InvInit, <1>1, PTL DEF Spec

\* A falling sequence of records is no longer than the file.
LEMMA FallsShort ==
    ASSUME Typed, NEW s \in Seq(1 .. count), Falls(s)
    PROVE  Len(s) \in 0 .. count
<1>1. Len(s) \in Nat /\ count \in Nat
  BY ElementsOf DEF Typed
<1>2. CASE Len(s) # 0
  <2>1. PICK n \in Nat \ {0} : n = Len(s)
    BY <1>1, <1>2
  <2>2. 1 \in 1 .. n /\ n \in 1 .. n /\ 1 <= n
    OBVIOUS
  <2>3. s[n] + n <= s[1] + 1
    BY <2>1, <2>2 DEF Falls
  <2>4. s[1] \in 1 .. count /\ s[n] \in 1 .. count
    BY <1>1, <2>1, <2>2, ElementsOf
  <2>. QED
    BY <1>1, <2>1, <2>3, <2>4
<1>. QED
  BY <1>1, <1>2

LEMMA ListShort ==
    ASSUME Typed, NEW s, IsList(s)
    PROVE  Len(s) \in 0 .. count
BY FallsShort DEF IsList

\* Type correctness: what a thread holds is a record or a start info of the
\* table, and a lookup is shorter than the file.
THEOREM TypeCorrect == Spec => []TypeOK
<1>1. Inv => TypeOK
  <2>. SUFFICES ASSUME Inv PROVE TypeOK
    OBVIOUS
  <2>1. ASSUME NEW t \in Threads PROVE Len(seen[t]) <= MaxRecords
    <3>1. SeenOf(t) /\ seen[t] \in Seq(Records) /\ count \in Links
      BY DEF Inv, SeenInv, Typed
    <3>2. seen[t] \in Seq(1 .. count)
      <4>1. \A i \in 1 .. Len(seen[t]) : seen[t][i] \in 1 .. count
        BY <3>1 DEF SeenOf, Owned
      <4>. QED
        BY <3>1, <4>1
    <3>3. Len(seen[t]) \in 0 .. count
      BY <3>1, <3>2, FallsShort DEF SeenOf, Inv
    <3>. QED
      BY <3>1, <3>3
  <2>2. mapping \in Mappings
    BY DEF Inv, Typed
  <2>. QED
    BY <2>1, <2>2 DEF Inv, Typed, TypeOK
<1>. QED
  BY Invariant, <1>1, PTL

\* A lookup returns rows of its own key alone, each once and the newest first,
\* also of a key whose rows threads add at once.
THEOREM RowsOwn == Spec => []RowsAreOwn
<1>1. Inv => RowsAreOwn
  <2>. SUFFICES ASSUME Inv, NEW t \in Threads, NEW i \in DOMAIN seen[t]
                PROVE  /\ owner[seen[t][i]] = key[t]
                       /\ \A j \in 1 .. i - 1 : seen[t][i] < seen[t][j]
    BY DEF RowsAreOwn
  <2>1. SeenOf(t) /\ seen[t] \in Seq(Records) /\ DOMAIN seen[t] = 1 .. Len(seen[t])
    BY DEF Inv, SeenInv, Typed
  <2>2. owner[seen[t][i]] = key[t]
    BY <2>1 DEF SeenOf, Owned
  <2>3. ASSUME NEW j \in 1 .. i - 1 PROVE seen[t][i] < seen[t][j]
    <3>1. j \in 1 .. Len(seen[t]) /\ i \in 1 .. Len(seen[t]) /\ j < i
      BY <2>1
    <3>2. seen[t][i] + i <= seen[t][j] + j
      BY <2>1, <3>1 DEF SeenOf, Falls
    <3>3. seen[t][i] \in Nat /\ seen[t][j] \in Nat
      BY SMTT(20), <2>1, <3>1, ElementsOf
    <3>. QED
      BY <3>1, <3>2, <3>3
  <2>. QED
    BY <2>2, <2>3
<1>. QED
  BY Invariant, <1>1, PTL

LEMMA ListFollowed ==
    ASSUME Inv, NEW k \in Sole, starts[k] # <<>>
    PROVE  Follows(lists[k], begin[Start(k)])
<1>1. IsList(lists[k]) /\ lists[k] # <<>> /\ begin[Start(k)] = lists[k][1]
  BY DEF Inv, TableInv, ListInv
<1>2. lists[k] \in Seq(1 .. count)
  BY <1>1 DEF IsList
<1>3. Head(lists[k]) = lists[k][1] /\ DOMAIN lists[k] = 1 .. Len(lists[k])
  BY <1>1, <1>2
<1>. QED
  BY <1>1, <1>3 DEF Follows, IsList

\* Every row that was added to a key and not deleted is in its list: the links
\* lead from the start info through all rows of the key, newest first, where
\* no two threads add rows of the key at a time.
THEOREM ListsAreChained == Spec => [](\A k \in Sole : ChainIsWhole(k))
<1>1. Inv => \A k \in Sole : ChainIsWhole(k)
  BY ListFollowed DEF Inv, TableInv, ListInv, ChainIsWhole
<1>. QED
  BY Invariant, <1>1, PTL

\* A lookup beside the writers returns the rows its key had at some moment of
\* the call, where no two threads add rows of the key at a time.
THEOREM LookupsAreCurrent == Spec => []LookupIsCurrent
<1>1. Inv => LookupIsCurrent
  <2>. SUFFICES ASSUME Inv, NEW t \in Threads, pc[t] = "walk",
                       key[t] \in Sole, old[t] = Empty
                PROVE  seen[t] \in states[t]
    BY DEF LookupIsCurrent
  <2>1. PICK s \in states[t] : Within(t, s)
    BY DEF Inv, LookInv, LookOf, Looking, Current
  <2>2. s \in Seq(Records) /\ seen[t] \in Seq(Records)
    BY DEF Inv, Typed
  <2>3. Len(seen[t]) = Len(s)
    <3>1. ASSUME Len(seen[t]) # Len(s) PROVE s[Len(seen[t]) + 1] \in Records
      <4>1. PICK n \in Nat, m \in Nat : n = Len(seen[t]) /\ m = Len(s)
        BY <2>2
      <4>2. n + 1 \in 1 .. m
        BY <2>1, <3>1, <4>1 DEF Within
      <4>. QED
        BY <2>2, <4>1, <4>2
    <3>2. ASSUME Len(seen[t]) # Len(s) PROVE s[Len(seen[t]) + 1] = 0
      BY <2>1, <3>2 DEF Within
    <3>. QED
      BY <3>1, <3>2
  <2>4. \A i \in 1 .. Len(s) : seen[t][i] = s[i]
    BY <2>1, <2>3 DEF Within
  <2>5. seen[t] = s
    BY <2>2, <2>3, <2>4, SeqEqual
  <2>. QED
    BY <2>5
<1>. QED
  BY Invariant, <1>1, PTL

-----------------------------------------------------------------------------
\* The lists the table holds are those of KeyedLists.

LEMMA Least ==
    ASSUME NEW T \in SUBSET Nat, T # {}
    PROVE  \E m \in T : \A n \in T : m <= n
<1> DEFINE R == OpToRel(<, Nat)
<1>1. IsWellFoundedOn(R, Nat)
  BY NatLessThanWellFounded
<1>2. PICK m \in T : \A n \in T : <<n, m>> \notin R
  <2>. HIDE DEF R
  <2>. QED
    BY <1>1, WFMin
<1>3. \A n \in T : ~(n < m)
  BY <1>2, Zenon DEF OpToRel
<1>. QED
  BY <1>3

\* The links, followed from the start info, give the list of the key.
LEMMA ListOfKey ==
    ASSUME Inv, NEW k \in Sole
    PROVE  ListOf(k) = lists[k]
<1> DEFINE Equation(f) ==
             f = [n \in Records |->
                    IF n = 1 THEN begin[Start(k)]
                    ELSE IF f[n - 1] = Empty THEN Empty ELSE next[f[n - 1]]]
           row == CHOOSE f : Equation(f)
           s == lists[k]
           g == [n \in Records |-> IF n <= Len(s) THEN s[n] ELSE Empty]
<1>1. CASE starts[k] = <<>>
  BY <1>1 DEF ListOf, Inv, TableInv, ListInv
<1>2. CASE starts[k] # <<>>
  <2>1. IsList(s) /\ s # <<>> /\ begin[Start(k)] = s[1]
    BY <1>2 DEF Inv, TableInv, ListInv
  <2>2. ListOf(k) = SubSeq(row, 1, Cardinality({n \in Records : row[n] # Empty}))
    BY <1>2 DEF ListOf
  <2>3. /\ s \in Seq(1 .. count) /\ Len(s) \in Nat \ {0} /\ Len(s) \in 0 .. count
        /\ count \in Links /\ \A i \in 1 .. Len(s) : s[i] \in 1 .. count
    BY <2>1, ListFirst, ListShort, ElementsOf DEF IsList, Inv, Typed
  <2>4. PICK m \in Records : m = Len(s)
    BY <2>3
  <2>5. \A n \in Records : g[n] = IF n <= m THEN s[n] ELSE Empty
    BY <2>4
  <2>6. Equation(g)
    <3>1. ASSUME NEW n \in Records
          PROVE  g[n] = IF n = 1 THEN begin[Start(k)]
                        ELSE IF g[n - 1] = Empty THEN Empty ELSE next[g[n - 1]]
      <4>1. CASE n = 1
        BY <2>1, <2>5, <4>1
      <4>2. CASE n # 1 /\ n - 1 <= m
        <5>1. n - 1 \in 1 .. Len(s) /\ n - 1 \in Records
          BY <2>4, <4>2
        <5>2. g[n - 1] = s[n - 1] /\ s[n - 1] # Empty
          BY <2>3, <2>5, <4>2, <5>1
        <5>3. next[s[n - 1]] = IF n - 1 = Len(s) THEN Empty ELSE s[(n - 1) + 1]
          BY <2>1, <5>1 DEF IsList
        <5>4. (n - 1) + 1 = n /\ (n - 1 = m <=> ~(n <= m))
          BY <4>2
        <5>. QED
          BY <2>4, <2>5, <4>2, <5>2, <5>3, <5>4
      <4>3. CASE n # 1 /\ ~(n - 1 <= m)
        <5>1. n - 1 \in Records /\ ~(n <= m)
          BY <4>3
        <5>. QED
          BY <2>5, <4>3, <5>1
      <4>. QED
        BY <4>1, <4>2, <4>3
    <3>. HIDE DEF g
    <3>2. [n \in Records |-> g[n]]
            = [n \in Records |-> IF n = 1 THEN begin[Start(k)]
                                  ELSE IF g[n - 1] = Empty THEN Empty
                                  ELSE next[g[n - 1]]]
      BY <3>1
    <3>3. g = [n \in Records |-> g[n]]
      BY DEF g
    <3>. QED
      BY <3>2, <3>3
  <2>. HIDE DEF g
  <2>7. Equation(row)
    <3>. HIDE DEF Equation
    <3>. QED
      BY <2>6
  <2>8. row = g
    <3>. HIDE DEF row
    <3>1. /\ DOMAIN row = Records /\ row[1] = begin[Start(k)]
          /\ \A n \in Records \ {1} :
               row[n] = IF row[n - 1] = Empty THEN Empty ELSE next[row[n - 1]]
      BY <2>4, <2>7
    <3>2. /\ DOMAIN g = Records /\ g[1] = begin[Start(k)]
          /\ \A n \in Records \ {1} :
               g[n] = IF g[n - 1] = Empty THEN Empty ELSE next[g[n - 1]]
      BY <2>4, <2>6
    <3> DEFINE T == {n \in Records : row[n] # g[n]}
    <3>3. ASSUME T # {} PROVE FALSE
      <4>1. PICK n \in T : \A i \in T : n <= i
        <5>1. T \in SUBSET Nat
          OBVIOUS
        <5>. HIDE DEF T
        <5>. QED
          BY <3>3, <5>1, Least
      <4>2. n \in Records /\ row[n] # g[n]
        BY <4>1
      <4>3. n \in Records \ {1} /\ n - 1 \in Records /\ ~(n <= n - 1)
        BY <3>1, <3>2, <4>2
      <4>4. row[n - 1] = g[n - 1]
        BY <4>1, <4>3
      <4>. QED
        BY <3>1, <3>2, <4>2, <4>3, <4>4
    <3>4. \A n \in Records : row[n] = g[n]
      BY <3>3
    <3>5. row = [n \in Records |-> row[n]] /\ g = [n \in Records |-> g[n]]
      BY <2>6, <2>7
    <3>. QED
      BY <3>4, <3>5
  <2>9. {n \in Records : g[n] # Empty} = 1 .. m
    BY SMTT(20), <2>3, <2>4, <2>5
  <2>10. Cardinality(1 .. m) = m
    BY FS_Interval
  <2>11. SubSeq(g, 1, m) = s
    <3>1. \A i \in 1 .. m : g[i] = s[i] /\ s[i] \in 1 .. count
      BY <2>3, <2>4, <2>5
    <3>2. /\ SubSeq(g, 1, m) \in Seq(1 .. count)
          /\ Len(SubSeq(g, 1, m)) = m
          /\ \A i \in 1 .. m : SubSeq(g, 1, m)[i] = g[i]
      <4>1. 1 \in Int /\ m \in Int /\ 1 <= m /\ (m - 1) + 1 = m
        OBVIOUS
      <4>2. \A i \in 1 .. m : g[i] \in 1 .. count
        BY <3>1
      <4>3. /\ SubSeq(g, 1, m) \in Seq(1 .. count)
            /\ Len(SubSeq(g, 1, m)) = (m - 1) + 1
            /\ \A i \in 1 .. (m - 1) + 1 : SubSeq(g, 1, m)[i] = g[(1 + i) - 1]
        BY <4>1, <4>2, SubSeqProperties
      <4>4. \A i \in 1 .. m : (1 + i) - 1 = i
        OBVIOUS
      <4>. QED
        BY <4>1, <4>3, <4>4
    <3>. QED
      BY <2>3, <2>4, <3>1, <3>2, SeqEqual
  <2>. QED
    BY <2>2, <2>8, <2>9, <2>10, <2>11
<1>. QED
  BY <1>1, <1>2

\* A step does to the lists of the keys that are not raced what KeyedLists
\* allows.
LEMMA ListsStep ==
    ASSUME Inv, NEW t \in Threads, Step(t)
    PROVE  \/ \A k \in Sole : lists'[k] = lists[k]
           \/ \E k \in Sole :
                /\ \A l \in Sole \ {k} : lists'[l] = lists[l]
                /\ \/ \E r \in Records : lists'[k] = <<r>> \o lists[k]
                   \/ lists[k] # <<>> /\ lists'[k] = Tail(lists[k])
<1>0. /\ Typed /\ TableInv /\ (pc[t] # "idle" => key[t] \in Keys)
      /\ Sole \subseteq Keys
  BY KeyTyped DEF Inv
<1>1. CASE Reads(t)
  BY <1>1, TableRead
<1>2. CASE CreateRecord(t) \/ Insert(t)
  BY <1>2 DEF CreateRecord, Insert
<1>3. CASE StoreStart(t) \/ LinkBegin(t)
  <2>1. /\ new[t] \in 1 .. count
        /\ \A k \in Keys : lists'[k] = IF k = key[t] THEN <<new[t]>> \o lists[k]
                                       ELSE lists[k]
    BY <1>3, StartPut, BeginLinked
  <2>2. new[t] \in Records
    BY <1>0, <2>1 DEF Typed
  <2>. QED
    BY <1>0, <2>1, <2>2
<1>4. CASE EraseRow(t)
  <2>1. \A k \in Keys : lists'[k] = IF k = key[t] THEN Rest(lists[k]) ELSE lists[k]
    BY <1>4, RowTaken
  <2>2. ASSUME key[t] \in Sole
        PROVE  lists[key[t]] # <<>> /\ Rest(lists[key[t]]) = Tail(lists[key[t]])
    <3>1. lists[key[t]] # <<>> /\ lists[key[t]] \in Seq(Records)
      BY <1>0, <1>4, <2>2, RowErased DEF Typed
    <3>. QED
      BY <3>1, RestOf
  <2>. QED
    BY <1>0, <2>1, <2>2
<1>. QED
  BY <1>1, <1>2, <1>3, <1>4, TableSteps

\* What the start infos and the links lead to changes in two ways alone: a row
\* is put in front of the list of a key, or the newest row of a key is taken;
\* what threads add at once to other keys leaves it alone.
THEOREM RefinesLists == Spec => ImplementsLists
<1> DEFINE held == [k \in Sole |-> ListOf(k)]
           kept == [k \in Sole |-> lists[k]]
<1>1. Inv => held = kept
  BY ListOfKey
<1>2. Inv => Lists!Init
  <2>1. Inv => kept \in [Sole -> Seq(Records)]
    BY DEF Inv, Typed
  <2>. QED
    BY <1>1, <2>1 DEF Lists!Init
<1>3. Inv' => (held = kept)'
  <2>. HIDE DEF held, kept
  <2>. QED
    BY <1>1, PTL
<1>4. Inv /\ Inv' /\ [Next]_vars => [Lists!Next]_held
  <2>. SUFFICES ASSUME Inv, Inv', [Next]_vars PROVE [Lists!Next]_held
    OBVIOUS
  <2>1. held = kept /\ held' = kept'
    BY <1>1, <1>3
  <2>2. UNCHANGED lists \/ \E t \in Threads : Step(t)
    BY DEF Next, vars, threadVars
  <2>3. CASE kept' = kept
    BY <2>1, <2>3
  <2>4. CASE kept' # kept
    <3>1. PICK k \in Sole :
            /\ \A l \in Sole \ {k} : lists'[l] = lists[l]
            /\ \/ \E r \in Records : lists'[k] = <<r>> \o lists[k]
               \/ lists[k] # <<>> /\ lists'[k] = Tail(lists[k])
      BY <2>2, <2>4, ListsStep
    <3>2. \/ \E r \in Records : kept' = [kept EXCEPT ![k] = <<r>> \o @]
          \/ kept[k] # <<>> /\ kept' = [kept EXCEPT ![k] = Tail(@)]
      BY <3>1
    <3>. HIDE DEF held, kept
    <3>3. \/ \E r \in Records : held' = [held EXCEPT ![k] = <<r>> \o @]
          \/ held[k] # <<>> /\ held' = [held EXCEPT ![k] = Tail(@)]
      BY <2>1, <3>2
    <3>4. held' # held
      BY <2>1, <2>4
    <3>. QED
      BY <3>3, <3>4 DEF Lists!Next, Lists!Put, Lists!TakeNewest, held
  <2>. QED
    BY <2>3, <2>4
<1>. QED
  BY Invariant, InvInit, <1>2, <1>4, PTL DEF Spec, ImplementsLists, Lists!Spec

=============================================================================
