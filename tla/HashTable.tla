----------------------------- MODULE HashTable -----------------------------
(***************************************************************************)
(* The hash tables of the store (slab_hash_table.ipp, record_hash_table.ipp*)
(* over hash_table_header, the rows and the managers).  A bucket holds the *)
(* position of its newest row, a row the position of the next older one.   *)
(* Rows are only ever appended to the file: a position is never reused.    *)
(*                                                                         *)
(* store() links a row under the table's mutex; find() and unlink() take   *)
(* no lock across their steps.  "linked" is what each bucket promises to   *)
(* hold, newest first: find() must return the newest row of its key as of  *)
(* some moment of the call.                                                *)
(*                                                                         *)
(* The link of a row is read and written at once here.  The mutex over it  *)
(* in the code belongs to the object that reads or writes the row, not to  *)
(* the row in the file, so that a thread could read what another has half  *)
(* written; that is left out.  The mutex of the header is one for all.     *)
(***************************************************************************)
EXTENDS Naturals, FiniteSets, SequencesExt

CONSTANTS
    Threads,       \* callers of the table
    Keys, Buckets,
    HashOf,        \* remainder(key, buckets)
    NoThread,      \* no holder of the mutex
    Calls,         \* what each thread calls: "store", "unlink", "find"
    NoKey,         \* the key of a row not yet created, of an idle thread
    UnlinksAlone,  \* one unlink at a time; else one per key at a time
    MaxRows        \* bound: rows that are ever created

ASSUME TableAssumption ==
    /\ IsFiniteSet(Threads)
    /\ HashOf \in [Keys -> Buckets]
    /\ NoThread \notin Threads
    /\ NoKey \notin Keys
    /\ Calls \in [Threads -> SUBSET {"store", "unlink", "find"}]
    /\ UnlinksAlone \in BOOLEAN
    /\ MaxRows \in Nat

VARIABLES
    header,   \* [Buckets -> position of the first row, or Empty]
    keyOf,    \* the key of each row
    next,     \* the next row of each row, Unset before it is linked
    count,    \* rows allocated, as the manager knows it in memory
    saved,    \* the count in the file, written by sync
    mutex,    \* holder of the table's mutex_
    pc, key,  \* what each thread is doing, for which key
    row,      \* the row each thread works on: created, or current in a walk
    other,    \* the neighbour it needs: previous in a walk, or what to link
    linked,   \* history: the rows of each bucket, newest first
    tops      \* history: during a find, the newest rows its key has had

threadVars == <<pc, key, row, other>>
vars == <<header, keyOf, next, count, saved, mutex, threadVars, linked, tops>>

Empty == 0
Rows == 1 .. MaxRows
Unset == MaxRows + 1
Positions == 0 .. MaxRows

\* The first of a chain of rows, and the first of a key.
Newest(s) == IF s = <<>> THEN Empty ELSE Head(s)

NewestOf(chain, k) ==
    LET HasKey(p) == keyOf[p] = k
        i == SelectInSeq(chain, HasKey)
    IN  IF i = 0 THEN Empty ELSE chain[i]

TypeOK ==
    /\ header \in [Buckets -> Positions]
    /\ keyOf \in [Rows -> Keys \cup {NoKey}]
    /\ next \in [Rows -> Positions \cup {Unset}]
    /\ count \in Positions /\ saved \in Positions
    /\ mutex \in Threads \cup {NoThread}
    /\ pc \in [Threads -> {"idle", "create", "created", "publish", "begin",
                           "unhead", "walk", "release", "start", "search",
                           "fault"}]
    /\ key \in [Threads -> Keys \cup {NoKey}]
    /\ row \in [Threads -> Positions]
    /\ other \in [Threads -> Positions \cup {Unset}]
    /\ \A b \in Buckets : linked[b] \in Seq(Rows)
    /\ tops \in [Threads -> SUBSET Positions]

\* hash_table_header::create and the managers' create: an empty table.
Init ==
    /\ header = [b \in Buckets |-> Empty]
    /\ keyOf = [p \in Rows |-> NoKey]
    /\ next = [p \in Rows |-> Unset]
    /\ count = 0 /\ saved = 0
    /\ mutex = NoThread
    /\ pc = [t \in Threads |-> "idle"]
    /\ key = [t \in Threads |-> NoKey]
    /\ row = [t \in Threads |-> Empty]
    /\ other = [t \in Threads |-> Empty]
    /\ linked = [b \in Buckets |-> <<>>]
    /\ tops = [t \in Threads |-> {}]

-----------------------------------------------------------------------------
\* What the threads are doing.

Storing(t) == pc[t] \in {"create", "created", "publish"}
Unlinking(t) == pc[t] \in {"begin", "unhead", "walk", "release"}
Finding(t) == pc[t] \in {"start", "search"}

\* A write to the table changes what the finds of its key may return.
NewestAfter(k) == NewestOf(linked'[HashOf[k]], k)

Observe ==
    tops' = [t \in Threads |-> IF Finding(t)
                                 THEN tops[t] \cup {NewestAfter(key[t])}
                                 ELSE {}]

Move(t, place, r, o) ==
    /\ pc' = [pc EXCEPT ![t] = place]
    /\ row' = [row EXCEPT ![t] = r]
    /\ other' = [other EXCEPT ![t] = o]

Finish(t) ==
    /\ Move(t, "idle", Empty, Empty)
    /\ key' = [key EXCEPT ![t] = NoKey]

Call(t, place, k) ==
    /\ pc[t] = "idle"
    /\ pc' = [pc EXCEPT ![t] = place]
    /\ key' = [key EXCEPT ![t] = k]
    /\ UNCHANGED <<header, keyOf, next, count, saved, mutex, row, other,
                   linked>>

-----------------------------------------------------------------------------
\* store(key, write)

\* data_base never stores in a table while it unlinks from it.
CallStore(t, k) ==
    /\ "store" \in Calls[t]
    /\ \A u \in Threads : ~Unlinking(u)
    /\ Cardinality({u \in Threads : pc[u] = "create"}) + count < MaxRows
    /\ Call(t, "create", k)
    /\ UNCHANGED tops

\* row.create: the manager allocates at the end of the file, the row gets
\* its key and value; its next position is whatever the file had there.
Create(t) ==
    /\ pc[t] = "create"
    /\ count' = count + 1
    /\ keyOf' = [keyOf EXCEPT ![count'] = key[t]]
    /\ next' = [next EXCEPT ![count'] = Unset]
    /\ Move(t, "created", count', Empty)
    /\ UNCHANGED <<header, saved, mutex, key, linked, tops>>

\* mutex_.lock(); row.link(read_bucket_value(key))
LinkRow(t) ==
    /\ pc[t] = "created"
    /\ mutex = NoThread
    /\ mutex' = t
    /\ next' = [next EXCEPT ![row[t]] = header[HashOf[key[t]]]]
    /\ pc' = [pc EXCEPT ![t] = "publish"]
    /\ UNCHANGED <<header, keyOf, count, saved, key, row, other, linked,
                   tops>>

\* link(key, position); mutex_.unlock()
Publish(t) ==
    /\ pc[t] = "publish"
    /\ header' = [header EXCEPT ![HashOf[key[t]]] = row[t]]
    /\ mutex' = NoThread
    /\ linked' = [linked EXCEPT ![HashOf[key[t]]] = <<row[t]>> \o @]
    /\ Observe
    /\ Finish(t)
    /\ UNCHANGED <<keyOf, next, count, saved>>

-----------------------------------------------------------------------------
\* unlink(key)

UnlinkAllowed(t, k) ==
    /\ "unlink" \in Calls[t]
    /\ \A u \in Threads :
         ~Storing(u) /\ (Unlinking(u) => ~UnlinksAlone /\ key[u] # k)

\* Mutant: unlink is called whatever the bucket holds.
CallUnlinkAnyway(t, k) ==
    UnlinkAllowed(t, k) /\ Call(t, "begin", k) /\ UNCHANGED tops

\* The callers look first, so that the bucket of the key is not empty.
CallUnlink(t, k) ==
    /\ UnlinkAllowed(t, k)
    /\ header[HashOf[k]] # Empty
    /\ Call(t, "begin", k)
    /\ UNCHANGED tops

\* The row read first is not tested for empty: it is then no row of the file.
UnlinkBegin(t) ==
    LET begin == header[HashOf[key[t]]]
    IN  /\ pc[t] = "begin"
        /\ IF begin = Empty THEN Move(t, "fault", Empty, Empty)
           ELSE IF keyOf[begin] = key[t] THEN Move(t, "unhead", begin, next[begin])
           ELSE Move(t, "walk", next[begin], begin)
        /\ UNCHANGED <<header, keyOf, next, count, saved, mutex, key, linked,
                       tops>>

\* What the end of an unlink does to the bucket and to the finds beside it.
Removed(t) ==
    /\ linked' = [linked EXCEPT ![HashOf[key[t]]] = RemoveFirst(@, row[t])]
    /\ Observe
    /\ Finish(t)

\* Mutant: the whole chain goes with its first row.
UnlinkChain(t) ==
    /\ pc[t] = "unhead"
    /\ header' = [header EXCEPT ![HashOf[key[t]]] = Empty]
    /\ Removed(t)
    /\ UNCHANGED <<keyOf, next, count, saved, mutex>>

\* link(key, begin_item.next_position())
UnlinkHead(t) ==
    /\ pc[t] = "unhead"
    /\ header' = [header EXCEPT ![HashOf[key[t]]] = other[t]]
    /\ Removed(t)
    /\ UNCHANGED <<keyOf, next, count, saved, mutex>>

\* The loop of unlink: current is row[t], previous is other[t].
UnlinkWalk(t) ==
    /\ pc[t] = "walk"
    /\ \/ row[t] = Empty /\ Finish(t)
       \/ /\ row[t] # Empty /\ keyOf[row[t]] = key[t]
          /\ Move(t, "release", row[t], other[t])
          /\ UNCHANGED key
       \/ /\ row[t] # Empty /\ keyOf[row[t]] # key[t]
          /\ IF next[row[t]] = row[t]
               THEN Finish(t)
               ELSE Move(t, "walk", next[row[t]], row[t]) /\ UNCHANGED key
    /\ UNCHANGED <<header, keyOf, next, count, saved, mutex, linked, tops>>

\* release(item, previous)
Release(t) ==
    /\ pc[t] = "release"
    /\ next' = [next EXCEPT ![other[t]] = next[row[t]]]
    /\ Removed(t)
    /\ UNCHANGED <<header, keyOf, count, saved, mutex>>

-----------------------------------------------------------------------------
\* find(key), and the search of update(key, write)

CallFind(t, k) ==
    /\ "find" \in Calls[t]
    /\ Call(t, "start", k)
    /\ tops' = [tops EXCEPT ![t] = {NewestOf(linked[HashOf[k]], k)}]

FindBegin(t) ==
    /\ pc[t] = "start"
    /\ Move(t, "search", header[HashOf[key[t]]], Empty)
    /\ UNCHANGED <<header, keyOf, next, count, saved, mutex, key, linked,
                   tops>>

FindWalk(t) ==
    /\ pc[t] = "search"
    /\ IF row[t] = Empty \/ keyOf[row[t]] = key[t] \/ next[row[t]] = row[t]
         THEN Finish(t) /\ tops' = [tops EXCEPT ![t] = {}]
         ELSE /\ IF next[row[t]] = Unset
                   THEN Move(t, "fault", Empty, Empty)
                   ELSE Move(t, "search", next[row[t]], Empty)
              /\ UNCHANGED <<key, tops>>
    /\ UNCHANGED <<header, keyOf, next, count, saved, mutex, linked>>

-----------------------------------------------------------------------------
\* The managers: sync writes the count to the file, start reads it back.

Sync ==
    /\ saved # count
    /\ \A t \in Threads : ~Storing(t)
    /\ saved' = count
    /\ UNCHANGED <<header, keyOf, next, count, mutex, threadVars, linked, tops>>

\* Mutant: the table is closed with rows the file does not count.
ReopenUnsynced ==
    /\ \A t \in Threads : pc[t] = "idle"
    /\ count' = saved
    /\ UNCHANGED <<header, keyOf, next, saved, mutex, threadVars, linked, tops>>

\* The table is closed and opened again, synchronised, between calls.
Reopen ==
    /\ \A t \in Threads : pc[t] = "idle"
    /\ saved = count
    /\ count' = saved
    /\ UNCHANGED <<header, keyOf, next, saved, mutex, threadVars, linked, tops>>

-----------------------------------------------------------------------------
Step(t) ==
    \/ \E k \in Keys : CallStore(t, k) \/ CallUnlink(t, k) \/ CallFind(t, k)
    \/ Create(t)
    \/ LinkRow(t)
    \/ Publish(t)
    \/ UnlinkBegin(t)
    \/ UnlinkHead(t)
    \/ UnlinkWalk(t)
    \/ Release(t)
    \/ FindBegin(t)
    \/ FindWalk(t)

Next == Sync \/ Reopen \/ \E t \in Threads : Step(t)

Spec == Init /\ [][Next]_vars

-----------------------------------------------------------------------------
\* Properties.

\* The chains hold exactly the linked rows: a bucket starts with the newest
\* of its rows and every row leads to the next older one.
ChainsMatch ==
    \A b \in Buckets :
        LET s == linked[b]
        IN  /\ header[b] = Newest(s)
            /\ \A i \in DOMAIN s : next[s[i]] = Newest(SubSeq(s, i + 1, Len(s)))

\* A find beside any writers returns the newest row its key had at some
\* moment of the call; in particular a key that stays in the table is found.
FindsAreCurrent ==
    \A t \in Threads :
        pc[t] = "search" =>
            LET r == row[t]
            IN  r = Empty \/ keyOf[r] = key[t] => r \in tops[t]

\* No call follows a position that is no row of the file.
NoFault == \A t \in Threads : pc[t] # "fault"

\* The rows of a key, as the header of its bucket and the links lead to them:
\* from[n][p] are those among the n rows from p on.
RowsOf(k) ==
    LET from[n \in 0 .. MaxRows] ==
            [p \in Positions \cup {Unset} |->
                IF n = 0 \/ p \notin Rows THEN <<>>
                ELSE IF keyOf[p] = k THEN <<p>> \o from[n - 1][next[p]]
                ELSE from[n - 1][next[p]]]
    IN  from[MaxRows][header[HashOf[k]]]

Listed == [k \in Keys |-> RowsOf(k)]

Lists == INSTANCE KeyedLists WITH Values <- Rows, lists <- Listed

\* What a key has in the table changes in two ways alone: store puts a row in
\* front of its rows, unlink takes the newest of them.  A row is neither lost
\* nor written over nor brought back, whatever other keys share the bucket
\* and whenever the table is closed and opened again.
ImplementsLists == Lists!Spec
=============================================================================
