--------------------------- MODULE RecordMultimap ---------------------------
(***************************************************************************)
(* record_multimap over record_list: the rows of each key are a list of    *)
(* records in a file, and a hash table holds the first of them, in a row   *)
(* of its own (the start info) that is written in place.  The hash table   *)
(* does what HashTable promises: store puts a row before those of its key, *)
(* find returns the newest, unlink takes it away.                          *)
(*                                                                         *)
(* A file grows by being mapped anew, which waits until nobody holds a     *)
(* remap safe pointer into it.  The pointers to the start infos live       *)
(* through each call, so that only the file of the records can move.  A    *)
(* record written through a pointer into an earlier mapping ends what is   *)
(* modelled: the process is killed, or it writes what is mapped there now. *)
(*                                                                         *)
(* The buckets of a push add the rows of an address at the same time where *)
(* transactions of more than one bucket have it; for the other addresses   *)
(* (Sole) the rows of a block are added one after the other.  A pop works  *)
(* alone.  Lookups run at any time.                                        *)
(***************************************************************************)
EXTENDS Naturals, FiniteSets, SequencesExt

CONSTANTS
    Threads, Keys,
    NoKey,          \* an idle thread works for no key
    Calls,          \* what each thread calls: "add", "delete", "lookup"
    Sole,           \* the keys whose rows no two threads add at a time
    Moves,          \* the file of the records may move when it grows
    MaxRecords      \* bound: records that are ever created

ASSUME MultimapAssumption ==
    /\ IsFiniteSet(Threads)
    /\ NoKey \notin Keys
    /\ Calls \in [Threads -> SUBSET {"add", "delete", "lookup"}]
    /\ Sole \subseteq Keys /\ Moves \in BOOLEAN
    /\ MaxRecords \in Nat

VARIABLES
    starts,    \* the hash table: the start infos of each key, newest first
    begin,     \* what each start info holds
    next,      \* the next record of each record
    count,     \* records created; start infos are as many at most
    mapping,   \* where the file of the records is mapped
    pc, key,   \* what each thread does, for which key
    start,     \* the start info it holds a pointer to
    old,       \* the first record it read there, or walks from
    new,       \* the record it created
    pointer,   \* the mapping its pointer to that record is of
    seen,      \* the records a lookup went by
    owner,     \* history: the key each record was created for
    lists,     \* history: the records of each key, newest first
    states     \* history: the lists the key of a lookup had since it began

threadVars == <<pc, key, start, old, new, pointer>>
vars == <<starts, begin, next, count, mapping, threadVars, seen, owner, lists,
          states>>

Empty == 0
Records == 1 .. MaxRecords
Links == 0 .. MaxRecords
Mappings == 0 .. MaxRecords

TypeOK ==
    /\ starts \in [Keys -> Seq(Records)]
    /\ begin \in [Records -> Links] /\ next \in [Records -> Links]
    /\ count \in Links /\ mapping \in Mappings
    /\ pc \in [Threads -> {"idle", "find", "create", "data", "store", "read",
                           "insert", "link", "erase", "lookup", "begin",
                           "walk", "fault"}]
    /\ key \in [Threads -> Keys \cup {NoKey}]
    /\ start \in [Threads -> Links] /\ old \in [Threads -> Links]
    /\ new \in [Threads -> Links] /\ pointer \in [Threads -> Mappings]
    /\ \A t \in Threads : Len(seen[t]) <= MaxRecords
    /\ owner \in [Records -> Keys \cup {NoKey}]
    /\ lists \in [Keys -> Seq(Records)]

Init ==
    /\ starts = [k \in Keys |-> <<>>]
    /\ begin = [r \in Records |-> Empty] /\ next = [r \in Records |-> Empty]
    /\ count = 0 /\ mapping = 0
    /\ pc = [t \in Threads |-> "idle"]
    /\ key = [t \in Threads |-> NoKey]
    /\ start = [t \in Threads |-> Empty] /\ old = [t \in Threads |-> Empty]
    /\ new = [t \in Threads |-> Empty] /\ pointer = [t \in Threads |-> 0]
    /\ seen = [t \in Threads |-> <<>>]
    /\ owner = [r \in Records |-> NoKey]
    /\ lists = [k \in Keys |-> <<>>]
    /\ states = [t \in Threads |-> {}]

-----------------------------------------------------------------------------
Adding(t) == pc[t] \in {"find", "create", "data", "store", "read", "insert", "link"}
Deleting(t) == pc[t] = "erase"
Looking(t) == pc[t] \in {"lookup", "begin", "walk"}

\* A new list of a key is one more that its lookups may return.
SetList(k, list) ==
    /\ lists' = [lists EXCEPT ![k] = list]
    /\ states' = [t \in Threads |->
                    IF Looking(t) /\ key[t] = k THEN states[t] \cup {list}
                    ELSE states[t]]

Rest(list) == SubSeq(list, 2, Len(list))

Goto(t, place) == pc' = [pc EXCEPT ![t] = place]

Finish(t) ==
    /\ Goto(t, "idle")
    /\ key' = [key EXCEPT ![t] = NoKey]
    /\ start' = [start EXCEPT ![t] = Empty]
    /\ old' = [old EXCEPT ![t] = Empty]
    /\ new' = [new EXCEPT ![t] = Empty]
    /\ pointer' = [pointer EXCEPT ![t] = 0]

\* add_to_list keeps its safe pointer to the new record until it returns; a
\* walk takes one for each step.
Holds(t) == pc[t] = "link"

\* map_.find(key): the newest start info.
Start(k) == IF starts[k] = <<>> THEN Empty ELSE Head(starts[k])

\* The writers at work for a key.
Writers(k) == {u \in Threads : key[u] = k /\ ~Looking(u)}

\* Buckets add beside one another, but for the keys of one bucket.
CanAdd(t, k) ==
    /\ pc[t] = "idle" /\ "add" \in Calls[t]
    /\ \A u \in Writers(k) : k \notin Sole /\ ~Deleting(u)

\* A pop has no other writer beside it.
CanDelete(t, k) ==
    /\ pc[t] = "idle" /\ "delete" \in Calls[t]
    /\ Writers(k) = {}

Call(t, k, place) ==
    /\ Goto(t, place)
    /\ key' = [key EXCEPT ![t] = k]
    /\ UNCHANGED <<starts, begin, next, count, mapping, start, old, new,
                   pointer, seen, owner>>

-----------------------------------------------------------------------------
\* add_row(key, write)

Pending == Cardinality({t \in Threads : pc[t] \in {"find", "create", "read",
                                                   "insert"}})

AddRow(t, k) ==
    /\ CanAdd(t, k)
    /\ count + Pending < MaxRecords
    /\ Call(t, k, "find")
    /\ UNCHANGED <<lists, states>>

FindStart(t) ==
    /\ pc[t] = "find"
    /\ start' = [start EXCEPT ![t] = Start(key[t])]
    /\ Goto(t, IF start'[t] = Empty THEN "create" ELSE "read")
    /\ UNCHANGED <<starts, begin, next, count, mapping, key, old, new, pointer,
                   seen, owner, lists, states>>

\* Mutant: two threads that count at a time may count one record.
NewRecordTwice(t, link) ==
    LET r == count + 1
    IN  /\ count' \in {count, r}
        /\ next' = [next EXCEPT ![r] = link]
        /\ owner' = [owner EXCEPT ![r] = key[t]]
        /\ new' = [new EXCEPT ![t] = r]
        /\ UNCHANGED mapping
        /\ pointer' = [pointer EXCEPT ![t] = mapping]

\* new_records: the file may have to grow, which nobody may hold up.
NewRecord(t, link) ==
    /\ count' = count + 1
    /\ next' = [next EXCEPT ![count'] = link]
    /\ owner' = [owner EXCEPT ![count'] = key[t]]
    /\ new' = [new EXCEPT ![t] = count']
    /\ \/ UNCHANGED mapping
       \/ /\ Moves /\ \A u \in Threads : ~Holds(u)
          /\ mapping' = mapping + 1
    /\ pointer' = [pointer EXCEPT ![t] = mapping']

\* create_new: records_.create(), and a pointer to it that is not kept safe.
CreateRecord(t) ==
    /\ pc[t] = "create"
    /\ NewRecord(t, Empty)
    /\ Goto(t, "data")
    /\ UNCHANGED <<starts, begin, key, start, old, seen, lists, states>>

\* create_new: the row is written through that pointer.
WriteRecord(t) ==
    /\ pc[t] = "data"
    /\ Goto(t, IF pointer[t] = mapping THEN "store" ELSE "fault")
    /\ UNCHANGED <<starts, begin, next, count, mapping, key, start, old, new,
                   pointer, seen, owner, lists, states>>

\* create_new: map_.store, a start info with the record.
StoreStart(t) ==
    /\ pc[t] = "store"
    /\ starts' = [starts EXCEPT ![key[t]] = <<new[t]>> \o @]
    /\ begin' = [begin EXCEPT ![new[t]] = new[t]]
    /\ SetList(key[t], <<new[t]>> \o lists[key[t]])
    /\ Finish(t)
    /\ UNCHANGED <<next, count, mapping, seen, owner>>

\* add_to_list: the first record is read under the shared mutex.
ReadBegin(t) ==
    /\ pc[t] = "read"
    /\ old' = [old EXCEPT ![t] = begin[start[t]]]
    /\ Goto(t, "insert")
    /\ UNCHANGED <<starts, begin, next, count, mapping, key, start, new,
                   pointer, seen, owner, lists, states>>

\* Mutant: the record is linked to none.
InsertAlone(t) ==
    /\ pc[t] = "insert"
    /\ NewRecord(t, Empty)
    /\ Goto(t, "link")
    /\ UNCHANGED <<starts, begin, key, start, old, seen, lists, states>>

\* add_to_list: records_.insert(old_begin), and the row is written.
Insert(t) ==
    /\ pc[t] = "insert"
    /\ NewRecord(t, old[t])
    /\ Goto(t, "link")
    /\ UNCHANGED <<starts, begin, key, start, old, seen, lists, states>>

\* add_to_list: the start info gets the record under the mutex.
LinkBegin(t) ==
    /\ pc[t] = "link"
    /\ begin' = [begin EXCEPT ![start[t]] = new[t]]
    /\ SetList(key[t], <<new[t]>> \o lists[key[t]])
    /\ Finish(t)
    /\ UNCHANGED <<starts, next, count, mapping, seen, owner>>

-----------------------------------------------------------------------------
\* delete_last_row(key)

\* map_.find, and the first record.  Without a row there is nothing to do.
DeleteRow(t, k) ==
    /\ CanDelete(t, k)
    /\ Start(k) # Empty
    /\ Goto(t, "erase")
    /\ key' = [key EXCEPT ![t] = k]
    /\ start' = [start EXCEPT ![t] = Start(k)]
    /\ old' = [old EXCEPT ![t] = begin[Start(k)]]
    /\ UNCHANGED <<starts, begin, next, count, mapping, new, pointer, seen,
                   owner, lists, states>>

\* Mutant: the row that goes is unlinked from the next one.
EraseNext(t) ==
    /\ pc[t] = "erase"
    /\ IF next[old[t]] = Empty
         THEN /\ starts' = [starts EXCEPT ![key[t]] = Tail(@)]
              /\ UNCHANGED begin
         ELSE /\ begin' = [begin EXCEPT ![start[t]] = next[old[t]]]
              /\ UNCHANGED starts
    /\ next' = [next EXCEPT ![old[t]] = Empty]
    /\ SetList(key[t], Rest(lists[key[t]]))
    /\ Finish(t)
    /\ UNCHANGED <<count, mapping, seen, owner>>

\* The key is unlinked with its last row, else the next row is the first.
EraseRow(t) ==
    /\ pc[t] = "erase"
    /\ IF next[old[t]] = Empty
         THEN /\ starts' = [starts EXCEPT ![key[t]] = Tail(@)]
              /\ UNCHANGED begin
         ELSE /\ begin' = [begin EXCEPT ![start[t]] = next[old[t]]]
              /\ UNCHANGED starts
    /\ SetList(key[t], Rest(lists[key[t]]))
    /\ Finish(t)
    /\ UNCHANGED <<next, count, mapping, seen, owner>>

-----------------------------------------------------------------------------
\* lookup(key), and the walk of a record_multimap_iterable.

Lookup(t, k) ==
    /\ pc[t] = "idle" /\ "lookup" \in Calls[t]
    /\ Call(t, k, "lookup")
    /\ states' = [states EXCEPT ![t] = {lists[k]}]
    /\ UNCHANGED lists

LookupStart(t) ==
    /\ pc[t] = "lookup"
    /\ start' = [start EXCEPT ![t] = Start(key[t])]
    /\ Goto(t, IF start'[t] = Empty THEN "walk" ELSE "begin")
    /\ UNCHANGED <<starts, begin, next, count, mapping, key, old, new, pointer,
                   seen, owner, lists, states>>

LookupBegin(t) ==
    /\ pc[t] = "begin"
    /\ old' = [old EXCEPT ![t] = begin[start[t]]]
    /\ Goto(t, "walk")
    /\ UNCHANGED <<starts, begin, next, count, mapping, key, start, new,
                   pointer, seen, owner, lists, states>>

\* One row is taken and the iterator moves on.
Walk(t) ==
    /\ pc[t] = "walk" /\ old[t] # Empty
    /\ seen' = [seen EXCEPT ![t] = Append(@, old[t])]
    /\ old' = [old EXCEPT ![t] = next[old[t]]]
    /\ UNCHANGED <<starts, begin, next, count, mapping, pc, key, start, new,
                   pointer, owner, lists, states>>

Return(t) ==
    /\ pc[t] = "walk" /\ old[t] = Empty
    /\ Finish(t)
    /\ seen' = [seen EXCEPT ![t] = <<>>]
    /\ states' = [states EXCEPT ![t] = {}]
    /\ UNCHANGED <<starts, begin, next, count, mapping, owner, lists>>

-----------------------------------------------------------------------------
Step(t) ==
    \/ \E k \in Keys : AddRow(t, k) \/ DeleteRow(t, k) \/ Lookup(t, k)
    \/ FindStart(t)
    \/ CreateRecord(t)
    \/ WriteRecord(t)
    \/ StoreStart(t)
    \/ ReadBegin(t)
    \/ Insert(t)
    \/ LinkBegin(t)
    \/ EraseRow(t)
    \/ LookupStart(t)
    \/ LookupBegin(t)
    \/ Walk(t)
    \/ Return(t)

Next ==
    /\ \A t \in Threads : pc[t] # "fault"
    /\ \E t \in Threads : Step(t)

Spec == Init /\ [][Next]_vars

-----------------------------------------------------------------------------
\* Properties.

\* Every row added to a key and not deleted is in its list, the newest first:
\* the list that starts in the start info is the list of the key.
Follows(list, from) ==
    /\ from = IF list = <<>> THEN Empty ELSE Head(list)
    /\ \A i \in DOMAIN list :
         next[list[i]] = IF i = Len(list) THEN Empty ELSE list[i + 1]

ChainIsWhole(k) ==
    /\ starts[k] = <<>> <=> lists[k] = <<>>
    /\ starts[k] # <<>> => Follows(lists[k], begin[Start(k)])

RowsAreChained == \A k \in Keys : ChainIsWhole(k)

\* The rows of a key from its start info on.
ListOf(k) ==
    LET row[n \in Records] ==
            IF n = 1 THEN begin[Start(k)]
            ELSE IF row[n - 1] = Empty THEN Empty ELSE next[row[n - 1]]
    IN  IF starts[k] = <<>> THEN <<>>
        ELSE SubSeq(row, 1, Cardinality({n \in Records : row[n] # Empty}))

Lists == INSTANCE KeyedLists
             WITH Keys <- Sole, Values <- Records,
                  lists <- [k \in Sole |-> ListOf(k)]

\* The list of a key changes in two ways alone: add_row puts a row in front and
\* delete_last_row takes the newest; no row is lost or comes back, and a key
\* whose list ends is in no other state than a key that never had one.  The
\* rows that others add at once to keys that are not Sole do not touch it.
ImplementsLists == Lists!Spec

\* A lookup beside a writer returns the rows the key had at some moment of
\* the call, all of them and in order, where the key is Sole.
LookupIsCurrent ==
    \A t \in Threads :
        pc[t] = "walk" /\ key[t] \in Sole /\ old[t] = Empty =>
            seen[t] \in states[t]

\* A lookup returns rows of its own key alone, each once, the newest first,
\* and so comes to an end, also where threads add rows of the key at once and
\* lose some of them.
RowsAreOwn ==
    \A t \in Threads : \A i \in DOMAIN seen[t] :
        /\ owner[seen[t][i]] = key[t]
        /\ \A j \in 1 .. i - 1 : seen[t][i] < seen[t][j]

\* No row is written through a pointer into an earlier mapping of the file.
PointerIsValid == \A t \in Threads : pc[t] # "fault"
=============================================================================
