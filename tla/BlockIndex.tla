----------------------------- MODULE BlockIndex -----------------------------
(***************************************************************************)
(* The height index of block_database: a file of positions in the block    *)
(* table, one for each height.  Parallel import (data_base::insert) stores *)
(* blocks at any height from several threads, which leaves gaps; push and  *)
(* pop work alone and at the top.                                          *)
(***************************************************************************)
EXTENDS Naturals, FiniteSets

CONSTANTS
    Threads,
    NoThread,      \* nobody holds mutex_
    MaxHeight,     \* bound: the highest height
    MaxBlocks      \* bound: slabs in the block table

ASSUME IndexAssumption ==
    /\ NoThread \notin Threads
    /\ MaxHeight \in Nat /\ MaxBlocks \in Nat

VARIABLES
    count,     \* index_manager_.count()
    slot,      \* the position in the file for each height, counted or not
    slabs,     \* the last position of the block table
    mutex,     \* who holds mutex_
    pc,        \* what each thread does
    at,        \* the height it stores a block at
    position,  \* the position of that block
    first,     \* the next index it writes empty
    stored     \* history: the position of each block stored, by height

vars == <<count, slot, slabs, mutex, pc, at, position, first, stored>>
threadVars == <<pc, at, position, first>>

AllHeights == 0 .. MaxHeight
Fresh == 0                  \* what the file system fills new space with
Empty == MaxBlocks + 1      \* block_database::empty

TypeOK ==
    /\ count \in 0 .. MaxHeight + 1
    /\ slot \in [AllHeights -> 0 .. Empty]
    /\ slabs \in 0 .. MaxBlocks
    /\ mutex \in Threads \cup {NoThread}
    /\ pc \in [Threads -> {"idle", "read", "refused", "store", "position",
                           "zeroize", "write"}]
    /\ at \in [Threads -> AllHeights]
    /\ position \in [Threads -> 0 .. MaxBlocks]
    /\ first \in [Threads -> 0 .. MaxHeight + 1]
    /\ DOMAIN stored \subseteq AllHeights
    /\ \A h \in DOMAIN stored : stored[h] \in 1 .. MaxBlocks

Init ==
    /\ count = 0 /\ slabs = 0 /\ mutex = NoThread
    /\ slot = [h \in AllHeights |-> Fresh]
    /\ pc = [t \in Threads |-> "idle"]
    /\ at = [t \in Threads |-> 0]
    /\ position = [t \in Threads |-> 0]
    /\ first = [t \in Threads |-> 0]
    /\ stored = <<>>

Goto(t, place) == pc' = [pc EXCEPT ![t] = place]

\* The call is over.
Finish(t) ==
    /\ Goto(t, "idle")
    /\ at' = [at EXCEPT ![t] = 0]
    /\ position' = [position EXCEPT ![t] = 0]
    /\ first' = [first EXCEPT ![t] = 0]

-----------------------------------------------------------------------------
\* insert(block, height) by threads that share the heights out.  A push is
\* the insert of a single thread at the height of the count.

\* verify_insert: exists(height) compares the count first.
Insert(t, h) ==
    /\ pc[t] = "idle"
    /\ \A u \in Threads : pc[u] # "idle" => at[u] # h
    /\ at' = [at EXCEPT ![t] = h]
    /\ Goto(t, IF h < count THEN "read" ELSE "store")
    /\ UNCHANGED <<count, slot, slabs, mutex, position, first, stored>>

\* read_position(height) != empty: store_block_duplicate.
ReadPosition(t) ==
    /\ pc[t] = "read"
    /\ Goto(t, IF slot[at[t]] # Empty THEN "refused" ELSE "store")
    /\ UNCHANGED <<count, slot, slabs, mutex, at, position, first, stored>>

\* The caller is told, and may try again.
Refused(t) ==
    /\ pc[t] = "refused"
    /\ Finish(t)
    /\ UNCHANGED <<count, slot, slabs, mutex, stored>>

\* store(block, height): lookup_map_.store.
StoreBlock(t) ==
    /\ pc[t] = "store" /\ slabs < MaxBlocks
    /\ slabs' = slabs + 1
    /\ position' = [position EXCEPT ![t] = slabs']
    /\ Goto(t, "position")
    /\ UNCHANGED <<count, slot, mutex, at, first, stored>>

\* Mutant: the count is read and the records are created without the mutex.
ExtendUnlocked(t) ==
    /\ pc[t] = "position"
    /\ first' = [first EXCEPT ![t] = count]
    /\ count' = IF at[t] >= count THEN at[t] + 1 ELSE count
    /\ Goto(t, IF at[t] >= count THEN "zeroize" ELSE "write")
    /\ UNCHANGED <<slot, slabs, mutex, at, position, stored>>

\* write_position: lock_upgrade, count(), unlock_upgrade_and_lock, and
\* new_records up to the height.  One upgrade at a time lets nobody between.
Extend(t) ==
    /\ pc[t] = "position" /\ mutex = NoThread
    /\ mutex' = t
    /\ first' = [first EXCEPT ![t] = count]
    /\ count' = IF at[t] >= count THEN at[t] + 1 ELSE count
    /\ Goto(t, IF at[t] >= count THEN "zeroize" ELSE "write")
    /\ UNCHANGED <<slot, slabs, at, position, stored>>

\* Mutant: the first of the indexes below the new one is left as it was.
ZeroizeLess(t) ==
    /\ pc[t] = "zeroize"
    /\ IF first[t] + 1 < at[t]
         THEN /\ slot' = [slot EXCEPT ![first[t] + 1] = Empty]
              /\ first' = [first EXCEPT ![t] = @ + 1]
              /\ UNCHANGED pc
         ELSE Goto(t, "write") /\ UNCHANGED <<slot, first>>
    /\ UNCHANGED <<count, slabs, mutex, at, position, stored>>

\* zeroize(initial_count, create_count - 1), one index after the other.
Zeroize(t) ==
    /\ pc[t] = "zeroize"
    /\ IF first[t] < at[t]
         THEN /\ slot' = [slot EXCEPT ![first[t]] = Empty]
              /\ first' = [first EXCEPT ![t] = @ + 1]
              /\ UNCHANGED pc
         ELSE Goto(t, "write") /\ UNCHANGED <<slot, first>>
    /\ UNCHANGED <<count, slabs, mutex, at, position, stored>>

\* Mutant: the mutex is kept.
WriteLocked(t) ==
    /\ pc[t] = "write"
    /\ slot' = [slot EXCEPT ![at[t]] = position[t]]
    /\ stored' = [h \in DOMAIN stored \cup {at[t]} |->
                    IF h = at[t] THEN position[t] ELSE stored[h]]
    /\ Finish(t)
    /\ UNCHANGED <<count, slabs, mutex>>

\* write_position: the position of the block, and unlock.
WritePosition(t) ==
    /\ pc[t] = "write"
    /\ slot' = [slot EXCEPT ![at[t]] = position[t]]
    /\ stored' = [h \in DOMAIN stored \cup {at[t]} |->
                    IF h = at[t] THEN position[t] ELSE stored[h]]
    /\ mutex' = NoThread
    /\ Finish(t)
    /\ UNCHANGED <<count, slabs>>

\* pop: unlink(height) of the top block, no other writer.
Pop ==
    /\ \A t \in Threads : pc[t] = "idle"
    /\ count > 0 /\ count - 1 \in DOMAIN stored
    /\ count' = count - 1
    /\ stored' = [h \in DOMAIN stored \ {count'} |-> stored[h]]
    /\ UNCHANGED <<slot, slabs, mutex, threadVars>>

Step(t) ==
    \/ \E h \in AllHeights : Insert(t, h)
    \/ ReadPosition(t)
    \/ Refused(t)
    \/ StoreBlock(t)
    \/ Extend(t)
    \/ Zeroize(t)
    \/ WritePosition(t)

Next == Pop \/ \E t \in Threads : Step(t)

Spec == Init /\ [][Next]_vars

\* Import threads keep running, and the mutex is fair to them.
FairSpec == Spec /\ \A t \in Threads :
    /\ WF_vars(ReadPosition(t) \/ StoreBlock(t) \/ Zeroize(t) \/ WritePosition(t))
    /\ SF_vars(Extend(t))

-----------------------------------------------------------------------------
\* Properties.

\* A stored block is found at its height from then on until it is popped: no
\* other writer's zeroize or write takes its place.
StoredIsKept ==
    \A h \in DOMAIN stored : h < count /\ slot[h] = stored[h]

\* Between writes the gaps are the heights below the top without a block.
GapsAreExact ==
    (\A t \in Threads : pc[t] = "idle") =>
        {h \in AllHeights : h < count /\ slot[h] = Empty}
        = {h \in AllHeights : h < count} \ DOMAIN stored

\* A block is refused as a duplicate only when its height has a block.
DuplicateIsStored ==
    \A t \in Threads : pc[t] = "refused" => at[t] \in DOMAIN stored

\* A block that got its place in the block table gets one in the index.
InsertsEnd ==
    \A t \in Threads : \A h \in AllHeights :
        (pc[t] = "position" /\ at[t] = h) ~> (h \in DOMAIN stored)
=============================================================================
