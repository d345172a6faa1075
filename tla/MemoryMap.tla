------------------------------ MODULE MemoryMap ------------------------------
(***************************************************************************)
(* The files under the tables: memory_map with its upgrade mutex, the      *)
(* accessor and allocator that hold it, and the record manager that hands  *)
(* out the rows of each file (slab_manager does the same in bytes).  A     *)
(* file moves in memory when it grows, which waits until no accessor is    *)
(* left; a thread may hold accessors of one file while it grows another.   *)
(* Sizes are counted in rows.                                              *)
(*                                                                         *)
(* The mutex is a boost::upgrade_mutex: sharers are admitted while the     *)
(* holder of the upgrade lock waits to become exclusive.                   *)
(***************************************************************************)
EXTENDS Naturals, FiniteSets

CONSTANTS
    Threads,
    NoThread,
    Files,
    Nesting,       \* <<f, g>>: g is used while an accessor of f is held
    Expansion,     \* expansion_, in percent
    JoinedClose,   \* callers end all calls before they close
    MayFail,       \* the disk may be full
    MaxPointers,   \* bound: accessors that a thread holds
    MaxCalls,      \* bound: calls begun
    MaxKills       \* bound: times the process is killed

ASSUME MapAssumption ==
    /\ NoThread \notin Threads
    /\ Files # {}
    /\ Nesting \subseteq Files \X Files
    /\ \A f \in Files : <<f, f>> \notin Nesting
    /\ Expansion \in Nat
    /\ JoinedClose \in BOOLEAN /\ MayFail \in BOOLEAN
    /\ MaxPointers \in Nat /\ MaxCalls \in Nat /\ MaxKills \in Nat

VARIABLES
    closed,     \* closed_
    data,       \* data_: the number of the mapping it points into, 0 for null
    live,       \* history: the mapping that exists, 0 for none
    fileSize,   \* file_size_
    logical,    \* logical_size_
    length,     \* the length of the file itself
    used,       \* record_count_
    saved,      \* the count written in the file
    manager,    \* who holds the manager's mutex
    upgrade,    \* who holds the upgrade lock of mutex_
    exclusive,  \* who holds it exclusively
    remap,      \* who holds remap_mutex_
    pc,         \* what each thread does
    file,       \* with which file
    row,        \* and which row, or height to pop to, by the count it read
    pointers,   \* the accessors each thread holds
    calls,      \* calls begun so far
    kills,      \* times the process was killed
    failed      \* history: a growth has failed

mapVars == <<closed, data, live, fileSize, logical, length>>
rowVars == <<used, saved>>
lockVars == <<manager, upgrade, exclusive, remap>>
threadVars == <<pc, file, row, pointers>>
bounds == <<calls, kills, failed>>
vars == <<mapVars, rowVars, lockVars, threadVars, bounds>>

Places == {"idle", "get", "new", "reserve", "sized", "truncate", "remap",
           "count", "sync", "save", "pop", "popped", "resave", "flush",
           "flushing", "close", "closing"}

Pointer == [file : Files, mapping : Nat, row : Nat]

TypeOK ==
    /\ closed \in [Files -> BOOLEAN]
    /\ data \in [Files -> Nat] /\ live \in [Files -> Nat]
    /\ fileSize \in [Files -> Nat] /\ logical \in [Files -> Nat]
    /\ length \in [Files -> Nat]
    /\ used \in [Files -> Nat] /\ saved \in [Files -> Nat]
    /\ manager \in [Files -> Threads \cup {NoThread}]
    /\ upgrade \in [Files -> Threads \cup {NoThread}]
    /\ exclusive \in [Files -> Threads \cup {NoThread}]
    /\ remap \in Threads \cup {NoThread}
    /\ pc \in [Threads -> Places] /\ file \in [Threads -> Files]
    /\ row \in [Threads -> Nat]
    /\ pointers \in [Threads -> SUBSET Pointer]
    /\ calls \in Nat /\ kills \in Nat /\ failed \in BOOLEAN

NoOne == [f \in Files |-> NoThread]

\* create: each file is opened and resized to its header, with no rows.
Init ==
    /\ closed = [f \in Files |-> FALSE]
    /\ data = [f \in Files |-> 1] /\ live = [f \in Files |-> 1]
    /\ fileSize = [f \in Files |-> 0] /\ logical = [f \in Files |-> 0]
    /\ length = [f \in Files |-> 0]
    /\ used = [f \in Files |-> 0] /\ saved = [f \in Files |-> 0]
    /\ manager = NoOne /\ upgrade = NoOne /\ exclusive = NoOne
    /\ remap = NoThread
    /\ pc = [t \in Threads |-> "idle"]
    /\ file = [t \in Threads |-> CHOOSE f \in Files : TRUE]
    /\ row = [t \in Threads |-> 0]
    /\ pointers = [t \in Threads |-> {}]
    /\ calls = 0 /\ kills = 0 /\ failed = FALSE

-----------------------------------------------------------------------------
\* Callers.

Holds(t, f) == \E p \in pointers[t] : p.file = f
Shared(f) == \E t \in Threads : Holds(t, f)

\* The accessors t holds are of files it may hold while it uses f.
Nests(t, f) == \A p \in pointers[t] : <<p.file, f>> \in Nesting

Goto(t, place) == pc' = [pc EXCEPT ![t] = place]

Call(t, f, place) ==
    /\ pc[t] = "idle" /\ calls < MaxCalls
    /\ calls' = calls + 1
    /\ Goto(t, place)
    /\ file' = [file EXCEPT ![t] = f]

\* "Database threads must be joined before close is called."
Joined == \A t \in Threads : pc[t] = "idle" /\ pointers[t] = {}

Closing(f) == \E t \in Threads : file[t] = f /\ pc[t] \in {"close", "closing"}
Usable(f) == JoinedClose => ~closed[f] /\ ~Closing(f)

-----------------------------------------------------------------------------
\* Rows are read and written through accessors.

\* A guard with the count, as in block_database::get(height).
Guard(t, f) ==
    /\ Usable(f) /\ Cardinality(pointers[t]) < MaxPointers
    /\ Nests(t, f) \/ Holds(t, f)
    /\ Call(t, f, "get")
    /\ \E r \in 1 .. used[f] : row' = [row EXCEPT ![t] = r]
    /\ UNCHANGED <<mapVars, rowVars, lockVars, pointers, kills, failed>>

\* access: lock_shared and a copy of data_.
Access(t) ==
    /\ pc[t] = "get" /\ exclusive[file[t]] = NoThread
    /\ pointers' = [pointers EXCEPT ![t] = @ \cup
            {[file |-> file[t], mapping |-> data[file[t]], row |-> row[t]]}]
    /\ row' = [row EXCEPT ![t] = 0]
    /\ Goto(t, "idle")
    /\ UNCHANGED <<mapVars, rowVars, lockVars, file, bounds>>

\* ~accessor: unlock_shared.
Release(t) ==
    /\ pc[t] = "idle"
    /\ \E p \in pointers[t] : pointers' = [pointers EXCEPT ![t] = @ \ {p}]
    /\ UNCHANGED <<mapVars, rowVars, lockVars, pc, file, row, bounds>>

-----------------------------------------------------------------------------
\* The manager: new_records, sync and set_count under its mutex.

\* A popped count is written before the next row (data_base::pop).
Popping(f) ==
    \E u \in Threads : file[u] = f /\ pc[u] \in {"pop", "popped", "resave"}

\* Mutant: a row of a file is added while an accessor of it is held.
NewRowHolding(t, f) ==
    /\ ~Popping(f)
    /\ Call(t, f, "new")
    /\ UNCHANGED <<mapVars, rowVars, lockVars, row, pointers, kills, failed>>

NewRow(t, f) ==
    /\ Nests(t, f) /\ ~Popping(f)
    /\ Call(t, f, "new")
    /\ UNCHANGED <<mapVars, rowVars, lockVars, row, pointers, kills, failed>>

Sync(t, f) ==
    /\ Usable(f) /\ pointers[t] = {}
    /\ Call(t, f, "sync")
    /\ UNCHANGED <<mapVars, rowVars, lockVars, row, pointers, kills, failed>>

\* unlink of the top block: the one writer, then synchronize.
Pop(t, f) ==
    /\ Usable(f) /\ pointers[t] = {} /\ used[f] > 0
    /\ \A u \in Threads : file[u] = f => pc[u] \in {"idle", "get"}
    /\ Call(t, f, "pop")
    /\ row' = [row EXCEPT ![t] = used[f] - 1]
    /\ UNCHANGED <<mapVars, rowVars, lockVars, pointers, kills, failed>>

AfterLock(place) ==
    CASE place = "new" -> "reserve"
      [] place = "sync" -> "save"
      [] place = "popped" -> "resave"

\* Mutant: new_records without the manager's mutex.
LockManagerNever(t) ==
    /\ pc[t] \in {"new", "sync", "popped"}
    /\ Goto(t, AfterLock(pc[t]))
    /\ UNCHANGED <<mapVars, rowVars, lockVars, file, row, pointers, bounds>>

LockManager(t) ==
    /\ pc[t] \in {"new", "sync", "popped"} /\ manager[file[t]] = NoThread
    /\ manager' = [manager EXCEPT ![file[t]] = t]
    /\ Goto(t, AfterLock(pc[t]))
    /\ UNCHANGED <<mapVars, rowVars, upgrade, exclusive, remap, file, row,
                   pointers, bounds>>

UnlockManager(t) == manager' = [manager EXCEPT ![file[t]] = NoThread]

\* write_count, through an accessor that is freed at the end.
Save(t) ==
    /\ pc[t] \in {"save", "resave"} /\ exclusive[file[t]] = NoThread
    /\ saved' = [saved EXCEPT ![file[t]] = used[file[t]]]
    /\ UnlockManager(t)
    /\ Goto(t, "idle")
    /\ UNCHANGED <<mapVars, used, upgrade, exclusive, remap, file, row,
                   pointers, bounds>>

\* set_count.
SetCount(t) ==
    /\ pc[t] = "pop" /\ manager[file[t]] = NoThread
    /\ used' = [used EXCEPT ![file[t]] = row[t]]
    /\ row' = [row EXCEPT ![t] = 0]
    /\ Goto(t, "popped")
    /\ UNCHANGED <<mapVars, saved, lockVars, file, pointers, bounds>>

-----------------------------------------------------------------------------
\* reserve, flush and close begin with the upgrade lock.

LockUpgrade(t) ==
    /\ pc[t] \in {"reserve", "flush", "close"}
    /\ upgrade[file[t]] = NoThread /\ exclusive[file[t]] = NoThread
    /\ upgrade' = [upgrade EXCEPT ![file[t]] = t]
    /\ Goto(t, CASE pc[t] = "reserve" -> "sized"
                 [] pc[t] = "flush" -> "flushing"
                 [] pc[t] = "close" -> "closing")
    /\ UNCHANGED <<mapVars, rowVars, manager, exclusive, remap, file, row,
                   pointers, bounds>>

Required(t) == used[file[t]] + 1
Target(size) == (size * (Expansion + 100)) \div 100

\* "Resize failure, store already closed": ~allocator gives back a shared lock,
\* which it has not; the upgrade lock is never free again.
ReserveClosed(t) ==
    /\ pc[t] = "sized" /\ closed[file[t]]
    /\ failed' = TRUE
    /\ UnlockManager(t)
    /\ Goto(t, "idle")
    /\ UNCHANGED <<mapVars, rowVars, upgrade, exclusive, remap, file, row,
                   pointers, calls, kills>>

\* Mutant: logical_size_ stays where it was.
AssignOnly(t) ==
    /\ pc[t] = "sized" /\ ~closed[file[t]]
    /\ Required(t) <= fileSize[file[t]]
    /\ upgrade' = [upgrade EXCEPT ![file[t]] = NoThread]
    /\ Goto(t, "count")
    /\ UNCHANGED <<mapVars, rowVars, manager, exclusive, remap, file, row,
                   pointers, bounds>>

\* The row fits: the shared lock that new_records gets it drops at once.
Assign(t) ==
    /\ pc[t] = "sized" /\ ~closed[file[t]]
    /\ Required(t) <= fileSize[file[t]]
    /\ logical' = [logical EXCEPT ![file[t]] = Required(t)]
    /\ upgrade' = [upgrade EXCEPT ![file[t]] = NoThread]
    /\ Goto(t, "count")
    /\ UNCHANGED <<closed, data, live, fileSize, length, rowVars, manager,
                   exclusive, remap, file, row, pointers, bounds>>

\* Mutant: the growth does not wait for the accessors.
GrowBeside(t) ==
    /\ pc[t] = "sized" /\ ~closed[file[t]]
    /\ Required(t) > fileSize[file[t]]
    /\ exclusive' = [exclusive EXCEPT ![file[t]] = t]
    /\ upgrade' = [upgrade EXCEPT ![file[t]] = NoThread]
    /\ Goto(t, "truncate")
    /\ UNCHANGED <<mapVars, rowVars, manager, remap, file, row, pointers, bounds>>

\* unlock_upgrade_and_lock, when the last accessor is gone.
Grow(t) ==
    /\ pc[t] = "sized" /\ ~closed[file[t]]
    /\ Required(t) > fileSize[file[t]] /\ ~Shared(file[t])
    /\ exclusive' = [exclusive EXCEPT ![file[t]] = t]
    /\ upgrade' = [upgrade EXCEPT ![file[t]] = NoThread]
    /\ Goto(t, "truncate")
    /\ UNCHANGED <<mapVars, rowVars, manager, remap, file, row, pointers, bounds>>

\* truncate_mapped: one file of the store at a time.
Truncate(t) ==
    /\ pc[t] = "truncate" /\ remap = NoThread
    /\ remap' = t
    /\ length' = [length EXCEPT ![file[t]] = Target(Required(t))]
    /\ Goto(t, "remap")
    /\ UNCHANGED <<closed, data, live, fileSize, logical, rowVars, manager,
                   upgrade, exclusive, file, row, pointers, bounds>>

\* mremap, and unlock_and_lock_upgrade.
Remap(t) ==
    /\ pc[t] = "remap"
    /\ live' = [live EXCEPT ![file[t]] = @ + 1]
    /\ data' = [data EXCEPT ![file[t]] = live'[file[t]]]
    /\ fileSize' = [fileSize EXCEPT ![file[t]] = Target(Required(t))]
    /\ remap' = NoThread
    /\ exclusive' = [exclusive EXCEPT ![file[t]] = NoThread]
    /\ upgrade' = [upgrade EXCEPT ![file[t]] = t]
    /\ Goto(t, "sized")
    /\ UNCHANGED <<closed, logical, length, rowVars, manager, file, row,
                   pointers, bounds>>

\* "Resize failure, disk space may be low": before ftruncate or at mremap.  The
\* conditional_lock is freed and the exclusive lock is not.
GrowFails(t) ==
    /\ MayFail
    /\ \/ pc[t] = "truncate" /\ remap = NoThread /\ UNCHANGED <<data, fileSize, remap>>
       \/ /\ pc[t] = "remap"
          /\ data' = [data EXCEPT ![file[t]] = 0]
          /\ fileSize' = [fileSize EXCEPT ![file[t]] = 0]
          /\ remap' = NoThread
    /\ failed' = TRUE
    /\ UnlockManager(t)
    /\ Goto(t, "idle")
    /\ UNCHANGED <<closed, live, logical, length, rowVars, upgrade, exclusive,
                   file, row, pointers, calls, kills>>

\* record_count_ += count.
CountRow(t) ==
    /\ pc[t] = "count"
    /\ used' = [used EXCEPT ![file[t]] = @ + 1]
    /\ UnlockManager(t)
    /\ Goto(t, "idle")
    /\ UNCHANGED <<mapVars, saved, upgrade, exclusive, remap, file, row,
                   pointers, bounds>>

-----------------------------------------------------------------------------
\* flush and close.

Flush(t, f) ==
    /\ pointers[t] = {}
    /\ Call(t, f, "flush")
    /\ UNCHANGED <<mapVars, rowVars, lockVars, row, pointers, kills, failed>>

Close(t, f) ==
    /\ pointers[t] = {} /\ (JoinedClose => Joined)
    /\ Call(t, f, "close")
    /\ UNCHANGED <<mapVars, rowVars, lockVars, row, pointers, kills, failed>>

\* msync while nobody writes, or nothing for a closed file.
FlushFile(t) ==
    /\ pc[t] = "flushing"
    /\ closed[file[t]] \/ ~Shared(file[t])
    /\ upgrade' = [upgrade EXCEPT ![file[t]] = NoThread]
    /\ Goto(t, "idle")
    /\ UNCHANGED <<mapVars, rowVars, manager, exclusive, remap, file, row,
                   pointers, bounds>>

\* msync, munmap, ftruncate to the logical size.  data_ is not reset.
CloseFile(t) ==
    /\ pc[t] = "closing" /\ ~closed[file[t]] /\ ~Shared(file[t])
    /\ closed' = [closed EXCEPT ![file[t]] = TRUE]
    /\ live' = [live EXCEPT ![file[t]] = 0]
    /\ length' = [length EXCEPT ![file[t]] = logical[file[t]]]
    /\ upgrade' = [upgrade EXCEPT ![file[t]] = NoThread]
    /\ Goto(t, "idle")
    /\ UNCHANGED <<data, fileSize, logical, rowVars, manager, exclusive, remap,
                   file, row, pointers, bounds>>

\* Closed before: "Close is idempotent."
CloseAgain(t) ==
    /\ pc[t] = "closing" /\ closed[file[t]]
    /\ upgrade' = [upgrade EXCEPT ![file[t]] = NoThread]
    /\ Goto(t, "idle")
    /\ UNCHANGED <<mapVars, rowVars, manager, exclusive, remap, file, row,
                   pointers, bounds>>

-----------------------------------------------------------------------------
\* Another process, or another data_base: new maps of the same files.

\* open and start, which refuses a count beyond the end of the file.
Open ==
    /\ \A f \in Files : saved[f] <= length[f]
    /\ closed' = [f \in Files |-> FALSE]
    /\ data' = [f \in Files |-> 1] /\ live' = [f \in Files |-> 1]
    /\ fileSize' = length /\ logical' = length
    /\ used' = saved
    /\ manager' = NoOne /\ upgrade' = NoOne /\ exclusive' = NoOne
    /\ remap' = NoThread
    /\ pc' = [t \in Threads |-> "idle"]
    /\ row' = [t \in Threads |-> 0]
    /\ pointers' = [t \in Threads |-> {}]
    /\ failed' = FALSE
    /\ UNCHANGED <<length, saved, file, calls>>

Reopen ==
    /\ \A f \in Files : closed[f]
    /\ Joined
    /\ Open
    /\ UNCHANGED kills

\* The process is killed; what it wrote through the mappings stays.
Kill ==
    /\ kills < MaxKills
    /\ kills' = kills + 1
    /\ Open

\* What a thread does once it has begun.
Work(t) ==
    \/ Access(t) \/ Release(t)
    \/ LockManager(t) \/ Save(t) \/ SetCount(t)
    \/ LockUpgrade(t)
    \/ ReserveClosed(t) \/ Assign(t) \/ Grow(t) \/ Truncate(t) \/ Remap(t)
    \/ GrowFails(t) \/ CountRow(t)
    \/ FlushFile(t) \/ CloseFile(t) \/ CloseAgain(t)

Begin(t, f) ==
    \/ Guard(t, f) \/ NewRow(t, f) \/ Sync(t, f) \/ Pop(t, f)
    \/ Flush(t, f) \/ Close(t, f)

Next ==
    \/ \E t \in Threads : Work(t) \/ \E f \in Files : Begin(t, f)
    \/ Reopen \/ Kill

Spec == Init /\ [][Next]_vars

\* Threads keep running and let go of what they hold.
FairSpec == Spec /\ \A t \in Threads : WF_vars(Work(t))

-----------------------------------------------------------------------------
\* Properties.

\* An accessor points into the mapping of its file that exists, at a row that
\* lies in it, even if its block was popped after the guard.
PointersAreMapped ==
    \A t \in Threads : \A p \in pointers[t] :
        p.mapping = live[p.file] /\ p.row <= fileSize[p.file]

\* The rows handed out are in the part of the file that close keeps.
CountedRowsFit ==
    \A f \in Files : used[f] <= logical[f] /\ logical[f] <= length[f]

\* The next open finds all counted rows in the file, whenever the process dies.
CountIsInFile == \A f \in Files : saved[f] <= length[f]

\* A call returns, unless a growth has failed: no two files wait for each other.
CallsEnd ==
    \A t \in Threads : pc[t] # "idle" ~> (pc[t] = "idle" \/ failed)
=============================================================================
