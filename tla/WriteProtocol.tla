--------------------------- MODULE WriteProtocol ---------------------------
(***************************************************************************)
(* The write protocol of data_base (src/data_base.cpp, src/store.cpp): the *)
(* write mutex, the sequential lock that tells readers to retry, the flush *)
(* lock file that tells the next open that the store may be damaged, and   *)
(* the opening, closing and death of the process around them.              *)
(*                                                                         *)
(* The tables are abstracted to Parts: a write stamps every part with its  *)
(* own number, one part per step, so a half written store is one whose     *)
(* parts carry different numbers.  memory is what the mapped files hold,   *)
(* disk what survives a crash: the system may write any page back at any   *)
(* time, only a flush or a close makes them equal.                         *)
(***************************************************************************)
EXTENDS Naturals, FiniteSets

CONSTANTS
    Writers,         \* threads that call the writers of data_base
    Readers,         \* threads that read under the sequential lock
    Parts,           \* the mapped files a write touches
    NoOne,           \* no holder of the write mutex
    Kinds,           \* the calls the writers make
    FlushEachWrite,  \* store::flush_each_write_, settings.flush_writes
    MayFail,         \* a write may fail after begin_write, a close may fail
    MayCrash,        \* the process may die
    LateClose,       \* close may be called while a write is in progress
    MaxWrites        \* bound: calls of a writer, over all restarts

ASSUME WriteAssumption ==
    /\ NoOne \notin Writers
    /\ Kinds \subseteq {"push", "reorganize", "insert"}
    /\ {FlushEachWrite, MayFail, MayCrash, LateClose} \subseteq BOOLEAN
    /\ MaxWrites \in Nat

VARIABLES
    process,    \* "down", "open", "closing", "closed", or "stuck" once an
                \*  open or a close has failed
    mapped,     \* the parts whose memory map is open
    lockFile,   \* the flush lock file exists
    held,       \* flush_lock_ remembers that it created the file
    mutex,      \* holder of write_mutex_
    sequence,   \* the counter of sequential_lock_
    memory,     \* [Parts -> stamp]
    disk,       \* [Parts -> stamp]
    pc,         \* where each writer is
    kind,       \* which call each writer is in
    stamp,      \* the number of each writer's call
    todo,       \* the parts each writer has still to write
    result,     \* what the last call of each writer returned
    writes,     \* history: calls so far
    committed,  \* history: stamp of the last write that was ended
    broken,     \* history: in this process, a write failed after begin_write
    reading,    \* where each reader is
    handle,     \* the sequence each reader began with
    seen,       \* what each reader read, NoStamp where it has not yet
    since       \* history: committed when each reader began

lockVars == <<lockFile, held, mutex, sequence>>
writerVars == <<pc, kind, stamp, todo, result, writes>>
readerVars == <<reading, handle, seen, since>>
vars == <<process, mapped, lockVars, memory, disk, writerVars, committed,
          broken, readerVars>>

NoStamp == MaxWrites + 1
Stamps == 0 .. MaxWrites
Odd(n) == n % 2 = 1

Everywhere(s) == [p \in Parts |-> s]

TypeOK ==
    /\ process \in {"down", "open", "closing", "closed", "stuck"}
    /\ mapped \in SUBSET Parts
    /\ lockFile \in BOOLEAN /\ held \in BOOLEAN /\ broken \in BOOLEAN
    /\ mutex \in Writers \cup {NoOne}
    /\ sequence \in Nat
    /\ memory \in [Parts -> Stamps] /\ disk \in [Parts -> Stamps]
    /\ pc \in [Writers -> {"idle", "waiting", "locked", "begin", "writing",
                           "unlock", "end", "flush", "unflush"}]
    /\ kind \in [Writers -> {"push", "reorganize", "insert"}]
    /\ stamp \in [Writers -> Stamps]
    /\ todo \in [Writers -> SUBSET Parts]
    /\ result \in [Writers -> {"none", "success", "refused", "failed"}]
    /\ writes \in Stamps /\ committed \in Stamps
    /\ reading \in [Readers -> {"idle", "reading", "valid", "stale"}]
    /\ handle \in [Readers -> Nat]
    /\ seen \in [Readers -> [Parts -> Stamps \cup {NoStamp}]]
    /\ since \in [Readers -> Stamps]

\* A store that was created, opened and closed, with nothing running.
Init ==
    /\ process = "down" /\ mapped = {}
    /\ lockFile = FALSE /\ held = FALSE
    /\ mutex = NoOne /\ sequence = 0
    /\ memory = Everywhere(0) /\ disk = Everywhere(0)
    /\ pc = [w \in Writers |-> "idle"]
    /\ kind = [w \in Writers |-> "push"]
    /\ stamp = [w \in Writers |-> 0]
    /\ todo = [w \in Writers |-> {}]
    /\ result = [w \in Writers |-> "none"]
    /\ writes = 0 /\ committed = 0 /\ broken = FALSE
    /\ reading = [r \in Readers |-> "idle"]
    /\ handle = [r \in Readers |-> 0]
    /\ seen = [r \in Readers |-> Everywhere(NoStamp)]
    /\ since = [r \in Readers |-> 0]

-----------------------------------------------------------------------------
\* Locks of bitcoin-core, as store.cpp uses them.

\* flush_lock::lock_shared: creates the file unless this object holds it.
LockShared == lockFile' = TRUE /\ held' = TRUE

\* flush_lock::unlock_shared: destroys the file if this object holds it.
UnlockShared == lockFile' = (lockFile /\ ~held) /\ held' = FALSE

\* flush_lock::try_lock: the file must not exist.
TryLock == ~lockFile

-----------------------------------------------------------------------------
\* Opening and closing.

\* data_base::open, with store::open.
Open ==
    /\ process \in {"down", "closed"}
    /\ \A w \in Writers : pc[w] = "idle"
    /\ IF TryLock
         THEN /\ process' = "open" /\ mapped' = Parts
              /\ IF FlushEachWrite THEN UNCHANGED <<lockFile, held>>
                                   ELSE LockShared
         ELSE process' = "stuck" /\ UNCHANGED <<mapped, lockFile, held>>
    /\ UNCHANGED <<mutex, sequence, memory, disk, writerVars, committed,
                   broken, readerVars>>

\* data_base::close: closed_ is set; the reads of the callers end here.
Close ==
    /\ process = "open"
    /\ LateClose \/ \A w \in Writers : pc[w] = "idle"
    /\ process' = "closing"
    /\ reading' = [r \in Readers |-> "idle"]
    /\ UNCHANGED <<mapped, lockVars, memory, disk, writerVars, committed,
                   broken, handle, seen, since>>

\* memory_map::close: the part is synchronised and unmapped.
CloseTable(p) ==
    /\ process = "closing"
    /\ p \in mapped
    /\ mapped' = mapped \ {p}
    /\ disk' = [disk EXCEPT ![p] = memory[p]]
    /\ UNCHANGED <<process, lockVars, memory, writerVars, committed, broken,
                   readerVars>>

\* A table fails to close, and store::close is not called.
CloseFails ==
    /\ MayFail
    /\ process = "closing"
    /\ mapped # {}
    /\ process' = "stuck"
    /\ UNCHANGED <<mapped, lockVars, memory, disk, writerVars, committed,
                   broken, readerVars>>

\* Mutant: store::close before the tables are closed.
CloseStoreFirst ==
    /\ process = "closing"
    /\ process' = IF mapped = {} THEN "closed" ELSE "closing"
    /\ IF FlushEachWrite THEN UNCHANGED <<lockFile, held>> ELSE UnlockShared
    /\ UNCHANGED <<mapped, mutex, sequence, memory, disk, writerVars,
                   committed, broken, readerVars>>

\* store::close, once every table is closed.
CloseStore ==
    /\ process = "closing"
    /\ mapped = {}
    /\ process' = "closed"
    /\ IF FlushEachWrite THEN UNCHANGED <<lockFile, held>> ELSE UnlockShared
    /\ UNCHANGED <<mapped, mutex, sequence, memory, disk, writerVars,
                   committed, broken, readerVars>>

\* The process ends without closing: files keep what the disk has.
Crash ==
    /\ MayCrash \/ process = "stuck"
    /\ process # "down"
    /\ process' = "down" /\ mapped' = {}
    /\ held' = FALSE /\ mutex' = NoOne /\ sequence' = 0
    /\ memory' = disk
    /\ pc' = [w \in Writers |-> "idle"]
    /\ todo' = [w \in Writers |-> {}]
    /\ result' = [w \in Writers |-> "none"]
    /\ broken' = FALSE
    /\ reading' = [r \in Readers |-> "idle"]
    /\ UNCHANGED <<lockFile, disk, kind, stamp, writes, committed, handle,
                   seen, since>>

\* The system writes a page of a mapped file back when it likes.
WriteBack(p) ==
    /\ p \in mapped
    /\ disk[p] # memory[p]
    /\ disk' = [disk EXCEPT ![p] = memory[p]]
    /\ UNCHANGED <<process, mapped, lockVars, memory, writerVars, committed, broken,
                   readerVars>>

-----------------------------------------------------------------------------
\* Writers: data_base::push, data_base::reorganize, begin_insert/end_insert.

\* Mutant: push, too, leaves its scope before end_write.
NobodyHoldsToTheEnd(w) == FALSE

HoldsToTheEnd(w) == kind[w] = "push"

\* The call of w returns res; the mutex goes with the scope of push's lock.
Return(w, res) ==
    /\ pc' = [pc EXCEPT ![w] = "idle"]
    /\ result' = [result EXCEPT ![w] = res]
    /\ todo' = [todo EXCEPT ![w] = {}]
    /\ mutex' = IF mutex = w THEN NoOne ELSE mutex
    /\ UNCHANGED <<kind, stamp, writes>>

Goto(w, place) ==
    /\ pc' = [pc EXCEPT ![w] = place]
    /\ UNCHANGED <<mutex, kind, stamp, todo, result, writes>>

Call(w, k) ==
    /\ process = "open"
    /\ pc[w] = "idle"
    /\ writes < MaxWrites
    /\ writes' = writes + 1
    /\ stamp' = [stamp EXCEPT ![w] = writes + 1]
    /\ pc' = [pc EXCEPT ![w] = "waiting"]
    /\ kind' = [kind EXCEPT ![w] = k]
    /\ UNCHANGED <<process, mapped, lockVars, memory, disk, todo, result,
                   committed, broken, readerVars>>

Lock(w) ==
    /\ process = "open"
    /\ pc[w] = "waiting"
    /\ mutex = NoOne
    /\ mutex' = w
    /\ pc' = [pc EXCEPT ![w] = "locked"]
    /\ UNCHANGED <<process, mapped, lockFile, held, sequence, memory, disk,
                   kind, stamp, todo, result, writes, committed, broken,
                   readerVars>>

\* Mutant: the block is verified after begin_write.
RefuseLate(w) ==
    /\ pc[w] = "writing"
    /\ kind[w] = "push"
    /\ Return(w, "refused")
    /\ UNCHANGED <<process, mapped, lockFile, held, sequence, memory, disk,
                   committed, broken, readerVars>>

\* push: verify_push refuses the block or the transaction.
Refuse(w) ==
    /\ pc[w] = "locked"
    /\ kind[w] = "push"
    /\ Return(w, "refused")
    /\ UNCHANGED <<process, mapped, lockFile, held, sequence, memory, disk, committed,
                   broken, readerVars>>

\* begin_write, first half: store::flush_lock.
FlushLock(w) ==
    /\ pc[w] = "locked"
    /\ IF FlushEachWrite THEN LockShared ELSE UNCHANGED <<lockFile, held>>
    /\ Goto(w, "begin")
    /\ UNCHANGED <<process, mapped, sequence, memory, disk, committed, broken,
                   readerVars>>

\* begin_write, second half: the sequence must become odd.  An insert whose
\* begin_insert fails has only end_insert to give the mutex back.
BeginWrite(w) ==
    /\ pc[w] = "begin"
    /\ sequence' = sequence + 1
    /\ \/ /\ Odd(sequence')
          /\ pc' = [pc EXCEPT ![w] = "writing"]
          /\ todo' = [todo EXCEPT ![w] = Parts]
          /\ UNCHANGED <<mutex, kind, stamp, result, writes>>
       \/ ~Odd(sequence') /\ kind[w] # "insert" /\ Return(w, "failed")
       \/ ~Odd(sequence') /\ kind[w] = "insert" /\ Goto(w, "unlock")
    /\ UNCHANGED <<process, mapped, lockFile, held, memory, disk, committed, broken,
                   readerVars>>

\* One table is written through its mapping, which must still be there.
WritePart(w, p) ==
    /\ pc[w] = "writing"
    /\ p \in todo[w] \cap mapped
    /\ memory' = [memory EXCEPT ![p] = stamp[w]]
    /\ todo' = [todo EXCEPT ![w] = @ \ {p}]
    /\ UNCHANGED <<process, mapped, lockVars, disk, pc, kind, stamp, result, writes,
                   committed, broken, readerVars>>

\* Mutant: the failing path forgets the mutex.
FailWriteLocked(w) ==
    /\ MayFail
    /\ pc[w] = "writing"
    /\ kind[w] # "insert"
    /\ broken' = TRUE
    /\ pc' = [pc EXCEPT ![w] = "idle"]
    /\ result' = [result EXCEPT ![w] = "failed"]
    /\ UNCHANGED <<process, mapped, lockVars, memory, disk, kind, stamp, todo,
                   writes, committed, readerVars>>

\* A failure after begin_write is returned without calling end_write.
FailWrite(w) ==
    /\ MayFail
    /\ pc[w] = "writing"
    /\ kind[w] # "insert"
    /\ broken' = TRUE
    /\ Return(w, "failed")
    /\ UNCHANGED <<process, mapped, lockFile, held, sequence, memory, disk, committed,
                   readerVars>>

DoneWriting(w) ==
    /\ pc[w] = "writing"
    /\ todo[w] = {}
    /\ Goto(w, IF HoldsToTheEnd(w) THEN "end" ELSE "unlock")
    /\ UNCHANGED <<process, mapped, lockFile, held, sequence, memory, disk, committed,
                   broken, readerVars>>

\* end_insert and handle_push leave the critical section before end_write.
UnlockEarly(w) ==
    /\ pc[w] = "unlock"
    /\ mutex' = NoOne
    /\ pc' = [pc EXCEPT ![w] = "end"]
    /\ UNCHANGED <<process, mapped, lockFile, held, sequence, memory, disk, kind,
                   stamp, todo, result, writes, committed, broken, readerVars>>

\* end_write, first half: the sequence must become even.
EndWrite(w) ==
    /\ pc[w] = "end"
    /\ sequence' = sequence + 1
    /\ \/ Odd(sequence') /\ Return(w, "failed") /\ UNCHANGED committed
       \/ /\ ~Odd(sequence')
          /\ committed' = stamp[w]
          /\ IF FlushEachWrite THEN Goto(w, "flush") ELSE Return(w, "success")
    /\ UNCHANGED <<process, mapped, lockFile, held, memory, disk, broken, readerVars>>

\* Mutant: the flush is skipped.
SkipFlush(w) ==
    /\ pc[w] = "flush"
    /\ Goto(w, "unflush")
    /\ UNCHANGED <<process, mapped, lockFile, held, sequence, memory, disk,
                   committed, broken, readerVars>>

\* end_write, second half: data_base::flush; a closed mapping counts as done.
Flush(w) ==
    /\ pc[w] = "flush"
    /\ disk' = [p \in Parts |-> IF p \in mapped THEN memory[p] ELSE disk[p]]
    /\ Goto(w, "unflush")
    /\ UNCHANGED <<process, mapped, lockFile, held, sequence, memory, committed,
                   broken, readerVars>>

\* end_write, last: unlock_shared.
FlushUnlock(w) ==
    /\ pc[w] = "unflush"
    /\ UnlockShared
    /\ Return(w, "success")
    /\ UNCHANGED <<process, mapped, sequence, memory, disk, committed, broken,
                   readerVars>>

-----------------------------------------------------------------------------
\* Readers, as the callers of begin_read and is_read_valid use them.

\* Mutant: the caller does not ask is_write_locked.
BeginReadAnyway(r) ==
    /\ process = "open"
    /\ reading[r] # "reading"
    /\ reading' = [reading EXCEPT ![r] = "reading"]
    /\ handle' = [handle EXCEPT ![r] = sequence]
    /\ seen' = [seen EXCEPT ![r] = Everywhere(NoStamp)]
    /\ since' = [since EXCEPT ![r] = committed]
    /\ UNCHANGED <<process, mapped, lockVars, memory, disk, writerVars,
                   committed, broken>>

BeginRead(r) ==
    /\ process = "open"
    /\ reading[r] # "reading"
    /\ ~Odd(sequence)
    /\ reading' = [reading EXCEPT ![r] = "reading"]
    /\ handle' = [handle EXCEPT ![r] = sequence]
    /\ seen' = [seen EXCEPT ![r] = Everywhere(NoStamp)]
    /\ since' = [since EXCEPT ![r] = committed]
    /\ UNCHANGED <<process, mapped, lockVars, memory, disk, writerVars, committed,
                   broken>>

ReadPart(r, p) ==
    /\ reading[r] = "reading"
    /\ seen[r][p] = NoStamp
    /\ seen' = [seen EXCEPT ![r] = [@ EXCEPT ![p] = memory[p]]]
    /\ UNCHANGED <<process, mapped, lockVars, memory, disk, writerVars, committed,
                   broken, reading, handle, since>>

EndRead(r) ==
    /\ reading[r] = "reading"
    /\ \A p \in Parts : seen[r][p] # NoStamp
    /\ reading' = [reading EXCEPT ![r] =
                     IF sequence = handle[r] THEN "valid" ELSE "stale"]
    /\ UNCHANGED <<process, mapped, lockVars, memory, disk, writerVars, committed,
                   broken, handle, seen, since>>

-----------------------------------------------------------------------------
WriterStep(w) ==
    \/ Lock(w)
    \/ Refuse(w)
    \/ FlushLock(w)
    \/ BeginWrite(w)
    \/ \E p \in Parts : WritePart(w, p)
    \/ FailWrite(w)
    \/ DoneWriting(w)
    \/ UnlockEarly(w)
    \/ EndWrite(w)
    \/ Flush(w)
    \/ FlushUnlock(w)

ReaderStep(r) ==
    \/ BeginRead(r)
    \/ \E p \in Parts : ReadPart(r, p)
    \/ EndRead(r)

Next ==
    \/ Open
    \/ Close
    \/ \E p \in Parts : CloseTable(p)
    \/ CloseFails
    \/ CloseStore
    \/ Crash
    \/ \E p \in Parts : WriteBack(p)
    \/ \E w \in Writers : WriterStep(w) \/ \E k \in Kinds : Call(w, k)
    \/ \E r \in Readers : ReaderStep(r)

Spec == Init /\ [][Next]_vars

\* Every thread that can take its next step is scheduled in the end.
Fairness == \A w \in Writers : WF_vars(WriterStep(w))

FairSpec == Spec /\ Fairness

-----------------------------------------------------------------------------
\* Properties.

\* Where a writer may touch the tables: from the begin_write that succeeded
\* to the increment of its end_write.
InSection(w) == pc[w] \in {"writing", "unlock", "end"}

\* "Designed for write exclusivity" (data_base.cpp): two writers are never
\* between begin_write and end_write together.
WriteExclusivity ==
    \A v, w \in Writers : InSection(v) /\ InSection(w) => v = w

\* "And read concurrency": a reader whose handle is still valid has read,
\* in every part, exactly the write that was committed when it began.
ReadsAreSnapshots ==
    \A r \in Readers :
        reading[r] = "valid" => \A p \in Parts : seen[r][p] = since[r]

\* The weaker half of it: a valid read never mixes two writes.
ReadsAreWhole ==
    \A r \in Readers :
        reading[r] = "valid" => \A p, q \in Parts : seen[r][p] = seen[r][q]

\* The flush lock file is what tells a restart about damage: whenever it is
\* absent a crash at this instant leaves the last committed write, whole.
UnlockedStoreIsCurrent ==
    ~lockFile => \A p \in Parts : disk[p] = committed

\* begin_write and end_write (store.cpp) return false only because some write
\* failed before: no interleaving of successful calls leaves the sequence odd.
NoSpuriousFailure ==
    (\E w \in Writers : result[w] = "failed") => broken

\* "We never fail to clear the mutex" (handle_push): whatever the outcome, a
\* writer that has taken the mutex gives it back, or dies.
MutexIsReleased == \A w \in Writers : mutex = w ~> mutex # w

\* The inverted sequence lock "prevents continuation of reads and writes
\* while running" (data_base.cpp, before the constructor): after a failed
\* write no writer gets past begin_write and no reader gets a handle that is
\* not write locked.
NoUseAfterFailure ==
    [][broken =>
         /\ \A w \in Writers : ~(~InSection(w) /\ InSection(w)')
         /\ \A r \in Readers :
               ~(reading[r] # "reading" /\ reading'[r] = "reading")]_vars

\* The flush lock that a failed write leaves "prevents usage after restart":
\* once a write has failed the file stays for as long as the process runs.
FailureKeepsLockFile == broken /\ FlushEachWrite => lockFile

-----------------------------------------------------------------------------
\* The inductive invariant behind the safety properties.

\* The circumstances under which the protocol keeps its promise: no write
\* fails, and either every writer keeps the mutex to the end of end_write
\* (both forms of push) or there is a single writing thread.
SerialWriters ==
    /\ ~MayFail
    /\ Kinds \subseteq {"push"} \/ \A v, w \in Writers : v = w

\* ... and nobody closes the store under a writer, or each write is flushed.
OrderlyClose == FlushEachWrite \/ ~LateClose

Active(w) == pc[w] \notin {"idle", "waiting"}
Running == process \in {"open", "closing", "closed"}

\* Who holds the mutex, and that being active needs a running process.
MutexInv ==
    /\ Kinds \subseteq {"push"} => \A w \in Writers : kind[w] = "push"
    /\ \A w \in Writers :
         /\ Active(w) => Running
         /\ Active(w) /\ HoldsToTheEnd(w) => mutex = w
         /\ pc[w] \in {"locked", "begin", "writing", "unlock"} => mutex = w
         /\ pc[w] = "unlock" => ~HoldsToTheEnd(w)
         /\ mutex = w => Active(w)

\* The sequence is odd exactly while a writer is in its section, and then
\* the memory holds its stamp in every part it has written.
SequenceInv ==
    /\ Odd(sequence) <=> \E w \in Writers : InSection(w)
    /\ \A w \in Writers :
         InSection(w) => \A p \in Parts :
             p \notin todo[w] => memory[p] = stamp[w]
    /\ \A w \in Writers : pc[w] \in {"unlock", "end"} => todo[w] = {}
    /\ (Running \/ ~lockFile) /\ ~Odd(sequence)
         => \A p \in Parts : memory[p] = committed

\* A reader whose handle is current has read nothing but the committed write.
ReaderInv ==
    \A r \in Readers :
        /\ reading[r] = "reading" =>
             /\ process = "open"
             /\ ~Odd(handle[r]) /\ handle[r] <= sequence
             /\ handle[r] = sequence =>
                  /\ since[r] = committed
                  /\ \A p \in Parts : seen[r][p] \in {NoStamp, since[r]}
        /\ reading[r] = "valid" => \A p \in Parts : seen[r][p] = since[r]

\* What the presence and the absence of the flush lock file mean.
FlushInv ==
    /\ \A p \in Parts \ mapped : disk[p] = memory[p]
    /\ FlushEachWrite =>
         /\ ~lockFile => \A p \in Parts : disk[p] = memory[p]
         /\ \A w \in Writers :
              /\ Active(w) /\ pc[w] # "locked" => lockFile /\ held
              /\ pc[w] = "unflush" =>
                   \A p \in Parts : disk[p] = memory[p]
    /\ ~FlushEachWrite =>
         /\ process \in {"open", "closing"} => lockFile /\ held
         /\ ~lockFile => process # "open" /\ mapped = {}
         /\ \A w \in Writers : pc[w] \notin {"flush", "unflush"}
    /\ ~LateClose /\ process # "open" => \A w \in Writers : pc[w] = "idle"
    /\ process = "open" => mapped = Parts
=============================================================================
