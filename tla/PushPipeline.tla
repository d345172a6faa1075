---------------------------- MODULE PushPipeline ----------------------------
(***************************************************************************)
(* The asynchronous writers of data_base (src/data_base.cpp, from push_all *)
(* to handle_push): reorganize takes the write mutex in the thread of its  *)
(* caller and pops there; each incoming block is then verified, stored in  *)
(* parallel buckets and completed by threads of the pool, every step       *)
(* posted by the one before, and whichever thread comes last gives the     *)
(* mutex back and calls the handler of the caller.                         *)
(*                                                                         *)
(* What the tables hold is left to Chain, the flush lock to WriteProtocol. *)
(* Every call forks from one block that stays in the chain, and index is   *)
(* what is above that block.                                               *)
(***************************************************************************)
EXTENDS Integers, Sequences, FiniteSets

CONSTANTS
    Calls,          \* the calls of reorganize, each made once
    Threads,        \* the threads of the pool
    NoOne,          \* no holder of the mutex
    Branch,         \* [Calls -> Seq(Nat)]: transactions of the incoming blocks
    MayFail,        \* pop and push_heights may fail
    MayStop,        \* the pool may be stopped
    CallersInPool   \* reorganize is called by threads of the pool

ASSUME PipelineAssumption ==
    /\ NoOne \notin Calls
    /\ Branch \in [Calls -> Seq(Nat)]
    /\ IsFiniteSet(Threads)
    /\ {MayFail, MayStop, CallersInPool} \subseteq BOOLEAN

VARIABLES
    pool,       \* "running" or "stopped"
    mutex,      \* holder of write_mutex_
    sequence,   \* the counter of sequential_lock_
    place,      \* where each call is
    code,       \* what each call will tell its handler
    next,       \* the block each call pushes, the first is 1
    expected,   \* answers the join of each block still waits for
    posted,     \* tasks the threads have not begun
    work,       \* the task each thread is at, None when it has none
    position,   \* the next position of the bucket each thread stores
    joined,     \* threads whose answer was the last: they complete the block
    index,      \* the blocks above the fork point, lowest first
    stored,     \* the transactions confirmed for them, by block and position
    answers     \* history: what the handler of each call was told

callVars == <<place, code, next, expected>>
taskVars == <<posted, work, position, joined>>
vars == <<pool, mutex, sequence, callVars, taskVars, index, stored, answers>>

Block(c, n) == [call |-> c, number |-> n]
Blocks == UNION {{Block(c, n) : n \in DOMAIN Branch[c]} : c \in Calls}
TxCount(b) == Branch[b.call][b.number]
Codes == {"success", "failed"}

\* do_push of a block, one bucket of it, or reorganize itself.
Push(c, n) == [call |-> c, block |-> n, buckets |-> 0, bucket |-> 0]
Bucket(c, n, i, k) == [call |-> c, block |-> n, buckets |-> k, bucket |-> i]
Caller(c) == Push(c, 0)
Tasks == [call : Calls, block : Nat, buckets : Nat, bucket : Nat]
None == [call |-> NoOne, block |-> 0, buckets |-> 0, bucket |-> 0]

IsPush(task) == task.buckets = 0 /\ task.block > 0
IsBucket(task) == task.buckets > 0

TypeOK ==
    /\ pool \in {"running", "stopped"}
    /\ mutex \in Calls \cup {NoOne}
    /\ sequence \in Nat
    /\ place \in [Calls -> {"idle", "waiting", "begin", "popping", "pushing",
                            "unlock", "end", "handler", "done"}]
    /\ code \in [Calls -> Codes]
    /\ next \in [Calls -> Nat \ {0}]
    /\ expected \in [Blocks -> Nat]
    /\ posted \in SUBSET Tasks
    /\ work \in [Threads -> Tasks \cup {None}]
    /\ position \in [Threads -> Nat] /\ joined \in SUBSET Threads
    /\ index \in Seq(Blocks)
    /\ stored \in SUBSET (Blocks \X Nat)
    /\ answers \in [Calls -> Seq(Codes)]

Init ==
    /\ pool = "running"
    /\ mutex = NoOne /\ sequence = 0
    /\ place = [c \in Calls |-> "idle"]
    /\ code = [c \in Calls |-> "success"]
    /\ next = [c \in Calls |-> 1]
    /\ expected = [b \in Blocks |-> 0]
    /\ posted = {}
    /\ work = [t \in Threads |-> None]
    /\ position = [t \in Threads |-> 0] /\ joined = {}
    /\ index = <<>> /\ stored = {}
    /\ answers = [c \in Calls |-> <<>>]

-----------------------------------------------------------------------------
\* The pool, as dispatcher::concurrent uses it: any thread without a task
\* begins a posted one, in any order.

Free(t) == [work EXCEPT ![t] = None]

Start(t, task) ==
    /\ pool = "running"
    /\ work[t] = None /\ task \in posted
    /\ posted' = posted \ {task}
    /\ work' = [work EXCEPT ![t] = task]
    /\ position' = [position EXCEPT ![t] = task.bucket]
    /\ place' = IF IsPush(task) \/ IsBucket(task) THEN place
                ELSE [place EXCEPT ![task.call] = "waiting"]
    /\ UNCHANGED <<pool, mutex, sequence, code, next, expected, joined, index,
                   stored, answers>>

\* The threads end the tasks they are at and begin no other.
Stop ==
    /\ MayStop /\ pool = "running"
    /\ pool' = "stopped"
    /\ UNCHANGED <<mutex, sequence, callVars, taskVars, index, stored, answers>>

-----------------------------------------------------------------------------
\* reorganize, in the thread of the caller.

Call(c) ==
    /\ place[c] = "idle" /\ Caller(c) \notin posted
    /\ IF CallersInPool
         THEN posted' = posted \cup {Caller(c)} /\ UNCHANGED place
         ELSE place' = [place EXCEPT ![c] = "waiting"] /\ UNCHANGED posted
    /\ UNCHANGED <<pool, mutex, sequence, code, next, expected, work, position,
                   joined, index, stored, answers>>

Lock(c) ==
    /\ place[c] = "waiting" /\ mutex = NoOne
    /\ mutex' = c
    /\ place' = [place EXCEPT ![c] = "begin"]
    /\ UNCHANGED <<pool, sequence, code, next, expected, taskVars, index, stored,
                   answers>>

\* The call fails: every handler on the way passes the code on to handle_push.
Fail(c) ==
    /\ place' = [place EXCEPT ![c] = "unlock"]
    /\ code' = [code EXCEPT ![c] = "failed"]

\* begin_write: the sequence must become odd.
BeginWrite(c) ==
    /\ place[c] = "begin"
    /\ sequence' = sequence + 1
    /\ IF sequence' % 2 = 1
         THEN place' = [place EXCEPT ![c] = "popping"] /\ UNCHANGED code
         ELSE Fail(c)
    /\ UNCHANGED <<pool, mutex, next, expected, taskVars, index, stored, answers>>

\* Mutant: the loop ends one block early.
PushNextButLast(c, n) ==
    /\ next' = [next EXCEPT ![c] = n]
    /\ IF n < Len(Branch[c])
         THEN /\ posted' = posted \cup {Push(c, n)}
              /\ place' = [place EXCEPT ![c] = "pushing"]
         ELSE place' = [place EXCEPT ![c] = "unlock"] /\ UNCHANGED posted

\* push_next(success, n): the next block is posted, or the loop ends.
PushNext(c, n) ==
    /\ next' = [next EXCEPT ![c] = n]
    /\ IF n <= Len(Branch[c])
         THEN /\ posted' = posted \cup {Push(c, n)}
              /\ place' = [place EXCEPT ![c] = "pushing"]
         ELSE place' = [place EXCEPT ![c] = "unlock"] /\ UNCHANGED posted

\* pop_above: pop the top block.
Pop(c) ==
    /\ place[c] = "popping" /\ index # <<>>
    /\ index' = SubSeq(index, 1, Len(index) - 1)
    /\ stored' = {s \in stored : s[1] # index[Len(index)]}
    /\ UNCHANGED <<pool, mutex, sequence, callVars, taskVars, answers>>

PopFails(c) ==
    /\ MayFail /\ place[c] = "popping"
    /\ Fail(c)
    /\ UNCHANGED <<pool, mutex, sequence, next, expected, taskVars, index,
                   stored, answers>>

\* Mutant: a lock of the caller's scope instead of lock and unlock.
PoppedAllScoped(c) ==
    /\ place[c] = "popping" /\ index = <<>>
    /\ PushNext(c, 1)
    /\ mutex' = NoOne
    /\ work' = [t \in Threads |->
                  IF work[t] = Caller(c) /\ Len(Branch[c]) > 0 THEN None
                  ELSE work[t]]
    /\ UNCHANGED <<pool, sequence, code, expected, position, joined, index,
                   stored, answers>>

\* handle_pop: push_all.  A caller that posted a block is back; its thread,
\* one of the pool if it runs there, is free again.
PoppedAll(c) ==
    /\ place[c] = "popping" /\ index = <<>>
    /\ PushNext(c, 1)
    /\ work' = [t \in Threads |->
                  IF work[t] = Caller(c) /\ Len(Branch[c]) > 0 THEN None
                  ELSE work[t]]
    /\ UNCHANGED <<pool, mutex, sequence, code, expected, position, joined,
                   index, stored, answers>>

-----------------------------------------------------------------------------
\* The blocks, in the threads of the pool.

MinOf(a, b) == IF a < b THEN a ELSE b

\* verify_push: it has transactions and belongs on top of the chain.
CanPush(c, n) ==
    /\ Branch[c][n] > 0
    /\ Len(index) + 1 = n
    /\ n > 1 => index[n - 1] = Block(c, n - 1)

\* do_push: the buckets are posted, and the join waits for each of them.
DoPush(t) ==
    /\ IsPush(work[t]) /\ place[work[t].call] = "pushing"
    /\ LET c == work[t].call
           n == work[t].block
           buckets == MinOf(Cardinality(Threads), Branch[c][n])
       IN  IF CanPush(c, n)
             THEN /\ expected' = [expected EXCEPT ![Block(c, n)] = buckets]
                  /\ posted' = posted \cup
                       {Bucket(c, n, i, buckets) : i \in 0 .. buckets - 1}
                  /\ work' = Free(t)
                  /\ UNCHANGED <<place, code>>
             ELSE Fail(c) /\ UNCHANGED <<expected, posted, work>>
    /\ UNCHANGED <<pool, mutex, sequence, next, position, joined, index, stored,
                   answers>>

\* A thread stores a bucket, and has not gone on from the join.
Storing(t) ==
    /\ IsBucket(work[t]) /\ t \notin joined
    /\ place[work[t].call] = "pushing"

\* push_transactions: the transactions of the bucket, one per step.
StoreTransaction(t) ==
    /\ Storing(t)
    /\ LET b == Block(work[t].call, work[t].block)
       IN  /\ position[t] < TxCount(b)
           /\ stored' = stored \cup {<<b, position[t]>>}
    /\ position' = [position EXCEPT ![t] = @ + work[t].buckets]
    /\ UNCHANGED <<pool, mutex, sequence, callVars, posted, work, joined, index,
                   answers>>

\* do_push_transactions, to its end: the bucket is stored, and the thread
\* calls the join.
BucketDone(t) ==
    /\ Storing(t)
    /\ position[t] >= TxCount(Block(work[t].call, work[t].block))

\* Mutant: the first bucket to answer completes the block.
AnswerFirst(t) ==
    /\ BucketDone(t)
    /\ joined' = joined \cup {t}
    /\ UNCHANGED <<pool, mutex, sequence, callVars, posted, work, position,
                   index, stored, answers>>

\* synchronize: the last to answer goes on, and one too many is ignored.
Answer(t) ==
    /\ BucketDone(t)
    /\ LET b == Block(work[t].call, work[t].block)
       IN  /\ expected' = [expected EXCEPT ![b] = IF @ = 0 THEN 0 ELSE @ - 1]
           /\ IF expected[b] = 1
                THEN joined' = joined \cup {t} /\ UNCHANGED work
                ELSE work' = Free(t) /\ UNCHANGED joined
    /\ UNCHANGED <<pool, mutex, sequence, place, code, next, posted, position,
                   index, stored, answers>>

\* handle_push_transactions: push_heights, the block, and on to push_next.
Complete(t) ==
    /\ t \in joined
    /\ LET c == work[t].call
           n == work[t].block
       IN  /\ index' = Append(index, Block(c, n))
           /\ PushNext(c, n + 1)
           /\ work' = IF n < Len(Branch[c]) THEN Free(t) ELSE work
    /\ joined' = joined \ {t}
    /\ UNCHANGED <<pool, mutex, sequence, code, expected, position, stored,
                   answers>>

\* Mutant: push_heights fails and the handler is forgotten.
CompleteFailsSilently(t) ==
    /\ MayFail
    /\ t \in joined
    /\ joined' = joined \ {t}
    /\ work' = Free(t)
    /\ UNCHANGED <<pool, mutex, sequence, callVars, posted, position, index,
                   stored, answers>>

\* push_heights fails: an output the block spends is not there.
CompleteFails(t) ==
    /\ MayFail
    /\ t \in joined
    /\ Fail(work[t].call)
    /\ joined' = joined \ {t}
    /\ UNCHANGED <<pool, mutex, sequence, next, expected, posted, work, position,
                   index, stored, answers>>

-----------------------------------------------------------------------------
\* handle_push, in whichever thread got there.

\* Mutant: the failing path calls the handler before it unlocks.
UnlockIfWell(c) ==
    /\ place[c] = "unlock"
    /\ IF code[c] = "success"
         THEN mutex' = NoOne /\ place' = [place EXCEPT ![c] = "end"]
         ELSE place' = [place EXCEPT ![c] = "handler"] /\ UNCHANGED mutex
    /\ UNCHANGED <<pool, sequence, code, next, expected, taskVars, index, stored,
                   answers>>

Unlock(c) ==
    /\ place[c] = "unlock"
    /\ mutex' = NoOne
    /\ place' = [place EXCEPT ![c] =
                   IF code[c] = "success" THEN "end" ELSE "handler"]
    /\ UNCHANGED <<pool, sequence, code, next, expected, taskVars, index, stored,
                   answers>>

\* end_write: the sequence must become even.
EndWrite(c) ==
    /\ place[c] = "end"
    /\ sequence' = sequence + 1
    /\ code' = [code EXCEPT ![c] = IF sequence' % 2 = 0 THEN "success" ELSE "failed"]
    /\ place' = [place EXCEPT ![c] = "handler"]
    /\ UNCHANGED <<pool, mutex, next, expected, taskVars, index, stored, answers>>

Handle(c) ==
    /\ place[c] = "handler"
    /\ answers' = [answers EXCEPT ![c] = Append(@, code[c])]
    /\ place' = [place EXCEPT ![c] = "done"]
    /\ work' = [t \in Threads |-> IF work[t].call = c THEN None ELSE work[t]]
    /\ UNCHANGED <<pool, mutex, sequence, code, next, expected, posted, position,
                   joined, index, stored>>

-----------------------------------------------------------------------------
CallStep(c) ==
    \/ Lock(c)
    \/ BeginWrite(c)
    \/ Pop(c)
    \/ PopFails(c)
    \/ PoppedAll(c)
    \/ Unlock(c)
    \/ EndWrite(c)
    \/ Handle(c)

ThreadStep(t) ==
    \/ \E task \in posted : Start(t, task)
    \/ DoPush(t)
    \/ StoreTransaction(t)
    \/ Answer(t)
    \/ Complete(t)
    \/ CompleteFails(t)

Next ==
    \/ \E c \in Calls : Call(c) \/ CallStep(c)
    \/ \E t \in Threads : ThreadStep(t)
    \/ Stop

Spec == Init /\ [][Next]_vars

\* Every thread, those of the callers and those of the pool, keeps running.
Fairness ==
    /\ \A c \in Calls : WF_vars(CallStep(c))
    /\ \A t \in Threads : WF_vars(ThreadStep(t))

FairSpec == Spec /\ Fairness

-----------------------------------------------------------------------------
\* Properties.

\* "We never invoke the caller's handler under the mutex [...] and we always
\* invoke the caller's handler exactly once" (handle_push), its safety half:
\* however the threads interleave, no handler is called twice, and none while
\* a task of its call is posted or at work, or the call holds the mutex.
HandlerOnce ==
    \A c \in Calls : answers[c] # <<>> =>
        /\ Len(answers[c]) = 1 /\ mutex # c
        /\ \A task \in posted : task.call # c
        /\ \A t \in Threads : work[t].call # c

\* "Designed for write exclusivity" (reorganize): a thread of the pool works
\* only for the call that holds the mutex, though that call has returned.
PoolWorksForHolder ==
    \A task \in posted \cup {work[t] : t \in Threads} :
        IsPush(task) \/ IsBucket(task) =>
            mutex = task.call \/ place[task.call] \in {"end", "handler"}

\* The header of a block goes into the index after its last transaction:
\* every block of the index has all its transactions stored.
BlocksAreWhole ==
    \A i \in DOMAIN index :
        \A p \in 0 .. TxCount(index[i]) - 1 : <<index[i], p>> \in stored

\* A call that gives the mutex back with success has replaced what was above
\* the fork point by its branch, whole and in order.
SuccessIsBranch ==
    \A c \in Calls :
        place[c] = "unlock" /\ code[c] = "success" =>
            index = [n \in DOMAIN Branch[c] |-> Block(c, n)]

\* "We never fail to clear the mutex, and we always invoke the caller's
\* handler" (handle_push): every call of reorganize gets to its handler,
\* unless the pool is stopped.
HandlerIsCalled ==
    \A c \in Calls : place[c] = "waiting" ~> answers[c] # <<>> \/ pool = "stopped"

\* The same, without asking that the pool goes on.
HandlerIsAlwaysCalled ==
    \A c \in Calls : place[c] = "waiting" ~> answers[c] # <<>>
=============================================================================
