------------------------- MODULE PushPipelineProofs -------------------------
(***************************************************************************)
(* Theorems about the push pipeline, for any calls and branches and any    *)
(* number of threads, with failures and a pool that may stop at any step.  *)
(***************************************************************************)
EXTENDS PushPipeline, FiniteSetTheorems, TLAPS

USE PipelineAssumption DEF PipelineAssumption

-----------------------------------------------------------------------------
\* The tasks of a call.

PostedOf(c) == {task \in posted : task.call = c}
WorkersOf(c) == {t \in Threads : work[t].call = c}
JoinedOf(c) == {t \in joined : work[t].call = c}

\* The tasks of a call that no thread has brought to its join.
Open(c) == PostedOf(c) \cup {work[t] : t \in WorkersOf(c) \ joined}

\* The buckets of the block at work.
Size(c) == MinOf(Cardinality(Threads), Branch[c][next[c]])
Buckets(c) == {Bucket(c, next[c], i, Size(c)) : i \in 0 .. Size(c) - 1}

\* A call that pushes is at do_push of a block, at its buckets, or in the
\* thread whose bucket was the last.
AtBlock(c) == JoinedOf(c) = {} /\ Open(c) \subseteq {Push(c, next[c])}

AtBuckets(c) ==
    /\ JoinedOf(c) = {} /\ Open(c) \subseteq Buckets(c)
    /\ Branch[c][next[c]] > 0
    /\ expected[Block(c, next[c])] = Cardinality(Open(c))

AtJoin(c) ==
    /\ Open(c) = {}
    /\ \A t \in WorkersOf(c) : work[t] \in Buckets(c)
    /\ \A t, u \in WorkersOf(c) : t = u

InCaller == {"waiting", "begin", "popping"}
InHandlers == {"unlock", "end", "handler"}

\* The tasks a call has at each of its places.
CallInv(c) ==
    /\ place[c] = "idle" =>
         PostedOf(c) \subseteq {Caller(c)} /\ WorkersOf(c) = {}
    /\ place[c] \in InCaller =>
         PostedOf(c) = {} /\ \A t \in WorkersOf(c) : work[t] = Caller(c)
    /\ place[c] = "pushing" =>
         /\ next[c] \in DOMAIN Branch[c]
         /\ AtBlock(c) \/ AtBuckets(c) \/ AtJoin(c)
    /\ place[c] \in InHandlers =>
         PostedOf(c) = {} /\ \A t, u \in WorkersOf(c) : t = u
    /\ place[c] = "done" => PostedOf(c) = {} /\ WorkersOf(c) = {}
    /\ place[c] # "pushing" => JoinedOf(c) = {}

\* No task is in two places.
Distinct ==
    /\ \A t \in Threads : work[t] \notin posted
    /\ \A t, u \in Threads : work[t] = work[u] /\ work[t] # None => t = u
    /\ \A t \in joined : work[t] # None

TaskInv == Distinct /\ \A c \in Calls : CallInv(c)

\* The mutex is that of the call between its lock and its unlock.
MutexInv ==
    \A c \in Calls :
        mutex = c <=> place[c] \in {"begin", "popping", "pushing", "unlock"}

\* A handler is called in the last step of its call.
AnswerInv ==
    \A c \in Calls : IF place[c] = "done" THEN Len(answers[c]) = 1
                                          ELSE answers[c] = <<>>

\* The blocks that a call has pushed are the index.
Pushed(c, n) == [m \in 1 .. n |-> Block(c, m)]

IndexAt(c) ==
    /\ place[c] = "pushing" => index = Pushed(c, next[c] - 1)
    /\ place[c] = "unlock" /\ code[c] = "success" =>
         index = Pushed(c, Len(Branch[c]))

IndexInv ==
    /\ \A c \in Calls : IndexAt(c)
    /\ \A i \in DOMAIN index : index[i].number = i

\* The position p is one of those q, q + k, q + 2 * k and so on.
From(q, k, p) == \E j \in Nat : p = q + j * k

\* A transaction that a bucket of the call still has to store.
Pending(c, p) ==
    \/ \E task \in PostedOf(c) : From(task.bucket, task.buckets, p)
    \/ \E t \in WorkersOf(c) \ joined : From(position[t], work[t].buckets, p)

\* Once the buckets are posted, every transaction is stored or pending.
WholeAt(c) ==
    place[c] = "pushing" /\ (\A task \in Open(c) : IsBucket(task)) =>
        \A p \in 0 .. TxCount(Block(c, next[c])) - 1 :
            <<Block(c, next[c]), p>> \in stored \/ Pending(c, p)

WholeInv == BlocksAreWhole /\ \A c \in Calls : WholeAt(c)

-----------------------------------------------------------------------------
\* Buckets, and what a step leaves of the calls it does not belong to.

LEMMA SizeTyped ==
    ASSUME TypeOK, NEW c \in Calls, next[c] \in DOMAIN Branch[c]
    PROVE  /\ Size(c) \in Nat /\ Branch[c][next[c]] \in Nat
           /\ next[c] \in Nat \ {0}
<1>1. Cardinality(Threads) \in Nat
  BY FS_CardinalityType
<1>2. Branch[c] \in Seq(Nat) /\ next[c] \in Nat \ {0}
  BY DEF TypeOK
<1>3. Branch[c][next[c]] \in Nat
  BY <1>2
<1>. QED
  BY <1>1, <1>2, <1>3 DEF Size, MinOf

LEMMA IntervalCounted ==
    ASSUME NEW k \in Nat
    PROVE  IsFiniteSet(0 .. k - 1) /\ Cardinality(0 .. k - 1) = k
<1>1. 0 \in Int /\ k - 1 \in Int
  OBVIOUS
<1>. QED
  BY <1>1, FS_Interval

LEMMA BucketsCounted ==
    ASSUME TypeOK, NEW c \in Calls, next[c] \in DOMAIN Branch[c]
    PROVE  IsFiniteSet(Buckets(c)) /\ Cardinality(Buckets(c)) = Size(c)
<1> DEFINE numbers == 0 .. Size(c) - 1
           f == [i \in numbers |-> Bucket(c, next[c], i, Size(c))]
<1>1. Size(c) \in Nat
  BY SizeTyped
<1>2. IsFiniteSet(numbers) /\ Cardinality(numbers) = Size(c)
  BY <1>1, IntervalCounted
<1>3. f \in Bijection(numbers, Buckets(c))
  <2>1. f \in [numbers -> Buckets(c)]
    BY DEF Buckets
  <2>2. ASSUME NEW i \in numbers, NEW j \in numbers, f[i] = f[j]
        PROVE  i = j
    <3>1. f[i].bucket = i /\ f[j].bucket = j
      BY DEF Bucket
    <3>. QED
      BY <2>2, <3>1
  <2>3. \A b \in Buckets(c) : \E i \in numbers : f[i] = b
    BY DEF Buckets
  <2>. HIDE DEF f
  <2>. QED
    BY <2>1, <2>2, <2>3
    DEF Bijection, Injection, IsInjective, Surjection
<1>. QED
  BY <1>2, <1>3, FS_Bijection DEF ExistsBijection

LEMMA Frame ==
    ASSUME TypeOK, TypeOK', NEW d \in Calls, CallInv(d),
           place'[d] = place[d], next'[d] = next[d],
           PostedOf(d)' = PostedOf(d),
           WorkersOf(d)' = WorkersOf(d), JoinedOf(d)' = JoinedOf(d),
           \A t \in WorkersOf(d) : work'[t] = work[t],
           next[d] \in DOMAIN Branch[d] =>
             expected'[Block(d, next[d])] = expected[Block(d, next[d])]
    PROVE  CallInv(d)'
<1>1. WorkersOf(d)' \ joined' = WorkersOf(d) \ joined
  BY DEF WorkersOf, JoinedOf, TypeOK
<1>2. Open(d)' = Open(d)
  BY <1>1 DEF Open, WorkersOf
<1>3. Size(d)' = Size(d) /\ Buckets(d)' = Buckets(d)
  BY DEF Size, Buckets
<1>4. /\ AtBlock(d) => AtBlock(d)'
      /\ next[d] \in DOMAIN Branch[d] /\ AtBuckets(d) => AtBuckets(d)'
      /\ AtJoin(d) => AtJoin(d)'
  BY <1>2, <1>3 DEF AtBlock, AtBuckets, AtJoin
<1>. QED
  BY <1>4 DEF CallInv

\* What a step changes belongs to the call c.
OnlyOf(c) ==
    /\ \A d \in Calls \ {c} : place'[d] = place[d] /\ next'[d] = next[d]
    /\ \A task \in Tasks :
          task.call # c => (task \in posted' <=> task \in posted)
    /\ \A t \in Threads :
          work[t].call \notin {c, NoOne} \/ work'[t].call \notin {c, NoOne} =>
             work'[t] = work[t] /\ (t \in joined' <=> t \in joined)
    /\ \A b \in Blocks : b.call # c => expected'[b] = expected[b]

LEMMA OthersKept ==
    ASSUME TypeOK, TypeOK', TaskInv, NEW c \in Calls, OnlyOf(c)
    PROVE  \A d \in Calls \ {c} : CallInv(d)'
<1>. SUFFICES ASSUME NEW d \in Calls \ {c} PROVE CallInv(d)'
  OBVIOUS
<1>1. place'[d] = place[d] /\ next'[d] = next[d]
  BY DEF OnlyOf
<1>2. PostedOf(d)' = PostedOf(d)
  <2>1. posted \subseteq Tasks /\ posted' \subseteq Tasks
    BY DEF TypeOK
  <2>. QED
    BY <2>1 DEF OnlyOf, PostedOf
<1>3. /\ WorkersOf(d)' = WorkersOf(d)
      /\ \A t \in WorkersOf(d) : work'[t] = work[t]
  BY DEF OnlyOf, WorkersOf
<1>4. JoinedOf(d)' = JoinedOf(d)
  <2>1. joined \subseteq Threads /\ joined' \subseteq Threads
    BY DEF TypeOK
  <2>. QED
    BY <2>1 DEF OnlyOf, JoinedOf
<1>5. next[d] \in DOMAIN Branch[d] =>
        expected'[Block(d, next[d])] = expected[Block(d, next[d])]
  <2>. SUFFICES ASSUME next[d] \in DOMAIN Branch[d]
                PROVE  expected'[Block(d, next[d])] = expected[Block(d, next[d])]
    OBVIOUS
  <2>1. Block(d, next[d]) \in Blocks
    BY DEF Blocks
  <2>2. Block(d, next[d]).call = d
    BY DEF Block
  <2>. QED
    BY <2>1, <2>2 DEF OnlyOf
<1>. QED
  BY <1>1, <1>2, <1>3, <1>4, <1>5, Frame DEF TaskInv

-----------------------------------------------------------------------------
\* Where the call of a thread is.

LEMMA TaskHasCall ==
    ASSUME TypeOK, NEW t \in Threads, work[t] # None
    PROVE  work[t] \in Tasks /\ work[t].call \in Calls
BY DEF TypeOK, Tasks

LEMMA NotNone ==
    ASSUME NEW task, IsPush(task) \/ IsBucket(task)
    PROVE  task # None
BY DEF IsPush, IsBucket, None

LEMMA BucketsTyped ==
    ASSUME TypeOK, NEW c \in Calls, next[c] \in DOMAIN Branch[c],
           NEW task \in Buckets(c)
    PROVE  /\ IsBucket(task) /\ ~ IsPush(task)
           /\ task \in Tasks /\ task.call = c /\ task.block = next[c]
<1>1. PICK i \in 0 .. Size(c) - 1 : task = Bucket(c, next[c], i, Size(c))
  BY DEF Buckets
<1>2. Size(c) \in Nat /\ next[c] \in Nat
  BY SizeTyped
<1>. QED
  BY <1>1, <1>2 DEF Bucket, IsBucket, IsPush, Tasks

LEMMA PushAt ==
    ASSUME TypeOK, TaskInv, NEW t \in Threads, IsPush(work[t]),
           NEW c, c = work[t].call, place[c] = "pushing"
    PROVE  /\ c \in Calls /\ next[c] \in DOMAIN Branch[c]
           /\ work[t] = Push(c, next[c])
           /\ PostedOf(c) = {} /\ WorkersOf(c) = {t} /\ JoinedOf(c) = {}
<1>1. c \in Calls /\ work[t] \in Tasks
  BY TaskHasCall, NotNone
<1>2. next[c] \in DOMAIN Branch[c]
  BY <1>1 DEF TaskInv, CallInv
<1>3. t \in WorkersOf(c)
  BY DEF WorkersOf
<1>4. t \notin joined => work[t] \in Open(c)
  BY <1>3 DEF Open
<1>5. t \in joined => t \in JoinedOf(c)
  BY DEF JoinedOf
<1>6. ~ AtBuckets(c) /\ ~ AtJoin(c)
  BY <1>1, <1>2, <1>3, <1>4, <1>5, BucketsTyped DEF AtBuckets, AtJoin
<1>7. AtBlock(c)
  BY <1>1, <1>6 DEF TaskInv, CallInv
<1>8. work[t] = Push(c, next[c])
  BY <1>4, <1>5, <1>7 DEF AtBlock
<1>9. PostedOf(c) = {}
  <2>1. PostedOf(c) \subseteq {work[t]}
    BY <1>7, <1>8 DEF AtBlock, Open
  <2>2. work[t] \notin PostedOf(c)
    BY DEF PostedOf, TaskInv, Distinct
  <2>. QED
    BY <2>1, <2>2
<1>10. ASSUME NEW u \in WorkersOf(c) PROVE u = t
  <2>1. u \in Threads /\ u \notin joined
    BY <1>7 DEF AtBlock, WorkersOf, JoinedOf
  <2>2. work[u] = work[t]
    BY <1>7, <1>8, <2>1 DEF AtBlock, Open
  <2>. QED
    BY <2>1, <2>2, NotNone DEF TaskInv, Distinct
<1>. QED
  BY <1>1, <1>2, <1>3, <1>7, <1>8, <1>9, <1>10 DEF AtBlock

LEMMA BucketAt ==
    ASSUME TypeOK, TaskInv, NEW t \in Threads, Storing(t),
           NEW c, c = work[t].call
    PROVE  /\ c \in Calls /\ next[c] \in DOMAIN Branch[c]
           /\ AtBuckets(c) /\ place[c] = "pushing"
           /\ work[t] \in Open(c) /\ work[t].block = next[c]
<1>1. c \in Calls /\ work[t] \in Tasks /\ place[c] = "pushing"
  BY TaskHasCall, NotNone DEF Storing
<1>2. next[c] \in DOMAIN Branch[c]
  BY <1>1 DEF TaskInv, CallInv
<1>3. work[t] \in Open(c)
  BY DEF Storing, Open, WorkersOf
<1>4. ~ AtBlock(c) /\ ~ AtJoin(c)
  BY <1>3 DEF Storing, AtBlock, AtJoin, IsBucket, Push
<1>5. AtBuckets(c)
  BY <1>1, <1>4 DEF TaskInv, CallInv
<1>. QED
  BY <1>1, <1>2, <1>3, <1>5, BucketsTyped DEF AtBuckets

LEMMA JoinAt ==
    ASSUME TypeOK, TaskInv, NEW t \in joined, NEW c, c = work[t].call
    PROVE  /\ t \in Threads /\ c \in Calls /\ next[c] \in DOMAIN Branch[c]
           /\ place[c] = "pushing" /\ work[t].block = next[c]
           /\ PostedOf(c) = {} /\ WorkersOf(c) = {t} /\ JoinedOf(c) = {t}
<1>1. t \in Threads /\ c \in Calls
  BY TaskHasCall DEF TypeOK, TaskInv, Distinct
<1>2. t \in WorkersOf(c) /\ t \in JoinedOf(c)
  BY <1>1 DEF WorkersOf, JoinedOf
<1>3. place[c] = "pushing" /\ next[c] \in DOMAIN Branch[c]
  BY <1>1, <1>2 DEF TaskInv, CallInv
<1>4. AtJoin(c)
  BY <1>1, <1>2, <1>3 DEF TaskInv, CallInv, AtBlock, AtBuckets
<1>5. work[t].block = next[c]
  BY <1>1, <1>2, <1>3, <1>4, BucketsTyped DEF AtJoin
<1>6. PostedOf(c) = {} /\ WorkersOf(c) = {t}
  BY <1>2, <1>4 DEF AtJoin, Open
<1>7. JoinedOf(c) = {t}
  BY <1>2, <1>6 DEF JoinedOf, WorkersOf, TypeOK
<1>. QED
  BY <1>1, <1>3, <1>5, <1>6, <1>7

-----------------------------------------------------------------------------
\* Types.

LEMMA PushTyped ==
    ASSUME NEW c \in Calls, NEW n \in Nat
    PROVE  Push(c, n) \in Tasks
BY DEF Push, Tasks

LEMMA BlockTyped ==
    ASSUME NEW c \in Calls, NEW n \in DOMAIN Branch[c]
    PROVE  Block(c, n) \in Blocks
BY DEF Blocks

LEMMA PushNextTyped ==
    ASSUME TypeOK, NEW c \in Calls, NEW n \in Nat \ {0}, PushNext(c, n)
    PROVE  /\ next' \in [Calls -> Nat \ {0}]
           /\ posted' \in SUBSET Tasks
           /\ place' \in [Calls -> {"idle", "waiting", "begin", "popping",
                                    "pushing", "unlock", "end", "handler", "done"}]
<1>1. next' \in [Calls -> Nat \ {0}]
  BY DEF PushNext, TypeOK
<1>2. posted' \in SUBSET Tasks
  <2>1. posted' = posted \/ posted' = posted \cup {Push(c, n)}
    BY DEF PushNext
  <2>. QED
    BY <2>1, PushTyped DEF TypeOK
<1>3. \/ place' = [place EXCEPT ![c] = "pushing"]
      \/ place' = [place EXCEPT ![c] = "unlock"]
  BY DEF PushNext
<1>. QED
  BY <1>1, <1>2, <1>3 DEF TypeOK

LEMMA TypeInit == Init => TypeOK
BY DEF Init, TypeOK, Codes

LEMMA TypeCall ==
    ASSUME TypeOK, NEW c \in Calls, Call(c) \/ CallStep(c)
    PROVE  TypeOK'
<1>. USE DEF TypeOK, Codes
<1>1. CASE Call(c)
  <2>1. Caller(c) \in Tasks
    BY PushTyped DEF Caller
  <2>2. posted' \in SUBSET Tasks
    BY <1>1, <2>1 DEF Call
  <2>3. \/ place' = place
        \/ place' = [place EXCEPT ![c] = "waiting"]
    BY <1>1 DEF Call
  <2>. QED
    BY <1>1, <2>2, <2>3 DEF Call
<1>2. CASE Lock(c)
  BY <1>2 DEF Lock, taskVars, callVars
<1>3. CASE BeginWrite(c)
  <2>1. \/ /\ place' = [place EXCEPT ![c] = "popping"]
           /\ code' = code
        \/ Fail(c)
    BY <1>3 DEF BeginWrite
  <2>2. /\ place' \in [Calls -> {"idle", "waiting", "begin", "popping", "pushing",
                                 "unlock", "end", "handler", "done"}]
        /\ code' \in [Calls -> Codes]
    BY <2>1 DEF Fail
  <2>. QED
    BY <1>3, <2>2 DEF BeginWrite, taskVars
<1>4. CASE Pop(c)
  <2>1. SubSeq(index, 1, Len(index) - 1) \in Seq(Blocks)
    BY <1>4 DEF Pop
  <2>. QED
    BY <1>4, <2>1 DEF Pop, taskVars, callVars
<1>5. CASE PopFails(c)
  BY <1>5 DEF PopFails, Fail, taskVars, callVars
<1>6. CASE PoppedAll(c)
  <2>1. work' \in [Threads -> Tasks \cup {None}]
    BY <1>6 DEF PoppedAll
  <2>2. PushNext(c, 1)
    BY <1>6 DEF PoppedAll
  <2>. QED
    BY <1>6, <2>1, <2>2, PushNextTyped DEF PoppedAll, taskVars, callVars
<1>7. CASE Unlock(c)
  BY <1>7 DEF Unlock, taskVars, callVars
<1>8. CASE EndWrite(c)
  BY <1>8 DEF EndWrite, taskVars, callVars
<1>9. CASE Handle(c)
  <2>1. work' \in [Threads -> Tasks \cup {None}]
    BY <1>9 DEF Handle
  <2>2. answers' \in [Calls -> Seq(Codes)]
    BY <1>9 DEF Handle
  <2>. QED
    BY <1>9, <2>1, <2>2 DEF Handle, taskVars, callVars
<1>. QED
  BY <1>1, <1>2, <1>3, <1>4, <1>5, <1>6, <1>7, <1>8, <1>9 DEF CallStep

LEMMA TypeThread ==
    ASSUME TypeOK, TaskInv, NEW t \in Threads, ThreadStep(t)
    PROVE  TypeOK'
<1>. USE DEF TypeOK, Codes
<1> DEFINE c == work[t].call
           n == work[t].block
<1>1. ASSUME NEW task \in posted, Start(t, task) PROVE TypeOK'
  <2>1. task \in Tasks /\ task.bucket \in Nat
    BY DEF Tasks
  <2>. QED
    BY <1>1, <2>1 DEF Start, taskVars, callVars
<1>2. CASE DoPush(t)
  <2>1. /\ c \in Calls /\ n \in DOMAIN Branch[c] /\ n \in Nat \ {0}
        /\ next[c] = n
    <3>1. /\ c \in Calls /\ next[c] \in DOMAIN Branch[c]
          /\ work[t] = Push(c, next[c])
      BY <1>2, PushAt DEF DoPush
    <3>. QED
      BY <3>1 DEF Push
  <2>2. CASE CanPush(c, n)
    <3>1. Size(c) \in Nat
      BY <2>1, SizeTyped
    <3>2. /\ expected' = [expected EXCEPT ![Block(c, n)] = Size(c)]
          /\ posted' = posted \cup Buckets(c)
          /\ work' = Free(t)
          /\ UNCHANGED <<place, code>>
      BY <1>2, <2>1, <2>2 DEF DoPush, Size, Buckets
    <3>3. Buckets(c) \subseteq Tasks
      BY <2>1, BucketsTyped
    <3>. QED
      BY <1>2, <3>1, <3>2, <3>3 DEF DoPush, Free
  <2>3. CASE ~ CanPush(c, n)
    BY <1>2, <2>1, <2>3 DEF DoPush, Fail
  <2>. QED
    BY <2>2, <2>3
<1>3. CASE StoreTransaction(t)
  <2>1. /\ c \in Calls /\ next[c] \in DOMAIN Branch[c]
        /\ next[c] = n /\ work[t] \in Tasks
    BY <1>3, BucketAt, TaskHasCall, NotNone DEF StoreTransaction, Storing
  <2>2. Block(c, n) \in Blocks
    BY <2>1, BlockTyped
  <2>3. work[t].buckets \in Nat
    BY <2>1 DEF Tasks
  <2>. QED
    BY <1>3, <2>2, <2>3 DEF StoreTransaction, callVars
<1>4. CASE Answer(t)
  <2>1. expected' \in [Blocks -> Nat]
    <3> DEFINE b == Block(c, n)
    <3>1. expected' = [expected EXCEPT ![b] = IF @ = 0 THEN 0 ELSE @ - 1]
      BY <1>4 DEF Answer
    <3>2. b \in Blocks
      BY <1>4, BucketAt, BlockTyped DEF Answer, BucketDone
    <3>3. expected[b] \in Nat
      BY <3>2
    <3>. HIDE DEF b
    <3>4. (IF expected[b] = 0 THEN 0 ELSE expected[b] - 1) \in Nat
      BY <3>3
    <3>. QED
      BY <3>1, <3>4
  <2>. QED
    BY <1>4, <2>1 DEF Answer, Free
<1>5. CASE Complete(t)
  <2>1. /\ c \in Calls /\ next[c] \in DOMAIN Branch[c]
        /\ n \in DOMAIN Branch[c] /\ n \in Nat \ {0}
    BY <1>5, JoinAt DEF Complete
  <2>2. Append(index, Block(c, n)) \in Seq(Blocks)
    BY <2>1, BlockTyped
  <2>3. PushNext(c, n + 1)
    BY <1>5 DEF Complete
  <2>4. work' \in [Threads -> Tasks \cup {None}]
    BY <1>5 DEF Complete, Free
  <2>5. n + 1 \in Nat \ {0}
    BY <2>1
  <2>. QED
    BY <1>5, <2>1, <2>2, <2>3, <2>4, <2>5, PushNextTyped DEF Complete
<1>6. CASE CompleteFails(t)
  BY <1>6 DEF CompleteFails, Fail
<1>. QED
  BY <1>1, <1>2, <1>3, <1>4, <1>5, <1>6 DEF ThreadStep

LEMMA TypeStep == TypeOK /\ TaskInv /\ [Next]_vars => TypeOK'
<1>1. TypeOK /\ Stop => TypeOK'
  BY DEF TypeOK, Stop, taskVars, callVars
<1>2. TypeOK /\ UNCHANGED vars => TypeOK'
  BY DEF TypeOK, vars, taskVars, callVars
<1>. QED
  BY <1>1, <1>2, TypeCall, TypeThread DEF Next

-----------------------------------------------------------------------------
\* Where the tasks are, step by step.

LEMMA TaskInit == Init => TaskInv
<1>. SUFFICES ASSUME Init PROVE TaskInv
  OBVIOUS
<1>1. \A c \in Calls : PostedOf(c) = {} /\ WorkersOf(c) = {} /\ JoinedOf(c) = {}
  BY DEF Init, PostedOf, WorkersOf, JoinedOf, None
<1>2. \A c \in Calls : CallInv(c)
  BY <1>1 DEF CallInv, Init, InCaller, InHandlers
<1>3. Distinct
  BY DEF Distinct, Init
<1>. QED
  BY <1>2, <1>3 DEF TaskInv

\* A step that leaves the tasks and the threads alone.
LEMMA QuietStep ==
    ASSUME TypeOK, TypeOK', TaskInv, NEW c \in Calls,
           UNCHANGED <<next, expected, posted, work, joined>>,
           \A d \in Calls \ {c} : place'[d] = place[d],
           \/ place'[c] = place[c]
           \/ place[c] \in InCaller /\ place'[c] \in InCaller \cup {"unlock"}
           \/ place[c] \in InHandlers /\ place'[c] \in InHandlers
    PROVE  TaskInv'
<1>1. OnlyOf(c)
  BY DEF OnlyOf
<1>2. Distinct'
  BY DEF Distinct, TaskInv
<1>3. /\ PostedOf(c)' = PostedOf(c) /\ WorkersOf(c)' = WorkersOf(c)
      /\ JoinedOf(c)' = JoinedOf(c)
  BY DEF PostedOf, WorkersOf, JoinedOf
<1>4. CallInv(c)'
  <2>1. CASE place'[c] = place[c]
    BY <1>3, <2>1, Frame DEF TaskInv, WorkersOf
  <2>2. CASE place[c] \in InCaller /\ place'[c] \in InCaller \cup {"unlock"}
    <3>1. \A t \in WorkersOf(c) : t \in Threads /\ work[t] = Caller(c)
      BY <2>2 DEF TaskInv, CallInv, WorkersOf
    <3>2. Caller(c) # None
      BY DEF Caller, Push, None
    <3>3. \A t, u \in WorkersOf(c) : t = u
      BY <3>1, <3>2 DEF TaskInv, Distinct
    <3>. QED
      BY <1>3, <2>2, <3>3 DEF TaskInv, CallInv, InCaller, InHandlers
  <2>3. CASE place[c] \in InHandlers /\ place'[c] \in InHandlers
    BY <1>3, <2>3 DEF TaskInv, CallInv, InCaller, InHandlers
  <2>. QED
    BY <2>1, <2>2, <2>3
<1>. QED
  BY <1>1, <1>2, <1>4, OthersKept DEF TaskInv

LEMMA TaskCaller ==
    ASSUME TypeOK, TypeOK', TaskInv, NEW c \in Calls,
           Call(c) \/ Lock(c) \/ BeginWrite(c) \/ Pop(c) \/ PopFails(c)
    PROVE  TaskInv'
<1>1. CASE Call(c)
  <2>1. Caller(c).call = c /\ Caller(c) # None
    BY DEF Caller, Push, None
  <2>2. OnlyOf(c)
    BY <1>1, <2>1 DEF Call, OnlyOf, TypeOK
  <2>3. /\ WorkersOf(c)' = WorkersOf(c) /\ JoinedOf(c)' = JoinedOf(c)
        /\ WorkersOf(c) = {} /\ JoinedOf(c) = {}
        /\ PostedOf(c) \subseteq {Caller(c)}
    BY <1>1 DEF Call, WorkersOf, JoinedOf, TaskInv, CallInv
  <2>4. CASE CallersInPool
    <3>1. posted' = posted \cup {Caller(c)} /\ place' = place /\ work' = work
          /\ joined' = joined
      BY <1>1, <2>4 DEF Call
    <3>2. PostedOf(c)' \subseteq {Caller(c)}
      BY <2>3, <3>1 DEF PostedOf
    <3>3. CallInv(c)'
      BY <1>1, <2>3, <3>1, <3>2 DEF Call, CallInv, InCaller, InHandlers
    <3>4. Distinct'
      <4>1. \A t \in Threads : work[t] # Caller(c)
        BY <2>1, <2>3 DEF WorkersOf
      <4>. QED
        BY <3>1, <4>1 DEF Distinct, TaskInv
    <3>. QED
      BY <2>2, <3>3, <3>4, OthersKept DEF TaskInv
  <2>5. CASE ~ CallersInPool
    <3>1. /\ posted' = posted /\ place' = [place EXCEPT ![c] = "waiting"]
          /\ work' = work /\ joined' = joined
      BY <1>1, <2>5 DEF Call
    <3>2. PostedOf(c)' = {} /\ place'[c] = "waiting"
      BY <1>1, <2>3, <3>1 DEF PostedOf, Call, TypeOK
    <3>3. CallInv(c)'
      BY <2>3, <3>2 DEF CallInv, InCaller, InHandlers
    <3>4. Distinct'
      BY <3>1 DEF Distinct, TaskInv
    <3>. QED
      BY <2>2, <3>3, <3>4, OthersKept DEF TaskInv
  <2>. QED
    BY <2>4, <2>5
<1>2. CASE Lock(c)
  BY <1>2, QuietStep DEF Lock, taskVars, TypeOK, InCaller
<1>3. CASE BeginWrite(c)
  BY <1>3, QuietStep DEF BeginWrite, Fail, taskVars, TypeOK, InCaller
<1>4. CASE Pop(c)
  BY <1>4, QuietStep DEF Pop, taskVars, callVars
<1>5. CASE PopFails(c)
  BY <1>5, QuietStep DEF PopFails, Fail, taskVars, TypeOK, InCaller
<1>. QED
  BY <1>1, <1>2, <1>3, <1>4, <1>5

LEMMA TaskHandler ==
    ASSUME TypeOK, TypeOK', TaskInv, NEW c \in Calls,
           Unlock(c) \/ EndWrite(c) \/ Handle(c)
    PROVE  TaskInv'
<1>1. CASE Unlock(c)
  BY <1>1, QuietStep DEF Unlock, taskVars, TypeOK, InHandlers
<1>2. CASE EndWrite(c)
  BY <1>2, QuietStep DEF EndWrite, taskVars, TypeOK, InHandlers
<1>3. CASE Handle(c)
  <2>1. /\ work' = [t \in Threads |-> IF work[t].call = c THEN None ELSE work[t]]
        /\ UNCHANGED <<next, expected, posted, joined>>
        /\ place' = [place EXCEPT ![c] = "done"]
    BY <1>3 DEF Handle
  <2>2. None.call = NoOne /\ NoOne # c
    BY DEF None
  <2>3. OnlyOf(c)
    BY <2>1, <2>2 DEF OnlyOf, TypeOK
  <2>4. PostedOf(c)' = {} /\ JoinedOf(c) = {}
    BY <1>3, <2>1 DEF Handle, PostedOf, TaskInv, CallInv, InHandlers
  <2>5. WorkersOf(c)' = {}
    BY <2>1, <2>2 DEF WorkersOf
  <2>6. JoinedOf(c)' = {}
    BY <2>1, <2>5 DEF JoinedOf, WorkersOf, TypeOK
  <2>7. CallInv(c)'
    <3>1. place'[c] = "done"
      BY <2>1 DEF TypeOK
    <3>. QED
      BY <2>4, <2>5, <2>6, <3>1 DEF CallInv, InCaller, InHandlers
  <2>8. Distinct'
    <3>1. \A t \in joined : t \in Threads /\ work'[t] = work[t]
      BY <2>1, <2>4 DEF JoinedOf, TypeOK
    <3>2. None \notin posted
      <4>1. \A task \in Tasks : task.call \in Calls
        BY DEF Tasks
      <4>. QED
        BY <2>2, <4>1 DEF TypeOK
    <3>. QED
      BY <2>1, <3>1, <3>2 DEF Distinct, TaskInv
  <2>. QED
    BY <2>3, <2>7, <2>8, OthersKept DEF TaskInv
<1>. QED
  BY <1>1, <1>2, <1>3

\* push_next posts a block of its call, or leaves the tasks as they are.
LEMMA AfterPushNext ==
    ASSUME TypeOK, TypeOK', NEW c \in Calls, NEW n \in Nat \ {0},
           PushNext(c, n), PostedOf(c) = {}, JoinedOf(c)' = {},
           n <= Len(Branch[c]) => WorkersOf(c)' = {},
           \A t, u \in WorkersOf(c)' : t = u
    PROVE  CallInv(c)'
<1>1. next'[c] = n
  BY DEF PushNext, TypeOK
<1>2. CASE n <= Len(Branch[c])
  <2>1. posted' = posted \cup {Push(c, n)} /\ place'[c] = "pushing"
    BY <1>2 DEF PushNext, TypeOK
  <2>2. PostedOf(c)' \subseteq {Push(c, n)}
    BY <2>1 DEF PostedOf
  <2>3. Open(c)' \subseteq {Push(c, n)}
    BY <1>2, <2>2 DEF Open
  <2>4. AtBlock(c)'
    BY <1>1, <2>3 DEF AtBlock
  <2>5. next'[c] \in DOMAIN Branch[c]
    BY <1>1, <1>2
  <2>. QED
    BY <2>1, <2>4, <2>5 DEF CallInv, InCaller, InHandlers
<1>3. CASE ~ (n <= Len(Branch[c]))
  <2>1. posted' = posted /\ place'[c] = "unlock"
    BY <1>3 DEF PushNext, TypeOK
  <2>2. PostedOf(c)' = {}
    BY <2>1 DEF PostedOf
  <2>. QED
    BY <2>1, <2>2 DEF CallInv, InCaller, InHandlers
<1>. QED
  BY <1>2, <1>3

LEMMA PushNextOthers ==
    ASSUME TypeOK, NEW c \in Calls, NEW n \in Nat, PushNext(c, n)
    PROVE  /\ \A d \in Calls \ {c} : place'[d] = place[d] /\ next'[d] = next[d]
           /\ \A task \in Tasks :
                 task.call # c => (task \in posted' <=> task \in posted)
<1>1. Push(c, n).call = c
  BY DEF Push
<1>. QED
  BY <1>1 DEF PushNext, TypeOK

\* The thread of a call is freed, and at most tasks of the call are posted.
LEMMA DistinctAfter ==
    ASSUME TypeOK, TypeOK', Distinct, NEW c \in Calls,
           \A t \in Threads : work'[t] = work[t] \/ work'[t] = None,
           \A t \in joined' : work'[t] # None,
           \A task \in posted' : task \in posted \/ task.call = c,
           posted' = posted \/ WorkersOf(c)' = {}
    PROVE  Distinct'
<1>1. None \notin posted'
  <2>1. \A task \in Tasks : task.call \in Calls
    BY DEF Tasks
  <2>2. None.call = NoOne
    BY DEF None
  <2>. QED
    BY <2>1, <2>2 DEF TypeOK
<1>2. ASSUME NEW t \in Threads PROVE work'[t] \notin posted'
  <2>1. CASE posted' = posted
    BY <1>1, <2>1 DEF Distinct
  <2>2. CASE WorkersOf(c)' = {}
    <3>1. work'[t].call # c
      BY <2>2 DEF WorkersOf
    <3>. QED
      BY <1>1, <3>1 DEF Distinct
  <2>. QED
    BY <2>1, <2>2
<1>. QED
  BY <1>2 DEF Distinct

LEMMA TaskPopped ==
    ASSUME TypeOK, TypeOK', TaskInv, NEW c \in Calls, PoppedAll(c)
    PROVE  TaskInv'
<1>1. /\ PushNext(c, 1) /\ expected' = expected /\ joined' = joined
      /\ work' = [t \in Threads |->
                    IF work[t] = Caller(c) /\ Len(Branch[c]) > 0 THEN None
                    ELSE work[t]]
  BY DEF PoppedAll
<1>2. /\ PostedOf(c) = {} /\ JoinedOf(c) = {}
      /\ \A t \in WorkersOf(c) : work[t] = Caller(c)
  BY DEF PoppedAll, TaskInv, CallInv, InCaller
<1>3. /\ None.call = NoOne /\ NoOne # c /\ Caller(c).call = c
      /\ Caller(c) # None
  BY DEF None, Caller, Push
<1>4. \A t \in joined : t \in Threads /\ work'[t] = work[t]
  BY <1>1, <1>2, <1>3 DEF JoinedOf, TypeOK
<1>5. OnlyOf(c)
  BY <1>1, <1>3, PushNextOthers DEF OnlyOf
<1>6. Len(Branch[c]) \in Nat
  OBVIOUS
<1>7. Len(Branch[c]) > 0 => WorkersOf(c)' = {}
  BY <1>1, <1>2, <1>3 DEF WorkersOf
<1>8. \A t, u \in WorkersOf(c)' : t = u
  <2>1. WorkersOf(c)' \subseteq WorkersOf(c)
    BY <1>1, <1>3 DEF WorkersOf
  <2>2. \A t, u \in WorkersOf(c) : t = u
    BY <1>2, <1>3 DEF WorkersOf, TaskInv, Distinct
  <2>. QED
    BY <2>1, <2>2
<1>9. JoinedOf(c)' = {}
  BY <1>1, <1>2, <1>4 DEF JoinedOf
<1>10. CallInv(c)'
  BY <1>1, <1>2, <1>6, <1>7, <1>8, <1>9, AfterPushNext
<1>11. Distinct'
  <2>1. posted' = posted \/ Len(Branch[c]) > 0
    BY <1>1, <1>6 DEF PushNext
  <2>2. \A task \in posted' : task \in posted \/ task.call = c
    <3>1. Push(c, 1).call = c
      BY DEF Push
    <3>. QED
      BY <1>1, <3>1 DEF PushNext
  <2>3. \A t \in Threads : work'[t] = work[t] \/ work'[t] = None
    BY <1>1
  <2>4. \A t \in joined' : work'[t] # None
    BY <1>1, <1>4 DEF TaskInv, Distinct
  <2>. QED
    BY <1>7, <2>1, <2>2, <2>3, <2>4, DistinctAfter DEF TaskInv
<1>. QED
  BY <1>5, <1>10, <1>11, OthersKept DEF TaskInv

LEMMA StartAt ==
    ASSUME TypeOK, TaskInv, NEW t \in Threads, NEW task \in posted,
           Start(t, task), NEW c, c = task.call
    PROVE  /\ c \in Calls /\ task \in Tasks /\ task \in PostedOf(c)
           /\ \/ place[c] = "idle" /\ place' = [place EXCEPT ![c] = "waiting"]
              \/ place[c] = "pushing" /\ place' = place
<1>1. task \in Tasks /\ c \in Calls /\ task \in PostedOf(c)
  BY DEF TypeOK, Tasks, PostedOf
<1>2. place[c] = "idle" \/ place[c] = "pushing"
  BY <1>1 DEF TaskInv, CallInv, InCaller, InHandlers, TypeOK
<1>3. CASE place[c] = "idle"
  <2>1. task = Caller(c)
    BY <1>1, <1>3 DEF TaskInv, CallInv
  <2>2. ~ IsPush(task) /\ ~ IsBucket(task)
    BY <2>1 DEF Caller, Push, IsPush, IsBucket
  <2>. QED
    BY <1>1, <1>3, <2>2 DEF Start
<1>4. CASE place[c] = "pushing"
  <2>1. next[c] \in DOMAIN Branch[c]
    BY <1>1, <1>4 DEF TaskInv, CallInv
  <2>2. task \in Open(c)
    BY <1>1 DEF Open
  <2>3. CASE AtBlock(c)
    <3>1. task = Push(c, next[c]) /\ next[c] \in Nat \ {0}
      BY <1>1, <2>1, <2>2, <2>3, SizeTyped DEF AtBlock
    <3>2. IsPush(task)
      BY <3>1 DEF Push, IsPush
    <3>. QED
      BY <1>1, <1>4, <3>2 DEF Start
  <2>4. CASE AtBuckets(c)
    <3>1. IsBucket(task)
      BY <1>1, <2>1, <2>2, <2>4, BucketsTyped DEF AtBuckets
    <3>. QED
      BY <1>1, <1>4, <3>1 DEF Start
  <2>. QED
    BY <1>1, <1>4, <2>2, <2>3, <2>4 DEF TaskInv, CallInv, AtJoin
<1>. QED
  BY <1>1, <1>2, <1>3, <1>4

LEMMA TaskStart ==
    ASSUME TypeOK, TypeOK', TaskInv, NEW t \in Threads, NEW task \in posted,
           Start(t, task)
    PROVE  TaskInv'
<1> DEFINE c == task.call
<1>1. /\ task \in Tasks /\ c \in Calls /\ task \in PostedOf(c)
      /\ \/ place[c] = "idle" /\ place' = [place EXCEPT ![c] = "waiting"]
         \/ place[c] = "pushing" /\ place' = place
  BY StartAt
<1>2. /\ posted' = posted \ {task} /\ work' = [work EXCEPT ![t] = task]
      /\ UNCHANGED <<next, expected, joined>>
      /\ work[t] = None /\ t \notin joined
  BY DEF Start, TaskInv, Distinct
<1>3. None.call = NoOne /\ NoOne # c /\ task # None
  BY <1>1 DEF None
<1>4. /\ WorkersOf(c)' = WorkersOf(c) \cup {t} /\ t \notin WorkersOf(c)
      /\ PostedOf(c)' = PostedOf(c) \ {task} /\ JoinedOf(c)' = JoinedOf(c)
  BY <1>2, <1>3 DEF WorkersOf, PostedOf, JoinedOf, TypeOK
<1>5. OnlyOf(c)
  BY <1>1, <1>2, <1>3 DEF OnlyOf, TypeOK
<1>6. Distinct'
  BY <1>2, <1>3 DEF TaskInv, Distinct, TypeOK
<1>7. CASE place[c] = "idle"
  <2>1. /\ task = Caller(c) /\ PostedOf(c) \subseteq {Caller(c)}
        /\ WorkersOf(c) = {} /\ JoinedOf(c) = {}
    BY <1>1, <1>7 DEF TaskInv, CallInv
  <2>2. place'[c] = "waiting"
    BY <1>1, <1>7 DEF TypeOK
  <2>3. PostedOf(c)' = {} /\ \A u \in WorkersOf(c)' : work'[u] = Caller(c)
    BY <1>2, <1>4, <2>1 DEF TypeOK
  <2>4. CallInv(c)'
    BY <1>4, <2>1, <2>2, <2>3 DEF CallInv, InCaller, InHandlers
  <2>. QED
    BY <1>1, <1>5, <1>6, <2>4, OthersKept DEF TaskInv
<1>8. CASE place[c] = "pushing"
  <2>1. next[c] \in DOMAIN Branch[c]
    BY <1>1, <1>8 DEF TaskInv, CallInv
  <2>2. Open(c)' = Open(c)
    <3>1. /\ WorkersOf(c)' \ joined' = (WorkersOf(c) \ joined) \cup {t}
          /\ \A u \in WorkersOf(c) : work'[u] = work[u]
          /\ work'[t] = task
      BY <1>2, <1>4 DEF WorkersOf, TypeOK
    <3>. QED
      BY <1>1, <1>4, <3>1 DEF Open
  <2>3. task \in Open(c)
    BY <1>1 DEF Open
  <2>4. AtBlock(c) \/ AtBuckets(c)
    BY <1>1, <1>8, <2>3 DEF TaskInv, CallInv, AtJoin
  <2>5. Size(c)' = Size(c) /\ Buckets(c)' = Buckets(c)
    BY <1>2 DEF Size, Buckets
  <2>6. AtBlock(c)' \/ AtBuckets(c)'
    BY <1>2, <1>4, <2>2, <2>4, <2>5 DEF AtBlock, AtBuckets
  <2>7. CallInv(c)'
    BY <1>1, <1>2, <1>8, <2>1, <2>6 DEF CallInv, InCaller, InHandlers
  <2>. QED
    BY <1>1, <1>5, <1>6, <2>7, OthersKept DEF TaskInv
<1>. QED
  BY <1>1, <1>7, <1>8

\* The call fails in thread t, the only one it has.
LEMMA TaskFailed ==
    ASSUME TypeOK, TypeOK', TaskInv, NEW c \in Calls, NEW t \in Threads,
           Fail(c), WorkersOf(c) = {t}, PostedOf(c) = {},
           UNCHANGED <<next, expected, posted, work>>, joined' = joined \ {t}
    PROVE  TaskInv'
<1>1. work[t].call = c /\ place'[c] = "unlock"
  BY DEF Fail, WorkersOf, TypeOK
<1>2. OnlyOf(c)
  BY <1>1 DEF OnlyOf, Fail, TypeOK
<1>3. /\ WorkersOf(c)' = WorkersOf(c) /\ PostedOf(c)' = PostedOf(c)
      /\ JoinedOf(c)' = {}
  BY DEF WorkersOf, PostedOf, JoinedOf, TypeOK
<1>4. CallInv(c)'
  BY <1>1, <1>3 DEF CallInv, InCaller, InHandlers
<1>5. Distinct'
  BY DEF TaskInv, Distinct
<1>. QED
  BY <1>2, <1>4, <1>5, OthersKept DEF TaskInv

LEMMA TaskDoPush ==
    ASSUME TypeOK, TypeOK', TaskInv, NEW t \in Threads, DoPush(t),
           NEW c, c = work[t].call, NEW n, n = work[t].block
    PROVE  TaskInv'
<1>1. /\ c \in Calls /\ next[c] \in DOMAIN Branch[c]
      /\ work[t] = Push(c, next[c])
      /\ PostedOf(c) = {} /\ WorkersOf(c) = {t} /\ JoinedOf(c) = {}
      /\ place[c] = "pushing"
  BY PushAt DEF DoPush
<1>2. n = next[c] /\ t \notin joined
  BY <1>1 DEF Push, JoinedOf
<1>3. CASE CanPush(c, n)
  <2>1. /\ expected' = [expected EXCEPT ![Block(c, n)] = Size(c)]
        /\ posted' = posted \cup Buckets(c)
        /\ work' = [work EXCEPT ![t] = None]
        /\ UNCHANGED <<place, next, joined>>
    BY <1>2, <1>3 DEF DoPush, Size, Buckets, Free
  <2>2. /\ \A task \in Buckets(c) : task.call = c
        /\ None.call = NoOne /\ NoOne # c
    BY <1>1, BucketsTyped DEF None
  <2>3. Block(c, n).call = c /\ Block(c, n) \in Blocks
    BY <1>1, <1>2, BlockTyped DEF Block
  <2>4. OnlyOf(c)
    BY <2>1, <2>2, <2>3 DEF OnlyOf, TypeOK
  <2>5. PostedOf(c)' = Buckets(c)
    BY <1>1, <2>1, <2>2 DEF PostedOf
  <2>6. WorkersOf(c)' = {}
    BY <1>1, <2>1, <2>2 DEF WorkersOf, TypeOK
  <2>7. JoinedOf(c)' = {}
    BY <2>1, <2>6 DEF JoinedOf, WorkersOf, TypeOK
  <2>8. Open(c)' = Buckets(c) /\ Buckets(c)' = Buckets(c)
    BY <2>1, <2>5, <2>6 DEF Open, Buckets, Size
  <2>9. expected'[Block(c, next'[c])] = Cardinality(Buckets(c))
    <3>1. expected'[Block(c, n)] = Size(c)
      BY <2>1, <2>3 DEF TypeOK
    <3>. QED
      BY <1>1, <1>2, <2>1, <3>1, BucketsCounted
  <2>10. AtBuckets(c)'
    BY <1>2, <1>3, <2>1, <2>7, <2>8, <2>9 DEF AtBuckets, CanPush
  <2>11. CallInv(c)'
    BY <1>1, <2>1, <2>10 DEF CallInv, InCaller, InHandlers
  <2>12. Distinct'
    <3>1. \A u \in joined' : work'[u] # None
      BY <1>2, <2>1 DEF TaskInv, Distinct, TypeOK
    <3>2. \A task \in posted' : task \in posted \/ task.call = c
      BY <2>1, <2>2
    <3>3. \A u \in Threads : work'[u] = work[u] \/ work'[u] = None
      BY <2>1 DEF TypeOK
    <3>. QED
      BY <1>1, <2>6, <3>1, <3>2, <3>3, DistinctAfter DEF TaskInv
  <2>. QED
    BY <1>1, <2>4, <2>11, <2>12, OthersKept DEF TaskInv
<1>4. CASE ~ CanPush(c, n)
  <2>1. Fail(c) /\ UNCHANGED <<next, expected, posted, work, joined>>
    BY <1>4 DEF DoPush
  <2>2. joined' = joined \ {t}
    BY <1>2, <2>1
  <2>. QED
    BY <1>1, <2>1, <2>2, TaskFailed
<1>. QED
  BY <1>3, <1>4

LEMMA TaskAnswer ==
    ASSUME TypeOK, TypeOK', TaskInv, NEW t \in Threads, Answer(t),
           NEW c, c = work[t].call, NEW b, b = Block(c, next[c])
    PROVE  TaskInv'
<1>1. /\ c \in Calls /\ next[c] \in DOMAIN Branch[c]
      /\ AtBuckets(c) /\ place[c] = "pushing"
      /\ work[t] \in Open(c) /\ work[t].block = next[c]
      /\ t \notin joined
  BY BucketAt DEF Answer, BucketDone, Storing
<1>2. b \in Blocks /\ b.call = c
  BY <1>1, BlockTyped DEF Block
<1>3. /\ expected' = [expected EXCEPT ![b] = IF @ = 0 THEN 0 ELSE @ - 1]
      /\ UNCHANGED <<place, next, posted>>
      /\ IF expected[b] = 1 THEN joined' = joined \cup {t} /\ UNCHANGED work
                            ELSE work' = Free(t) /\ UNCHANGED joined
  BY <1>1 DEF Answer
<1>4. /\ IsFiniteSet(Open(c)) /\ Cardinality(Open(c)) \in Nat \ {0}
      /\ expected[b] = Cardinality(Open(c))
      /\ IsFiniteSet(Open(c) \ {work[t]})
      /\ Cardinality(Open(c) \ {work[t]}) = Cardinality(Open(c)) - 1
  <2>1. Open(c) \subseteq Buckets(c) /\ IsFiniteSet(Buckets(c))
    BY <1>1, BucketsCounted DEF AtBuckets
  <2>2. IsFiniteSet(Open(c))
    BY <2>1, FS_Subset
  <2>3. Cardinality(Open(c)) \in Nat /\ Cardinality(Open(c)) # 0
    BY <1>1, <2>2, FS_CardinalityType, FS_EmptySet
  <2>4. expected[b] = Cardinality(Open(c))
    BY <1>1 DEF AtBuckets
  <2>. QED
    BY <1>1, <2>2, <2>3, <2>4, FS_RemoveElement
<1>5. expected'[b] = expected[b] - 1
  BY <1>2, <1>3, <1>4 DEF TypeOK
<1>6. Size(c)' = Size(c) /\ Buckets(c)' = Buckets(c) /\ PostedOf(c)' = PostedOf(c)
  BY <1>3 DEF Size, Buckets, PostedOf
<1>7. t \in WorkersOf(c) /\ work[t] # None /\ c # NoOne /\ None.call = NoOne
  BY <1>1 DEF WorkersOf, None
<1>8. JoinedOf(c) = {} /\ work[t] \notin PostedOf(c)
  BY <1>1 DEF AtBuckets, TaskInv, Distinct, PostedOf
<1>9. \A u \in WorkersOf(c) : u \in Threads /\ u \notin joined
  BY <1>8 DEF JoinedOf, WorkersOf
<1>10. \A u \in WorkersOf(c) : work[u] = work[t] => u = t
  BY <1>7, <1>9 DEF TaskInv, Distinct
<1>11. CASE expected[b] = 1
  <2>1. joined' = joined \cup {t} /\ work' = work
    BY <1>3, <1>11
  <2>2. Open(c) = {work[t]}
    <3>1. Cardinality(Open(c) \ {work[t]}) = 0
      BY <1>4, <1>11
    <3>2. Open(c) \ {work[t]} = {}
      BY <1>4, <3>1, FS_EmptySet
    <3>. QED
      BY <1>1, <3>2
  <2>3. WorkersOf(c)' = {t}
    <3>1. \A u \in WorkersOf(c) : work[u] \in Open(c)
      BY <1>9 DEF Open
    <3>2. WorkersOf(c) = {t}
      BY <1>7, <1>10, <2>2, <3>1
    <3>. QED
      BY <2>1, <3>2 DEF WorkersOf
  <2>4. PostedOf(c)' = {}
    <3>1. PostedOf(c) \subseteq {work[t]}
      BY <2>2 DEF Open
    <3>. QED
      BY <1>6, <1>8, <3>1
  <2>5. Open(c)' = {}
    BY <2>1, <2>3, <2>4 DEF Open
  <2>6. AtJoin(c)'
    <3>1. work'[t] \in Buckets(c)'
      BY <1>1, <1>6, <2>1 DEF AtBuckets
    <3>. QED
      BY <2>3, <2>5, <3>1 DEF AtJoin
  <2>7. CallInv(c)'
    BY <1>1, <1>3, <2>6 DEF CallInv, InCaller, InHandlers
  <2>8. OnlyOf(c)
    BY <1>2, <1>3, <2>1 DEF OnlyOf, TypeOK
  <2>9. Distinct'
    BY <1>3, <1>7, <2>1 DEF TaskInv, Distinct
  <2>. QED
    BY <1>1, <2>7, <2>8, <2>9, OthersKept DEF TaskInv
<1>12. CASE expected[b] # 1
  <2>1. joined' = joined /\ work' = [work EXCEPT ![t] = None]
    BY <1>3, <1>12 DEF Free
  <2>2. WorkersOf(c)' = WorkersOf(c) \ {t}
    BY <1>7, <2>1 DEF WorkersOf, TypeOK
  <2>3. JoinedOf(c)' = {}
    BY <1>9, <2>1, <2>2 DEF JoinedOf, WorkersOf, TypeOK
  <2>4. Open(c)' = Open(c) \ {work[t]}
    <3>1. /\ WorkersOf(c) \ joined = WorkersOf(c)
          /\ WorkersOf(c)' \ joined' = WorkersOf(c) \ {t}
      BY <1>9, <2>1, <2>2
    <3>2. \A u \in WorkersOf(c) \ {t} : work'[u] = work[u]
      BY <2>1 DEF WorkersOf, TypeOK
    <3>3. Open(c)' = PostedOf(c) \cup {work[u] : u \in WorkersOf(c) \ {t}}
      BY <1>6, <3>1, <3>2 DEF Open
    <3>4. Open(c) = PostedOf(c) \cup {work[u] : u \in WorkersOf(c)}
      BY <3>1 DEF Open
    <3>. QED
      BY <1>7, <1>8, <1>10, <3>3, <3>4
  <2>5. AtBuckets(c)'
    BY <1>1, <1>3, <1>4, <1>5, <1>6, <2>3, <2>4 DEF AtBuckets
  <2>6. CallInv(c)'
    BY <1>1, <1>3, <2>5 DEF CallInv, InCaller, InHandlers
  <2>7. OnlyOf(c)
    BY <1>2, <1>3, <1>7, <2>1 DEF OnlyOf, TypeOK
  <2>8. Distinct'
    <3>1. \A u \in joined' : work'[u] # None
      BY <1>1, <2>1 DEF TaskInv, Distinct, TypeOK
    <3>2. \A u \in Threads : work'[u] = work[u] \/ work'[u] = None
      BY <2>1 DEF TypeOK
    <3>. QED
      BY <1>1, <1>3, <3>1, <3>2, DistinctAfter DEF TaskInv
  <2>. QED
    BY <1>1, <2>6, <2>7, <2>8, OthersKept DEF TaskInv
<1>. QED
  BY <1>11, <1>12

LEMMA TaskComplete ==
    ASSUME TypeOK, TypeOK', TaskInv, NEW t \in Threads, Complete(t),
           NEW c, c = work[t].call, NEW n, n = work[t].block
    PROVE  TaskInv'
<1>1. /\ t \in joined /\ c \in Calls /\ n \in DOMAIN Branch[c]
      /\ PostedOf(c) = {} /\ WorkersOf(c) = {t} /\ JoinedOf(c) = {t}
  BY JoinAt DEF Complete
<1>2. /\ PushNext(c, n + 1) /\ expected' = expected /\ joined' = joined \ {t}
      /\ work' = IF n < Len(Branch[c]) THEN Free(t) ELSE work
  BY DEF Complete
<1>3. n \in Nat \ {0} /\ Len(Branch[c]) \in Nat /\ n <= Len(Branch[c])
  BY <1>1
<1>4. None.call = NoOne /\ NoOne # c /\ work[t].call = c
  BY <1>1 DEF None
<1>5. \A u \in Threads \ {t} : work'[u] = work[u] /\ work[u].call # c
  BY <1>1, <1>2 DEF Free, WorkersOf, TypeOK
<1>6. OnlyOf(c)
  <2>1. work'[t] = None \/ work'[t] = work[t]
    BY <1>2 DEF Free, TypeOK
  <2>. QED
    BY <1>1, <1>2, <1>3, <1>4, <1>5, <2>1, PushNextOthers DEF OnlyOf
<1>7. n < Len(Branch[c]) => WorkersOf(c)' = {}
  BY <1>2, <1>4, <1>5 DEF WorkersOf, Free, TypeOK
<1>8. \A u, v \in WorkersOf(c)' : u = v
  BY <1>5 DEF WorkersOf
<1>9. JoinedOf(c)' = {}
  BY <1>2, <1>5 DEF JoinedOf, TypeOK
<1>10. CallInv(c)'
  <2>1. n + 1 \in Nat \ {0}
    BY <1>3
  <2>2. n + 1 <= Len(Branch[c]) => WorkersOf(c)' = {}
    BY <1>3, <1>7
  <2>. QED
    BY <1>1, <1>2, <1>8, <1>9, <2>1, <2>2, AfterPushNext
<1>11. Distinct'
  <2>1. posted' = posted \/ n < Len(Branch[c])
    BY <1>2, <1>3 DEF PushNext
  <2>2. \A task \in posted' : task \in posted \/ task.call = c
    <3>1. Push(c, n + 1).call = c
      BY DEF Push
    <3>. QED
      BY <1>2, <3>1 DEF PushNext
  <2>3. \A u \in Threads : work'[u] = work[u] \/ work'[u] = None
    BY <1>2 DEF Free, TypeOK
  <2>4. \A u \in joined' : work'[u] # None
    BY <1>2, <1>5 DEF TaskInv, Distinct, TypeOK
  <2>. QED
    BY <1>1, <1>7, <2>1, <2>2, <2>3, <2>4, DistinctAfter DEF TaskInv
<1>. QED
  BY <1>1, <1>6, <1>10, <1>11, OthersKept DEF TaskInv

LEMMA TaskThread ==
    ASSUME TypeOK, TypeOK', TaskInv, NEW t \in Threads, ThreadStep(t)
    PROVE  TaskInv'
<1>1. ASSUME NEW task \in posted, Start(t, task) PROVE TaskInv'
  BY <1>1, TaskStart
<1>2. CASE DoPush(t)
  BY <1>2, TaskDoPush
<1>3. CASE StoreTransaction(t)
  <2>1. PICK c \in Calls : c = work[t].call
    BY <1>3, BucketAt DEF StoreTransaction
  <2>. QED
    BY <1>3, <2>1, QuietStep DEF StoreTransaction, callVars
<1>4. CASE Answer(t)
  BY <1>4, TaskAnswer
<1>5. CASE Complete(t)
  BY <1>5, TaskComplete
<1>6. CASE CompleteFails(t)
  <2>1. PICK c : c = work[t].call
    OBVIOUS
  <2>2. c \in Calls /\ PostedOf(c) = {} /\ WorkersOf(c) = {t}
    BY <1>6, <2>1, JoinAt DEF CompleteFails
  <2>3. /\ Fail(c) /\ UNCHANGED <<next, expected, posted, work>>
        /\ joined' = joined \ {t}
    BY <1>6, <2>1 DEF CompleteFails
  <2>. QED
    BY <2>2, <2>3, TaskFailed
<1>. QED
  BY <1>1, <1>2, <1>3, <1>4, <1>5, <1>6 DEF ThreadStep

LEMMA TaskStep == TypeOK /\ TypeOK' /\ TaskInv /\ [Next]_vars => TaskInv'
<1>. SUFFICES ASSUME TypeOK, TypeOK', TaskInv, [Next]_vars PROVE TaskInv'
  OBVIOUS
<1>1. ASSUME NEW c \in Calls, Call(c) \/ CallStep(c) PROVE TaskInv'
  BY <1>1, TaskCaller, TaskPopped, TaskHandler DEF CallStep
<1>2. ASSUME NEW t \in Threads, ThreadStep(t) PROVE TaskInv'
  BY <1>2, TaskThread
<1>3. ASSUME UNCHANGED <<callVars, taskVars>> PROVE TaskInv'
  <2>1. \A c \in Calls :
          /\ PostedOf(c)' = PostedOf(c) /\ WorkersOf(c)' = WorkersOf(c)
          /\ JoinedOf(c)' = JoinedOf(c)
    BY <1>3 DEF PostedOf, WorkersOf, JoinedOf, taskVars
  <2>2. \A c \in Calls : CallInv(c)'
    BY <1>3, <2>1, Frame DEF TaskInv, callVars, taskVars
  <2>3. Distinct'
    BY <1>3 DEF TaskInv, Distinct, taskVars
  <2>. QED
    BY <2>2, <2>3 DEF TaskInv
<1>4. ASSUME Stop \/ UNCHANGED vars PROVE TaskInv'
  BY <1>3, <1>4 DEF Stop, vars
<1>. QED
  BY <1>1, <1>2, <1>4 DEF Next

-----------------------------------------------------------------------------
\* The mutex and the handlers.

\* Where a step may take the call it belongs to.
Moves == {<<"idle", "waiting">>, <<"popping", "pushing">>, <<"popping", "unlock">>,
          <<"begin", "popping">>, <<"begin", "unlock">>, <<"pushing", "unlock">>,
          <<"end", "handler">>}

LEMMA StepMoves ==
    ASSUME TypeOK, TypeOK', TaskInv, [Next]_vars
    PROVE  \/ \E c \in Calls : Lock(c) \/ Unlock(c) \/ Handle(c)
           \/ /\ mutex' = mutex /\ answers' = answers
              /\ \A c \in Calls :
                    place'[c] = place[c] \/ <<place[c], place'[c]>> \in Moves
<1>. DEFINE Quiet == /\ mutex' = mutex /\ answers' = answers
                     /\ \A c \in Calls :
                          place'[c] = place[c] \/ <<place[c], place'[c]>> \in Moves
<1>1. ASSUME NEW c \in Calls,
             \/ Call(c) \/ BeginWrite(c) \/ Pop(c) \/ PopFails(c)
             \/ PoppedAll(c) \/ EndWrite(c)
      PROVE  Quiet
  <2>1. CASE Call(c)
    BY <2>1 DEF Call, Moves, TypeOK
  <2>2. CASE BeginWrite(c)
    BY <2>2 DEF BeginWrite, Fail, Moves, TypeOK
  <2>3. CASE Pop(c)
    BY <2>3 DEF Pop, callVars
  <2>4. CASE PopFails(c)
    BY <2>4 DEF PopFails, Fail, Moves, TypeOK
  <2>5. CASE PoppedAll(c)
    BY <2>5 DEF PoppedAll, PushNext, Moves, TypeOK
  <2>6. CASE EndWrite(c)
    BY <2>6 DEF EndWrite, Moves, TypeOK
  <2>. QED
    BY <1>1, <2>1, <2>2, <2>3, <2>4, <2>5, <2>6
<1>2. ASSUME NEW t \in Threads, ThreadStep(t) PROVE Quiet
  <2>1. ASSUME NEW task \in posted, Start(t, task) PROVE Quiet
    <3>1. PICK c \in Calls :
            \/ place[c] = "idle" /\ place' = [place EXCEPT ![c] = "waiting"]
            \/ place' = place
      BY <2>1, StartAt
    <3>2. \A d \in Calls :
            place'[d] = place[d] \/ <<place[d], place'[d]>> \in Moves
      BY <3>1 DEF Moves, TypeOK
    <3>. QED
      BY <2>1, <3>2 DEF Start
  <2>2. CASE DoPush(t)
    <3>1. place[work[t].call] = "pushing" /\ work[t].call \in Calls
      BY <2>2, PushAt DEF DoPush
    <3>2. place' = place \/ place' = [place EXCEPT ![work[t].call] = "unlock"]
      BY <2>2 DEF DoPush, Fail
    <3>. QED
      BY <2>2, <3>1, <3>2 DEF DoPush, Moves, TypeOK
  <2>3. CASE StoreTransaction(t)
    BY <2>3 DEF StoreTransaction, callVars
  <2>4. CASE Answer(t)
    BY <2>4 DEF Answer
  <2>5. CASE Complete(t)
    <3>1. place[work[t].call] = "pushing" /\ work[t].call \in Calls
      BY <2>5, JoinAt DEF Complete
    <3>2. \/ place' = [place EXCEPT ![work[t].call] = "pushing"]
          \/ place' = [place EXCEPT ![work[t].call] = "unlock"]
      BY <2>5 DEF Complete, PushNext
    <3>. QED
      BY <2>5, <3>1, <3>2 DEF Complete, Moves, TypeOK
  <2>6. CASE CompleteFails(t)
    <3>1. place[work[t].call] = "pushing" /\ work[t].call \in Calls
      BY <2>6, JoinAt DEF CompleteFails
    <3>. QED
      BY <2>6, <3>1 DEF CompleteFails, Fail, Moves, TypeOK
  <2>. QED
    BY <1>2, <2>1, <2>2, <2>3, <2>4, <2>5, <2>6 DEF ThreadStep
<1>3. ASSUME Stop \/ UNCHANGED vars PROVE Quiet
  BY <1>3 DEF Stop, vars, callVars
<1>. QED
  BY <1>1, <1>2, <1>3 DEF Next, CallStep

LEMMA HoldStep ==
    ASSUME TypeOK, TypeOK', TaskInv, [Next]_vars, MutexInv, AnswerInv
    PROVE  MutexInv' /\ AnswerInv'
<1>1. ASSUME NEW c \in Calls, Lock(c) PROVE MutexInv' /\ AnswerInv'
  BY <1>1 DEF Lock, MutexInv, AnswerInv, TypeOK
<1>2. ASSUME NEW c \in Calls, Unlock(c) PROVE MutexInv' /\ AnswerInv'
  BY <1>2 DEF Unlock, MutexInv, AnswerInv, TypeOK
<1>3. ASSUME NEW c \in Calls, Handle(c) PROVE MutexInv' /\ AnswerInv'
  <2>1. MutexInv'
    BY <1>3 DEF Handle, MutexInv, TypeOK
  <2>2. answers[c] = <<>> /\ code[c] \in Codes
    BY <1>3 DEF Handle, AnswerInv, TypeOK
  <2>3. Len(answers'[c]) = 1
    <3>1. answers'[c] = Append(<<>>, code[c])
      BY <1>3, <2>2 DEF Handle, TypeOK
    <3>. QED
      BY <2>2, <3>1
  <2>4. \A d \in Calls \ {c} : answers'[d] = answers[d] /\ place'[d] = place[d]
    BY <1>3 DEF Handle, TypeOK
  <2>5. place'[c] = "done"
    BY <1>3 DEF Handle, TypeOK
  <2>. QED
    BY <2>1, <2>3, <2>4, <2>5 DEF AnswerInv
<1>4. ASSUME mutex' = mutex, answers' = answers,
             \A c \in Calls :
               place'[c] = place[c] \/ <<place[c], place'[c]>> \in Moves
      PROVE  MutexInv' /\ AnswerInv'
  <2>1. AnswerInv'
    BY <1>4 DEF AnswerInv, Moves
  <2>2. MutexInv'
    BY <1>4 DEF MutexInv, Moves
  <2>. QED
    BY <2>1, <2>2
<1>. QED
  BY <1>1, <1>2, <1>3, <1>4, StepMoves

-----------------------------------------------------------------------------
\* The blocks above the fork point.

LEMMA PushedMore ==
    ASSUME NEW c, NEW n \in Nat \ {0}, index = Pushed(c, n - 1)
    PROVE  Append(index, Block(c, n)) = Pushed(c, n) /\ Len(index) = n - 1
<1>1. /\ Pushed(c, n - 1) \in Seq({Block(c, m) : m \in Nat})
      /\ Len(Pushed(c, n - 1)) = n - 1
  BY DEF Pushed
<1>. QED
  BY <1>1 DEF Pushed

\* Steps that leave the index alone.
LEMMA IndexKept ==
    ASSUME TypeOK, IndexInv, NEW c \in Calls, index' = index,
           \A d \in Calls \ {c} :
             place'[d] = place[d] /\ next'[d] = next[d] /\ code'[d] = code[d],
           IndexAt(c)'
    PROVE  IndexInv'
BY DEF IndexInv, IndexAt, Pushed

LEMMA IndexCall ==
    ASSUME TypeOK, TaskInv, IndexInv, MutexInv, NEW c \in Calls,
           Call(c) \/ CallStep(c)
    PROVE  IndexInv'
<1>1. CASE Call(c)
  <2>1. IndexAt(c)'
    BY <1>1 DEF Call, IndexAt, TypeOK
  <2>. QED
    BY <1>1, <2>1, IndexKept DEF Call, TypeOK
<1>2. CASE Lock(c)
  <2>1. IndexAt(c)'
    BY <1>2 DEF Lock, IndexAt, TypeOK
  <2>. QED
    BY <1>2, <2>1, IndexKept DEF Lock, TypeOK
<1>3. CASE BeginWrite(c)
  <2>1. IndexAt(c)'
    BY <1>3 DEF BeginWrite, Fail, IndexAt, TypeOK
  <2>. QED
    BY <1>3, <2>1, IndexKept DEF BeginWrite, Fail, TypeOK
<1>4. CASE Pop(c)
  <2>1. \A d \in Calls : place[d] \notin {"pushing", "unlock"}
    BY <1>4 DEF Pop, MutexInv
  <2>2. \A d \in Calls : IndexAt(d)'
    BY <1>4, <2>1 DEF Pop, IndexAt, callVars
  <2>3. \A i \in DOMAIN index' : i \in DOMAIN index /\ index'[i] = index[i]
    BY <1>4 DEF Pop, TypeOK
  <2>. QED
    BY <2>2, <2>3 DEF IndexInv
<1>5. CASE PopFails(c)
  <2>1. IndexAt(c)'
    BY <1>5 DEF PopFails, Fail, IndexAt, TypeOK
  <2>. QED
    BY <1>5, <2>1, IndexKept DEF PopFails, Fail, TypeOK
<1>6. CASE PoppedAll(c)
  <2>1. index = <<>> /\ PushNext(c, 1) /\ index' = index /\ code' = code
    BY <1>6 DEF PoppedAll
  <2>2. Pushed(c, 0) = <<>>
    BY DEF Pushed
  <2>3. CASE 1 <= Len(Branch[c])
    <3>1. place'[c] = "pushing" /\ next'[c] = 1
      BY <2>1, <2>3 DEF PushNext, TypeOK
    <3>. QED
      BY <2>1, <2>2, <3>1, IndexKept, PushNextOthers DEF IndexAt, Pushed
  <2>4. CASE ~ (1 <= Len(Branch[c]))
    <3>1. place'[c] = "unlock" /\ Len(Branch[c]) = 0
      BY <2>1, <2>4 DEF PushNext, TypeOK
    <3>. QED
      BY <2>1, <2>2, <3>1, IndexKept, PushNextOthers DEF IndexAt, Pushed
  <2>. QED
    BY <2>3, <2>4
<1>7. CASE Unlock(c)
  <2>1. IndexAt(c)'
    BY <1>7 DEF Unlock, IndexAt, TypeOK
  <2>. QED
    BY <1>7, <2>1, IndexKept DEF Unlock, TypeOK
<1>8. CASE EndWrite(c)
  <2>1. IndexAt(c)'
    BY <1>8 DEF EndWrite, IndexAt, TypeOK
  <2>. QED
    BY <1>8, <2>1, IndexKept DEF EndWrite, TypeOK
<1>9. CASE Handle(c)
  <2>1. IndexAt(c)'
    BY <1>9 DEF Handle, IndexAt, TypeOK
  <2>. QED
    BY <1>9, <2>1, IndexKept DEF Handle, TypeOK
<1>. QED
  BY <1>1, <1>2, <1>3, <1>4, <1>5, <1>6, <1>7, <1>8, <1>9 DEF CallStep

LEMMA IndexComplete ==
    ASSUME TypeOK, TaskInv, IndexInv, MutexInv, NEW t \in Threads, Complete(t),
           NEW c, c = work[t].call, NEW n, n = work[t].block
    PROVE  IndexInv'
<1>1. /\ t \in joined /\ c \in Calls /\ n \in DOMAIN Branch[c]
      /\ place[c] = "pushing" /\ n = next[c]
  BY JoinAt DEF Complete
<1>2. /\ index' = Append(index, Block(c, n)) /\ PushNext(c, n + 1)
      /\ code' = code
  BY DEF Complete
<1>3. n \in Nat \ {0} /\ Len(Branch[c]) \in Nat /\ n <= Len(Branch[c])
  BY <1>1
<1>4. index' = Pushed(c, n) /\ Len(index) = n - 1
  BY <1>1, <1>2, <1>3, PushedMore DEF IndexInv, IndexAt
<1>5. IndexAt(c)'
  <2>1. CASE n + 1 <= Len(Branch[c])
    <3>1. place'[c] = "pushing" /\ next'[c] = n + 1
      BY <1>1, <1>2, <2>1 DEF PushNext, TypeOK
    <3>2. next'[c] - 1 = n
      BY <1>3, <3>1
    <3>3. index' = Pushed(c, next'[c] - 1)
      BY <1>4, <3>2
    <3>. QED
      BY <3>1, <3>3 DEF IndexAt, Pushed
  <2>2. CASE ~ (n + 1 <= Len(Branch[c]))
    <3>1. place'[c] = "unlock" /\ n = Len(Branch[c])
      BY <1>1, <1>2, <1>3, <2>2 DEF PushNext, TypeOK
    <3>. QED
      BY <1>4, <3>1 DEF IndexAt, Pushed
  <2>. QED
    BY <2>1, <2>2
<1>6. ASSUME NEW d \in Calls \ {c} PROVE IndexAt(d)'
  <2>1. place[d] \notin {"pushing", "unlock"}
    BY <1>1, <1>6 DEF MutexInv
  <2>2. place'[d] = place[d]
    BY <1>1, <1>2, <1>3, PushNextOthers
  <2>. QED
    BY <2>1, <2>2 DEF IndexAt
<1>7. \A i \in DOMAIN index' : index'[i].number = i
  BY <1>4 DEF Pushed, Block
<1>. QED
  BY <1>5, <1>6, <1>7 DEF IndexInv

LEMMA IndexStep ==
    ASSUME TypeOK, TaskInv, IndexInv, MutexInv, [Next]_vars
    PROVE  IndexInv'
<1>1. ASSUME NEW c \in Calls, Call(c) \/ CallStep(c) PROVE IndexInv'
  BY <1>1, IndexCall
<1>2. ASSUME NEW t \in Threads, ThreadStep(t) PROVE IndexInv'
  <2>1. ASSUME NEW task \in posted, Start(t, task) PROVE IndexInv'
    <3>1. PICK c \in Calls :
            \/ place[c] = "idle" /\ place' = [place EXCEPT ![c] = "waiting"]
            \/ place' = place
      BY <2>1, StartAt
    <3>2. IndexAt(c)'
      BY <2>1, <3>1 DEF Start, IndexInv, IndexAt, Pushed, TypeOK
    <3>. QED
      BY <2>1, <3>1, <3>2, IndexKept DEF Start, TypeOK
  <2>2. CASE DoPush(t)
    <3>1. PICK c \in Calls : c = work[t].call
      BY <2>2, PushAt DEF DoPush
    <3>2. \/ place' = place /\ code' = code
          \/ Fail(c)
      BY <2>2, <3>1 DEF DoPush
    <3>3. IndexAt(c)'
      BY <2>2, <3>1, <3>2 DEF DoPush, Fail, IndexInv, IndexAt, Pushed, TypeOK
    <3>. QED
      BY <2>2, <3>2, <3>3, IndexKept DEF DoPush, Fail, TypeOK
  <2>3. CASE StoreTransaction(t)
    BY <2>3 DEF StoreTransaction, callVars, IndexInv, IndexAt, Pushed
  <2>4. CASE Answer(t)
    BY <2>4 DEF Answer, IndexInv, IndexAt, Pushed
  <2>5. CASE Complete(t)
    BY <2>5, IndexComplete
  <2>6. CASE CompleteFails(t)
    <3>1. PICK c \in Calls : c = work[t].call
      BY <2>6, JoinAt DEF CompleteFails
    <3>2. IndexAt(c)'
      BY <2>6, <3>1 DEF CompleteFails, Fail, IndexAt, TypeOK
    <3>. QED
      BY <2>6, <3>1, <3>2, IndexKept DEF CompleteFails, Fail, TypeOK
  <2>. QED
    BY <1>2, <2>1, <2>2, <2>3, <2>4, <2>5, <2>6 DEF ThreadStep
<1>3. ASSUME Stop \/ UNCHANGED vars PROVE IndexInv'
  BY <1>3 DEF Stop, vars, callVars, IndexInv, IndexAt, Pushed
<1>. QED
  BY <1>1, <1>2, <1>3 DEF Next

-----------------------------------------------------------------------------
\* Every transaction is stored before its block is in the index.

LEMMA FromNext ==
    ASSUME NEW q \in Nat, NEW k \in Nat, NEW p \in Nat, From(q, k, p)
    PROVE  p = q \/ From(q + k, k, p)
<1>1. PICK j \in Nat : p = q + j * k
  BY DEF From
<1>2. CASE j = 0
  BY <1>1, <1>2
<1>3. CASE j # 0
  <2>1. j - 1 \in Nat /\ p = (q + k) + (j - 1) * k
    BY <1>1, <1>3
  <2>. QED
    BY <2>1 DEF From
<1>. QED
  BY <1>2, <1>3

LEMMA FromAbove ==
    ASSUME NEW q \in Nat, NEW k \in Nat, NEW p \in Nat, From(q, k, p)
    PROVE  q <= p
<1>1. PICK j \in Nat : p = q + j * k
  BY DEF From
<1>2. j * k \in Nat
  OBVIOUS
<1>. QED
  BY <1>1, <1>2

LEMMA FromSome ==
    ASSUME NEW k \in Nat \ {0}, NEW p \in Nat
    PROVE  \E i \in 0 .. k - 1 : From(i, k, p)
<1>1. p % k \in 0 .. k - 1 /\ p \div k \in Nat
  OBVIOUS
<1>2. p = (p % k) + (p \div k) * k
  OBVIOUS
<1>. QED
  BY <1>1, <1>2 DEF From

\* A step that leaves the threads of a call alone.
LEMMA WholeFrame ==
    ASSUME NEW c \in Calls, WholeAt(c), place'[c] = place[c], next'[c] = next[c],
           PostedOf(c)' = PostedOf(c),
           WorkersOf(c)' \ joined' = WorkersOf(c) \ joined,
           \A t \in WorkersOf(c) \ joined :
             work'[t] = work[t] /\ position'[t] = position[t],
           stored \subseteq stored'
    PROVE  WholeAt(c)'
<1>1. Open(c)' = Open(c)
  BY DEF Open
<1>2. \A p : Pending(c, p)' <=> Pending(c, p)
  BY DEF Pending, From
<1>. QED
  BY <1>1, <1>2 DEF WholeAt, TxCount, Block

\* While a call has the mutex, no other is at its blocks.
LEMMA WholeOthers ==
    ASSUME MutexInv, NEW c \in Calls, mutex = c,
           \A d \in Calls \ {c} : place'[d] = place[d]
    PROVE  \A d \in Calls \ {c} : WholeAt(d)'
BY DEF MutexInv, WholeAt

LEMMA WholeIndex ==
    ASSUME BlocksAreWhole, index' = index, stored \subseteq stored'
    PROVE  BlocksAreWhole'
BY DEF BlocksAreWhole, TxCount

LEMMA WholeCall ==
    ASSUME TypeOK, TypeOK', TaskInv, MutexInv, IndexInv, WholeInv,
           NEW c \in Calls, Call(c) \/ CallStep(c)
    PROVE  WholeInv'
<1>1. CASE Call(c)
  <2>1. \A d \in Calls \ {c} : PostedOf(d)' = PostedOf(d) /\ place'[d] = place[d]
    BY <1>1 DEF Call, Caller, Push, PostedOf, TypeOK
  <2>2. \A d \in Calls \ {c} : WholeAt(d)'
    BY <1>1, <2>1, WholeFrame DEF Call, WorkersOf, WholeInv
  <2>3. WholeAt(c)'
    BY <1>1 DEF Call, WholeAt, TypeOK
  <2>. QED
    BY <1>1, <2>2, <2>3, WholeIndex DEF Call, WholeInv
<1>2. CASE Lock(c)
  <2>1. \A d \in Calls : place'[d] # "pushing"
    BY <1>2 DEF Lock, MutexInv, TypeOK
  <2>. QED
    BY <1>2, <2>1, WholeIndex DEF Lock, WholeInv, WholeAt
<1>3. CASE BeginWrite(c) \/ PopFails(c) \/ Unlock(c)
  <2>1. /\ mutex = c /\ place'[c] # "pushing"
        /\ \A d \in Calls \ {c} : place'[d] = place[d]
        /\ UNCHANGED <<index, stored>>
    BY <1>3 DEF BeginWrite, PopFails, Unlock, Fail, MutexInv, TypeOK
  <2>. QED
    BY <2>1, WholeOthers, WholeIndex DEF WholeInv, WholeAt
<1>4. CASE Pop(c)
  <2>1. /\ mutex = c /\ place[c] = "popping" /\ place' = place
        /\ index' = SubSeq(index, 1, Len(index) - 1)
        /\ stored' = {s \in stored : s[1] # index[Len(index)]}
        /\ index # <<>>
    BY <1>4 DEF Pop, MutexInv, callVars
  <2>2. \A i \in DOMAIN index' :
          /\ i \in DOMAIN index /\ index'[i] = index[i]
          /\ Len(index) \in DOMAIN index /\ i # Len(index)
    <3>1. index \in Seq(Blocks) /\ Len(index) \in Nat
      BY DEF TypeOK
    <3>2. DOMAIN index = 1 .. Len(index)
      BY <3>1
    <3>3. DOMAIN index' = 1 .. Len(index) - 1
      BY <2>1, <3>1
    <3>4. \A i \in 1 .. Len(index) - 1 : index'[i] = index[i]
      BY <2>1, <3>1
    <3>. QED
      BY <3>1, <3>2, <3>3, <3>4
  <2>3. \A i \in DOMAIN index' : index[i] # index[Len(index)]
    BY <2>2 DEF IndexInv
  <2>4. BlocksAreWhole'
    <3>. SUFFICES ASSUME NEW i \in DOMAIN index',
                         NEW p \in 0 .. TxCount(index'[i]) - 1
                  PROVE  <<index'[i], p>> \in stored'
      BY DEF BlocksAreWhole, TxCount
    <3>1. <<index[i], p>> \in stored
      BY <2>2 DEF WholeInv, BlocksAreWhole
    <3>. QED
      BY <2>1, <2>2, <2>3, <3>1
  <2>. QED
    BY <2>1, <2>4, WholeOthers DEF WholeInv, WholeAt
<1>5. CASE PoppedAll(c)
  <2>1. /\ mutex = c /\ PushNext(c, 1) /\ UNCHANGED <<index, stored>>
    BY <1>5 DEF PoppedAll, MutexInv
  <2>2. WholeAt(c)'
    <3>1. CASE 1 <= Len(Branch[c])
      <4>1. Push(c, 1) \in PostedOf(c)'
        BY <2>1, <3>1 DEF PushNext, PostedOf, Push
      <4>2. Push(c, 1) \in Open(c)' /\ ~ IsBucket(Push(c, 1))
        BY <4>1 DEF Open, Push, IsBucket
      <4>. QED
        BY <4>2 DEF WholeAt
    <3>2. CASE ~ (1 <= Len(Branch[c]))
      BY <2>1, <3>2 DEF PushNext, WholeAt, TypeOK
    <3>. QED
      BY <3>1, <3>2
  <2>. QED
    BY <2>1, <2>2, PushNextOthers, WholeOthers, WholeIndex DEF WholeInv
<1>6. CASE EndWrite(c)
  <2>1. \A d \in Calls \ {c} : WholeAt(d)'
    BY <1>6, WholeFrame DEF EndWrite, taskVars, PostedOf, WorkersOf, WholeInv, TypeOK
  <2>2. WholeAt(c)'
    BY <1>6 DEF EndWrite, WholeAt, TypeOK
  <2>. QED
    BY <1>6, <2>1, <2>2, WholeIndex DEF EndWrite, WholeInv
<1>7. CASE Handle(c)
  <2>1. /\ UNCHANGED <<next, posted, position, joined, index, stored>>
        /\ place' = [place EXCEPT ![c] = "done"]
        /\ work' = [t \in Threads |-> IF work[t].call = c THEN None ELSE work[t]]
    BY <1>7 DEF Handle
  <2>2. ASSUME NEW d \in Calls \ {c} PROVE WholeAt(d)'
    <3>1. None.call = NoOne /\ NoOne # d
      BY DEF None
    <3>2. /\ WorkersOf(d)' = WorkersOf(d)
          /\ \A t \in WorkersOf(d) : work'[t] = work[t]
      BY <2>1, <3>1 DEF WorkersOf
    <3>3. PostedOf(d)' = PostedOf(d) /\ place'[d] = place[d]
      BY <2>1 DEF PostedOf, TypeOK
    <3>. QED
      BY <2>1, <3>2, <3>3, WholeFrame DEF WholeInv
  <2>3. WholeAt(c)'
    BY <2>1 DEF WholeAt, TypeOK
  <2>. QED
    BY <2>1, <2>2, <2>3, WholeIndex DEF WholeInv
<1>. QED
  BY <1>1, <1>2, <1>3, <1>4, <1>5, <1>6, <1>7 DEF CallStep

LEMMA WholeStart ==
    ASSUME TypeOK, TaskInv, WholeInv, NEW t \in Threads, NEW task \in posted,
           Start(t, task), NEW c, c = task.call
    PROVE  WholeInv'
<1>1. /\ task \in Tasks /\ c \in Calls /\ task \in PostedOf(c)
      /\ \/ place[c] = "idle" /\ place' = [place EXCEPT ![c] = "waiting"]
         \/ place[c] = "pushing" /\ place' = place
  BY StartAt
<1>2. /\ posted' = posted \ {task} /\ work' = [work EXCEPT ![t] = task]
      /\ position' = [position EXCEPT ![t] = task.bucket]
      /\ UNCHANGED <<next, joined, index, stored>>
      /\ work[t] = None /\ t \notin joined
  BY DEF Start, TaskInv, Distinct
<1>3. None.call = NoOne /\ NoOne \notin Calls
  BY DEF None
<1>4. ASSUME NEW d \in Calls \ {c} PROVE WholeAt(d)'
  <2>1. PostedOf(d)' = PostedOf(d) /\ WorkersOf(d)' = WorkersOf(d)
    BY <1>2, <1>3 DEF PostedOf, WorkersOf, TypeOK
  <2>2. \A u \in WorkersOf(d) : work'[u] = work[u] /\ position'[u] = position[u]
    BY <1>2, <1>3 DEF WorkersOf, TypeOK
  <2>3. place'[d] = place[d]
    BY <1>1 DEF TypeOK
  <2>. QED
    BY <1>2, <2>1, <2>2, <2>3, WholeFrame DEF WholeInv
<1>5. CASE place[c] = "idle"
  BY <1>1, <1>2, <1>4, <1>5, WholeIndex DEF WholeInv, WholeAt, TypeOK
<1>6. CASE place[c] = "pushing"
  <2>1. /\ WorkersOf(c) \subseteq WorkersOf(c)' /\ t \in WorkersOf(c)'
        /\ PostedOf(c)' = PostedOf(c) \ {task}
        /\ work'[t] = task /\ position'[t] = task.bucket
        /\ \A u \in WorkersOf(c) : work'[u] = work[u] /\ position'[u] = position[u]
    BY <1>1, <1>2, <1>3 DEF WorkersOf, PostedOf, TypeOK
  <2>2. Open(c) \subseteq Open(c)'
    BY <1>2, <2>1 DEF Open
  <2>3. ASSUME NEW p, Pending(c, p) PROVE Pending(c, p)'
    BY <1>2, <2>1, <2>3 DEF Pending, From
  <2>4. WholeAt(c)'
    BY <1>1, <1>2, <1>6, <2>2, <2>3 DEF WholeInv, WholeAt, TxCount, Block
  <2>. QED
    BY <1>2, <1>4, <2>4, WholeIndex DEF WholeInv
<1>. QED
  BY <1>1, <1>5, <1>6

LEMMA WholeDoPush ==
    ASSUME TypeOK, TypeOK', TaskInv, MutexInv, WholeInv, NEW t \in Threads,
           DoPush(t), NEW c, c = work[t].call, NEW n, n = work[t].block
    PROVE  WholeInv'
<1>1. /\ c \in Calls /\ next[c] \in DOMAIN Branch[c]
      /\ work[t] = Push(c, next[c]) /\ place[c] = "pushing" /\ mutex = c
  BY PushAt DEF DoPush, MutexInv
<1>2. n = next[c]
  BY <1>1 DEF Push
<1>3. UNCHANGED <<next, index, stored>>
  BY DEF DoPush
<1>4. CASE CanPush(c, n)
  <2>1. place' = place /\ posted' = posted \cup Buckets(c)
    BY <1>2, <1>4 DEF DoPush, Size, Buckets
  <2>2. ASSUME NEW p \in 0 .. TxCount(Block(c, n)) - 1 PROVE Pending(c, p)'
    <3>1. Branch[c][n] \in Nat \ {0} /\ p \in Nat
      BY <1>1, <1>2, <1>4, SizeTyped DEF CanPush, TxCount, Block
    <3>2. Cardinality(Threads) \in Nat \ {0}
      BY FS_CardinalityType, FS_EmptySet
    <3>3. Size(c) \in Nat \ {0}
      BY <1>2, <3>1, <3>2 DEF Size, MinOf
    <3>4. PICK i \in 0 .. Size(c) - 1 : From(i, Size(c), p)
      BY <3>1, <3>3, FromSome
    <3>5. Bucket(c, next[c], i, Size(c)) \in Buckets(c)
      BY DEF Buckets
    <3>6. Bucket(c, next[c], i, Size(c)) \in PostedOf(c)'
      BY <2>1, <3>5 DEF PostedOf, Bucket
    <3>7. /\ Bucket(c, next[c], i, Size(c)).bucket = i
          /\ Bucket(c, next[c], i, Size(c)).buckets = Size(c)
      BY DEF Bucket
    <3>. QED
      BY <3>4, <3>6, <3>7 DEF Pending, From
  <2>3. WholeAt(c)'
    BY <1>2, <1>3, <2>2 DEF WholeAt, TxCount, Block
  <2>. QED
    BY <1>1, <1>3, <2>1, <2>3, WholeOthers, WholeIndex DEF WholeInv
<1>5. CASE ~ CanPush(c, n)
  <2>1. place' = [place EXCEPT ![c] = "unlock"]
    BY <1>5 DEF DoPush, Fail
  <2>2. WholeAt(c)'
    BY <1>1, <2>1 DEF WholeAt, TypeOK
  <2>. QED
    BY <1>1, <1>3, <2>1, <2>2, WholeOthers, WholeIndex DEF WholeInv, TypeOK
<1>. QED
  BY <1>4, <1>5

LEMMA WholeStore ==
    ASSUME TypeOK, TaskInv, MutexInv, WholeInv, NEW t \in Threads,
           StoreTransaction(t), NEW c, c = work[t].call,
           NEW q, q = position[t], NEW k, k = work[t].buckets
    PROVE  WholeInv'
<1>1. /\ c \in Calls /\ next[c] \in DOMAIN Branch[c] /\ mutex = c
      /\ work[t].block = next[c] /\ work[t] # None /\ t \notin joined
  BY BucketAt, NotNone DEF StoreTransaction, Storing, MutexInv
<1>2. q \in Nat /\ k \in Nat
  BY <1>1, TaskHasCall DEF TypeOK, Tasks
<1>3. /\ stored' = stored \cup {<<Block(c, next[c]), q>>}
      /\ position' = [position EXCEPT ![t] = q + k]
      /\ UNCHANGED <<place, next, posted, work, joined, index>>
  BY <1>1 DEF StoreTransaction, callVars
<1>4. Open(c)' = Open(c) /\ PostedOf(c)' = PostedOf(c) /\ WorkersOf(c)' = WorkersOf(c)
  BY <1>3 DEF Open, PostedOf, WorkersOf
<1>5. ASSUME NEW p \in Nat, Pending(c, p) PROVE Pending(c, p)' \/ p = q
  <2>1. CASE \E task \in PostedOf(c) : From(task.bucket, task.buckets, p)
    BY <1>4, <2>1 DEF Pending, From
  <2>2. ASSUME NEW u \in WorkersOf(c) \ joined,
               From(position[u], work[u].buckets, p)
        PROVE  Pending(c, p)' \/ p = q
    <3>1. CASE u = t
      <4>1. p = q \/ From(q + k, k, p)
        BY <1>2, <2>2, <3>1, FromNext
      <4>2. position'[t] = q + k /\ work'[t].buckets = k
        BY <1>3 DEF TypeOK
      <4>. QED
        BY <1>3, <1>4, <2>2, <3>1, <4>1, <4>2 DEF Pending, From
    <3>2. CASE u # t
      <4>1. position'[u] = position[u] /\ work'[u] = work[u]
        BY <1>3, <3>2 DEF TypeOK, WorkersOf
      <4>. QED
        BY <1>3, <1>4, <2>2, <4>1 DEF Pending, From
    <3>. QED
      BY <3>1, <3>2
  <2>. QED
    BY <1>5, <2>1, <2>2 DEF Pending
<1>6. WholeAt(c)'
  <2>. SUFFICES ASSUME place[c] = "pushing", \A task \in Open(c) : IsBucket(task),
                       NEW p \in 0 .. TxCount(Block(c, next[c])) - 1
                PROVE  <<Block(c, next[c]), p>> \in stored' \/ Pending(c, p)'
    BY <1>3, <1>4 DEF WholeAt, TxCount, Block
  <2>1. TxCount(Block(c, next[c])) \in Nat
    BY <1>1, SizeTyped DEF TxCount, Block
  <2>2. <<Block(c, next[c]), p>> \in stored \/ Pending(c, p)
    BY <1>1 DEF WholeInv, WholeAt
  <2>. QED
    BY <1>3, <1>5, <2>1, <2>2
<1>. QED
  BY <1>1, <1>3, <1>6, WholeOthers, WholeIndex DEF WholeInv

LEMMA WholeAnswer ==
    ASSUME TypeOK, TaskInv, MutexInv, WholeInv, NEW t \in Threads,
           Answer(t), NEW c, c = work[t].call
    PROVE  WholeInv'
<1>1. /\ c \in Calls /\ next[c] \in DOMAIN Branch[c] /\ mutex = c
      /\ AtBuckets(c) /\ work[t].block = next[c] /\ t \notin joined
      /\ position[t] >= TxCount(Block(c, next[c]))
  BY BucketAt DEF Answer, BucketDone, Storing, MutexInv
<1>2. /\ UNCHANGED <<place, next, posted, position, index, stored>>
      /\ \/ joined' = joined \cup {t} /\ work' = work
         \/ work' = [work EXCEPT ![t] = None] /\ joined' = joined
  BY DEF Answer, Free
<1>3. None.call # c /\ work[t] # None
  BY <1>1 DEF None
<1>4. /\ WorkersOf(c)' \ joined' = (WorkersOf(c) \ joined) \ {t}
      /\ \A u \in WorkersOf(c) \ {t} : work'[u] = work[u]
      /\ PostedOf(c)' = PostedOf(c)
  BY <1>2, <1>3 DEF WorkersOf, PostedOf, TypeOK
<1>5. TxCount(Block(c, next[c])) \in Nat /\ position[t] \in Nat
      /\ work[t].buckets \in Nat
  BY <1>1, <1>3, SizeTyped, TaskHasCall DEF TxCount, Block, TypeOK, Tasks
<1>6. ASSUME NEW p \in 0 .. TxCount(Block(c, next[c])) - 1, Pending(c, p)
      PROVE  Pending(c, p)'
  <2>1. ~ From(position[t], work[t].buckets, p)
    BY <1>1, <1>5, FromAbove
  <2>. QED
    BY <1>2, <1>4, <1>6, <2>1 DEF Pending, From
<1>7. \A task \in Open(c) : IsBucket(task)
  BY <1>1, BucketsTyped DEF AtBuckets
<1>8. WholeAt(c)'
  BY <1>1, <1>2, <1>6, <1>7 DEF WholeInv, WholeAt, TxCount, Block
<1>. QED
  BY <1>1, <1>2, <1>8, WholeOthers, WholeIndex DEF WholeInv

LEMMA WholeComplete ==
    ASSUME TypeOK, TypeOK', TaskInv, MutexInv, WholeInv, NEW t \in Threads,
           Complete(t), NEW c, c = work[t].call, NEW n, n = work[t].block
    PROVE  WholeInv'
<1>1. /\ t \in joined /\ c \in Calls /\ n \in DOMAIN Branch[c] /\ n = next[c]
      /\ place[c] = "pushing" /\ mutex = c
      /\ PostedOf(c) = {} /\ WorkersOf(c) = {t} /\ JoinedOf(c) = {t}
  BY JoinAt DEF Complete, MutexInv
<1>2. /\ index' = Append(index, Block(c, n)) /\ PushNext(c, n + 1)
      /\ stored' = stored
  BY DEF Complete
<1>3. n \in Nat \ {0} /\ Block(c, n) \in Blocks
  BY <1>1, BlockTyped
<1>4. \A p \in 0 .. TxCount(Block(c, n)) - 1 : <<Block(c, n), p>> \in stored
  <2>1. Open(c) = {} /\ WorkersOf(c) \ joined = {}
    BY <1>1 DEF Open
  <2>2. \A p : ~ Pending(c, p)
    BY <1>1, <2>1 DEF Pending
  <2>. QED
    BY <1>1, <2>1, <2>2 DEF WholeInv, WholeAt
<1>5. BlocksAreWhole'
  <2>1. ASSUME NEW i \in DOMAIN index'
        PROVE  \/ index'[i] = Block(c, n)
               \/ (i \in DOMAIN index /\ index'[i] = index[i])
    <3>1. index \in Seq(Blocks)
      BY DEF TypeOK
    <3>2. DOMAIN index' = 1 .. Len(index) + 1 /\ DOMAIN index = 1 .. Len(index)
      BY <1>2, <1>3, <3>1
    <3>3. /\ \A m \in 1 .. Len(index) : index'[m] = index[m]
          /\ index'[Len(index) + 1] = Block(c, n)
      BY <1>2, <1>3, <3>1
    <3>4. Len(index) \in Nat
      BY <3>1
    <3>5. i \in 1 .. Len(index) \/ i = Len(index) + 1
      BY <2>1, <3>2, <3>4
    <3>. QED
      BY <3>2, <3>3, <3>5
  <2>. QED
    BY <1>2, <1>4, <2>1 DEF WholeInv, BlocksAreWhole, TxCount
<1>6. WholeAt(c)'
  <2>1. CASE n + 1 <= Len(Branch[c])
    <3>1. Push(c, n + 1) \in PostedOf(c)'
      BY <1>2, <2>1 DEF PushNext, PostedOf, Push
    <3>2. Push(c, n + 1) \in Open(c)' /\ ~ IsBucket(Push(c, n + 1))
      BY <3>1 DEF Open, Push, IsBucket
    <3>. QED
      BY <3>2 DEF WholeAt
  <2>2. CASE ~ (n + 1 <= Len(Branch[c]))
    BY <1>1, <1>2, <2>2 DEF PushNext, WholeAt, TypeOK
  <2>. QED
    BY <2>1, <2>2
<1>. QED
  BY <1>1, <1>2, <1>3, <1>5, <1>6, PushNextOthers, WholeOthers DEF WholeInv

LEMMA WholeStep ==
    ASSUME TypeOK, TypeOK', TaskInv, MutexInv, IndexInv, WholeInv, [Next]_vars
    PROVE  WholeInv'
<1>1. ASSUME NEW c \in Calls, Call(c) \/ CallStep(c) PROVE WholeInv'
  BY <1>1, WholeCall
<1>2. ASSUME NEW t \in Threads, CompleteFails(t) PROVE WholeInv'
  <2>1. PICK c \in Calls : c = work[t].call /\ mutex = c
    BY <1>2, JoinAt DEF CompleteFails, MutexInv
  <2>2. /\ place' = [place EXCEPT ![c] = "unlock"]
        /\ UNCHANGED <<index, stored>>
    BY <1>2, <2>1 DEF CompleteFails, Fail
  <2>3. WholeAt(c)'
    BY <2>2 DEF WholeAt, TypeOK
  <2>. QED
    BY <2>1, <2>2, <2>3, WholeOthers, WholeIndex DEF WholeInv, TypeOK
<1>3. ASSUME NEW t \in Threads, ThreadStep(t) PROVE WholeInv'
  BY <1>2, <1>3, WholeStart, WholeDoPush, WholeStore, WholeAnswer, WholeComplete
  DEF ThreadStep
<1>4. ASSUME Stop \/ UNCHANGED vars PROVE WholeInv'
  <2>1. UNCHANGED <<callVars, taskVars, index, stored>>
    BY <1>4 DEF Stop, vars
  <2>2. \A c \in Calls : WholeAt(c)'
    BY <2>1, WholeFrame
    DEF callVars, taskVars, PostedOf, WorkersOf, WholeInv
  <2>. QED
    BY <2>1, <2>2, WholeIndex DEF WholeInv
<1>. QED
  BY <1>1, <1>3, <1>4 DEF Next

-----------------------------------------------------------------------------
\* The theorems.

Inv == TypeOK /\ TaskInv /\ MutexInv /\ AnswerInv /\ IndexInv /\ WholeInv

\* All the parts together are inductive.
THEOREM PipelineInvariant == Spec => []Inv
<1>1. Init => Inv
  <2>1. Init => MutexInv /\ AnswerInv /\ IndexInv
    BY DEF Init, MutexInv, AnswerInv, IndexInv, IndexAt
  <2>2. Init => WholeInv
    BY DEF Init, WholeInv, WholeAt, BlocksAreWhole
  <2>. QED
    BY <2>1, <2>2, TypeInit, TaskInit DEF Inv
<1>2. Inv /\ [Next]_vars => Inv'
  BY TypeStep, TaskStep, HoldStep, IndexStep, WholeStep DEF Inv
<1>. QED
  BY <1>1, <1>2, PTL DEF Spec

\* The state keeps its types, however many calls push at once.
THEOREM PipelineTyped == Spec => []TypeOK
BY PipelineInvariant, PTL DEF Inv

\* handle_push never calls a handler twice, nor under the mutex, nor while a
\* thread still works for the call: the last of the buckets to answer is the
\* only one that goes on from the join, and a failed call has no other thread.
THEOREM HandlersOnce == Spec => []HandlerOnce
<1>1. Inv => HandlerOnce
  BY DEF Inv, HandlerOnce, TaskInv, CallInv, MutexInv, AnswerInv, PostedOf,
         WorkersOf
<1>. QED
  BY <1>1, PipelineInvariant, PTL

\* A task of the pool always belongs to the call that holds the mutex, or
\* that has given it back and is about to call its handler.
THEOREM PoolForHolder == Spec => []PoolWorksForHolder
<1>1. Inv => PoolWorksForHolder
  <2>. SUFFICES ASSUME Inv, NEW task \in posted \cup {work[t] : t \in Threads},
                       IsPush(task) \/ IsBucket(task)
                PROVE  \/ mutex = task.call
                       \/ place[task.call] \in {"end", "handler"}
    BY DEF PoolWorksForHolder
  <2>1. task # None
    BY NotNone
  <2>2. task \in Tasks /\ task.call \in Calls
    BY <2>1 DEF Inv, TypeOK, Tasks
  <2>3. \/ task \in PostedOf(task.call)
        \/ \E t \in WorkersOf(task.call) : task = work[t]
    BY DEF PostedOf, WorkersOf
  <2>4. task # Caller(task.call)
    BY DEF Caller, Push, IsPush, IsBucket
  <2>5. place[task.call] \in {"pushing", "unlock", "end", "handler"}
    <3>1. CallInv(task.call)
      BY <2>2 DEF Inv, TaskInv
    <3>2. place[task.call] \notin {"idle", "done"} \cup InCaller
      BY <2>3, <2>4, <3>1 DEF CallInv
    <3>. QED
      BY <2>2, <3>2 DEF Inv, TypeOK, InCaller
  <2>. QED
    BY <2>2, <2>5 DEF Inv, MutexInv
<1>. QED
  BY <1>1, PipelineInvariant, PTL

\* A call that gives the mutex back with success leaves its branch above the
\* fork point, whole and in order, whatever other calls wait to push.
THEOREM SuccessBranch == Spec => []SuccessIsBranch
<1>1. Inv => SuccessIsBranch
  <2>1. \A c \in Calls : DOMAIN Branch[c] = 1 .. Len(Branch[c])
    OBVIOUS
  <2>. QED
    BY <2>1 DEF Inv, IndexInv, IndexAt, Pushed, SuccessIsBranch
<1>. QED
  BY <1>1, PipelineInvariant, PTL

\* push_heights comes after the join: a block that is in the index has all its
\* transactions stored, for any number of threads and of transactions.
THEOREM BlocksWhole == Spec => []BlocksAreWhole
<1>1. Inv => BlocksAreWhole
  BY DEF Inv, WholeInv
<1>. QED
  BY <1>1, PipelineInvariant, PTL
=============================================================================
