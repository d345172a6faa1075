------------------------------- MODULE Chain -------------------------------
(***************************************************************************)
(* The content of data_base: how push and reorganize keep the block index, *)
(* the transactions, the unconfirmed transactions, the spends and the      *)
(* history in step.  One writer works at a time (WriteProtocol); a push in *)
(* a reorganization stores the transactions of a block in parallel         *)
(* buckets, an import inserts several blocks in parallel, and everything   *)
(* else is one step after the other.                                       *)
(*                                                                         *)
(* A transaction is stored in one step here.  Two calls in it are not safe *)
(* beside those of another bucket or block: an unlink from the unconfirmed *)
(* table (HashTable) and the addition of a row to an address               *)
(* (RecordMultimap).  What a race does to a row, at once or when the other *)
(* thread goes on, is chosen in the step of its own transaction: the row   *)
(* of the unconfirmed table goes or stays, the row of an address is there  *)
(* or lost.  Of two first rows of an address one is lost too, hidden by    *)
(* the start info of the other.  More is allowed than happens: of the rows *)
(* that race the last to be linked is there.                               *)
(*                                                                         *)
(* A write that fails leaves what it did so far and does not end: no more  *)
(* is said of a store that is "failed".                                    *)
(***************************************************************************)
EXTENDS TransactionTable

CONSTANTS
    Threads,        \* dispatch.size()
    IndexStart,     \* settings.index_start_height
    Forks,          \* the validation forks of a pushed transaction
    MaxBranch,      \* bound: blocks of one reorganization
    MayStay,        \* bound: rows of a transaction of which a race may leave all
    Imports,        \* the order of parallel inserts that callers keep
    Reorganizes,    \* callers reorganize
    ForksOnChain,   \* callers fork from a block of the chain
    ChecksInputs    \* callers push only transactions they could spend

ASSUME ChainAssumption ==
    /\ Threads \in Nat \ {0} /\ MaxBranch \in Nat /\ MayStay \in [Txs -> Nat]
    /\ IndexStart \in Nat
    /\ Forks \in 0 .. MaxWord /\ Unverified \in 0 .. MaxWord
    /\ Imports \in {"none", "any", "inputs", "rows"}
    /\ {Reorganizes, ForksOnChain, ChecksInputs} \subseteq BOOLEAN

VARIABLES
    index,      \* blocks_'s index: the block at each height
    rows,       \* blocks_'s table: the height of every block ever stored
    pool,       \* transactions_unconfirmed_: the rows of each transaction
    spends,     \* spends_: the rows of each point, newest first
    history,    \* history_: the rows of each address, newest first
    stealth,    \* stealth_: the rows, however often each is there
    phase,      \* what the writer does
    incoming,   \* blocks still to push, the one at work first
    height,     \* the height the next of them is pushed at
    position,   \* the next position of each bucket, or inserted block
    fork,       \* the height to pop down to
    left,       \* transactions of the top block still to pop
    outgoing,   \* the blocks popped, lowest first
    committed,  \* history: the chain and the pool as of the last write
    stale,      \* history: the transactions whose row a race left in pool
    lossy       \* history: the addresses that lost a row to a race

tableVars == <<slab, cache, sequence>>
indexVars == <<pool, spends, history, stealth, stale, lossy>>
writeVars == <<incoming, height, position, fork, left>>
vars == <<index, rows, tableVars, indexVars, phase, writeVars, outgoing,
          committed>>

Top == Len(index) - 1
InputPoint == [tx : Txs, index : 0 .. MaxWord]

TypeOK ==
    /\ TableTypeOK
    /\ index \in Seq(Blocks)
    /\ DOMAIN rows \subseteq Blocks
    /\ \A b \in DOMAIN rows : rows[b] \in 0 .. MaxWord
    /\ pool \in [Txs -> Nat]
    /\ spends \in [Points -> Seq(InputPoint)]
    /\ history \in [Addresses -> Seq([kind : {"spend", "output"}, tx : Txs,
                                      index : 0 .. MaxWord,
                                      height : 0 .. MaxWord,
                                      address : Addresses])]
    /\ stealth \subseteq [tx : Txs, index : 0 .. MaxWord, height : 0 .. MaxWord]
    /\ stale \subseteq Txs /\ lossy \subseteq Addresses
    /\ phase \in {"idle", "popping", "unwinding", "linking", "pushing",
                  "importing", "failed", "thrown"}
    /\ incoming \in Seq(Blocks) /\ outgoing \in Seq(Blocks)
    /\ height \in 0 .. MaxWord /\ fork \in 0 .. MaxWord /\ left \in Nat
    /\ DOMAIN position \subseteq IF phase = "importing" THEN DOMAIN incoming
                                                      ELSE 1 .. Threads
    /\ \A i \in DOMAIN position : position[i] \in Nat

\* create: empty tables.  The genesis block is the first pushed.
Init ==
    /\ TableInit
    /\ index = <<>> /\ rows = <<>>
    /\ pool = [tx \in Txs |-> 0]
    /\ spends = [p \in Points |-> <<>>]
    /\ history = [a \in Addresses |-> <<>>]
    /\ stealth = {} /\ stale = {} /\ lossy = {}
    /\ phase = "idle" /\ incoming = <<>> /\ height = 0 /\ position = <<>>
    /\ fork = 0 /\ left = 0 /\ outgoing = <<>>
    /\ committed = [chain |-> <<>>, mempool |-> {}]

-----------------------------------------------------------------------------
\* verify_push(block, height); a block always has transactions.
CanPush(b, h) ==
    /\ Len(index) = h
    /\ Parent[b] = IF h = 0 THEN NoBlock ELSE index[h]

\* The outputs a transaction spends exist and no block spends them.
Spendable(tx) ==
    \A p \in PointsOf(tx) :
        /\ p.tx \in DOMAIN slab
        /\ p.index \in Outputs(p.tx) /\ slab[p.tx].spent[p.index] = NotSpent

\* A transaction offered to the pool is not a coinbase.
Offered(tx) ==
    /\ InputsOf[tx] # <<>>
    /\ ChecksInputs => Spendable(tx)

\* Mutant: a coinbase is not stored in the unconfirmed table.
PooledUnlessCoinbase(tx) ==
    [pool EXCEPT ![tx] = IF InputsOf[tx] = <<>> THEN @ ELSE @ + 1]

\* store in the unconfirmed table: a row for each push.
PooledMore(tx) == [pool EXCEPT ![tx] = @ + 1]

Pooled(p) == {tx \in Txs : p[tx] > 0}

\* The memory pool: what has rows there and is in no block of the chain.
Mempool(p, chain) == Pooled(p) \ ChainTxs(chain)

-----------------------------------------------------------------------------
\* push(transaction, forks)

PushTx(tx) ==
    /\ phase = "idle" /\ Offered(tx)
    /\ tx \in DOMAIN slab => IsSpent(slab[tx])
    /\ Store(tx, Forks, Unconfirmed, FALSE)
    /\ pool' = PooledMore(tx)
    /\ committed' = [committed EXCEPT !.mempool = Mempool(pool', index)]
    /\ UNCHANGED <<index, rows, spends, history, stealth, stale, lossy, phase,
                   writeVars, outgoing>>

-----------------------------------------------------------------------------
\* push(block, height) and push_all

\* push(block, height): verified before begin_write, one bucket.
PushBlock(b, h) ==
    /\ phase = "idle" /\ CanPush(b, h)
    /\ phase' = "pushing"
    /\ incoming' = <<b>> /\ height' = h
    /\ position' = <<0>>
    /\ UNCHANGED <<index, rows, tableVars, indexVars, fork, left, outgoing,
                   committed>>

\* push_next and do_push: the next incoming block is verified and its
\* transactions are dealt out to the buckets.
LinkBlock ==
    /\ phase = "linking" /\ incoming # <<>>
    /\ IF CanPush(Head(incoming), height)
         THEN LET count == Len(TxsOf[Head(incoming)])
                  buckets == IF Threads < count THEN Threads ELSE count
              IN  /\ phase' = "pushing"
                  /\ position' = [i \in 1 .. buckets |-> i - 1]
         ELSE phase' = "failed" /\ UNCHANGED position
    /\ UNCHANGED <<index, rows, tableVars, indexVars, incoming, height, fork,
                   left, outgoing, committed>>

\* The rows of an address but for those that are lost, newest first.
AddRow(r, lost, h) ==
    [a \in Addresses |->
        LET at == InOrder({i \in DOMAIN r : r[i].address = a /\ r[i] \notin lost})
        IN  Reverse([n \in DOMAIN at |-> r[at[n]]]) \o h[a]]

HasRows(tx, a) == HistoryRows(tx, 0, a) # {}

\* push_inputs and push_outputs.  A row may be lost to that of a transaction
\* which another thread stores beside it.
AddHistory(tx, h, beside) ==
    LET shared == {a \in Addresses : \E u \in beside : HasRows(u, a)}
    IN  \E lost \in SUBSET UNION {HistoryRows(tx, h, a) : a \in shared} :
          /\ history' = AddRow(OutputRows(tx, h), lost,
                               AddRow(InputRows(tx, h), lost, history))
          /\ lossy' = lossy \cup {r.address : r \in lost}

\* push_inputs; the coinbase, at position 0, has none.
SpendRows(tx) ==
    [p \in Points |->
        LET inputs == InOrder({i \in DOMAIN InputsOf[tx] : InputsOf[tx][i].point = p})
        IN  Reverse([n \in DOMAIN inputs |-> [tx |-> tx, index |-> inputs[n] - 1]])
            \o spends[p]]

\* Mutant: a transaction that joins the chain keeps its rows.
StayPooled(tx, beside) == UNCHANGED <<pool, stale>>

\* unlink_if_exists(tx.hash()).  Beside an unlink of another thread the row
\* stays, or is back when that thread goes on.
Unpool(tx, beside) ==
    \/ /\ pool' = [pool EXCEPT ![tx] = IF @ = 0 THEN 0 ELSE @ - 1]
       /\ UNCHANGED stale
    \/ /\ beside # {} /\ pool[tx] \in 1 .. MayStay[tx]
       /\ stale' = stale \cup {tx}
       /\ UNCHANGED pool

\* Mutant: the stealth rows of a pooled transaction are not stored.
StealthOfNew(tx, h) ==
    IF pool[tx] > 0 THEN stealth ELSE stealth \cup StealthRows(tx, h)

\* push_stealth
AddStealth(tx, h) == stealth \cup StealthRows(tx, h)

\* push_transactions: the transaction of a block at a position is stored or
\* confirmed, leaves the unconfirmed table, and adds its rows, while other
\* threads do so with those beside it.
StoreTransaction(b, h, at, beside) ==
    LET tx == TxsOf[b][at + 1]
    IN  /\ \E pooled \in BOOLEAN :
              /\ pooled => Found(slab, tx, 0, FALSE)
              /\ pooled => slab[tx].position = Unconfirmed
              /\ Store(tx, h, at, pooled)
        /\ Unpool(tx, beside)
        /\ IF h < IndexStart
             THEN UNCHANGED <<spends, history, stealth, lossy>>
             ELSE /\ spends' = SpendRows(tx)
                  /\ AddHistory(tx, h, beside)
                  /\ stealth' = AddStealth(tx, h)

\* The transactions of a block in the buckets beside that of a position.
InOtherBuckets(b, at) ==
    {TxsOf[b][i] : i \in {i \in DOMAIN TxsOf[b] :
                            (i - 1) % Len(position) # at % Len(position)}}

\* Bucket i stores its next transaction and the rows of it.
PushTransaction(i) ==
    /\ phase = "pushing"
    /\ position[i] < Len(TxsOf[Head(incoming)])
    /\ StoreTransaction(Head(incoming), height, position[i],
                        InOtherBuckets(Head(incoming), position[i]))
    /\ position' = [position EXCEPT ![i] = @ + Len(position)]
    /\ UNCHANGED <<index, rows, phase, incoming, height, fork, left, outgoing,
                   committed>>

\* blocks_->store: the newest row of a block's hash is the one found.
RowOf(b, h) ==
    [c \in DOMAIN rows \cup {b} |-> IF c = b THEN h ELSE rows[c]]

\* Mutant: the join expects an answer of every thread.
AllThreadsStored ==
    /\ DOMAIN position = 1 .. Threads
    /\ \A i \in DOMAIN position : position[i] >= Len(TxsOf[Head(incoming)])

\* synchronize(block_complete, buckets): every bucket has answered.
AllStored ==
    \A i \in DOMAIN position : position[i] >= Len(TxsOf[Head(incoming)])

\* handle_push_transactions: push_heights, then the block itself.
CompleteBlock ==
    /\ phase = "pushing" /\ AllStored
    /\ LET b == Head(incoming)
           points == BlockPoints(b)
       IN  IF \A p \in points : CanSpend(slab, p, height)
             THEN /\ slab' = SpendAll(slab, points, height)
                  /\ cache' = ForgetAll(points) /\ UNCHANGED sequence
                  /\ rows' = RowOf(b, height)
                  /\ index' = Append(index, b)
                  /\ incoming' = Tail(incoming)
                  /\ height' = height + 1
                  /\ phase' = "linking"
             ELSE /\ phase' = "failed"
                  /\ UNCHANGED <<tableVars, rows, index, incoming, height>>
    /\ position' = <<>>
    /\ UNCHANGED <<indexVars, fork, left, outgoing, committed>>

\* No block is left: the handler gets the result and the write ends.
Commit ==
    /\ phase = "linking" /\ incoming = <<>>
    /\ phase' = "idle" /\ height' = 0 /\ fork' = 0
    /\ outgoing' = <<>>
    /\ committed' = [chain |-> index, mempool |-> Mempool(pool, index)]
    /\ UNCHANGED <<index, rows, tableVars, indexVars, incoming, position, left>>

-----------------------------------------------------------------------------
\* reorganize(fork_point, incoming_blocks, outgoing_blocks)

\* pop_above: top - fork is unsigned, and out_blocks->reserve throws when the
\* block of the hash was stored above the top.
Reorganize(f, branch) ==
    /\ phase = "idle" /\ Reorganizes
    /\ f \in DOMAIN rows /\ Linked(f, branch)
    /\ ForksOnChain => f \in ToSet(index)
    /\ phase' = IF rows[f] > Top THEN "thrown" ELSE "popping"
    /\ incoming' = branch
    /\ fork' = rows[f] /\ height' = rows[f] + 1
    /\ UNCHANGED <<index, rows, tableVars, indexVars, position, left, outgoing,
                   committed>>

\* pop: the transactions of the top block are read first.
ReadBlock ==
    /\ phase = "popping" /\ Top > fork
    /\ LET txs == TxsOf[Last(index)]
       IN  /\ phase' = IF \A i \in DOMAIN txs :
                            /\ Found(slab, txs[i], Top, TRUE)
                            /\ slab[txs[i]].height = Top
                            /\ slab[txs[i]].position = i - 1
                         THEN "unwinding" ELSE "failed"
           /\ left' = Len(txs)
    /\ UNCHANGED <<index, rows, tableVars, indexVars, incoming, height,
                   position, fork, outgoing, committed>>

\* Mutant: one row of each address is deleted, however many were added.
DropOne(r, h) ==
    [a \in Addresses |-> IF RowsFor(r, a) # <<>> /\ h[a] # <<>>
                           THEN Tail(h[a]) ELSE h[a]]

\* delete_last_row for each row with an address, newest first.
DropRows(r, h) ==
    [a \in Addresses |-> SubSeq(h[a], Len(RowsFor(r, a)) + 1, Len(h[a]))]

\* Mutant: the spends of a popped transaction stay.
KeepSpends(tx) == spends

\* spends_->unlink of each point the transaction spends, if it is there.
DropSpends(tx) ==
    [p \in Points |-> IF p \in PointsOf(tx) /\ spends[p] # <<>>
                        THEN Tail(spends[p]) ELSE spends[p]]

\* pop: the last transaction left is unconfirmed, and pop_outputs and
\* pop_inputs take back what it added, but for its stealth rows.
PopTransaction ==
    /\ phase = "unwinding" /\ left > 0
    /\ LET tx == TxsOf[Last(index)][left]
           demoted == Unconfirm(slab, tx)
       IN  IF \A p \in PointsOf(tx) : CanSpend(demoted, p, NotSpent)
             THEN /\ slab' = UnspendAll(demoted, PointsOf(tx))
                  /\ pool' = PooledMore(tx)
                  /\ IF Top < IndexStart
                       THEN UNCHANGED <<spends, history>>
                       ELSE /\ history' = DropRows(InputRows(tx, Top),
                                                   DropRows(OutputRows(tx, Top),
                                                            history))
                            /\ spends' = DropSpends(tx)
                  /\ phase' = phase
             ELSE /\ phase' = "failed"
                  /\ UNCHANGED <<slab, pool, spends, history>>
    /\ left' = left - 1
    /\ UNCHANGED <<index, rows, cache, sequence, stealth, stale, lossy, incoming,
                   height, position, fork, outgoing, committed>>

\* Mutant: the blocks are handed out highest first.
PopBlockBack ==
    /\ phase = "unwinding" /\ left = 0
    /\ index' = SubSeq(index, 1, Top)
    /\ outgoing' = Append(outgoing, Last(index))
    /\ phase' = "popping"
    /\ UNCHANGED <<rows, tableVars, indexVars, writeVars, committed>>

\* pop: the index is cut at the block, which is handed out.
PopBlock ==
    /\ phase = "unwinding" /\ left = 0
    /\ index' = SubSeq(index, 1, Top)
    /\ outgoing' = <<Last(index)>> \o outgoing
    /\ phase' = "popping"
    /\ UNCHANGED <<rows, tableVars, indexVars, writeVars, committed>>

\* pop_above is done: handle_pop goes on with push_all.
PoppedAll ==
    /\ phase = "popping" /\ Top = fork
    /\ phase' = "linking"
    /\ UNCHANGED <<index, rows, tableVars, indexVars, writeVars, outgoing,
                   committed>>

-----------------------------------------------------------------------------
\* Parallel import: begin_insert, insert from several threads, end_insert.
\* The heights from Len(index) up belong to the branch.  Nothing reads them
\* in the index before end_insert but exists and gaps (BlockIndex), so they
\* join index there.

BeginInsert(branch) ==
    /\ phase = "idle" /\ Imports # "none"
    /\ index # <<>> /\ branch # <<>> /\ Linked(Last(index), branch)
    /\ phase' = "importing"
    /\ incoming' = branch /\ height' = Len(index)
    /\ position' = [i \in DOMAIN branch |-> 0]
    /\ UNCHANGED <<index, rows, tableVars, indexVars, fork, left, outgoing,
                   committed>>

\* push_transactions of block i is done, and the whole of its insert.
Pushed(i) == position[i] >= Len(TxsOf[incoming[i]])
Inserted(i) == position[i] > Len(TxsOf[incoming[i]])

Spenders(b, c) == \E tx \in TxSet(c) : \E p \in PointsOf(tx) : p.tx \in TxSet(b)

AddressesOf(b) ==
    {a \in Addresses : \E tx \in TxSet(b) : HasRows(tx, a)}

\* The lower blocks a caller waits for before it inserts block c.
WaitsFor(b, c) ==
    \/ Imports \in {"inputs", "rows"} /\ Spenders(b, c)
    \/ Imports = "rows" /\ AddressesOf(b) \cap AddressesOf(c) # {}

\* The transactions of the blocks that are inserted beside block i.
InOtherInserts(i) ==
    UNION {TxSet(incoming[j]) : j \in
        {j \in DOMAIN incoming :
            \/ j < i /\ ~WaitsFor(incoming[j], incoming[i])
            \/ i < j /\ ~WaitsFor(incoming[i], incoming[j])}}

\* insert(block, height): verified when its first transaction is stored.
InsertTransaction(i) ==
    /\ phase = "importing" /\ ~Pushed(i)
    /\ \A j \in 1 .. i - 1 : WaitsFor(incoming[j], incoming[i]) => Inserted(j)
    /\ StoreTransaction(incoming[i], height + i - 1, position[i],
                        InOtherInserts(i))
    /\ position' = [position EXCEPT ![i] = @ + 1]
    /\ UNCHANGED <<index, rows, phase, incoming, height, fork, left, outgoing,
                   committed>>

\* push_heights, then the block itself; operation_failed if an output that
\* the block spends is not in the table.
InsertBlock(i) ==
    /\ phase = "importing" /\ Pushed(i) /\ ~Inserted(i)
    /\ LET b == incoming[i]
           h == height + i - 1
           points == BlockPoints(b)
       IN  IF \A p \in points : CanSpend(slab, p, h)
             THEN /\ slab' = SpendAll(slab, points, h)
                  /\ cache' = ForgetAll(points) /\ UNCHANGED sequence
                  /\ rows' = RowOf(b, h)
                  /\ position' = [position EXCEPT ![i] = @ + 1]
                  /\ phase' = phase
             ELSE /\ phase' = "failed"
                  /\ UNCHANGED <<tableVars, rows, position>>
    /\ UNCHANGED <<index, indexVars, incoming, height, fork, left, outgoing,
                   committed>>

EndInsert ==
    /\ phase = "importing" /\ \A i \in DOMAIN incoming : Inserted(i)
    /\ index' = index \o incoming
    /\ phase' = "idle" /\ incoming' = <<>> /\ height' = 0 /\ position' = <<>>
    /\ committed' = [chain |-> index', mempool |-> Mempool(pool, index')]
    /\ UNCHANGED <<rows, tableVars, indexVars, fork, left, outgoing>>

-----------------------------------------------------------------------------
\* The branches callers may have at hand.
Branches ==
    {branch \in BoundedSeq(Blocks, MaxBranch) : \E b \in Blocks : Linked(b, branch)}

\* What the callers ask for, and what the writer does about it.
Call ==
    \/ \E tx \in Txs : PushTx(tx)
    \/ \E b \in Blocks, h \in 0 .. Len(index) : PushBlock(b, h)
    \/ \E f \in Blocks, branch \in Branches : Reorganize(f, branch)
    \/ \E branch \in Branches : BeginInsert(branch)

Work ==
    \/ LinkBlock
    \/ \E i \in DOMAIN position : PushTransaction(i)
    \/ CompleteBlock
    \/ Commit
    \/ ReadBlock
    \/ PopTransaction
    \/ PopBlock
    \/ PoppedAll
    \/ \E i \in DOMAIN position : InsertTransaction(i)
    \/ \E i \in DOMAIN position : InsertBlock(i)
    \/ EndInsert

Next == Call \/ Work

Spec == Init /\ [][Next]_vars

\* The calling thread and those of the dispatcher keep running.
FairSpec == Spec /\ WF_vars(Work)

-----------------------------------------------------------------------------
\* Properties.  They speak of the store between two writes.

Quiet(P) == phase = "idle" => P

\* A transaction is confirmed at a height and position exactly when the block
\* of that height has it there, wherever it was pooled or popped before.
ConfirmedIsChain ==
    Quiet(\A tx \in Txs :
        {[height |-> slab[t].height, position |-> slab[t].position] :
            t \in {t \in DOMAIN slab \cap {tx} : slab[t].position # Unconfirmed}}
        = Places(index, tx))

\* An output is marked with the height of the block that spends it, and is
\* not marked when no block of the chain does.
SpentByChain ==
    Quiet(\A tx \in DOMAIN slab : \A i \in Outputs(tx) :
        {slab[tx].spent[i]} \ {NotSpent}
        = SpentAt(index, [tx |-> tx, index |-> i]))

\* The spend index has one row for each output the indexed blocks spend, that
\* of the input spending it, and no other.
SpendsAreChain ==
    Quiet(\A p \in Points :
        /\ ToSet(spends[p]) = SpendsOf(index, p, IndexStart)
        /\ Len(spends[p]) <= 1)

\* "Push" adds a row to the history of an address for each input and output of
\* it: the history has each row of the indexed blocks once.
HistoryIsWhole ==
    Quiet(\A a \in Addresses :
        /\ ToSet(history[a]) = HistoryOf(index, a, IndexStart)
        /\ Len(history[a]) = Cardinality(ToSet(history[a])))

\* The history of an address has no row but those of the indexed blocks, none
\* twice, and those of higher blocks first, as pop, which deletes the newest
\* rows, needs them, whatever rows races lost and pops then took too many.  It
\* has every row while no race took one.
HistoryIsChain ==
    Quiet(\A a \in Addresses :
        /\ ToSet(history[a]) \subseteq HistoryOf(index, a, IndexStart)
        /\ a \notin lossy => ToSet(history[a]) = HistoryOf(index, a, IndexStart)
        /\ Len(history[a]) = Cardinality(ToSet(history[a]))
        /\ \A i, j \in DOMAIN history[a] :
             i < j => history[a][i].height >= history[a][j].height)

\* A scan misses no stealth payment of the indexed blocks, at its height,
\* wherever its transaction was pooled, popped and confirmed before.
StealthIsFound ==
    Quiet(\A h \in Heights(index) :
        h >= IndexStart =>
            \A tx \in TxSet(index[h + 1]) : StealthRows(tx, h) \subseteq stealth)

\* "All stealth entries are confirmed": a scan finds nothing but payments of
\* the blocks of the chain.
StealthIsChain ==
    Quiet(\A r \in stealth :
        r.height \in Heights(index) /\ r.tx \in TxSet(index[r.height + 1]))

\* No race and no reorganization loses a transaction that waits: what is known
\* and in no block of the chain has a row in the unconfirmed table.  It has one
\* row, and nothing else has any, but where a race left a row.
PoolHasRest ==
    Quiet(\A tx \in Txs :
        LET waits == tx \in DOMAIN slab \ ChainTxs(index)
        IN  /\ waits => pool[tx] > 0
            /\ tx \notin stale => pool[tx] = IF waits THEN 1 ELSE 0)

\* Across reorganizations the cache offers no spent output: what it holds of a
\* transaction is unspent in the table, wherever that is confirmed by now.
CacheIsUnspent ==
    Quiet(\A e \in cache : \A i \in e.left : slab[e.tx].spent[i] = NotSpent)

\* The cache evicts its oldest entry, the one of the lowest sequence: an entry
\* that joins gets the highest, also when the counter wraps.
NewestIsHighest ==
    [][\A e \in cache' : (\A f \in cache : f.sequence # e.sequence) =>
          \A f \in cache' : f.sequence <= e.sequence]_vars

\* What the cache answers for a confirmed output is what the table would: the
\* output is confirmed at that height, and unspent.
CacheAgrees ==
    Quiet(\A p \in Points : \A h \in 0 .. Len(index) :
        CachedOutput(p, h, TRUE) \subseteq SlabOutput(p, h, TRUE))

\* Until blocks are pushed, the chain and the blocks handed out are together
\* the chain before the reorganization.
OutgoingIsCut ==
    phase \in {"popping", "unwinding"} => index \o outgoing = committed.chain

\* A caller that pushes valid blocks never sees a write fail.
NoFailure == phase \notin {"failed", "thrown"}

\* Every write of valid blocks comes to its end.
WritesEnd == (phase # "idle") ~> (phase = "idle")

\* A reorganization always gets to its handler.
HandlerIsReached == phase # "thrown"

\* Blocks are only popped down to a fork point that is in the chain.
StaleForkRefused ==
    phase \in {"popping", "unwinding"} /\ incoming # <<>> =>
        Parent[Head(incoming)] \in ToSet(index)

\* Every write appears to readers as one step of the ledger, to those of the
\* unconfirmed table when they pass over transactions of the chain.
Promise == INSTANCE Ledger WITH chain <- committed.chain,
                                mempool <- committed.mempool
ImplementsLedger == Promise!LedgerSpec
=============================================================================
