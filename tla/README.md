# Verification of bitprim-database

TLA+ specifications of the store of a bitcoin node: a chain of blocks and the
indexes over it, kept in memory mapped hash tables that one organizer writes
and many threads read. Paths are those of the repository, under `src/`.

`PROJECT.json` lists the components, the runs with their properties, the lines
each definition models, the hazards, the findings and the theorems.
`tlc -config X.cfg M` repeats a run, `tlapm M.tla` the proofs of a module `*Proofs`.

## The system

| Part | State it keeps | Operations |
|---|---|---|
| `store` | flush lock (a file), sequential lock (a counter) | open, close, begin/end_write, begin_read, is_read_valid |
| `data_base` | write mutex, closed flag, the tables | create, open, close, push of a transaction or block, insert between begin/end_insert, reorganize |
| `block_database` | table of blocks by hash, index of positions by height, a mutex | store, get, top, exists, gaps, unlink |
| `transaction_database` | table of transactions by hash, cache of unspent outputs | store, confirm, unconfirm, spend, unspend, get, get_output |
| `unspent_outputs` | bimap of transactions by hash and by age | add, remove, get |
| `transaction_unconfirmed_database` | table of transactions by hash | store, unlink_if_exists, get |
| `spend_database` | the input that spends each output | store, unlink, get |
| `history_database` | rows of each address, newest first (a record multimap) | add_input, add_output, delete_last_row, get |
| `stealth_database` | an array of rows | store, scan |
| slab and record hash tables | a header of bucket heads, linked rows, a mutex for each | store, find, update, unlink |
| `record_multimap`, `record_list` | a start info in a hash table for each key, linked records | add_row, delete_last_row, lookup |
| slab and record managers | how much of the file is used, a mutex | new_slab/new_records, get, sync, start |
| tools | an exit status | the calls of one table each, on its files |
| `memory_map`, accessor, allocator | the mapping, its sizes, an upgrade mutex | open, access, reserve, flush, close |

How they interact:

* A writer takes the write mutex, the flush lock (when each write is flushed)
  and makes the sequence odd. It then changes six tables one after the other,
  and goes back in the other order. `handle_push` and `end_insert` leave the
  mutex before they end the sequential lock.
* `create` and `open` take an exclusive lock on the directory and test the flush lock
  file; the tools take neither.
* A reader takes no lock. It begins with an even sequence, reads what it likes,
  and asks at the end whether the sequence is still the same.
* A reorganization pops blocks from the top down to the fork, then pushes
  the incoming ones. The transactions of each pushed block are dealt out to
  parallel buckets on the threads of a pool; the last one that ends continues with
  the spends, the block and the index, and posts the next block. The handler of the
  caller is called, and the mutex given back, by whichever thread comes last.
* A parallel import inserts blocks of different heights from several threads, each of
  which stores the transactions of its block, spends, and then stores the block.
* Every table is a file that may move in memory when it grows. A growth waits
  until no accessor holds the file's mutex.
* The flush lock file stays behind when the process dies in a write; the next
  open refuses the store then.

What is hard: two writers around the early unlock, and readers without locks; a
crash between any two page writes, or while a store is made; a failure half way, from which nothing is
rolled back; six tables that must come back to the same chain after any sequence
of pushes and reorganizations; rows linked and unlinked while others walk
them; a cache beside the table; a file that moves; heights and counters at their
limits. `hazards` in PROJECT.json lists each at its line.

What makes each part correct, in one sentence each:

* write protocol: writes are exclusive, an accepted read is a snapshot, and a
  missing lock file means whole files;
* chain content: between two writes every table tells the chain of the index;
* push pipeline: each handler is called once and outside the mutex, and the pool works for
  the call that holds it;
* store files: no two processes have a store open, and what was left damaged or half made
  is refused;
* tools: the exit status is what was done, but for four commands;
* height index: a stored block keeps its place, and gaps are exact;
* hash table and multimap: for each key a list to which rows are added and from which the
  newest is taken, and a reader finds what was there at some moment of its call;
* memory map: no accessor outlives its mapping, and no counted row lies beyond the
  end of its file.

## The modules

| Module | Models |
|---|---|
| `WriteProtocol` | `store.cpp`, and the frame of every writer of `data_base.cpp`; process, crash, page write-back; readers |
| `WriteProtocolProofs` | its theorems |
| `Chain` | the content: push, push_all with buckets, parallel insert, pop_above, pop, and the tables they change |
| `TransactionTable`, `UnspentOutputs` | the transaction table and its cache, as state and operators that `Chain` uses |
| `ChainData` | the blocks and transactions given, and what a chain of them implies for each index |
| `ChainProofs` | the theorems about `Chain` |
| `Ledger` | the abstract specification: a chain and a pool, changed in one step by each write |
| `PushPipeline` | reorganize to handle_push on the pool: buckets, joins, handlers, a pool that stops |
| `PushPipelineProofs` | its theorems |
| `StoreFiles` | initchain and other callers of create, open and close, file by file, with the exclusive and the flush lock, by processes that fail or die |
| `StoreFilesProofs` | its theorems |
| `BlockIndex` | the height index under parallel import and pop |
| `BlockIndexProofs` | its theorems |
| `KeyedLists` | the abstract specification of every table searched by key: a list for each key |
| `HashTable` | one hash table by several threads: slab and record tables link rows in the same way |
| `HashTableProofs` | its theorems |
| `RecordMultimap` | `record_multimap` over `record_list`, by several threads, its file moving |
| `RecordMultimapProofs` | its theorems |
| `TableTools` | the command line tools of `tools/`, on the files of any table, made by themselves or a node |
| `MemoryMap` | `memory_map`, `accessor`, `allocator` and a `record_manager` for each file: accessors, growth, count, flush, close, kill and start |
| `MemoryMapProofs` | its theorems |
| `MC*` | instances for TLC; those of `WriteProtocol`, `BlockIndex` and `StoreFiles` are their configurations |

`Chain` composes the tables under one writer at a time, which is what
`WriteProtocol` is about; `Chain` implements `Ledger`
(`ImplementsLedger`, with the chain and the pool as of the last write that
ended as the mapping, which is what a reader can accept). `PushPipeline` is the same
writer seen from the threads, without the content, and `StoreFiles` what comes before and
after all writers. `HashTable`, `RecordMultimap` and `TableTools` are a level below, and
each implements `KeyedLists` (`ImplementsLists`, with the lists that the links in the file
lead through as the mapping): `Chain` uses of them that a table gives back its newest row,
and that a list is last in, first out, and takes over what `HashTable` and `RecordMultimap` show of
races.
`MemoryMap` is the lowest level: that a file moves only when nobody has an
accessor of it, which `RecordMultimap` uses when it lets the file move between two
steps of a thread that has freed its accessor.

### State and actions

`WriteProtocol`: `mutex` is `write_mutex_`, `sequence` the counter of
`sequential_lock_`, `lockFile`/`held` the file and the flag of `flush_lock_`.
The tables are `Parts`; a write puts its number on each, one step per part, so
that a half written store has different numbers in its parts. `memory` is what
the mappings hold and `disk` what a crash leaves; `WriteBack` copies any part at
any time. Each writer has a place (`pc`) from its call to its return, with the
branches that refuse or fail. bc::flush_lock and bc::sequential_lock are not in
the repository: `LockShared`, `UnlockShared`, `TryLock` and the parity of
`sequence` say what `store.cpp` relies on.

`PushPipeline`: `posted` are the tasks given to the pool and `work` the one each thread is
at; `expected` is what the join of a block still waits for; `place` says where a call of
reorganize is, in its caller's thread first and in handlers later, and `answers` what its
handler was told. The index is what is above one fork point, blocks are their numbers of
transactions. A stopped pool finishes what threads are at and begins nothing.

`StoreFiles`: each file is absent, one byte long (`create` of a file), of the initial size,
has a header, or is a whole table; a process goes through creating or opening one file and
one table at a time, in the order of the code, and may fail or die at each. `mapped` is what
it has open. The exclusive lock falls with its process, the flush lock file does not.
initchain is modelled as it is: it makes, or with `--clean` removes and makes, the directory of
its argument, "mainnet" without one, and then calls create with default settings, whose directory
is "blockchain" (settings.cpp:29). Only when these are one (`here`) has its check to do with the
store; else an existing store, if nobody has it open and it was closed as it should, is cut to one
byte in each file. The default settings have no buckets (settings.cpp:35-39), which
hash_table_header::create refuses (hash_table_header.ipp:55), so initchain never creates a
store: it leaves files of one byte and the flush lock file. `CreateStore` are callers with settings
of their own, as the tests are.

`Chain`: `index` is the height index, `rows` the heights of all blocks ever stored (they are never
unlinked), `slab` the newest slab of each transaction, `cache` the unspent outputs, `pool` the rows
of each transaction in the unconfirmed table, `spends` and `history` the rows of each point and
address, `stealth` the stealth rows. `phase` says where the writer is. One action is one call of a
bucket for one transaction, the completion of a block, the check of a block to pop, one transaction
popped, one block popped; in an import, one transaction of one of the inserted blocks, or the spends
and the row of one. The blocks of an import join `index` at end_insert, as until then nothing reads
their heights but exists and gaps, which `BlockIndex` is about. The cache is the set of entries of
its bimap with their sequence numbers, and `SequenceMax` is where these wrap. `committed` is a
history variable: the chain and pool when the last write ended. Its callers obey what the code
leaves to them: blocks fork from a block of the chain (`ForksOnChain`), offered transactions could
be spent (`ChecksInputs`), a block is inserted after those below it that it spends from or shares an
address with (`Imports = "rows"`); some of the further configurations drop one of these.

Races in `Chain`. Two calls in the step of a transaction are not safe beside those of another
bucket, or of a block inserted in parallel: an unlink from the unconfirmed table (`hash_race`) and
the addition of a row to an address (`RecordMultimapLostRow`). What such a race comes to, at once or
later, is chosen in the step of the transaction that loses by it: its row of the unconfirmed table
goes or stays (`Unpool`), each row that it adds to an address that a transaction beside it has too
is there or lost (`AddHistory`). `beside` are the transactions of other buckets, or of inserts that
do not wait for one another. More is allowed than happens, as of the rows that race the last to be
linked is there. `stale` and `lossy` are history variables: the transactions whose row a race left,
and the addresses that lost one. A row that stays is found and unlinked at a later confirmation, or
is one more beside a row that a later pop adds. Two threads that both add the first row of an
address make two start infos, the newer of which hides the row of the older. That row counts as
lost; pops of its block delete it with the others, and that it would be back before, if a pop above
took too many rows of the newer info, is left out. The Mempool of the ledger is what has rows in the
unconfirmed table and is in no block of the chain, so that a row that stays is not seen as a
transaction that waits.

`BlockIndex`: `count` and `slot` are the index file, `Extend`, `Zeroize` and
`WritePosition` the three parts of write_position, the first and last of which
take and give back the mutex. A slot not yet written holds 0, or what a popped block
left there.

`HashTable`: `header`, `next` and `keyOf` are the buckets and rows; store is a
row created, then linked and published under the mutex; unlink and find walk row by
row. `linked` is the list of rows each bucket should have, `tops` the rows that
a find may return.

`RecordMultimap`: `starts` and `begin` are the hash table of start infos, `next`
the links of the records; add_row reads the first record, inserts, and writes the
start info in three steps, as in the code. `mapping` counts the moves of the
records file, and a thread remembers the mapping its plain pointer is of. The buckets of a push
add rows at once, to one address too: `Sole` are the keys of which no two threads add rows at a time,
the others are raced. A row written through a pointer into an earlier mapping ("fault") ends
the behaviour, as anything may be at that address. `owner` is the key a record was made for.

`TableTools`: `file` is the table on disk, with the counts written in it; a tool has the counts it
read (`rows`, `heights`) and writes them back in `Synchronize`. One action is the start with the
checks of the arguments, the creation of files and of the table, each of which may fail, the open,
the call, and synchronize; `asserts` says whether the tools are compiled with BITCOIN_ASSERT, as
some open their files inside one. The tables are those the tool makes itself or a node left
(`LeftByNode`); of the latter a tool can open those with as many buckets as it assumes. Facts this
showed: `block_db store` takes data that parses for an error and stores what does not in place of
the top block; `transaction_db store` decodes its file name and never stores; `get` of block_db and
read_htdb_slab_value do not recognise a missing row and access no memory; `count_records`,
`show_records`, `show_linked_records` and `show_array` never open their file; `mmr_add_row` exits
with 0 for a key size that it refuses; and `initialize_new`, whose store::create is not looked at
and whose table's create is only looked at by an assertion (spend_db.cpp:160-168), exits with 0 and
no table when these fail and assertions are compiled out. `TellsLess` names the four commands whose
success tells less than it seems; `StatusIsTrue` says of each of all others, on any table, that
success is the whole effect and anything else is no effect, and of those four but
`mmr_delete_last_row` that it is the whole effect or none.

`MemoryMap`: each file has `closed_`, `data_`, `file_size_`, `logical_size_` and its own
`length`, in rows, and its manager a count and the count written in the file.
The upgrade mutex is `upgrade`, `exclusive`, and the accessors themselves as sharers
(`pointers`); `manager` is the manager's mutex, `remap` the one that all maps of a
store share while they truncate. boost's upgrade mutex admits sharers while the
upgrade holder waits to become exclusive, and so does `Access`. `live` numbers the
mappings that exist, so that a pointer into an old one shows. reserve is one step for
each lock it takes or changes. A growth that fails gives the wrong lock back, so
that the file's mutex stays held for good; `failed` records it. `Nesting` says which
file is used under an accessor of which: rows under a start info. `Kill` leaves what
was written through the mapping, `Open` is open and start.

## The runs

| Run | Asks | Bounds |
|---|---|---|
| `write_push` | Are writes exclusive, accepted reads snapshots, an unlocked disk whole, failures never spurious, with flushed writes, crashes and closes at any moment? | 2 writers, 1 reader, 2 parts, 3 writes |
| `write_failure` | Is the mutex given back on every path of every kind of call? | 2 writers, 3 writes, failures |
| `write_after_failure` | violation: no use of the store after a failed write | 1 writer, 4 writes |
| `push_pipeline` | Is each handler called once, outside the mutex, by work of the holder alone; are blocks whole in the index; is each handler called unless the pool stops? | 3 calls with branches of 2, 2 and 0 blocks of 0 to 3 transactions, 2 threads, failures, a stop |
| `store_files` | Has one process at a time the store open, is a damaged or half made one refused, and does create cut none that is open or damaged? | 2 processes, 2 blocks, either flush setting, failures and deaths at each step |
| `chain_reorganize` | Do all tables tell the chain but for rows that races leave or lose, is each write one step of the ledger, does each end? | 5 blocks in 2 branches, 8 transactions, 2 buckets, races for an address and of unlinks (of one transaction, one row stays), 2 parallel inserts, cache of 2, sequence of 2 |
| `index_import` | Does each stored block keep its place, are gaps exact, does each insert end? | 3 threads, heights 0..2, 4 blocks |
| `hash_calls` | Is the table a list for each key, and a find current, with stores and unlinks of one bucket beside it and reopens? | 3 threads, 2 keys in one bucket, 4 rows |
| `hash_race` | violation: and two unlinks at once? | 2 threads, 3 rows |
| `multimap_calls` | Is the multimap a list for a key that no two threads add to at once, and a lookup of it current; does a lookup of any key give only rows of its own, each once and in order? | 2 keys, one of them raced by 2 adders, 1 deleter, 1 reader, 4 records, moving file |
| `memory_growth` | Is every accessor in its mapping, every counted row in its file, does every call end? | 2 threads, 2 files nested, 5 calls, 2 accessors each, 1 kill, failing growths |
| `table_tools` | Does the exit status say what a tool did on any table, creation failing or not, and is a table by key a list for each key through a sequence of them? | 6 tables, 2 keys, 2 values, 3 rows, a kill in each tool before its call |

Why the bounds are enough. In `WriteProtocol` a writer needs one write to be in the section, another
to overlap it and a third to end it wrongly, and a reader tells two writes apart by two parts. The
branches of `MCChain` have what matters to pop and push: a transaction in two branches at different
heights, one spent in its own block and one in a later block, an address that several transactions
of a block have in different buckets, one on both sides of a transaction, blocks below and above
`index_start_height`, and two blocks of one branch that may be inserted in either order. A race
needs two buckets; `MayStay` lets it leave the row of `t`, which is confirmed in both branches, so
that the row that stays is there when `t` is pooled, popped and confirmed again. A sequence that
ends at 2 wraps between an eviction and the next with a cache of two. Four rows make a bucket in
which the first, a middle and the last row are unlinked while another row of the same key remains.
Three index heights let one thread's gap span another's block. In `PushPipeline` two calls wait
while a third works, and blocks have fewer, as many and more transactions than there are threads, or
none. Three rows let a tool store, remove and store again beside a row that must stay. Five calls
let a file grow, close, open and grow again under an accessor of the file it is nested in; an
expansion of one half gives growths that leave room for a row and growths that do not. Integers are
bounded by the number of calls, and `MaxWord` is a value above each of them, the sentinel
`max_uint32`; `Forks` and `Unverified` are values between, as the fork flags of an unconfirmed
transaction are stored where a height is.

`CHECK_DEADLOCK FALSE` appears where a bound or the data stops the callers, or a failed
growth or a stopped pool stops them for good: `push_pipeline`, `index_import`,
`multimap_calls`, `memory_growth` and further configurations. `write_*`, `store_files`,
`hash_*`, `chain_reorganize` and `table_tools` check it.

### Findings

The runs that end in a violation each show a place where the code does other than a
comment beside it or a header says:

* after a failed write the sequence does not stay odd, and a later write goes
  through (`write_after_failure`);
* the unlinks of two buckets in one chain of the unconfirmed table lose each other's work
  (`hash_race`, whose effect `Chain` has), where the header of the table says that store alone is
  not safe.

Further configurations end in a violation too, and show that an assumption of the
passing runs is needed:

| Configuration | Without | What then happens |
|---|---|---|
| `WriteProtocolEarlyUnlock` | serial writers | the mutex is free before end_write, a second thread makes the sequence even, and an accepted read is half written; with one organizer thread, as in the node, this is harmless and `Snapshots` proves it |
| `WriteProtocolLockLost` | writes that succeed | the write after a failed one removes the flush lock file |
| `WriteProtocolLateClose` | a close after the last write | close beside a push removes the file while the disk is stale |
| `PushPipelineStopped` | a pool that goes on | the handler is never called and the mutex stays locked, although data_base.cpp:909-910 says that both always happen |
| `PushPipelineInPool` | callers outside the pool | callers wait in every thread of the pool for a mutex that only the pool can free |
| `StoreFilesFlushed` (with `-continue`) | the flush lock held while open | a store whose creation was cut short between two writes, or whose genesis push failed, is opened without a block; and a closed store is cut by initchain, which says "Failed because the directory %1% already exists." of another directory |
| `ChainCache` | | the cache keeps outputs of popped transactions and answers where the table would not |
| `ChainOffFork` (with `-continue`) | forks on the chain | a fork point off the chain is popped to, or the handler is not called |
| `ChainDuplicate` | inputs checked | a spent transaction is pushed again and a push fails |
| `ChainImportAny` | inserts after the blocks they spend from | the insert fails, as push_heights does not find the output |
| `ChainImportRows` | inserts after the blocks they share an address with, with one bucket | parallel inserts add rows of an address at once and lose one, although "push" adds one for each input and output (`HistoryIsWhole`); and rows are out of order, so that a later pop deletes those of a block that stays |
| `ChainStealth` | | a scan finds payments of blocks that left the chain |
| `BlockIndexDuplicate` | inserts that take turns | an insert is refused for a slot whose block is not stored yet |
| `RecordMultimapLostRow` | keys that are not raced | two buckets that add a row of one address lose one |
| `RecordMultimapStalePointer` | | the first row of a key is written through a pointer into the mapping before a growth that another bucket needed, whatever the keys |
| `MemoryMapLateClose` | threads joined before close | an accessor points into a file that was unmapped |
| `TableToolsDelete` | | mmr_delete_last_row gives the map file for the rows, deletes every row of the key and exits with 0 |
| `TableToolsTogether` | one process at a time | two tools, or a tool beside a node, give out the same row; so does one tool alone that may be killed before synchronize (`KillAt` with "synchronize") |

### Fairness

`write_failure` assumes that each writer that can take its next step takes it in the
end (weak fairness of `WriterStep(w)`): threads are scheduled, and nothing but the mutex
blocks them. Callers need not call. `chain_reorganize` assumes it of `Work`, what the
dispatcher's threads and the calling thread do: `Work` is always bounded by the blocks
given. `index_import` assumes weak fairness of each thread, and strong fairness of
`Extend`, as a thread waiting for the mutex of the index may find it taken again and
again: boost's mutex is assumed not to starve it. `memory_growth` assumes weak fairness of
each thread's `Work`, in which a thread also lets go of an accessor in the end; calls are
bounded, so that a growth does not wait for ever for readers that keep coming.
`push_pipeline` assumes weak fairness of each call's thread and of each thread of the pool:
a pool that runs begins every task posted to it, as no task waits for a task after it.
Which call gets a free mutex is open: each holds it once, so no call needs more than weak
fairness of the others.

## What is proved

### Write protocol

`WriteProtocolProofs` proves, for every set of threads, parts and calls, and every bound:

* `TypeCorrect`: the type invariant, with no assumption but the constants'.
* `Exclusivity`: writes are exclusive, under `SerialWriters`.
* `Snapshots`: an accepted read is the snapshot of one committed write, under
  `SerialWriters` and `OrderlyClose`.
* `UnlockedIsCurrent`: without the lock file the disk holds the last committed write, under
  the same.
* `NeverFails`: begin_write and end_write do not fail, under the same.

`SerialWriters` says that no write fails, and that either there is one writing thread or all calls are
pushes, which keep the mutex to the end. `OrderlyClose` says that each write is
flushed or that close is not called during a write. `write_after_failure` and the
first three further configurations show that each of these is needed.

None of the properties is inductive. The argument goes in layers, each a lemma
that uses those before:

1. `MutexInv`: who holds the mutex, so that at most one thread is active (`OneActive`);
2. `SequenceInv`: the sequence is odd exactly while a writer is in its section, the memory
   then has its number wherever it has written, and else the committed one everywhere;
3. `FlushInv`: what the presence and absence of the lock file say of mappings and disk;
4. `ReaderInv`: a reader whose handle is still the sequence has read nothing but the
   write committed when it began.

The properties follow from the conjunction. TLC has checked the four on the
instances of the runs.

### Push pipeline

`PushPipelineProofs` proves, for every set of calls, every branch of every call and any
finite number of threads, with callers inside or outside the pool, failures and a pool that
stops at any step:

* `PipelineTyped`: the type invariant;
* `HandlersOnce`: no handler is called twice, or while its call holds the mutex or has a
  task left;
* `PoolForHolder`: the threads of the pool work for the holder of the mutex;
* `SuccessBranch`: a call that succeeds leaves its branch above the fork point;
* `BlocksWhole`: a block in the index has all its transactions stored.

The assumption is that of the constants. The layers:

1. `TaskInv`: which tasks a call has at each of its places. While it pushes it is at one of
   three: do_push of a block (`AtBlock`), its buckets, as many as the join still waits for
   (`AtBuckets`, with the cardinality of the open buckets), or the one thread whose bucket was
   the last (`AtJoin`). That the last answer finds no other thread of the call is what makes the
   rest sequential. A step changes the tasks of one call only (`OnlyOf`, `OthersKept`);
2. `MutexInv` and `AnswerInv`: the mutex and the handler by the place of the call;
3. `IndexInv`: what is above the fork point is what the call at work has pushed so far;
4. `WholeInv`: once the buckets are posted, each transaction is stored or is among the
   positions that some bucket has yet to come to. The three lemmas on `From` say that the buckets
   `i, i + k, i + 2k, ...` cover every position.

TLC has checked the layers on the instance of `push_pipeline`, with callers outside and inside
the pool.

### Store files

`StoreFilesProofs` proves, for every number of processes and of blocks, with failures and
deaths at every step, initchain and others that create at any time, and `--clean` between:

* `OwnerAlone`: no two processes have files of the store open;
* `DamageRefused`: what was left damaged is opened by nobody;
* `ReadyWhole`: a store that create or open hands out has every table whole and a block, when the
  flush lock is held while it is open;
* `ClosedCut`: create cuts the file of a whole table only where no process has a file of the store open
  and what was open is closed: never a store that is damaged. That it cuts none at all is not true.

`ReadyWhole` is not inductive: what makes an open safe was done by a process that is gone. The
invariant says it with the lock file. Its parts:

1. `OwnerInv`: who works on the files has the exclusive lock, so that a step of one finds no other
   at work (`HolderStep`);
2. `MappedAt`, `CreateAt`: how far closing and creating have come, table by table; that close has
   gone through all tables is what lets the exclusive lock be given back;
3. `DefaultsAt`: a process of default settings, which initchain is, comes no further than its first
   table, and leaves the flush lock file;
4. `FlushAt`, `FlushInv`: without a flush at each write, the flush lock file is there from
   store::open to a complete close, and where it is missing the store is whole or has no file at
   all, and then opens nothing;
5. `WriteAt`, `DamageInv`: with a flush at each write it is there during writes, and stays with
   what is damaged, so that create, which store::open lets go on only without it, cuts nothing damaged.

The module's `TypeOK` has the bounds of the instance, `Typed` in `Inv` the types alone.

### Height index

`BlockIndexProofs` proves, for every number of importing threads, heights and blocks:

* `IndexTyped`: the type invariant;
* `StoredKept`: a stored block keeps its place until it is popped;
* `GapsExact`: with no insert under way, gaps are the heights without a block.

1. `MutexInv`: the mutex is held from the count to the position, so one thread extends at a time;
2. `ExtendInv`: the heights a thread is about to write empty (`Zeroizing`) are from the old
   count on, where no block is stored;
3. `GapInv`: a height below the count without a block is empty, or is one the thread in
   write_position has yet to write. This is what old positions above the count of a popped block
   might break, and zeroize of all heights between the counts keeps.

### Memory maps

`MemoryMapProofs` proves, for every set of threads and files, any nesting of them, any
expansion and every bound, with failing growths and kills at every step:

* `MapsTyped`: the type invariant;
* `RowsFit`: counted rows lie below the logical size, and that below the file's length;
* `CountInFile`: the count written in a file is never beyond its end;
* `PointersMapped`: every accessor points into the mapping that exists, at a row in it,
  under `JoinedClose`, which memory_map.cpp asks of callers
  ("Database threads must be joined before close is called", line 168).

The layers here:

1. `LockInv`: who holds the manager's mutex, the upgrade lock and the exclusive lock at each
   place, and that nobody shares what is held exclusively;
2. `PopInv`: a pop has its file to itself until the lower count is saved, so that
   elsewhere the saved count is not above the count;
3. `SizeInv`: logical size, mapped size and file length at each step of a growth, with what
   a failed growth leaves, and that the row a growth was for fits at the place where
   it is counted. `TargetFits`, that the expanded size is not below the size asked for, is
   what makes a growth end;
4. `JoinedInv`: nobody uses a file that is closed or about to be;
5. `MapInv`: data_ is the live mapping unless somebody holds the file exclusively, and the row of
   a guard lies in the mapping from the read of the count to the accessor.

### Hash tables

`HashTableProofs` proves, for any finite number of threads, any keys, buckets and hash function,
any calls of each thread and any number of rows:

* `TypeCorrect`: the type invariant, whoever calls;
* `ChainsAreRight`: the links of a bucket lead through exactly its linked rows, newest first;
* `FindsSafe`: no walk follows a position that is no row;
* `FindsCurrent`: a find returns the newest row that its key had during the call;
* `RefinesLists`: the table implements `KeyedLists`.

All but the first assume `UnlinksAlone`: at most one unlink at a time. It is what do_push
does not keep for the unconfirmed table, and `hash_race` shows the chains broken without it.
Stores run beside stores, and finds beside everything. Two invariants:

1. `BaseInv` (theorem `Base`) holds of any callers. `CountInv`: the file has room for the rows that
   stores under way will create, by their cardinality. `FreshInv`: a row that is created and not
   published is in no chain and has one owner, and holds the header of its bucket from the link to
   the publication, as the mutex is held between. `ReachInv`: what is reached from a header or a
   linked row was linked, so that a walk never comes to an unset link.
2. `TurnsInv` (theorem `Turns`) adds, for unlinks that take turns: `ChainInv`, each bucket is a run
   (`IsRun`) through `linked`, without a row twice; `UnlinkInv`, the place in that run that an
   unlink has come to, with no row of its key before; and `WalkInv`, about finds.

A find may stand on a row that an unlink has just taken out, and goes on along the link this row
keeps. `WalkInv` says where that leads without a definition by recursion: there is a function
`first` that gives the first row of each key from each row on, and a set `after` of the rows that come
after it, both of which agree with the links (`IsFirst`, `IsAfter`), and what `first` gives for a find
is among the rows that its key had as newest during the call. A row that is linked extends both
(`RowLinked`), and the release of a row changes them at the rows that led to it (`RowReleased`).

`RefinesLists` reads the list of a key out of the links by a recursive function, as in the
record multimap: `RowsOfIs` shows by a least counterexample that it is the rows of the key in
the run of its bucket, so that `PublishPuts` and `UnlinkTakes` can say what a step does to it.

### Chain content

`ChainProofs` proves, for any blocks, number of buckets, order of parallel inserts, start height
of the index, and capacity and width of the cache:

* `ConfirmedIsChainHolds`, `SpentByChainHolds`, `StealthIsFoundHolds`: between
  two writes the places and the marks in the transaction table and
  the stealth rows are what the blocks of the index say;
* `PoolHasRestHolds`: whatever unlinks race, a transaction stored that is in no block of the index has
  a row in the unconfirmed table. It has one row, and nothing else has any, but for transactions
  whose row a race left;
* `SpendsAreChainHolds`: the spend table has each row of the indexed blocks once and none that was popped;
* `HistoryIsChainHolds`: the history of an address has no row but those of the indexed blocks, none
  twice, and higher blocks first, whatever rows were lost and whatever pops took too many for it;
  it has all of them while no race took one of the address;
* `OutgoingIsCutHolds`: while blocks are popped nothing of the chain is lost;
* `CacheIsUnspentHolds`: the cache holds no output as unspent that the table has as spent;
* `NewestIsHighestHolds`: an entry that joins the cache has the highest sequence;
* `ImplementsLedgerHolds`: the store implements `Ledger`, with the mempool read as `Mempool` does.

They assume two things of the callers, and `NewestIsHighestHolds` nothing; `HistoryIsChainHolds`
also that imports, when there are any, wait for the lower blocks with rows of the same addresses
(`Imports` is "none" or "rows"), as inserts in any order put lower rows first. `ChecksInputs`: only
transactions that could be spent are offered (`ChainDuplicate` shows what happens otherwise).
`ValidBlocks`: on no chain of linked blocks is a transaction twice or an output spent twice, by two
transactions or by one, and heights and positions stay below the sentinel. data_base checks neither;
blocks come from the validation of the node, and `MCChain` has `ValidBlocks` as an assumption that
TLC evaluates. `ForksOnChain` is not assumed: a fork that is not on the chain selects a height to
cut the index at, and a block that does not link to what is left fails the write.

Between writes the tables agree; the inductive invariant `Inv` (`InvIsInvariant`) has to say what
they agree on in the middle of a write, with buckets at any positions. It is said of `Line`, the
index and the blocks on their way into it, and of three sets of its transactions: `StoredTxs` have
their place, `MaybeTxs` may have it, as a bucket may have come to a transaction before another
bucket comes to an earlier one, and `MarkedTxs` have the outputs they spend marked. The layers:

1. `FlowInv`: the line is linked from the genesis block on, and each phase of a
   write knows how index, input and output make up the chain before and after;
2. `BookInv`: what is confirmed is between the stored and those that may be, each at its
   place (`Placed`); each mark is of a marked spender, and each spender has all its marks
   (`Marked`); spenders come after what they spend (`Ordered`) and, but while a block is
   unwound, what they spend is stored (`Backed`). The last two are why a popped transaction, from the
   top of the chain, has no marks of its own that a spender still in the chain needs;
3. `PoolInv`, `StealthInv`: the pool has a row of what is stored and not confirmed, none of what is not
   stored, and one or none where no race left a row (`RestAt`); and the
   stealth rows of what is stored in the line are there;
4. `StoreInv`, `BranchInv`: what was stored before the write still is, and the write
   shares its first blocks with the chain before, which the step of the ledger needs;
5. `CacheInv` and `SequenceInv`, for the cache: outputs in it are unmarked, and no entry
   has a sequence above the counter.

Spends and histories need three more parts, inductive beside `Inv` (`RowsStart`, `RowsNext`):

* `BucketInv`: while a block is pushed, a bucket is at a position that it reaches from its own by
  steps of the number of buckets, so that no two come to one transaction and no
  transaction adds its rows twice;
* `WaitInv`: an insert that has begun has waited for the lower blocks it waits for;
* `SpendsInv`, `HistoryInv`: the rows are those of the transactions that are confirmed now, at any
  moment of a write, or of an address in `lossy` some of those (`Whole`). While the top block is
  unwound, what is left of its rows comes first in each history, in any order, and is not more than
  what pop will still delete (`WoundAt`): that is why pop may delete the newest row of an address
  without looking at it, and still leaves the lower blocks whole if no row was lost, and in order
  else.

Every step does one of three things to the rows (`StepIs`): it adds those of one transaction that it
confirms, at a height below which nothing of the same addresses is still to come; it takes those of
the last transaction left of the top block; or it leaves both tables and what is confirmed alone.
The lemmas under them are about the operators: `InOrder` lists a set of positions, each once
(`InOrderIs`), the rows of an address in a transaction are put and deleted in equal number, rows put
before lower ones keep a history in order, also when some are lost (`AddTells`, `AddRowIs`), and
what is left after a delete of more rows than there are is lower still (`DropsIs`).

A block is nowhere twice on a linked chain (`NoBlockTwice`): the first height at which two
would be the same leads to an earlier one, until the genesis block has a parent. That is how
`ValidBlocks`, of chains no longer than there are blocks, applies to any line. A write that failed ends
the behaviour in the model, so that `Inv` says nothing of it.

`Commit` and `EndInsert` map to one step of the ledger (`WriteIsStep`): a block added to the
empty chain, or the exchange of what is above the shared blocks; `PushTx` adds to the pool, and all other
steps leave `committed` as it is.

### Record multimap

`RecordMultimapProofs` proves, for any finite number of threads, any keys, any calls of each
thread and any number of records:

* `TypeCorrect`: the type invariant;
* `RowsOwn`: a lookup of any key, raced or not, returns rows of this key alone, each once and the
  newest first, and so ends;
* `ListsAreChained`: the records that the start info of a key in `Sole` leads to are the list that
  the calls made;
* `LookupsAreCurrent`: a lookup of such a key returns a list that it had during the call;
* `RefinesLists`: the multimap implements `KeyedLists` for the keys in `Sole`: each step puts a row before
  the list of one key, takes its newest, or changes no list.

There is no assumption but that of the constants: any number of threads add at once, and to the keys
outside `Sole` also rows of one key. `Sole` may be empty, and then only `TypeCorrect` and `RowsOwn`
say something, or all keys, as in a push of one bucket. That the last three do not hold of the raced
keys is what `RecordMultimapLostRow` shows. Nothing is said after a stale pointer was written
through, which `RecordMultimapStalePointer` shows to happen. A delete has no other writer of its key
beside it, as a pop works alone; it may run beside adds of other keys and all lookups. The layers:

1. `CountInv`: the records still to be made by adds under way fit the file, so that `count` counts
   what is allocated and a record is never given out twice (by the cardinality of those adds);
2. `WriterInv`: beside a thread that deletes from a key, or adds to one in `Sole`, no other does;
3. `StartInv` and `FreshInv`: a key in `Sole` has one start info; the record an add has made is in
   no list of these and has no other owner;
4. `OwnInv`: each record, start info and place of a thread is of the key it is used for, and links lead
   down the file among records of one key, whatever races did to them; `SeenInv` follows for lookups;
5. `PlaceInv`: what `new`, `old` and `start` hold at each place of an add or a delete;
6. `ListInv`: each list of a key in `Sole` is a chain (`IsList`) from its start info to `Empty`, with
   falling positions, as a new record is always the last of the file;
7. `LookInv`: what a lookup has seen, and what it has still to see along the links, is together a
   list its key had. A record that was deleted keeps its link, and one that is added is
   put before, so that neither changes what the lookup has before it.

`ListOf` reads a list out of the links by a recursive function. The prover's induction
theorems take operators, so the lemma `Least` (a non-empty set of naturals has a least member) takes
their place: `ListOfKey` looks at the first record that the function would get wrong.

## What is only checked, and what is not modelled

Only model-checked: everything of `TableTools`, `StatusIsTrue` and the refinement to `KeyedLists`,
whose lists follow the links of the file by a recursive function (`RowsFrom`), so that what a stored
or unlinked row does to them takes an induction over the links that the provers cannot do (the same
promises of the tables themselves are proved of `HashTable` and `RecordMultimap`); and the liveness
properties (`MutexIsReleased`, `HandlerIsCalled`, `WritesEnd`, `InsertsEnd`, `CallsEnd`), which are
beyond them.

Not modelled:

* what a failed write leaves in the tables of `Chain`: the protocol says
  that nothing may be relied upon then (and `NoUseAfterFailure` that it is);
* removal of a transaction from the cache by hash, which nothing calls;
* what the tools print, and tables with other bucket counts than the tool's;
* msync that fails, and the byte offsets of `slab_manager`: a slab is a row of size one;
* a link of a row read half written: in the code its mutex is one of the object that reads or writes
  the row (slab_row.ipp:76), not of the row in the file;
* a file that moves under the tables of `HashTable` and `Chain`: they reach their rows
  through accessors, which `MemoryMap` is about;
* older slabs of a transaction stored twice: find never reaches them;
* the encoding of rows and the hash function; the port of mman to Windows;
* settings and version, which are values.

## Plan

1. Done: `WriteProtocol` with proofs; `Chain` with `TransactionTable`,
   `UnspentOutputs`, `ChainData` and `Ledger`; `HashTable`,
   `RecordMultimap`, `MemoryMap`, `PushPipeline`, `StoreFiles` and `BlockIndex` with proofs; `KeyedLists`
   and the refinements to it; `TableTools`; parallel import, stealth rows and the sequence of
   the cache in `Chain`.
2. Done: proofs of `HashTable`, `RecordMultimap` and `Chain`, each with its refinement; the rows of
   spends and histories in `Chain`, taken out of sequences by `InOrder` so that proofs can reach them.
3. Left: proofs of `StatusIsTrue` and of the refinement of `TableTools`, with `RowsFrom` stated as a
   sequence that the links chain instead of a recursion, as `HashTable` does.
