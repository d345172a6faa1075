----------------------------- MODULE StoreFiles -----------------------------
(***************************************************************************)
(* The files of a store over its life: data_base::create makes the files,  *)
(* the tables and the genesis block, for a caller that made the directory  *)
(* or for initchain, nodes open and close them, and any process may be     *)
(* refused, fail or die on the way.  What keeps two processes, and a       *)
(* process and what a dead one left, apart are the exclusive lock and the  *)
(* flush lock file (src/store.cpp).                                        *)
(*                                                                         *)
(* What a table holds is left to Chain, the writes to WriteProtocol.       *)
(***************************************************************************)
EXTENDS Naturals, FiniteSets, Sequences, SequencesExt

CONSTANTS
    Processes,      \* those that create or open the store
    NoOne,          \* no holder of the exclusive lock
    FlushChoices,   \* what settings.flush_writes may be
    MayFail,        \* disk operations fail
    MayClean,       \* the directory may be removed, when nothing runs
    MaxBlocks       \* bound: blocks of the store

ASSUME StoreFilesAssumption ==
    /\ NoOne \notin Processes
    /\ FlushChoices \subseteq BOOLEAN /\ {MayFail, MayClean} \subseteq BOOLEAN
    /\ MaxBlocks \in Nat \ {0}

\* A table has the file of a hash table, a file of rows, or both.
Hashed(f) == [files |-> <<f>>, hashed |-> {f}]
HashedWithRows(f, g) == [files |-> <<f, g>>, hashed |-> {f}]
Rows(f) == [files |-> <<f>>, hashed |-> {}]

Blocks == HashedWithRows("block_table", "block_index")
Transactions == Hashed("transaction_table")
Unconfirmed == Hashed("transaction_unconfirmed_table")
Spends == Hashed("spend_table")
History == HashedWithRows("history_table", "history_rows")
Stealth == Rows("stealth_rows")

\* The tables of every store, and those of a store with indexes, in the order
\* in which they are created, opened and closed.
Content == <<Blocks, Transactions, Unconfirmed>>
Indexes == <<Spends, History, Stealth>>

FilesOf(tables) == UNION {ToSet(tables[i].files) : i \in DOMAIN tables}
Files == FilesOf(Content \o Indexes)

VARIABLES
    flushEachWrite, \* flush_writes of the settings of nodes
    directory,  \* the directory of the store exists
    file,       \* what each file is: absent, one byte long, of its initial
                \*  size, with the header of a hash table, or a whole table
    blocks,     \* the blocks in the store
    exclusive,  \* holder of the exclusive lock
    lockFile,   \* the flush lock file exists
    held,       \* the processes whose flush_lock_ created it
    at,         \* what each process does
    configured, \* its settings are those of a node; the default ones have no
                \*  buckets for any hash table, and do not flush each write
    indexed,    \* use_indexes, of each process
    done,       \* the files or tables each process is done with in this phase
    mapped,     \* the files each process has mapped
    damaged     \* history: a process ended without closing what it opened

diskVars == <<flushEachWrite, directory, file, blocks>>
lockVars == <<exclusive, lockFile, held>>
settings == <<configured, indexed>>
processVars == <<at, settings, done, mapped>>
vars == <<diskVars, lockVars, processVars, damaged>>

Flushes(p) == flushEachWrite /\ configured[p]

TablesOf(p) == Content \o (IF indexed[p] THEN Indexes ELSE <<>>)

TypeOK ==
    /\ flushEachWrite \in BOOLEAN
    /\ directory \in BOOLEAN /\ lockFile \in BOOLEAN /\ damaged \in BOOLEAN
    /\ file \in [Files -> {"absent", "byte", "sized", "header", "table"}]
    /\ blocks \in 0 .. MaxBlocks
    /\ exclusive \in Processes \cup {NoOne} /\ held \in SUBSET Processes
    /\ at \in [Processes -> {"none", "create", "open", "files", "tables",
                             "genesis", "ending", "opening", "ready", "pushing",
                             "closing", "unlocking", "failed"}]
    /\ configured \in [Processes -> BOOLEAN]
    /\ indexed \in [Processes -> BOOLEAN]
    /\ done \in [Processes -> 0 .. Cardinality(Files)]
    /\ mapped \in [Processes -> SUBSET Files]

Init ==
    /\ flushEachWrite \in FlushChoices
    /\ directory = FALSE
    /\ file = [f \in Files |-> "absent"]
    /\ blocks = 0
    /\ exclusive = NoOne /\ lockFile = FALSE /\ held = {}
    /\ at = [p \in Processes |-> "none"]
    /\ configured = [p \in Processes |-> TRUE]
    /\ indexed = [p \in Processes |-> FALSE]
    /\ done = [p \in Processes |-> 0]
    /\ mapped = [p \in Processes |-> {}]
    /\ damaged = FALSE

Goto(p, place) == at' = [at EXCEPT ![p] = place] /\ done' = [done EXCEPT ![p] = 0]

\* The first table p is not done with.
Current(p) == TablesOf(p)[done[p] + 1]
HasNext(p) == done[p] < Len(TablesOf(p))
Step(p) == done' = [done EXCEPT ![p] = @ + 1]

FilesInOrder(p) == FlattenSeq([i \in DOMAIN TablesOf(p) |-> TablesOf(p)[i].files])

-----------------------------------------------------------------------------
\* A process starts: initchain, one that makes a store of its own settings, or
\* a node that opens the store.

\* create_directories of the directory of the store: it is false when that
\* exists, unless all of it was removed, which is done when nothing runs.
MakeDirectory(clean) ==
    /\ IF clean
         THEN /\ MayClean /\ \A q \in Processes : at[q] = "none"
              /\ file' = [f \in Files |-> "absent"]
              /\ blocks' = 0 /\ lockFile' = FALSE /\ damaged' = FALSE
         ELSE ~directory /\ UNCHANGED <<file, blocks, lockFile, damaged>>
    /\ directory' = TRUE

\* initchain makes the directory that its argument names, which is "mainnet"
\* without one, and then creates a store of the default settings, whose
\* directory is "blockchain" ("here").  That any other directory was not there
\* says nothing of the store.
Initchain(p, clean, here) ==
    /\ at[p] = "none"
    /\ IF here
         THEN MakeDirectory(clean)
         ELSE UNCHANGED <<directory, file, blocks, lockFile, damaged>>
    /\ Goto(p, "create")
    /\ configured' = [configured EXCEPT ![p] = FALSE]
    /\ indexed' = [indexed EXCEPT ![p] = TRUE]
    /\ UNCHANGED <<flushEachWrite, exclusive, held, mapped>>

\* Other callers of data_base::create make the directory that their settings
\* name, and have buckets for the tables.
CreateStore(p, clean) ==
    /\ at[p] = "none"
    /\ MakeDirectory(clean)
    /\ Goto(p, "create")
    /\ configured' = [configured EXCEPT ![p] = TRUE]
    /\ indexed' = [indexed EXCEPT ![p] = TRUE]
    /\ UNCHANGED <<flushEachWrite, exclusive, held, mapped>>

\* A node constructs data_base and calls open.
StartNode(p, indexes) ==
    /\ at[p] = "none" /\ directory
    /\ Goto(p, "open")
    /\ configured' = [configured EXCEPT ![p] = TRUE]
    /\ indexed' = [indexed EXCEPT ![p] = indexes]
    /\ UNCHANGED <<diskVars, lockVars, mapped, damaged>>

-----------------------------------------------------------------------------
\* store::open: the exclusive lock, which needs the directory, the flush lock
\* file, which must be absent, and without a flush at each write is created.

Place(p) == IF at[p] = "create" THEN "files" ELSE "opening"

TakeFlushLock(p) ==
    /\ lockFile' = (lockFile \/ ~Flushes(p))
    /\ held' = IF Flushes(p) THEN held ELSE held \cup {p}
    /\ Goto(p, Place(p))

\* Mutant: the flush lock file is not looked at.
OpenUnasked(p) ==
    /\ at[p] \in {"create", "open"}
    /\ IF exclusive # NoOne \/ ~directory
         THEN Goto(p, "failed") /\ UNCHANGED lockVars
         ELSE exclusive' = p /\ TakeFlushLock(p)
    /\ UNCHANGED <<diskVars, settings, mapped, damaged>>

\* Mutant: create goes on whether store::open opened or not.
CreateUnasked(p) ==
    /\ at[p] \in {"create", "open"}
    /\ IF exclusive # NoOne \/ ~directory \/ lockFile
         THEN /\ Goto(p, IF at[p] = "create" /\ directory THEN "files" ELSE "failed")
              /\ UNCHANGED lockVars
         ELSE exclusive' = p /\ TakeFlushLock(p)
    /\ UNCHANGED <<diskVars, settings, mapped, damaged>>

OpenStore(p) ==
    /\ at[p] \in {"create", "open"}
    /\ IF exclusive # NoOne \/ ~directory
         THEN Goto(p, "failed") /\ UNCHANGED lockVars
         ELSE /\ exclusive' = p
              /\ IF lockFile
                   THEN Goto(p, "failed") /\ UNCHANGED <<lockFile, held>>
                   ELSE TakeFlushLock(p)
    /\ UNCHANGED <<diskVars, settings, mapped, damaged>>

-----------------------------------------------------------------------------
\* data_base::create.  It resets closed_ at its end only: after a failure the
\* destructor takes the store for closed, and the flush lock file stays.

\* store::create: a new file of one byte, or an old file cut to it.  A file
\* that cannot be opened is not bad(), and goes unnoticed here.
CreateFile(p, opened) ==
    /\ at[p] = "files" /\ done[p] < Len(FilesInOrder(p))
    /\ opened \/ MayFail
    /\ IF opened
         THEN /\ file' = [file EXCEPT ![FilesInOrder(p)[done[p] + 1]] = "byte"]
              /\ blocks' = 0
         ELSE UNCHANGED <<file, blocks>>
    /\ Step(p)
    /\ UNCHANGED <<flushEachWrite, directory, lockVars, at, settings, mapped,
                   damaged>>

FilesCreated(p) ==
    /\ at[p] = "files" /\ done[p] = Len(FilesInOrder(p))
    /\ Goto(p, "tables")
    /\ UNCHANGED <<diskVars, lockVars, settings, mapped, damaged>>

\* create of a table, first its files: they are mapped, and resized once
\* hash_table_header::create has seen that there are buckets.
CreateSized(p) ==
    /\ at[p] = "tables" /\ HasNext(p)
    /\ LET files == ToSet(Current(p).files)
       IN  /\ \A f \in files : file[f] = "byte"
           /\ file' = [f \in Files |-> IF f \in files /\ configured[p]
                                      THEN "sized" ELSE file[f]]
           /\ mapped' = [mapped EXCEPT ![p] = @ \cup files]
    /\ UNCHANGED <<flushEachWrite, directory, blocks, lockVars, at, settings,
                   done, damaged>>

\* The header of its hash table, which cannot be without buckets ...
CreateHeader(p) ==
    /\ at[p] = "tables" /\ HasNext(p) /\ configured[p]
    /\ ToSet(Current(p).files) \subseteq mapped[p]
    /\ \E f \in Current(p).hashed :
         file[f] = "sized" /\ file' = [file EXCEPT ![f] = "header"]
    /\ UNCHANGED <<flushEachWrite, directory, blocks, lockVars, processVars,
                   damaged>>

\* ... and the size or the count of its rows, of one file after the other.
CreateRows(p) ==
    /\ at[p] = "tables" /\ HasNext(p) /\ configured[p]
    /\ ToSet(Current(p).files) \subseteq mapped[p]
    /\ LET files == Current(p).files
           hashed == Current(p).hashed
       IN  /\ \A f \in hashed : file[f] # "sized"
           /\ \E i \in DOMAIN files :
                /\ \A j \in 1 .. i - 1 : file[files[j]] = "table"
                /\ file[files[i]] = IF files[i] \in hashed THEN "header" ELSE "sized"
                /\ file' = [file EXCEPT ![files[i]] = "table"]
                /\ IF i = Len(files) THEN Step(p) ELSE UNCHANGED done
    /\ UNCHANGED <<flushEachWrite, directory, blocks, lockVars, at, settings,
                   mapped, damaged>>

\* A table cannot be created: create returns false, or throws.  A hash table of
\* no buckets never can.
CreateFails(p) ==
    /\ at[p] = "tables" /\ HasNext(p)
    /\ MayFail \/ ~configured[p] \/ \E f \in ToSet(Current(p).files) : file[f] = "absent"
    /\ Goto(p, "failed")
    /\ UNCHANGED <<diskVars, lockVars, settings, mapped, damaged>>

\* push(genesis, 0): begin_write.
BeginGenesis(p) ==
    /\ at[p] = "tables" /\ ~HasNext(p)
    /\ lockFile' = (lockFile \/ flushEachWrite)
    /\ held' = held \cup {p}
    /\ Goto(p, "genesis")
    /\ UNCHANGED <<diskVars, exclusive, settings, mapped, damaged>>

StoreGenesis(p) ==
    /\ at[p] = "genesis"
    /\ blocks' = 1
    /\ Goto(p, "ending")
    /\ UNCHANGED <<flushEachWrite, directory, file, lockVars, settings,
                   mapped, damaged>>

\* end_write, which may fail to flush, and the result of push is not looked at:
\* create returns true, and the process goes on with an open store.
EndGenesis(p, flushed) ==
    /\ at[p] = "ending"
    /\ flushed \/ (MayFail /\ flushEachWrite)
    /\ IF flushEachWrite /\ flushed
         THEN lockFile' = FALSE /\ held' = held \ {p}
         ELSE UNCHANGED <<lockFile, held>>
    /\ Goto(p, "ready")
    /\ UNCHANGED <<diskVars, exclusive, settings, mapped, damaged>>

-----------------------------------------------------------------------------
\* data_base::open.

\* start of a table: each file has the header it should have, and as many rows
\* as it counts.
Opens(table) ==
    \A f \in ToSet(table.files) :
        file[f] \in {"table", IF f \in table.hashed THEN "header" ELSE "sized"}

\* open of a table: its files are mapped and started.
OpenTable(p) ==
    /\ at[p] = "opening" /\ HasNext(p)
    /\ Opens(Current(p))
    /\ mapped' = [mapped EXCEPT ![p] = @ \cup ToSet(Current(p).files)]
    /\ Step(p)
    /\ UNCHANGED <<diskVars, lockVars, at, settings, damaged>>

\* A table does not open: open returns false, with closed_ reset, and the
\* destructor closes what was opened.
OpenFails(p) ==
    /\ at[p] = "opening" /\ HasNext(p)
    /\ MayFail \/ ~Opens(Current(p))
    /\ Goto(p, "closing")
    /\ UNCHANGED <<diskVars, lockVars, settings, mapped, damaged>>

Opened(p) ==
    /\ at[p] = "opening" /\ ~HasNext(p)
    /\ Goto(p, "ready")
    /\ UNCHANGED <<diskVars, lockVars, settings, mapped, damaged>>

-----------------------------------------------------------------------------
\* Writes, in two steps; begin_write and end_write keep the flush lock file.

BeginPush(p) ==
    /\ at[p] = "ready" /\ blocks < MaxBlocks
    /\ lockFile' = (lockFile \/ flushEachWrite)
    /\ held' = held \cup {p}
    /\ Goto(p, "pushing")
    /\ UNCHANGED <<diskVars, exclusive, settings, mapped, damaged>>

EndPush(p) ==
    /\ at[p] = "pushing"
    /\ blocks' = blocks + 1
    /\ IF flushEachWrite
         THEN lockFile' = FALSE /\ held' = held \ {p}
         ELSE UNCHANGED <<lockFile, held>>
    /\ Goto(p, "ready")
    /\ UNCHANGED <<flushEachWrite, directory, file, exclusive, settings,
                   mapped, damaged>>

-----------------------------------------------------------------------------
\* data_base::close, called or from the destructor.

Close(p) ==
    /\ at[p] = "ready"
    /\ Goto(p, "closing")
    /\ UNCHANGED <<diskVars, lockVars, settings, mapped, damaged>>

CloseTable(p) ==
    /\ at[p] = "closing" /\ HasNext(p)
    /\ mapped' = [mapped EXCEPT ![p] = @ \ ToSet(Current(p).files)]
    /\ Step(p)
    /\ UNCHANGED <<diskVars, lockVars, at, settings, damaged>>

\* Mutant: store::close is called whether the tables closed or not.
CloseFailsUnlocked(p) ==
    /\ MayFail /\ at[p] = "closing" /\ HasNext(p)
    /\ ToSet(Current(p).files) \cap mapped[p] # {}
    /\ done' = [done EXCEPT ![p] = Len(TablesOf(p))]
    /\ damaged' = (damaged \/ ~flushEachWrite)
    /\ UNCHANGED <<diskVars, lockVars, at, settings, mapped>>

\* A table does not close: those after it stay open, store::close is not
\* called, and nothing is left but to end the process.  It may have lost
\* writes that were not flushed.
CloseFails(p) ==
    /\ MayFail /\ at[p] = "closing" /\ HasNext(p)
    /\ ToSet(Current(p).files) \cap mapped[p] # {}
    /\ Goto(p, "failed")
    /\ damaged' = (damaged \/ ~flushEachWrite)
    /\ UNCHANGED <<diskVars, lockVars, settings, mapped>>

\* Mutant: the exclusive lock is given back first, then the tables close.
CloseStoreFirst(p) ==
    /\ at[p] = "closing" /\ exclusive = p
    /\ exclusive' = NoOne
    /\ UNCHANGED <<diskVars, lockFile, held, processVars, damaged>>

\* store::close, first half.
UnlockFlush(p) ==
    /\ at[p] = "closing" /\ ~HasNext(p)
    /\ IF flushEachWrite
         THEN UNCHANGED <<lockFile, held>>
         ELSE lockFile' = (lockFile /\ p \notin held) /\ held' = held \ {p}
    /\ Goto(p, "unlocking")
    /\ UNCHANGED <<diskVars, exclusive, settings, mapped, damaged>>

\* store::close, second half; the process ends or constructs data_base anew.
UnlockExclusive(p) ==
    /\ at[p] = "unlocking"
    /\ exclusive' = NoOne
    /\ Goto(p, "none")
    /\ mapped' = [mapped EXCEPT ![p] = {}]
    /\ UNCHANGED <<diskVars, lockFile, held, settings, damaged>>

-----------------------------------------------------------------------------
\* The process ends, of itself after a failure or at any moment: the system
\* takes the exclusive lock and the mappings back, the flush lock file stays.

End(p) ==
    /\ at[p] # "none"
    /\ exclusive' = IF exclusive = p THEN NoOne ELSE exclusive
    /\ held' = held \ {p}
    /\ Goto(p, "none")
    /\ mapped' = [mapped EXCEPT ![p] = {}]
    /\ damaged' = (damaged \/ at[p] = "pushing"
                   \/ (~Flushes(p) /\ mapped[p] # {}))
    /\ UNCHANGED <<diskVars, lockFile, settings>>

-----------------------------------------------------------------------------
Creating(p) ==
    \/ \E opened \in BOOLEAN : CreateFile(p, opened)
    \/ FilesCreated(p)
    \/ CreateSized(p)
    \/ CreateHeader(p)
    \/ CreateRows(p)
    \/ CreateFails(p)
    \/ BeginGenesis(p)
    \/ StoreGenesis(p)
    \/ \E flushed \in BOOLEAN : EndGenesis(p, flushed)

Working(p) ==
    \/ OpenTable(p)
    \/ OpenFails(p)
    \/ Opened(p)
    \/ BeginPush(p)
    \/ EndPush(p)
    \/ Close(p)
    \/ CloseTable(p)
    \/ CloseFails(p)
    \/ UnlockFlush(p)
    \/ UnlockExclusive(p)

Next ==
    \E p \in Processes :
        \/ \E clean, here \in BOOLEAN : Initchain(p, clean, here)
        \/ \E clean \in BOOLEAN : CreateStore(p, clean)
        \/ \E indexes \in BOOLEAN : StartNode(p, indexes)
        \/ OpenStore(p)
        \/ Creating(p)
        \/ Working(p)
        \/ End(p)

Spec == Init /\ [][Next]_vars

-----------------------------------------------------------------------------
\* Properties.

\* The exclusive lock covers every mapping: whichever way processes create,
\* fail and close, no two have files of the store open.
OneOwner ==
    \A p, q \in Processes : mapped[p] # {} /\ mapped[q] # {} => p = q

\* What a process left that died with the store open, in a write, or that
\* could not close it, no process works on until it is cleaned away.
DamageIsRefused ==
    damaged => \A p \in Processes : at[p] \notin {"ready", "pushing", "opening"}

Whole(p) ==
    /\ blocks > 0
    /\ \A f \in FilesOf(TablesOf(p)) : file[f] = "table"

\* A store that create or open gives to a caller has every table of it whole
\* and the genesis block, however many attempts to create it were cut short:
\* the flush lock file that store::open made is still there.
ReadyIsWhole ==
    ~flushEachWrite => \A p \in Processes : at[p] = "ready" => Whole(p)

\* The same when each write is flushed, and only writes have the lock file.
ReadyIsAlwaysWhole == \A p \in Processes : at[p] = "ready" => Whole(p)

\* create "is not idempotent": it cuts the files it finds.  A store that it
\* finds is at least one that nobody has open and that every process since has
\* closed as it should: the locks are taken before the first file is touched.
ClosedIsCut ==
    [][\A f \in Files :
         file[f] = "table" /\ file'[f] = "byte" =>
             ~damaged /\ \A p \in Processes : mapped[p] = {}]_vars

\* It does not hold that create finds no store, although initchain is to make
\* the directory: the one it makes is not the one of the store.
ExistingIsKept == [][\A f \in Files : file[f] = "table" => file'[f] # "byte"]_vars
=============================================================================
