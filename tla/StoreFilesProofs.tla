-------------------------- MODULE StoreFilesProofs --------------------------
(***************************************************************************)
(* Theorems about the files of a store, for any number of processes and of *)
(* blocks, with failures and deaths at every step.                         *)
(***************************************************************************)
EXTENDS StoreFiles, TLAPS

USE StoreFilesAssumption DEF StoreFilesAssumption, settings

-----------------------------------------------------------------------------
\* The invariant, in parts.

\* The steps of a process that has made the store, and of one that has it open.
Creators == {"create", "files", "tables", "genesis", "ending"}
Users == {"opening", "ready", "pushing", "closing"}
Holding == {"files", "tables", "genesis", "ending", "unlocking"} \cup Users

FilesAt(p, i) == ToSet(TablesOf(p)[i].files)

Typed ==
    /\ flushEachWrite \in BOOLEAN /\ directory \in BOOLEAN /\ lockFile \in BOOLEAN
    /\ damaged \in BOOLEAN
    /\ file \in [Files -> {"absent", "byte", "sized", "header", "table"}]
    /\ blocks \in Nat
    /\ exclusive \in Processes \cup {NoOne} /\ held \in SUBSET Processes
    /\ at \in [Processes -> {"none", "create", "open", "failed"} \cup Holding]
    /\ configured \in [Processes -> BOOLEAN] /\ indexed \in [Processes -> BOOLEAN]
    /\ done \in [Processes -> Nat]
    /\ mapped \in [Processes -> SUBSET Files]

\* Who works on the files has the exclusive lock.
OwnerInv ==
    \A p \in Processes :
        at[p] \in Holding \/ mapped[p] # {} => exclusive = p

\* What a process has mapped: at the end of close nothing.
MappedAt(p) ==
    /\ at[p] \in {"none", "create", "open", "files", "unlocking"} => mapped[p] = {}
    /\ mapped[p] \subseteq FilesOf(TablesOf(p))
    /\ at[p] = "closing" =>
         \A i \in DOMAIN TablesOf(p) :
             i <= done[p] => FilesAt(p, i) \cap mapped[p] = {}

\* One without settings comes no further than its first table, with the flush
\* lock file made.
DefaultsAt(p) ==
    ~configured[p] =>
        /\ at[p] \in {"none", "create", "files", "tables", "failed"}
        /\ at[p] = "tables" => done[p] = 0
        /\ at[p] \in {"files", "tables"} \/ mapped[p] # {} => lockFile

\* How far create has come.
CreateAt(p) ==
    /\ at[p] \in Creators => indexed[p]
    /\ at[p] = "tables" =>
         \A i \in DOMAIN TablesOf(p) :
             i <= done[p] => \A f \in FilesAt(p, i) : file[f] = "table"
    /\ at[p] \in {"genesis", "ending"} => \A f \in Files : file[f] = "table"
    /\ at[p] = "ending" => blocks > 0

\* Without a flush at each write, the flush lock file is there from store::open
\* to a complete close: where it is missing, the store is whole or was never
\* begun.
Vacant == \A f \in Files : file[f] = "absent"
WholeStore == blocks > 0 /\ \A f \in Files : file[f] = "table"

FlushAt(p) ==
    /\ at[p] \in Holding \ {"unlocking"} => lockFile /\ p \in held
    /\ mapped[p] # {} => lockFile
    /\ at[p] \in Users \cup {"unlocking"} => Vacant \/ WholeStore
    /\ at[p] = "opening" /\ done[p] > 0 => WholeStore
    /\ at[p] \in {"ready", "pushing"} => WholeStore

FlushInv == ~lockFile => Vacant \/ WholeStore

\* With one, from begin_write to a write that has ended.
WriteAt(p) == at[p] \in {"genesis", "ending", "pushing"} => lockFile

\* What is damaged keeps the lock file, and nobody works on it.
DamageInv == damaged => lockFile /\ \A p \in Processes : at[p] \notin Holding

Inv ==
    /\ Typed /\ OwnerInv /\ DamageInv
    /\ \A p \in Processes : MappedAt(p) /\ DefaultsAt(p) /\ CreateAt(p) /\ WriteAt(p)
    /\ ~flushEachWrite => FlushInv /\ \A p \in Processes : FlushAt(p)

-----------------------------------------------------------------------------
\* The tables.

\* What is used of a table: its files are a sequence, with those that have the
\* header of a hash table among them.
IsTable(table) ==
    /\ DOMAIN table.files = 1 .. Len(table.files)
    /\ Len(table.files) \in Nat \ {0}
    /\ table.hashed \subseteq ToSet(table.files)

LEMMA TablesOfStore ==
    /\ IsTable(Blocks) /\ IsTable(Transactions) /\ IsTable(Unconfirmed)
    /\ IsTable(Spends) /\ IsTable(History) /\ IsTable(Stealth)
<1>1. ASSUME NEW f PROVE IsTable(Hashed(f)) /\ IsTable(Rows(f))
  BY DEF IsTable, Hashed, Rows, ToSet
<1>2. ASSUME NEW f, NEW g PROVE IsTable(HashedWithRows(f, g))
  BY DEF IsTable, HashedWithRows, ToSet
<1>. QED
  BY <1>1, <1>2 DEF Blocks, Transactions, Unconfirmed, Spends, History, Stealth

LEMMA TablesTyped ==
    ASSUME Typed, NEW p \in Processes
    PROVE  /\ DOMAIN TablesOf(p) = 1 .. Len(TablesOf(p))
           /\ Len(TablesOf(p)) \in Nat \ {0}
           /\ \A i \in DOMAIN TablesOf(p) : IsTable(TablesOf(p)[i])
           /\ FilesOf(TablesOf(p)) \subseteq Files
           /\ indexed[p] => FilesOf(TablesOf(p)) = Files
<1> DEFINE all == Content \o Indexes
<1>1. /\ DOMAIN all = 1 .. 6 /\ Len(all) = 6
      /\ all[1] = Blocks /\ all[2] = Transactions /\ all[3] = Unconfirmed
      /\ all[4] = Spends /\ all[5] = History /\ all[6] = Stealth
  BY DEF Content, Indexes
<1>2. \A i \in 1 .. 6 : IsTable(all[i])
  BY <1>1, TablesOfStore
<1>. HIDE DEF all
<1>3. CASE indexed[p]
  <2>1. TablesOf(p) = all
    BY <1>3 DEF TablesOf, all
  <2>2. FilesOf(TablesOf(p)) = Files
    BY <2>1, Zenon DEF Files, all
  <2>3. /\ DOMAIN TablesOf(p) = 1 .. Len(TablesOf(p))
        /\ Len(TablesOf(p)) \in Nat \ {0}
    <3>1. DOMAIN TablesOf(p) = 1 .. 6 /\ Len(TablesOf(p)) = 6
      BY <1>1, <2>1, Zenon
    <3>. QED
      BY <3>1
  <2>4. \A i \in DOMAIN TablesOf(p) : IsTable(TablesOf(p)[i])
    BY <1>1, <1>2, <2>1, Zenon
  <2>. QED
    BY <2>2, <2>3, <2>4
<1>4. CASE ~ indexed[p]
  <2>1. TablesOf(p) = Content \o <<>>
    BY <1>4 DEF TablesOf
  <2>2. /\ DOMAIN TablesOf(p) = 1 .. 3 /\ Len(TablesOf(p)) = 3
        /\ \A i \in 1 .. 3 : TablesOf(p)[i] = all[i]
    BY <1>1, <2>1 DEF Content, all
  <2>3. FilesOf(TablesOf(p)) \subseteq Files
    <3>1. FilesOf(all) = Files
      BY DEF Files, all
    <3>2. 1 .. 3 \subseteq 1 .. 6
      OBVIOUS
    <3>. QED
      BY <1>1, <2>2, <3>1, <3>2 DEF FilesOf
  <2>4. \A i \in DOMAIN TablesOf(p) : i \in 1 .. 6 /\ TablesOf(p)[i] = all[i]
    <3>1. 1 .. 3 \subseteq 1 .. 6
      OBVIOUS
    <3>. QED
      BY <2>2, <3>1
  <2>5. \A i \in DOMAIN TablesOf(p) : IsTable(TablesOf(p)[i])
    BY <1>2, <2>4
  <2>6. Len(TablesOf(p)) \in Nat \ {0}
    BY <2>2
  <2>7. DOMAIN TablesOf(p) = 1 .. Len(TablesOf(p))
    BY <2>2
  <2>. QED
    BY <1>4, <2>3, <2>5, <2>6, <2>7
<1>. QED
  BY <1>3, <1>4

LEMMA FilesTyped ==
    ASSUME Typed, NEW p \in Processes, NEW i \in DOMAIN TablesOf(p)
    PROVE  /\ FilesAt(p, i) \subseteq FilesOf(TablesOf(p))
           /\ FilesAt(p, i) \subseteq Files /\ FilesAt(p, i) # {}
           /\ TablesOf(p)[i].hashed \subseteq FilesAt(p, i)
<1>1. FilesAt(p, i) \subseteq FilesOf(TablesOf(p))
  BY DEF FilesAt, FilesOf
<1>2. IsTable(TablesOf(p)[i])
  BY TablesTyped
<1>3. TablesOf(p)[i].files[1] \in FilesAt(p, i)
  BY <1>2 DEF IsTable, FilesAt, ToSet
<1>. QED
  BY <1>1, <1>2, <1>3, TablesTyped DEF IsTable, FilesAt

\* The table a process is at, and those it is done with.
LEMMA CurrentTyped ==
    ASSUME Typed, NEW p \in Processes
    PROVE  /\ HasNext(p) => /\ done[p] + 1 \in DOMAIN TablesOf(p)
                            /\ ToSet(Current(p).files) = FilesAt(p, done[p] + 1)
           /\ ~ HasNext(p) => /\ \A i \in DOMAIN TablesOf(p) : i <= done[p]
                              /\ done[p] > 0
<1>1. done[p] \in Nat
  BY DEF Typed
<1>. QED
  BY <1>1, TablesTyped DEF HasNext, Current, FilesAt

-----------------------------------------------------------------------------
\* What each step changes, of the process p it belongs to and of the files.

OthersKept(p) ==
    \A q \in Processes \ {p} :
        /\ at'[q] = at[q]
        /\ configured'[q] = configured[q] /\ indexed'[q] = indexed[q]
        /\ done'[q] = done[q] /\ mapped'[q] = mapped[q]

LEMMA TypedInit == Init => Inv
<1>. SUFFICES ASSUME Init PROVE Inv
  OBVIOUS
<1>1. Typed
  BY DEF Init, Typed
<1>2. OwnerInv /\ DamageInv /\ FlushInv
  BY DEF Init, OwnerInv, DamageInv, FlushInv, Vacant, Holding, Users,
         Creators
<1>3. \A p \in Processes :
        MappedAt(p) /\ DefaultsAt(p) /\ CreateAt(p) /\ WriteAt(p) /\ FlushAt(p)
  BY DEF Init, MappedAt, DefaultsAt, CreateAt, WriteAt, FlushAt, Holding, Users, Creators
<1>. QED
  BY <1>1, <1>2, <1>3 DEF Inv

LEMMA TypedStep ==
    ASSUME Typed, NEW p \in Processes
    PROVE  /\ \A clean, here \in BOOLEAN :
                 Initchain(p, clean, here) => Typed' /\ OthersKept(p)
           /\ \A clean \in BOOLEAN : CreateStore(p, clean) => Typed' /\ OthersKept(p)
           /\ \A indexes \in BOOLEAN :
                 StartNode(p, indexes) => Typed' /\ OthersKept(p)
           /\ OpenStore(p) \/ Creating(p) \/ Working(p) \/ End(p) =>
                 Typed' /\ OthersKept(p)
<1>. USE DEF Typed, OthersKept, Holding, Users, Goto, Step, diskVars, lockVars,
             processVars
<1>0. ASSUME NEW clean \in BOOLEAN, NEW settled \in BOOLEAN,
             MakeDirectory(clean) \/ UNCHANGED <<directory, file, blocks, lockFile, damaged>>,
             Goto(p, "create"), configured' = [configured EXCEPT ![p] = settled],
             indexed' = [indexed EXCEPT ![p] = TRUE],
             UNCHANGED <<flushEachWrite, exclusive, held, mapped>>
      PROVE  Typed' /\ OthersKept(p)
  <2>1. /\ directory' = TRUE \/ directory' = directory
        /\ \/ /\ file' = [f \in Files |-> "absent"] /\ blocks' = 0
              /\ lockFile' = FALSE /\ damaged' = FALSE
           \/ UNCHANGED <<file, blocks, lockFile, damaged>>
    BY <1>0 DEF MakeDirectory
  <2>2. file' \in [Files -> {"absent", "byte", "sized", "header", "table"}]
    BY <2>1
  <2>3. blocks' \in Nat
    BY <2>1
  <2>4. directory' \in BOOLEAN /\ lockFile' \in BOOLEAN /\ damaged' \in BOOLEAN
    BY <2>1, Zenon
  <2>. QED
    BY <1>0, <2>2, <2>3, <2>4
<1>1. ASSUME NEW clean \in BOOLEAN, NEW here \in BOOLEAN,
             Initchain(p, clean, here) \/ CreateStore(p, clean)
      PROVE  Typed' /\ OthersKept(p)
  BY <1>0, <1>1 DEF Initchain, CreateStore
<1>2. ASSUME NEW indexes \in BOOLEAN, StartNode(p, indexes)
      PROVE  Typed' /\ OthersKept(p)
  BY <1>2 DEF StartNode
<1>3. CASE OpenStore(p)
  <2>1. /\ at' \in [Processes -> {"none", "create", "open", "failed"} \cup Holding]
        /\ done' \in [Processes -> Nat]
        /\ \A q \in Processes \ {p} : at'[q] = at[q] /\ done'[q] = done[q]
    BY <1>3 DEF OpenStore, TakeFlushLock, Place
  <2>2. /\ lockFile' \in BOOLEAN /\ held' \in SUBSET Processes
        /\ exclusive' \in Processes \cup {NoOne}
    <3>1. /\ lockFile' = lockFile \/ lockFile' = (lockFile \/ ~Flushes(p))
          /\ held' \in SUBSET Processes /\ exclusive' \in Processes \cup {NoOne}
      BY <1>3 DEF OpenStore, TakeFlushLock
    <3>2. lockFile' \in BOOLEAN
      BY <3>1, Zenon
    <3>. QED
      BY <3>1, <3>2
  <2>. QED
    BY <1>3, <2>1, <2>2 DEF OpenStore
<1>4. ASSUME NEW opened \in BOOLEAN, CreateFile(p, opened)
      PROVE  Typed' /\ OthersKept(p)
  <2>1. /\ file' = file \/ \E f : file' = [file EXCEPT ![f] = "byte"]
        /\ blocks' = blocks \/ blocks' = 0
        /\ Step(p)
        /\ UNCHANGED <<flushEachWrite, directory, lockVars, at, settings, mapped,
                       damaged>>
    BY <1>4 DEF CreateFile
  <2>2. file' \in [Files -> {"absent", "byte", "sized", "header", "table"}]
    BY <2>1
  <2>3. done' \in [Processes -> Nat] /\ \A q \in Processes \ {p} : done'[q] = done[q]
    BY <2>1
  <2>. QED
    BY <2>1, <2>2, <2>3
<1>5. CASE FilesCreated(p) \/ CreateFails(p) \/ OpenFails(p) \/ Opened(p) \/ Close(p)
  <2>1. /\ \E place \in {"tables", "failed", "closing", "ready"} : Goto(p, place)
        /\ UNCHANGED <<diskVars, lockVars, settings, mapped, damaged>>
    BY <1>5 DEF FilesCreated, CreateFails, OpenFails, Opened, Close
  <2>. QED
    BY <2>1
<1>6. CASE CreateSized(p)
  <2>1. ToSet(Current(p).files) \subseteq Files
    BY <1>6, CurrentTyped, FilesTyped DEF CreateSized
  <2>. QED
    BY <1>6, <2>1 DEF CreateSized
<1>7. CASE CreateHeader(p)
  BY <1>7 DEF CreateHeader
<1>8. CASE CreateRows(p)
  <2>1. /\ \E f : file' = [file EXCEPT ![f] = "table"]
        /\ Step(p) \/ UNCHANGED done
        /\ UNCHANGED <<flushEachWrite, directory, blocks, lockVars, at, settings,
                       mapped, damaged>>
    BY <1>8 DEF CreateRows
  <2>2. file' \in [Files -> {"absent", "byte", "sized", "header", "table"}]
    BY <2>1
  <2>3. /\ done' \in [Processes -> Nat]
        /\ \A q \in Processes \ {p} : done'[q] = done[q]
    BY <2>1
  <2>. QED
    BY <2>1, <2>2, <2>3
<1>9. CASE BeginGenesis(p) \/ StoreGenesis(p)
  BY <1>9 DEF BeginGenesis, StoreGenesis
<1>10. ASSUME NEW flushed \in BOOLEAN, EndGenesis(p, flushed)
       PROVE  Typed' /\ OthersKept(p)
  BY <1>10 DEF EndGenesis
<1>11. CASE OpenTable(p)
  <2>1. ToSet(Current(p).files) \subseteq Files
    BY <1>11, CurrentTyped, FilesTyped DEF OpenTable
  <2>. QED
    BY <1>11, <2>1 DEF OpenTable
<1>12. CASE BeginPush(p) \/ EndPush(p)
  <2>1. CASE BeginPush(p)
    BY <2>1 DEF BeginPush
  <2>2. CASE EndPush(p)
    <3>1. blocks' \in Nat /\ held' \in SUBSET Processes
      BY <2>2 DEF EndPush
    <3>2. lockFile' \in BOOLEAN
      <4>1. lockFile' = FALSE \/ lockFile' = lockFile
        BY <2>2 DEF EndPush
      <4>. QED
        BY <4>1, Zenon
    <3>. QED
      BY <2>2, <3>1, <3>2 DEF EndPush
  <2>. QED
    BY <1>12, <2>1, <2>2
<1>13. CASE CloseTable(p)
  BY <1>13 DEF CloseTable
<1>14. CASE CloseFails(p)
  BY <1>14 DEF CloseFails
<1>15. CASE UnlockFlush(p)
  BY <1>15 DEF UnlockFlush
<1>16. CASE UnlockExclusive(p)
  BY <1>16 DEF UnlockExclusive
<1>17. CASE End(p)
  BY <1>17 DEF End
<1>. QED
  BY <1>1, <1>2, <1>3, <1>4, <1>5, <1>6, <1>7, <1>8, <1>9, <1>10, <1>11, <1>12,
     <1>13, <1>14, <1>15, <1>16, <1>17 DEF Creating, Working

LEMMA TablesKept ==
    ASSUME NEW p, indexed'[p] = indexed[p]
    PROVE  TablesOf(p)' = TablesOf(p) /\ \A i : FilesAt(p, i)' = FilesAt(p, i)
BY DEF TablesOf, FilesAt

\* While p works on the files, nobody else does.
LEMMA HolderStep ==
    ASSUME Inv, Typed', NEW p \in Processes, OthersKept(p), at[p] \in Holding,
           UNCHANGED <<flushEachWrite, directory, exclusive>>,
           damaged' => lockFile' /\ at'[p] \notin Holding,
           MappedAt(p)', DefaultsAt(p)', CreateAt(p)', WriteAt(p)',
           ~flushEachWrite => FlushInv' /\ FlushAt(p)'
    PROVE  Inv'
<1>1. exclusive = p
  BY DEF Inv, OwnerInv, Holding, Users, Typed
<1>2. \A q \in Processes \ {p} : at'[q] \notin Holding /\ mapped'[q] = {}
  BY <1>1 DEF Inv, OwnerInv, OthersKept
<1>3. OwnerInv'
  BY <1>1, <1>2 DEF OwnerInv
<1>4. DamageInv'
  BY <1>2 DEF DamageInv
<1>5. ASSUME NEW q \in Processes \ {p}
      PROVE  /\ MappedAt(q)' /\ DefaultsAt(q)' /\ CreateAt(q)' /\ WriteAt(q)'
             /\ FlushAt(q)'
  <2>1. /\ at'[q] = at[q] /\ configured'[q] = configured[q] /\ indexed'[q] = indexed[q]
        /\ CreateAt(q) /\ DefaultsAt(q)
    BY DEF OthersKept, Inv
  <2>2. at'[q] \notin Holding /\ mapped'[q] = {}
    BY <1>2
  <2>. QED
    BY <2>1, <2>2 DEF MappedAt, DefaultsAt, CreateAt, WriteAt, FlushAt, Holding, Users,
                      Creators
<1>. QED
  BY <1>3, <1>4, <1>5 DEF Inv

\* A directory made anew, or one that is left alone.
LEMMA StepCreate ==
    ASSUME Inv, NEW p \in Processes, NEW clean \in BOOLEAN, NEW here \in BOOLEAN,
           Initchain(p, clean, here) \/ CreateStore(p, clean)
    PROVE  Inv'
<1>1. Typed' /\ OthersKept(p)
  BY TypedStep DEF Inv
<1>2. /\ at[p] = "none" /\ at'[p] = "create" /\ indexed'[p]
      /\ UNCHANGED <<flushEachWrite, exclusive, held, mapped>>
  BY DEF Initchain, CreateStore, Goto, Inv, Typed
<1>3. \/ /\ \A q \in Processes : at[q] = "none"
         /\ \A f \in Files : file'[f] = "absent"
         /\ lockFile' = FALSE /\ damaged' = FALSE
      \/ UNCHANGED <<file, blocks, lockFile, damaged>>
  BY DEF Initchain, CreateStore, MakeDirectory
<1>4. mapped'[p] = {} /\ at'[p] \notin Holding
  BY <1>2 DEF Inv, MappedAt, Holding, Users
<1>5. ASSUME NEW q \in Processes \ {p}
      PROVE  /\ at'[q] = at[q] /\ done'[q] = done[q] /\ mapped'[q] = mapped[q]
             /\ configured'[q] = configured[q] /\ indexed'[q] = indexed[q]
             /\ TablesOf(q)' = TablesOf(q) /\ \A i : FilesAt(q, i)' = FilesAt(q, i)
  BY <1>1, TablesKept DEF OthersKept
<1>6. OwnerInv'
  BY <1>2, <1>4, <1>5 DEF Inv, OwnerInv
<1>7. MappedAt(p)' /\ DefaultsAt(p)' /\ CreateAt(p)' /\ WriteAt(p)' /\ FlushAt(p)'
  BY <1>2, <1>4 DEF MappedAt, DefaultsAt, CreateAt, WriteAt, FlushAt, Holding, Users
<1>8. CASE UNCHANGED <<file, blocks, lockFile, damaged>>
  <2>1. DamageInv'
    BY <1>4, <1>5, <1>8 DEF Inv, DamageInv
  <2>2. ~flushEachWrite => FlushInv'
    BY <1>2, <1>8 DEF Inv, FlushInv, Vacant, WholeStore
  <2>3. ASSUME NEW q \in Processes \ {p}
        PROVE  /\ MappedAt(q)' /\ DefaultsAt(q)' /\ CreateAt(q)' /\ WriteAt(q)'
               /\ ~flushEachWrite => FlushAt(q)'
    BY <1>2, <1>5, <1>8 DEF Inv, MappedAt, DefaultsAt, CreateAt, WriteAt, FlushAt,
                            Vacant, WholeStore
  <2>. QED
    BY <1>1, <1>2, <1>6, <1>7, <2>1, <2>2, <2>3 DEF Inv
<1>9. CASE /\ \A q \in Processes : at[q] = "none"
           /\ \A f \in Files : file'[f] = "absent"
           /\ lockFile' = FALSE /\ damaged' = FALSE
  <2>1. DamageInv' /\ FlushInv'
    BY <1>9 DEF DamageInv, FlushInv, Vacant
  <2>2. ASSUME NEW q \in Processes \ {p}
        PROVE  MappedAt(q)' /\ DefaultsAt(q)' /\ CreateAt(q)' /\ WriteAt(q)' /\ FlushAt(q)'
    <3>1. at'[q] = "none" /\ mapped'[q] = {}
      BY <1>5, <1>9 DEF Inv, MappedAt
    <3>. QED
      BY <3>1 DEF MappedAt, DefaultsAt, CreateAt, WriteAt, FlushAt, Holding, Users,
                  Creators
  <2>. QED
    BY <1>1, <1>2, <1>6, <1>7, <2>1, <2>2 DEF Inv
<1>. QED
  BY <1>3, <1>8, <1>9

LEMMA StepStart ==
    ASSUME Inv, NEW p \in Processes, NEW indexes \in BOOLEAN, StartNode(p, indexes)
    PROVE  Inv'
<1>1. Typed' /\ OthersKept(p)
  BY TypedStep DEF Inv
<1>2. /\ at[p] = "none" /\ at'[p] = "open" /\ directory /\ mapped[p] = {}
      /\ configured'[p] /\ UNCHANGED <<diskVars, lockVars, mapped, damaged>>
  BY DEF StartNode, Goto, Inv, MappedAt, Typed
<1>3. OwnerInv' /\ DamageInv'
  BY <1>1, <1>2 DEF Inv, OwnerInv, DamageInv, Holding, Users, OthersKept, diskVars, lockVars
<1>4. MappedAt(p)' /\ DefaultsAt(p)' /\ CreateAt(p)' /\ WriteAt(p)' /\ FlushAt(p)'
  BY <1>2 DEF MappedAt, DefaultsAt, CreateAt, WriteAt, FlushAt, Holding, Users, Creators
<1>5. ASSUME NEW q \in Processes \ {p}
      PROVE  /\ MappedAt(q)' /\ DefaultsAt(q)' /\ CreateAt(q)' /\ WriteAt(q)'
             /\ ~flushEachWrite => FlushAt(q)'
  <2>1. /\ at'[q] = at[q] /\ indexed'[q] = indexed[q] /\ done'[q] = done[q]
        /\ configured'[q] = configured[q] /\ mapped'[q] = mapped[q]
        /\ TablesOf(q)' = TablesOf(q) /\ \A i : FilesAt(q, i)' = FilesAt(q, i)
    BY <1>1, TablesKept DEF OthersKept
  <2>. QED
    BY <1>2, <2>1 DEF Inv, MappedAt, DefaultsAt, CreateAt, WriteAt, FlushAt, Vacant, WholeStore,
                      diskVars, lockVars
<1>6. ~flushEachWrite => FlushInv'
  BY <1>2 DEF Inv, FlushInv, Vacant, WholeStore, diskVars, lockVars
<1>7. flushEachWrite' = flushEachWrite
  BY <1>2 DEF diskVars
<1>. QED
  BY <1>1, <1>3, <1>4, <1>5, <1>6, <1>7 DEF Inv

LEMMA StepOpen ==
    ASSUME Inv, NEW p \in Processes, OpenStore(p)
    PROVE  Inv'
<1>1. Typed' /\ OthersKept(p)
  BY TypedStep DEF Inv
<1>2. /\ at[p] \in {"create", "open"} /\ mapped[p] = {}
      /\ UNCHANGED <<flushEachWrite, directory, file, blocks, configured, indexed,
                     mapped, damaged>>
  BY DEF OpenStore, Inv, MappedAt, diskVars, settings
<1>3. TablesOf(p)' = TablesOf(p) /\ \A i : FilesAt(p, i)' = FilesAt(p, i)
  BY <1>2, TablesKept
<1>4. ASSUME NEW q \in Processes \ {p}
      PROVE  /\ at'[q] = at[q] /\ done'[q] = done[q]
             /\ configured'[q] = configured[q]
             /\ TablesOf(q)' = TablesOf(q) /\ \A i : FilesAt(q, i)' = FilesAt(q, i)
  BY <1>1, TablesKept DEF OthersKept
\* The lock is another's, or a flush lock file is there.
<1>5. CASE at'[p] = "failed"
  <2>1. /\ UNCHANGED <<lockFile, held>>
        /\ exclusive' = exclusive \/ (exclusive = NoOne /\ exclusive' = p)
    BY <1>2, <1>5 DEF OpenStore, TakeFlushLock, Place, Flushes, lockVars, Goto, Typed, Inv
  <2>2. OwnerInv' /\ DamageInv'
    BY <1>1, <1>2, <1>4, <1>5, <2>1
       DEF Inv, OwnerInv, DamageInv, Holding, Users
  <2>3. MappedAt(p)' /\ DefaultsAt(p)' /\ CreateAt(p)' /\ WriteAt(p)' /\ FlushAt(p)'
    BY <1>2, <1>5 DEF MappedAt, DefaultsAt, CreateAt, WriteAt, FlushAt, Holding, Users, Creators
  <2>4. \A q \in Processes \ {p} :
          /\ MappedAt(q)' /\ DefaultsAt(q)' /\ CreateAt(q)' /\ WriteAt(q)'
          /\ ~flushEachWrite => FlushAt(q)'
    BY <1>2, <1>4, <2>1
       DEF Inv, MappedAt, DefaultsAt, CreateAt, WriteAt, FlushAt, Vacant, WholeStore
  <2>5. ~flushEachWrite => FlushInv'
    BY <1>2, <2>1 DEF Inv, FlushInv, Vacant, WholeStore
  <2>. QED
    BY <1>1, <1>2, <2>2, <2>3, <2>4, <2>5 DEF Inv
\* Both are free.
<1>6. CASE at'[p] # "failed"
  <2>1. /\ exclusive = NoOne /\ exclusive' = p /\ ~lockFile /\ done'[p] = 0
        /\ at[p] = "create" => at'[p] = "files"
        /\ at[p] = "open" => at'[p] = "opening"
        /\ ~Flushes(p) => lockFile' /\ p \in held'
    BY <1>2, <1>6 DEF OpenStore, TakeFlushLock, Place, Flushes, lockVars, Goto, Typed, Inv
  <2>2. \A q \in Processes \ {p} : at'[q] \notin Holding /\ mapped'[q] = {}
    BY <1>1, <2>1 DEF Inv, OwnerInv, OthersKept
  <2>3. ~damaged'
    BY <1>2, <2>1 DEF Inv, DamageInv
  <2>4. OwnerInv' /\ DamageInv'
    BY <2>1, <2>2, <2>3 DEF OwnerInv, DamageInv
  <2>5. MappedAt(p)' /\ DefaultsAt(p)' /\ CreateAt(p)' /\ WriteAt(p)'
    BY <1>2, <2>1 DEF Inv, Flushes, MappedAt, DefaultsAt, CreateAt, WriteAt, Creators
  <2>6. ~flushEachWrite => FlushInv' /\ FlushAt(p)'
    BY <1>2, <2>1 DEF Flushes, Inv, FlushInv, FlushAt, Vacant, WholeStore, Users
  <2>7. \A q \in Processes \ {p} :
          MappedAt(q)' /\ DefaultsAt(q)' /\ CreateAt(q)' /\ WriteAt(q)' /\ FlushAt(q)'
    BY <1>2, <1>4, <2>2
       DEF Inv, MappedAt, DefaultsAt, CreateAt, WriteAt, FlushAt, Holding, Users, Creators
  <2>. QED
    BY <1>1, <1>2, <2>4, <2>5, <2>6, <2>7 DEF Inv
<1>. QED
  BY <1>5, <1>6

\* What holds of the one at work before each of its steps.
LEMMA HolderHas ==
    ASSUME Inv, NEW p \in Processes, at[p] \in Holding
    PROVE  /\ Typed /\ ~damaged /\ exclusive = p
           /\ MappedAt(p) /\ DefaultsAt(p) /\ CreateAt(p) /\ WriteAt(p)
           /\ ~flushEachWrite => FlushInv /\ FlushAt(p)
           /\ at[p] \in Holding \ {"unlocking"} => (~flushEachWrite => lockFile)
BY DEF Inv, DamageInv, OwnerInv, FlushAt

LEMMA StepFiles ==
    ASSUME Inv, NEW p \in Processes,
           FilesCreated(p) \/ \E opened \in BOOLEAN : CreateFile(p, opened)
    PROVE  Inv'
<1>1. Typed' /\ OthersKept(p)
  BY TypedStep DEF Inv, Creating
<1>2. /\ at[p] = "files" /\ at'[p] \in {"files", "tables"}
      /\ at'[p] = "tables" => done'[p] = 0 /\ file' = file
      /\ UNCHANGED <<flushEachWrite, directory, lockVars, settings, mapped, damaged>>
  BY DEF FilesCreated, CreateFile, Goto, Step, Inv, Typed, diskVars
<1>3. \A f \in Files : file'[f] \in {file[f], "byte"}
  BY DEF FilesCreated, CreateFile, Inv, Typed, diskVars
<1>4. TablesOf(p)' = TablesOf(p) /\ \A i : FilesAt(p, i)' = FilesAt(p, i)
  BY <1>2, TablesKept
<1>5. at[p] \in Holding \ {"unlocking"} /\ at[p] \in Creators
  BY <1>2 DEF Holding, Creators
<1>6. \A i \in DOMAIN TablesOf(p) : i \in Nat \ {0}
  BY TablesTyped DEF Inv
<1>7. MappedAt(p)' /\ DefaultsAt(p)' /\ CreateAt(p)' /\ WriteAt(p)'
  BY <1>2, <1>4, <1>5, <1>6, HolderHas
     DEF MappedAt, DefaultsAt, CreateAt, WriteAt, Creators, lockVars
<1>8. ~flushEachWrite => FlushInv' /\ FlushAt(p)'
  BY <1>2, <1>5, HolderHas DEF FlushInv, FlushAt, Holding, Users, lockVars
<1>9. ~damaged'
  BY <1>2, <1>5, HolderHas
<1>. QED
  BY <1>1, <1>2, <1>5, <1>7, <1>8, <1>9, HolderStep DEF lockVars

LEMMA StepTables ==
    ASSUME Inv, NEW p \in Processes,
           CreateSized(p) \/ CreateHeader(p) \/ CreateRows(p)
    PROVE  Inv'
<1>1. Typed' /\ OthersKept(p)
  BY TypedStep DEF Inv, Creating
<1>2. /\ at[p] = "tables" /\ at' = at /\ HasNext(p)
      /\ UNCHANGED <<flushEachWrite, directory, lockVars, settings, damaged>>
  BY DEF CreateSized, CreateHeader, CreateRows, processVars
<1>3. TablesOf(p)' = TablesOf(p) /\ \A i : FilesAt(p, i)' = FilesAt(p, i)
  BY <1>2, TablesKept
<1>4. at[p] \in Holding \ {"unlocking"} /\ at[p] \in Creators
  BY <1>2 DEF Holding, Creators
<1>5. \A f \in Files : file[f] = "table" => file'[f] = "table"
  <2>1. CASE CreateSized(p)
    BY <2>1 DEF CreateSized
  <2>2. CASE CreateHeader(p)
    BY <2>2 DEF CreateHeader, Inv, Typed
  <2>3. CASE CreateRows(p)
    <3>1. \E x : file' = [file EXCEPT ![x] = "table"]
      BY <2>3 DEF CreateRows
    <3>. QED
      BY <3>1 DEF Inv, Typed
  <2>. QED
    BY <2>1, <2>2, <2>3
<1>6. /\ done[p] + 1 \in DOMAIN TablesOf(p) /\ done[p] \in Nat
      /\ ToSet(Current(p).files) = FilesAt(p, done[p] + 1)
      /\ FilesAt(p, done[p] + 1) \subseteq FilesOf(TablesOf(p))
  BY <1>2, CurrentTyped, FilesTyped DEF Inv, Typed
\* The last file of a table makes it whole.
<1>7. \/ done'[p] = done[p]
      \/ /\ done'[p] = done[p] + 1
         /\ \A f \in FilesAt(p, done[p] + 1) : file'[f] = "table"
  <2>1. CASE CreateSized(p) \/ CreateHeader(p)
    BY <2>1 DEF CreateSized, CreateHeader, processVars
  <2>2. CASE CreateRows(p)
    <3> DEFINE files == Current(p).files
    <3>1. PICK i \in DOMAIN files :
            /\ \A j \in 1 .. i - 1 : file[files[j]] = "table"
            /\ file' = [file EXCEPT ![files[i]] = "table"]
            /\ IF i = Len(files) THEN Step(p) ELSE UNCHANGED done
      BY <2>2 DEF CreateRows
    <3>2. DOMAIN files = 1 .. Len(files) /\ Len(files) \in Nat
      BY <1>6, TablesTyped DEF Current, IsTable, Inv
    <3>3. ToSet(files) \subseteq Files
      BY <1>6, FilesTyped DEF Inv
    <3>4. CASE i = Len(files)
      <4>1. \A j \in 1 .. Len(files) : file'[files[j]] = "table"
        <5>1. \A j \in 1 .. Len(files) : files[j] \in Files
          BY <3>2, <3>3 DEF ToSet
        <5>. QED
          BY <3>1, <3>2, <3>4, <5>1 DEF Inv, Typed
      <4>2. \A f \in ToSet(files) : file'[f] = "table"
        BY <3>2, <4>1 DEF ToSet
      <4>. QED
        BY <1>6, <3>1, <3>4, <4>2 DEF Step, Inv, Typed
    <3>5. CASE i # Len(files)
      BY <3>1, <3>5
    <3>. QED
      BY <3>4, <3>5
  <2>. QED
    BY <2>1, <2>2
<1>8. MappedAt(p)'
  <2>1. mapped'[p] \subseteq mapped[p] \cup FilesAt(p, done[p] + 1)
    BY <1>6 DEF CreateSized, CreateHeader, CreateRows, processVars, Inv, Typed
  <2>. QED
    BY <1>2, <1>3, <1>4, <1>6, <2>1, HolderHas DEF MappedAt
<1>9. CreateAt(p)'
  <2>1. \A i \in DOMAIN TablesOf(p) :
          i <= done'[p] => \A f \in FilesAt(p, i) : file'[f] = "table"
    <3>1. ASSUME NEW i \in DOMAIN TablesOf(p), i <= done'[p], NEW f \in FilesAt(p, i)
          PROVE  file'[f] = "table"
      <4>1. i \in Nat /\ FilesAt(p, i) \subseteq Files
        BY TablesTyped, FilesTyped DEF Inv
      <4>2. CASE i <= done[p]
        BY <1>2, <1>4, <1>5, <4>1, <4>2, <3>1, HolderHas DEF CreateAt
      <4>3. CASE i = done[p] + 1
        BY <1>6, <1>7, <3>1, <4>3
      <4>. QED
        BY <1>6, <1>7, <3>1, <4>1, <4>2, <4>3
    <3>. QED
      BY <3>1
  <2>. QED
    BY <1>2, <1>3, <1>4, <2>1, HolderHas DEF CreateAt
<1>10. ~flushEachWrite => FlushInv' /\ FlushAt(p)'
  BY <1>2, <1>4, HolderHas DEF FlushInv, FlushAt, Holding, Users, lockVars
<1>11. WriteAt(p)' /\ ~damaged'
  BY <1>2, <1>4, HolderHas DEF WriteAt
<1>12. DefaultsAt(p)'
  <2>1. configured[p] \/ done' = done
    BY DEF CreateSized, CreateHeader, CreateRows
  <2>. QED
    BY <1>2, <1>4, <2>1, HolderHas DEF DefaultsAt, lockVars
<1>. QED
  BY <1>1, <1>2, <1>4, <1>8, <1>9, <1>10, <1>11, <1>12, HolderStep DEF lockVars

\* Steps to another place that change nothing else.
LEMMA StepGoto ==
    ASSUME Inv, NEW p \in Processes,
           CreateFails(p) \/ OpenFails(p) \/ Opened(p) \/ Close(p)
    PROVE  Inv'
<1>1. Typed' /\ OthersKept(p)
  BY TypedStep DEF Inv, Creating, Working
<1>2. /\ at[p] \in Holding \ {"unlocking"} /\ at'[p] \in {"failed", "closing", "ready"}
      /\ at[p] = "tables" => at'[p] = "failed"
      /\ done'[p] = 0
      /\ UNCHANGED <<diskVars, lockVars, settings, mapped, damaged>>
  BY DEF CreateFails, OpenFails, Opened, Close, Goto, Inv, Typed, Holding, Users
<1>3. TablesOf(p)' = TablesOf(p) /\ \A i : FilesAt(p, i)' = FilesAt(p, i)
  BY <1>2, TablesKept
<1>4. \A i \in DOMAIN TablesOf(p) : i \in Nat \ {0}
  BY TablesTyped DEF Inv
<1>5. MappedAt(p)' /\ CreateAt(p)' /\ WriteAt(p)'
  BY <1>2, <1>3, <1>4, HolderHas DEF MappedAt, CreateAt, WriteAt, Creators
<1>6. ~flushEachWrite => FlushInv' /\ FlushAt(p)'
  <2>1. CASE Opened(p)
    <3>1. at[p] = "opening" /\ at'[p] = "ready" /\ done[p] > 0
      BY <2>1, CurrentTyped DEF Opened, Goto, Inv, Typed
    <3>. QED
      BY <1>2, <3>1, HolderHas
         DEF FlushInv, FlushAt, Vacant, WholeStore, Holding, Users, diskVars, lockVars
  <2>2. CASE OpenFails(p) \/ Close(p)
    <3>1. at[p] \in Users /\ at'[p] = "closing"
      BY <2>2 DEF OpenFails, Close, Goto, Inv, Typed, Users
    <3>. QED
      BY <1>2, <3>1, HolderHas
         DEF FlushInv, FlushAt, Vacant, WholeStore, Holding, Users, diskVars, lockVars
  <2>3. CASE CreateFails(p)
    <3>1. at'[p] = "failed"
      BY <2>3 DEF CreateFails, Goto, Inv, Typed
    <3>. QED
      BY <1>2, <3>1, HolderHas
         DEF FlushInv, FlushAt, Holding, Users, diskVars, lockVars
  <2>. QED
    BY <2>1, <2>2, <2>3
<1>7. ~damaged'
  BY <1>2, HolderHas
<1>8. DefaultsAt(p)'
  <2>1. at[p] \notin {"none", "create", "files", "tables", "failed"}
           \/ at'[p] = "failed"
    BY <1>2 DEF CreateFails, OpenFails, Opened, Close
  <2>. QED
    BY <1>2, <2>1, HolderHas DEF DefaultsAt, lockVars
<1>. QED
  BY <1>1, <1>2, <1>5, <1>6, <1>7, <1>8, HolderStep DEF lockVars, diskVars

LEMMA StepGenesis ==
    ASSUME Inv, NEW p \in Processes,
           \/ BeginGenesis(p) \/ StoreGenesis(p)
           \/ \E flushed \in BOOLEAN : EndGenesis(p, flushed)
    PROVE  Inv'
<1>1. Typed' /\ OthersKept(p)
  BY TypedStep DEF Inv, Creating
<1>2. /\ UNCHANGED <<flushEachWrite, directory, exclusive, file, settings, mapped,
                     damaged>>
      /\ at[p] \in {"tables", "genesis", "ending"}
      /\ at'[p] \in {"genesis", "ending", "ready"}
  BY DEF BeginGenesis, StoreGenesis, EndGenesis, Goto, Inv, Typed, diskVars, lockVars
<1>3. TablesOf(p)' = TablesOf(p) /\ \A i : FilesAt(p, i)' = FilesAt(p, i)
  BY <1>2, TablesKept
<1>4. at[p] \in Holding \ {"unlocking"} /\ at[p] \in Creators
  BY <1>2 DEF Holding, Creators
<1>5. MappedAt(p)' /\ DefaultsAt(p)' /\ ~damaged'
  <2>1. at[p] = "tables" => done[p] > 0
    BY CurrentTyped DEF BeginGenesis, StoreGenesis, EndGenesis, Inv
  <2>2. configured[p]
    BY <1>2, <1>4, <2>1, HolderHas DEF DefaultsAt
  <2>. QED
    BY <1>2, <1>3, <1>4, <2>2, HolderHas DEF MappedAt, DefaultsAt
\* Every table is whole before the genesis block is pushed.
<1>6. \A f \in Files : file[f] = "table"
  <2>1. CASE at[p] = "tables"
    <3>1. ~HasNext(p)
      BY <2>1 DEF BeginGenesis, StoreGenesis, EndGenesis
    <3>2. \A i \in DOMAIN TablesOf(p) : \A f \in FilesAt(p, i) : file[f] = "table"
      BY <2>1, <3>1, <1>4, CurrentTyped, HolderHas DEF CreateAt
    <3>3. FilesOf(TablesOf(p)) = Files
      BY <1>4, TablesTyped, HolderHas DEF CreateAt
    <3>. QED
      BY <3>2, <3>3 DEF FilesOf, FilesAt
  <2>2. CASE at[p] # "tables"
    BY <1>2, <1>4, <2>2, HolderHas DEF CreateAt
  <2>. QED
    BY <2>1, <2>2
<1>7. CASE BeginGenesis(p)
  <2>1. /\ at'[p] = "genesis" /\ held' = held \cup {p}
        /\ lockFile' = (lockFile \/ flushEachWrite)
    BY <1>7 DEF BeginGenesis, Goto, Inv, Typed
  <2>2. lockFile'
    <3>1. lockFile \/ flushEachWrite
      BY <1>4, HolderHas
    <3>. QED
      BY <2>1, <3>1, Zenon
  <2>3. CreateAt(p)' /\ WriteAt(p)'
    BY <1>2, <1>4, <1>6, <2>1, <2>2, HolderHas DEF CreateAt, WriteAt, Creators
  <2>4. FlushInv' /\ FlushAt(p)'
    BY <2>1, <2>2 DEF FlushInv, FlushAt, Users
  <2>. QED
    BY <1>1, <1>2, <1>4, <1>5, <2>1, <2>3, <2>4, HolderStep
       DEF Holding
<1>8. CASE StoreGenesis(p)
  <2>1. /\ at[p] = "genesis" /\ at'[p] = "ending" /\ blocks' = 1 /\ UNCHANGED lockVars
    BY <1>8 DEF StoreGenesis, Goto, Inv, Typed
  <2>2. CreateAt(p)' /\ WriteAt(p)'
    BY <1>2, <1>4, <1>6, <2>1, HolderHas DEF CreateAt, WriteAt, Creators, lockVars
  <2>3. ~flushEachWrite => FlushInv' /\ FlushAt(p)'
    BY <1>4, <2>1, HolderHas DEF FlushInv, FlushAt, Users, lockVars
  <2>. QED
    BY <1>1, <1>2, <1>4, <1>5, <2>1, <2>2, <2>3, HolderStep DEF Holding
<1>9. CASE \E flushed \in BOOLEAN : EndGenesis(p, flushed)
  <2>1. /\ at[p] = "ending" /\ at'[p] = "ready" /\ blocks' = blocks
        /\ ~flushEachWrite => UNCHANGED <<lockFile, held>>
    BY <1>9 DEF EndGenesis, Goto, Inv, Typed, diskVars
  <2>2. CreateAt(p)' /\ WriteAt(p)'
    BY <2>1 DEF CreateAt, WriteAt, Creators
  <2>3. WholeStore'
    BY <1>2, <1>4, <1>6, <2>1, HolderHas DEF WholeStore, CreateAt
  <2>4. ~flushEachWrite => FlushInv' /\ FlushAt(p)'
    BY <1>2, <1>4, <2>1, <2>3, HolderHas DEF FlushInv, FlushAt, Users, Holding
  <2>. QED
    BY <1>1, <1>2, <1>4, <1>5, <2>1, <2>2, <2>4, HolderStep DEF Holding, Creators
<1>. QED
  BY <1>7, <1>8, <1>9

LEMMA StepPush ==
    ASSUME Inv, NEW p \in Processes, BeginPush(p) \/ EndPush(p)
    PROVE  Inv'
<1>1. Typed' /\ OthersKept(p)
  BY TypedStep DEF Inv, Working
<1>2. /\ UNCHANGED <<flushEachWrite, directory, exclusive, file, settings, mapped,
                     damaged>>
      /\ at[p] \in {"ready", "pushing"} /\ at'[p] \in {"ready", "pushing"}
      /\ blocks' \in {blocks, blocks + 1}
  BY DEF BeginPush, EndPush, Goto, Inv, Typed, diskVars
<1>3. TablesOf(p)' = TablesOf(p) /\ \A i : FilesAt(p, i)' = FilesAt(p, i)
  BY <1>2, TablesKept
<1>4. at[p] \in Holding \ {"unlocking"} /\ at'[p] \notin Creators
  BY <1>2 DEF Holding, Users, Creators
<1>5. MappedAt(p)' /\ DefaultsAt(p)' /\ CreateAt(p)' /\ ~damaged'
  BY <1>2, <1>3, <1>4, HolderHas DEF MappedAt, DefaultsAt, CreateAt
<1>6. WriteAt(p)' /\ (~flushEachWrite => lockFile' /\ p \in held')
  <2>1. CASE BeginPush(p)
    <3>1. lockFile' = (lockFile \/ flushEachWrite) /\ held' = held \cup {p}
      BY <2>1 DEF BeginPush
    <3>2. lockFile \/ flushEachWrite
      BY <1>4, HolderHas
    <3>3. lockFile'
      BY <3>1, <3>2, Zenon
    <3>. QED
      BY <3>1, <3>3 DEF WriteAt
  <2>2. CASE EndPush(p)
    <3>1. at'[p] = "ready" /\ (~flushEachWrite => UNCHANGED <<lockFile, held>>)
      BY <2>2 DEF EndPush, Goto, Inv, Typed
    <3>2. ~flushEachWrite => lockFile /\ p \in held
      BY <1>4, HolderHas DEF FlushAt
    <3>. QED
      BY <3>1, <3>2 DEF WriteAt
  <2>. QED
    BY <2>1, <2>2
<1>7. ~flushEachWrite => FlushInv' /\ FlushAt(p)'
  <2>1. SUFFICES ASSUME ~flushEachWrite PROVE FlushInv' /\ FlushAt(p)'
    OBVIOUS
  <2>2. WholeStore'
    <3>1. WholeStore
      BY <1>2, <1>4, <2>1, HolderHas DEF FlushAt
    <3>2. blocks \in Nat
      BY DEF Inv, Typed
    <3>. QED
      BY <1>2, <3>1, <3>2 DEF WholeStore
  <2>. QED
    BY <1>6, <2>1, <2>2 DEF FlushInv, FlushAt
<1>. QED
  BY <1>1, <1>2, <1>4, <1>5, <1>6, <1>7, HolderStep DEF Creators, Holding

LEMMA StepMapping ==
    ASSUME Inv, NEW p \in Processes, OpenTable(p) \/ CloseTable(p)
    PROVE  Inv'
<1>1. Typed' /\ OthersKept(p)
  BY TypedStep DEF Inv, Working
<1>2. /\ UNCHANGED <<diskVars, lockVars, at, settings, damaged>>
      /\ at[p] \in {"opening", "closing"} /\ HasNext(p)
      /\ done[p] \in Nat /\ done'[p] = done[p] + 1
  BY DEF OpenTable, CloseTable, Step, Inv, Typed
<1>3. TablesOf(p)' = TablesOf(p) /\ \A i : FilesAt(p, i)' = FilesAt(p, i)
  BY <1>2, TablesKept
<1>4. at[p] \in Holding \ {"unlocking"} /\ at[p] \notin Creators /\ at[p] \in Users
  BY <1>2 DEF Holding, Users, Creators
<1>5. /\ done[p] + 1 \in DOMAIN TablesOf(p)
      /\ ToSet(Current(p).files) = FilesAt(p, done[p] + 1)
      /\ FilesAt(p, done[p] + 1) \subseteq FilesOf(TablesOf(p))
      /\ FilesAt(p, done[p] + 1) \subseteq Files /\ FilesAt(p, done[p] + 1) # {}
  BY <1>2, CurrentTyped, FilesTyped DEF Inv
<1>6. MappedAt(p)'
  <2>1. CASE OpenTable(p)
    <3>1. mapped'[p] = mapped[p] \cup FilesAt(p, done[p] + 1) /\ at[p] = "opening"
      BY <1>5, <2>1 DEF OpenTable, Inv, Typed
    <3>. QED
      BY <1>2, <1>3, <1>4, <1>5, <3>1, HolderHas DEF MappedAt
  <2>2. CASE CloseTable(p)
    <3>1. mapped'[p] = mapped[p] \ FilesAt(p, done[p] + 1) /\ at[p] = "closing"
      BY <1>5, <2>2 DEF CloseTable, Inv, Typed
    <3>2. ASSUME NEW i \in DOMAIN TablesOf(p), i <= done'[p]
          PROVE  FilesAt(p, i) \cap mapped'[p] = {}
      <4>1. i \in Nat
        BY TablesTyped DEF Inv
      <4>2. i <= done[p] \/ i = done[p] + 1
        BY <1>2, <3>2, <4>1
      <4>3. i <= done[p] => FilesAt(p, i) \cap mapped[p] = {}
        BY <1>4, <3>1, HolderHas DEF MappedAt
      <4>. QED
        BY <3>1, <4>2, <4>3
    <3>. QED
      BY <1>2, <1>3, <1>4, <3>1, <3>2, HolderHas DEF MappedAt
  <2>. QED
    BY <2>1, <2>2
<1>7. CreateAt(p)' /\ WriteAt(p)' /\ DefaultsAt(p)' /\ ~damaged'
  BY <1>2, <1>4, HolderHas DEF CreateAt, WriteAt, DefaultsAt
<1>8. ~flushEachWrite => FlushInv' /\ FlushAt(p)'
  <2>1. SUFFICES ASSUME ~flushEachWrite PROVE FlushInv' /\ FlushAt(p)'
    OBVIOUS
  <2>2. lockFile' /\ p \in held' /\ (Vacant \/ WholeStore)
    BY <1>2, <1>4, <2>1, HolderHas DEF FlushAt, lockVars
\* A table that opens is not of a store without files.
  <2>3. at[p] = "opening" => WholeStore
    <3>1. SUFFICES ASSUME at[p] = "opening", Vacant PROVE FALSE
      BY <2>2
    <3>2. Opens(Current(p))
      BY <3>1 DEF OpenTable, CloseTable
    <3>3. PICK f \in FilesAt(p, done[p] + 1) : TRUE
      BY <1>5
    <3>4. f \in Files /\ file[f] # "absent"
      BY <1>5, <3>2, <3>3 DEF Opens
    <3>. QED
      BY <3>1, <3>4 DEF Vacant
  <2>4. (Vacant \/ WholeStore)' /\ (at[p] = "opening" => WholeStore')
    BY <1>2, <2>2, <2>3 DEF Vacant, WholeStore, diskVars
  <2>. QED
    BY <1>2, <2>2, <2>4 DEF FlushInv, FlushAt
<1>. QED
  BY <1>1, <1>2, <1>4, <1>6, <1>7, <1>8, HolderStep DEF lockVars, diskVars, Holding

LEMMA StepCloseFails ==
    ASSUME Inv, NEW p \in Processes, CloseFails(p)
    PROVE  Inv'
<1>1. Typed' /\ OthersKept(p)
  BY TypedStep DEF Inv, Working
<1>2. /\ at[p] = "closing" /\ at'[p] = "failed" /\ mapped[p] # {}
      /\ damaged' = (damaged \/ ~flushEachWrite)
      /\ UNCHANGED <<diskVars, lockVars, settings, mapped>>
  BY DEF CloseFails, Goto, Inv, Typed
<1>3. TablesOf(p)' = TablesOf(p)
  BY <1>2, TablesKept
<1>4. at[p] \in Holding \ {"unlocking"} /\ at'[p] \notin Holding
  BY <1>2 DEF Holding, Users
<1>5. MappedAt(p)' /\ DefaultsAt(p)' /\ CreateAt(p)' /\ WriteAt(p)'
  BY <1>2, <1>3, <1>4, HolderHas DEF MappedAt, DefaultsAt, CreateAt, WriteAt, Creators
<1>6. ~flushEachWrite => FlushInv' /\ FlushAt(p)' /\ lockFile'
  BY <1>2, <1>4, HolderHas DEF FlushInv, FlushAt, Users, Holding, lockVars
<1>7. damaged' => lockFile' /\ at'[p] \notin Holding
  <2>1. damaged' => ~flushEachWrite
    BY <1>2, <1>4, HolderHas, Zenon
  <2>. QED
    BY <1>4, <1>6, <2>1
<1>. QED
  BY <1>1, <1>2, <1>4, <1>5, <1>6, <1>7, HolderStep
     DEF lockVars, diskVars, Holding, Creators

LEMMA StepUnlockFlush ==
    ASSUME Inv, NEW p \in Processes, UnlockFlush(p)
    PROVE  Inv'
<1>1. Typed' /\ OthersKept(p)
  BY TypedStep DEF Inv, Working
<1>2. /\ at[p] = "closing" /\ at'[p] = "unlocking" /\ ~HasNext(p)
      /\ UNCHANGED <<diskVars, exclusive, settings, mapped, damaged>>
  BY DEF UnlockFlush, Goto, Inv, Typed
<1>3. at[p] \in Holding \ {"unlocking"} /\ at[p] \in Users /\ at'[p] \notin Creators
  BY <1>2 DEF Holding, Users, Creators
\* All it had open is closed.
<1>4. mapped'[p] = {}
  <2>1. \A i \in DOMAIN TablesOf(p) : FilesAt(p, i) \cap mapped[p] = {}
    BY <1>2, <1>3, CurrentTyped, HolderHas DEF MappedAt
  <2>2. mapped[p] \subseteq FilesOf(TablesOf(p))
    BY <1>3, HolderHas DEF MappedAt
  <2>. QED
    BY <1>2, <2>1, <2>2 DEF FilesOf, FilesAt
<1>5. MappedAt(p)' /\ DefaultsAt(p)' /\ CreateAt(p)' /\ WriteAt(p)' /\ ~damaged'
  BY <1>2, <1>3, <1>4, HolderHas DEF MappedAt, DefaultsAt, CreateAt, WriteAt, Creators
<1>6. ~flushEachWrite => FlushInv' /\ FlushAt(p)'
  <2>1. SUFFICES ASSUME ~flushEachWrite PROVE FlushInv' /\ FlushAt(p)'
    OBVIOUS
  <2>2. Vacant \/ WholeStore
    BY <1>3, <2>1, HolderHas DEF FlushAt
  <2>3. (Vacant \/ WholeStore)'
    BY <1>2, <2>2 DEF Vacant, WholeStore, diskVars
  <2>. QED
    BY <1>2, <1>4, <2>3 DEF FlushInv, FlushAt, Users, Holding
<1>. QED
  BY <1>1, <1>2, <1>3, <1>5, <1>6, HolderStep DEF diskVars, Holding, Creators

\* A process leaves, in order or not.
LEMMA StepLeave ==
    ASSUME Inv, NEW p \in Processes, UnlockExclusive(p) \/ End(p)
    PROVE  Inv'
<1>1. Typed' /\ OthersKept(p)
  BY TypedStep DEF Inv, Working
<1>2. /\ at'[p] = "none" /\ mapped'[p] = {} /\ held' \in {held, held \ {p}}
      /\ exclusive' \in {exclusive, NoOne}
      /\ exclusive \notin {p, NoOne} => exclusive' = exclusive
      /\ UNCHANGED <<diskVars, lockFile, settings>>
  BY DEF UnlockExclusive, End, Goto, Inv, Typed, OwnerInv, Holding
<1>3. ASSUME NEW q \in Processes \ {p}
      PROVE  /\ at'[q] = at[q] /\ done'[q] = done[q] /\ mapped'[q] = mapped[q]
             /\ TablesOf(q)' = TablesOf(q) /\ \A i : FilesAt(q, i)' = FilesAt(q, i)
  BY <1>1, TablesKept DEF OthersKept
<1>4. OwnerInv'
  <2>1. \A q \in Processes \ {p} :
          at[q] \in Holding \/ mapped[q] # {} => exclusive = q /\ exclusive' = q
    BY <1>2 DEF Inv, OwnerInv
  <2>. QED
    BY <1>2, <1>3, <2>1 DEF OwnerInv, Holding, Users
<1>5. DamageInv'
  <2>1. CASE damaged
    <3>1. lockFile' /\ \A q \in Processes : at[q] \notin Holding
      BY <1>2, <2>1 DEF Inv, DamageInv
    <3>. QED
      BY <1>2, <1>3, <3>1 DEF DamageInv, Holding, Users
\* It dies in a write, or with files open that were not flushed.
  <2>2. CASE ~damaged /\ damaged'
    <3>1. at[p] = "pushing" \/ (~Flushes(p) /\ mapped[p] # {})
      <4>1. damaged' = (damaged \/ at[p] = "pushing"
                        \/ (~Flushes(p) /\ mapped[p] # {}))
        <5>1. CASE End(p)
          BY <5>1 DEF End
        <5>2. CASE UnlockExclusive(p)
          BY <2>2, <5>2 DEF UnlockExclusive
        <5>. QED
          BY <5>1, <5>2
      <4>. QED
        BY <2>2, <4>1
    <3>2. lockFile
      BY <3>1 DEF Inv, WriteAt, FlushAt, DefaultsAt, Flushes
    <3>3. exclusive = p
      BY <3>1 DEF Inv, OwnerInv, Holding, Users
    <3>4. \A q \in Processes \ {p} : at[q] \notin Holding
      BY <3>3 DEF Inv, OwnerInv
    <3>. QED
      BY <1>2, <1>3, <3>2, <3>4 DEF DamageInv, Holding, Users
  <2>3. CASE ~damaged'
    BY <2>3 DEF DamageInv
  <2>. QED
    BY <2>1, <2>2, <2>3
<1>6. MappedAt(p)' /\ DefaultsAt(p)' /\ CreateAt(p)' /\ WriteAt(p)' /\ FlushAt(p)'
  BY <1>2 DEF MappedAt, DefaultsAt, CreateAt, WriteAt, FlushAt, Holding, Users, Creators
<1>7. ASSUME NEW q \in Processes \ {p}
      PROVE  /\ MappedAt(q)' /\ DefaultsAt(q)' /\ CreateAt(q)' /\ WriteAt(q)'
             /\ ~flushEachWrite => FlushAt(q)'
  <2>1. MappedAt(q)' /\ DefaultsAt(q)'
    BY <1>1, <1>2, <1>3 DEF Inv, MappedAt, DefaultsAt, OthersKept
  <2>2. CreateAt(q)' /\ WriteAt(q)'
    BY <1>2, <1>3 DEF Inv, CreateAt, WriteAt, diskVars
  <2>3. ~flushEachWrite => FlushAt(q)'
    BY <1>2, <1>3 DEF Inv, FlushAt, Vacant, WholeStore, diskVars
  <2>. QED
    BY <2>1, <2>2, <2>3
<1>8. ~flushEachWrite => FlushInv'
  BY <1>2 DEF Inv, FlushInv, Vacant, WholeStore, diskVars
<1>. QED
  BY <1>1, <1>2, <1>4, <1>5, <1>6, <1>7, <1>8 DEF Inv, diskVars

-----------------------------------------------------------------------------
\* Theorems.

LEMMA InvNext == Inv /\ [Next]_vars => Inv'
<1>. SUFFICES ASSUME Inv, [Next]_vars PROVE Inv'
  OBVIOUS
<1>1. CASE Next
  <2>1. PICK p \in Processes :
          \/ \E clean, here \in BOOLEAN : Initchain(p, clean, here)
          \/ \E clean \in BOOLEAN : CreateStore(p, clean)
          \/ \E indexes \in BOOLEAN : StartNode(p, indexes)
          \/ OpenStore(p) \/ Creating(p) \/ Working(p) \/ End(p)
    BY <1>1 DEF Next
  <2>2. CASE \/ \E clean, here \in BOOLEAN : Initchain(p, clean, here)
             \/ \E clean \in BOOLEAN : CreateStore(p, clean)
    BY <2>2, StepCreate
  <2>3. CASE \E indexes \in BOOLEAN : StartNode(p, indexes)
    BY <2>3, StepStart
  <2>4. CASE Creating(p)
    BY <2>4, StepFiles, StepTables, StepGoto, StepGenesis DEF Creating
  <2>5. CASE Working(p)
    BY <2>5, StepGoto, StepPush, StepMapping, StepCloseFails, StepUnlockFlush,
       StepLeave DEF Working
  <2>. QED
    BY <2>1, <2>2, <2>3, <2>4, <2>5, StepOpen, StepLeave
<1>2. CASE UNCHANGED vars
  <2>. USE <1>2 DEF vars, diskVars, lockVars, processVars
  <2>1. Typed' /\ OwnerInv' /\ DamageInv'
    BY DEF Inv, Typed, OwnerInv, DamageInv
  <2>2. ASSUME NEW p \in Processes
        PROVE  /\ MappedAt(p)' /\ DefaultsAt(p)' /\ CreateAt(p)' /\ WriteAt(p)'
               /\ ~flushEachWrite => FlushAt(p)'
    <3>1. TablesOf(p)' = TablesOf(p) /\ \A i : FilesAt(p, i)' = FilesAt(p, i)
      BY TablesKept
    <3>. QED
      BY <3>1 DEF Inv, MappedAt, DefaultsAt, CreateAt, WriteAt, FlushAt, Vacant, WholeStore
  <2>3. ~flushEachWrite => FlushInv'
    BY DEF Inv, FlushInv, Vacant, WholeStore
  <2>. QED
    BY <2>1, <2>2, <2>3 DEF Inv
<1>. QED
  BY <1>1, <1>2

\* In every reachable state the exclusive lock is with who works on the files,
\* and the flush lock file tells what is in them.
THEOREM FilesInvariant == Spec => []Inv
BY TypedInit, InvNext, PTL DEF Spec

\* However processes start, fail and end, at most one has files of the store
\* open: store::open takes the exclusive lock before, store::close gives it
\* back after, and the system does when the process ends.
THEOREM OwnerAlone == Spec => []OneOwner
<1>1. Inv => OneOwner
  BY DEF Inv, OwnerInv, OneOwner
<1>. QED
  BY <1>1, FilesInvariant, PTL

\* After a death in a write, or with unflushed files open, and after a close
\* that fails, store::open finds the flush lock file and refuses every process.
THEOREM DamageRefused == Spec => []DamageIsRefused
<1>1. Inv => DamageIsRefused
  BY DEF Inv, DamageInv, DamageIsRefused, Holding, Users
<1>. QED
  BY <1>1, FilesInvariant, PTL

\* With the flush lock held from open to close, create and open of data_base
\* give only whole stores to their callers, with indexes or without.
THEOREM ReadyWhole == Spec => []ReadyIsWhole
<1>1. ASSUME Inv, ~flushEachWrite, NEW p \in Processes, at[p] = "ready" PROVE Whole(p)
  <2>1. WholeStore
    BY <1>1 DEF Inv, FlushAt
  <2>2. FilesOf(TablesOf(p)) \subseteq Files
    BY <1>1, TablesTyped DEF Inv
  <2>. QED
    BY <2>1, <2>2 DEF WholeStore, Whole
<1>2. Inv => ReadyIsWhole
  BY <1>1 DEF ReadyIsWhole
<1>. QED
  BY <1>2, FilesInvariant, PTL

\* store::create cuts the files of a store only with the exclusive lock, and
\* where it found no flush lock file: of one that is not open and was closed.
THEOREM ClosedCut == Spec => ClosedIsCut
<1> DEFINE Kept == \A f \in Files :
                     file[f] = "table" /\ file'[f] = "byte" =>
                         ~damaged /\ \A p \in Processes : mapped[p] = {}
<1>1. ASSUME Inv, Next, NEW f \in Files, file[f] = "table", file'[f] = "byte"
      PROVE  ~damaged /\ \A p \in Processes : mapped[p] = {}
  <2>1. PICK p \in Processes :
          \/ \E clean, here \in BOOLEAN : Initchain(p, clean, here)
          \/ \E clean \in BOOLEAN : CreateStore(p, clean)
          \/ \E indexes \in BOOLEAN : StartNode(p, indexes)
          \/ OpenStore(p) \/ Creating(p) \/ Working(p) \/ End(p)
    BY <1>1 DEF Next
  <2>2. CASE \/ \E clean, here \in BOOLEAN : Initchain(p, clean, here)
             \/ \E clean \in BOOLEAN : CreateStore(p, clean)
    BY <1>1, <2>2 DEF Initchain, CreateStore, MakeDirectory
  <2>3. CASE \E indexes \in BOOLEAN : StartNode(p, indexes)
    BY <1>1, <2>3 DEF StartNode, diskVars
  <2>4. CASE OpenStore(p) \/ Working(p) \/ End(p)
    BY <1>1, <2>4 DEF OpenStore, Working, OpenTable, OpenFails, Opened, BeginPush,
       EndPush, Close, CloseTable, CloseFails, UnlockFlush, UnlockExclusive, End, diskVars
  <2>5. CASE \E opened \in BOOLEAN : CreateFile(p, opened)
    <3>1. at[p] = "files" /\ at[p] \in Holding
      BY <2>5 DEF CreateFile, Holding
    <3>2. exclusive = p /\ ~damaged /\ mapped[p] = {}
      BY <1>1, <3>1 DEF Inv, OwnerInv, DamageInv, MappedAt
    <3>. QED
      BY <1>1, <3>2 DEF Inv, OwnerInv
  <2>6. CASE CreateSized(p)
    BY <1>1, <2>6 DEF CreateSized
  <2>7. CASE CreateHeader(p)
    BY <1>1, <2>7 DEF CreateHeader, Inv, Typed
  <2>8. CASE CreateRows(p)
    <3>1. \E x : file' = [file EXCEPT ![x] = "table"]
      BY <2>8 DEF CreateRows
    <3>. QED
      BY <1>1, <3>1 DEF Inv, Typed
  <2>9. CASE \/ FilesCreated(p) \/ CreateFails(p) \/ BeginGenesis(p) \/ StoreGenesis(p)
             \/ \E flushed \in BOOLEAN : EndGenesis(p, flushed)
    BY <1>1, <2>9 DEF FilesCreated, CreateFails, BeginGenesis, StoreGenesis, EndGenesis,
       diskVars
  <2>. QED
    BY <2>1, <2>2, <2>3, <2>4, <2>5, <2>6, <2>7, <2>8, <2>9 DEF Creating
<1>2. Inv /\ [Next]_vars => [Kept]_vars
  BY <1>1
<1>3. Spec => [][Kept]_vars
  BY <1>2, FilesInvariant, PTL DEF Spec
<1>. QED
  BY <1>3 DEF ClosedIsCut
=============================================================================
