----------------------------- MODULE TableTools -----------------------------
(***************************************************************************)
(* The command line tools of src/tools, each of which opens the files of   *)
(* one table, makes one call and ends with an exit status.  They take      *)
(* neither the exclusive lock nor the flush lock of the store: the count   *)
(* of rows is read when the files are opened and written by synchronize,   *)
(* the rows and links are in the mapped file at once.                      *)
(*                                                                         *)
(* Here a key is a bucket of its own (HashTable has several in one), and a *)
(* row number stands for the offset of a slab or the index of a record.    *)
(* A table is made anew by calls that may fail.  A command that finds no   *)
(* disk space for a row is left to StoreFiles.                             *)
(***************************************************************************)
EXTENDS Naturals, Sequences, FiniteSets

CONSTANTS
    Keys,       \* hashes, points, addresses or prefixes
    Values,     \* what a row holds beside its key
    Junk,       \* the hash of the header that from_data leaves when it fails
    Kinds,      \* which tables the files may be of
    Tools,      \* processes that run a tool
    AtOnce,     \* how many of them run at a time
    KillAt,     \* where a tool may be killed
    MaxRows     \* bound: rows ever stored in the table

Unconfirmed == "unconfirmed"    \* the value of a transaction off the chain

\* The tables that keep the rows of a key in a list of their own.
Multimaps == {"history", "mmr"}

ASSUME TableToolsAssumption ==
    /\ Junk \notin Keys /\ Unconfirmed \notin Values
    /\ Kinds \subseteq Multimaps \cup {"block", "transaction", "spend", "stealth"}
    /\ AtOnce \in Nat \ {0} /\ MaxRows \in Nat
    /\ KillAt \subseteq {"create", "open", "operate", "synchronize"}

VARIABLES
    kind,       \* the table the files are of
    asserts,    \* BITCOIN_ASSERT is compiled into the tools
    file,       \* the files of the table
    tool        \* what each process does

vars == <<kind, asserts, file, tool>>

Slots == 1 .. MaxRows
NoRow == 0
AllKeys == Keys \cup {Junk}
Row == [key : AllKeys, value : Values \cup {Unconfirmed}, next : Slots \cup {NoRow}]

\* count and heights are those in the file, index is the index of the blocks.
File == [made : {"absent", "byte", "table"}, count : 0 .. MaxRows, heights : 0 .. MaxRows,
         row : [Slots -> Row], head : [AllKeys -> Slots \cup {NoRow}],
         index : [Slots -> Slots \cup {NoRow}]]

\* rows and heights are the counts of the process, code its exit status, before
\* and sound what the files were when it was run.
Running == {"start", "create", "open", "operate", "synchronize"}
Codes == {"none", "done", "refused", "fault", "killed"}

Idle(p) == tool[p].at = "end"
Goto(p, place) == tool' = [tool EXCEPT ![p].at = place]
Exit(p, code) == tool' = [tool EXCEPT ![p].at = "end", ![p].code = code]

-----------------------------------------------------------------------------
\* What the files say.

\* The rows from row i on, a circle of links only once around.
RowsFrom(t, i) ==
    LET from[n \in 0 .. MaxRows, j \in Slots \cup {NoRow}] ==
            IF n = 0 \/ j = NoRow THEN <<>>
            ELSE <<t.row[j]>> \o from[n - 1, t.row[j].next]
    IN  from[MaxRows, i]

\* The rows that the tools find by a key: find skips rows of other keys in a
\* bucket and get asks for a confirmed transaction; a list has no keys in it.
RowsOf(t, k) ==
    SelectSeq(RowsFrom(t, t.head[k]),
        LAMBDA r : (r.key = k \/ kind \in Multimaps) /\ r.value # Unconfirmed)

\* The values of those rows, none before the table is whole.
ListsOf(t) ==
    [k \in Keys |->
        IF t.made # "table" THEN <<>>
        ELSE [i \in DOMAIN RowsOf(t, k) |-> RowsOf(t, k)[i].value]]

\* Links lead to earlier rows, and none past the count, where the next row goes.
IsSound(t) ==
    /\ \A k \in Keys : t.head[k] <= t.count
    /\ \A i \in 1 .. t.count : t.row[i].next < i

NoRows == [key |-> Junk, value |-> Unconfirmed, next |-> NoRow]
EmptyFile ==
    [made |-> "byte", count |-> 0, heights |-> 0, row |-> [i \in Slots |-> NoRows],
     head |-> [k \in AllKeys |-> NoRow], index |-> [i \in Slots |-> NoRow]]

\* A table that a node left, with one row for each of a sequence of keys: the
\* blocks by height, or confirmed transactions and the like.
LeftByNode(keys, v) ==
    [made |-> "table", count |-> Len(keys),
     heights |-> IF kind = "block" THEN Len(keys) ELSE 0,
     row |-> [i \in Slots |-> IF i > Len(keys) THEN NoRows
                              ELSE [key |-> keys[i], value |-> v, next |-> NoRow]],
     head |-> [k \in AllKeys |-> IF \E i \in DOMAIN keys : keys[i] = k
                                 THEN CHOOSE i \in DOMAIN keys : keys[i] = k
                                 ELSE NoRow],
     index |-> [i \in Slots |-> IF kind = "block" /\ i <= Len(keys) THEN i ELSE NoRow]]

OnceEach(keys) == \A i, j \in DOMAIN keys : keys[i] = keys[j] => i = j

Init ==
    /\ kind \in Kinds /\ asserts \in BOOLEAN
    /\ \/ file = [EmptyFile EXCEPT !.made = "absent"]
       \/ \E n \in 0 .. Cardinality(Keys) : n <= MaxRows
            /\ \E keys \in [1 .. n -> Keys], v \in Values :
                 OnceEach(keys) /\ file = LeftByNode(keys, v)
    /\ tool = [p \in Tools |->
                [at |-> "end", command |-> "none", key |-> Junk, value |-> Unconfirmed,
                 rows |-> 0, heights |-> 0, code |-> "none",
                 before |-> ListsOf(file), sound |-> IsSound(file)]]

-----------------------------------------------------------------------------
\* The commands of each tool.  initialize_new stands for mmr_create too, and
\* show for show_records, show_linked_records, show_array and count_records.
BlockCommands == {"initialize_new", "get", "get_height", "store", "unlink", "last_height"}
TransactionCommands == {"initialize_new", "get", "store", "remove"}
SpendCommands == {"initialize_new", "get", "store", "remove", "statinfo"}
HistoryCommands == {"initialize_new", "add_output", "add_spend", "delete_last_row",
                    "fetch", "statinfo"}
StealthCommands == {"initialize_new", "scan"}
MmrCommands == {"initialize_new", "mmr_add_row", "mmr_delete_last_row", "mmr_lookup"}
FileCommands == {"show"} \cup (IF kind = "mmr" THEN {"read_record"} ELSE {})
                    \cup (IF kind \in {"block", "transaction"} THEN {"read_slab"} ELSE {})

Commands ==
    FileCommands \cup
    CASE kind = "block" -> BlockCommands
      [] kind = "transaction" -> TransactionCommands
      [] kind = "spend" -> SpendCommands
      [] kind = "history" -> HistoryCommands
      [] kind = "stealth" -> StealthCommands
      [] kind = "mmr" -> MmrCommands

\* The arguments of a command, where it has any.
Stores == {"store", "add_output", "add_spend", "mmr_add_row"}
Unkeyed == {"initialize_new", "get_height", "unlink", "last_height", "statinfo", "show"}
KeysFor(command) == IF command \in Unkeyed THEN {Junk} ELSE Keys
ValuesFor(command) == IF command \in Stores THEN Values ELSE {Unconfirmed}

\* A tool is run, when as few others run as AtOnce says.
Start(p, command, k, v) ==
    /\ Idle(p) /\ Cardinality({q \in Tools : ~Idle(q)}) < AtOnce
    /\ command \in Commands
    /\ tool' = [tool EXCEPT ![p] =
                 [at |-> "start", command |-> command, key |-> k, value |-> v,
                  rows |-> 0, heights |-> 0, code |-> "none",
                  before |-> ListsOf(file), sound |-> IsSound(file)]]
    /\ UNCHANGED <<kind, asserts, file>>

\* Too few arguments, or one that does not parse: the tools of one command
\* leave a bad number to an exception, and some call bad usage a success.
\* store of block_db throws for a block that from_data reads.
RefusalCodes(p) ==
    CASE tool[p].command \in {"mmr_add_row", "show"} -> {"refused", "done", "fault"}
      [] tool[p].command \in {"read_record", "read_slab"} -> {"refused", "done", "fault"}
      [] kind = "mmr" -> {"refused", "fault"}
      [] kind \in {"block", "transaction"} /\ tool[p].command = "store" ->
            {"refused", "fault"}
      [] OTHER -> IF tool[p].command = "initialize_new" THEN {} ELSE {"refused"}

Refuse(p) ==
    /\ tool[p].at = "start"
    /\ \E code \in RefusalCodes(p) : Exit(p, code)
    /\ UNCHANGED <<kind, asserts, file>>

\* store of transaction_db reads its data from the argument that is the name
\* of the file, and never comes further than that.
Accept(p) ==
    /\ tool[p].at = "start"
    /\ ~(kind = "transaction" /\ tool[p].command = "store")
    /\ Goto(p, IF tool[p].command = "initialize_new" THEN "create" ELSE "open")
    /\ UNCHANGED <<kind, asserts, file>>

-----------------------------------------------------------------------------
\* initialize_new: store::create cuts the files, then the table's create.

\* The result of store::create is ignored: a file that cannot be opened for
\* writing stays as it is.
CreateFiles(p) ==
    /\ tool[p].at = "create"
    /\ file' \in {EmptyFile, file}
    /\ Goto(p, "open")
    /\ UNCHANGED <<kind, asserts>>

\* create makes the table, or returns false, which only an assertion looks at,
\* or its resize throws, perhaps after a first file was written.
CreateTable(p) ==
    /\ tool[p].at = "open" /\ tool[p].command = "initialize_new"
    /\ \/ /\ file.made # "absent"
          /\ file' = [EmptyFile EXCEPT !.made = "table"]
          /\ Exit(p, "done")
       \/ UNCHANGED file /\ Exit(p, IF asserts THEN "fault" ELSE "done")
       \/ /\ file.made # "absent"
          /\ file' \in {EmptyFile, file}
          /\ Exit(p, "fault")
    /\ UNCHANGED <<kind, asserts>>

-----------------------------------------------------------------------------
\* Opening.  Some tools never open the file; some do so in an assertion, which
\* is nothing when assertions are compiled out.  When the file is not open or
\* not whole the assertion on the result, or the access after it, ends the tool.
IsOpened(p) ==
    CASE tool[p].command = "show" -> FALSE
      [] tool[p].command \in {"read_record", "mmr_lookup"} -> asserts
      [] OTHER -> TRUE

\* Mutant: the table is used without its start, which reads the counts.
OpenUnread(p) ==
    /\ tool[p].at = "open" /\ tool[p].command # "initialize_new"
    /\ IF IsOpened(p) /\ file.made = "table" THEN Goto(p, "operate") ELSE Exit(p, "fault")
    /\ UNCHANGED <<kind, asserts, file>>

Open(p) ==
    /\ tool[p].at = "open" /\ tool[p].command # "initialize_new"
    /\ IF IsOpened(p) /\ file.made = "table"
         THEN tool' = [tool EXCEPT ![p].at = "operate", ![p].rows = file.count,
                                   ![p].heights = file.heights]
         ELSE Exit(p, "fault")
    /\ UNCHANGED <<kind, asserts, file>>

-----------------------------------------------------------------------------
\* The calls that tools have in common.

Does(p, commands) == tool[p].at = "operate" /\ tool[p].command \in commands

Answer(p, code) == Exit(p, code) /\ UNCHANGED file

Found(p) == RowsOf(file, tool[p].key) # <<>>

\* store of a hash table, add_row of a multimap: the row after the last.
StoreRow(p, k, v) ==
    /\ tool[p].rows < MaxRows
    /\ LET new == tool[p].rows + 1
       IN  /\ file' = [file EXCEPT
                        !.row[new] = [key |-> k, value |-> v, next |-> file.head[k]],
                        !.head[k] = new,
                        !.index = IF kind = "block"
                                  THEN [@ EXCEPT ![tool[p].heights] = new] ELSE @]
           /\ tool' = [tool EXCEPT ![p].rows = new, ![p].at = "synchronize"]

\* Mutant: the bucket is emptied, as if its row were its last.
UnlinkLast(p, k) ==
    /\ file' = IF Found(p) THEN [file EXCEPT !.head[k] = NoRow] ELSE file
    /\ Goto(p, "synchronize")

\* unlink of a hash table, delete_last_row of a multimap: the newest row.
UnlinkRow(p, k) ==
    /\ file' = IF Found(p) THEN [file EXCEPT !.head[k] = file.row[@].next] ELSE file
    /\ Goto(p, "synchronize")

-----------------------------------------------------------------------------
\* One tool each: what its commands do with the open table.

\* read_htdb_slab_value takes any slab of the key, and none for one as well.
ReadSlab(p) ==
    Does(p, {"read_slab"})
        /\ Answer(p, IF file.head[tool[p].key] = NoRow THEN "fault" ELSE "done")

\* block_db stores what from_data could not read, in the place of the top
\* block; get has a result for any block, and reads the header of none.
BlockTool(p) ==
    LET k == tool[p].key
        heights == tool[p].heights
    IN  \/ ReadSlab(p)
        \/ Does(p, {"get"})
             /\ Answer(p, IF file.head[k] = NoRow THEN "fault" ELSE "done")
        \/ Does(p, {"get_height"})
             /\ \E height \in 0 .. MaxRows :
                  Answer(p, IF height < heights THEN "done" ELSE "fault")
        \/ Does(p, {"store"}) /\ heights = 0 /\ Answer(p, "fault")
        \/ Does(p, {"store"}) /\ heights > 0 /\ StoreRow(p, Junk, tool[p].value)
        \/ /\ Does(p, {"unlink"})
           /\ \E from \in 0 .. MaxRows :
                tool' = [tool EXCEPT ![p].at = "synchronize",
                            ![p].heights = IF @ > from THEN from ELSE @]
           /\ UNCHANGED file
        \/ Does(p, {"last_height"})
             /\ Answer(p, IF heights = 0 THEN "refused" ELSE "done")

\* remove makes the transaction unconfirmed, and get is for confirmed ones.
TransactionTool(p) ==
    LET k == tool[p].key
    IN  \/ Does(p, {"get"}) /\ Answer(p, IF Found(p) THEN "done" ELSE "refused")
        \/ ReadSlab(p)
        \/ /\ Does(p, {"remove"})
           /\ file' = IF file.head[k] = NoRow THEN file
                      ELSE [file EXCEPT !.row[file.head[k]].value = Unconfirmed]
           /\ Goto(p, "synchronize")

SpendTool(p) ==
    LET k == tool[p].key
    IN  \/ Does(p, {"get"}) /\ Answer(p, IF Found(p) THEN "done" ELSE "refused")
        \/ Does(p, {"store"}) /\ StoreRow(p, k, tool[p].value)
        \/ Does(p, {"remove"}) /\ UnlinkRow(p, k)
        \/ Does(p, {"statinfo"}) /\ Answer(p, "done")

HistoryTool(p) ==
    LET k == tool[p].key
    IN  \/ Does(p, {"add_output", "add_spend"}) /\ StoreRow(p, k, tool[p].value)
        \/ Does(p, {"delete_last_row"}) /\ UnlinkRow(p, k)
        \/ Does(p, {"fetch", "statinfo"}) /\ Answer(p, "done")

\* scan looks at every row below the count, from the first.
StealthTool(p) == Does(p, {"scan"}) /\ Answer(p, "done")

MmrAdd(p) == Does(p, {"mmr_add_row"}) /\ StoreRow(p, tool[p].key, tool[p].value)

\* mmr_delete_last_row gives the name of the map file for both files: the start
\* of the list over it fails, which an assertion shows, unless the file is long
\* enough; the next row is then whatever the map file has at that place, and
\* it is mostly the fill of its empty buckets.
MmrDelete(p) ==
    /\ Does(p, {"mmr_delete_last_row"})
    /\ \/ asserts /\ Answer(p, "fault")
       \/ /\ file' = IF file.head[tool[p].key] = NoRow THEN file
                     ELSE [file EXCEPT !.head[tool[p].key] = NoRow]
          /\ Exit(p, "done")
       \/ /\ file.head[tool[p].key] # NoRow
          /\ \E other \in Slots : file' = [file EXCEPT !.head[tool[p].key] = other]
          /\ Exit(p, "done")

MmrLookup(p) == Does(p, {"mmr_lookup"}) /\ Answer(p, "done")

ReadRecord(p) ==
    Does(p, {"read_record"}) /\ Answer(p, IF Found(p) THEN "done" ELSE "refused")

Operate(p) ==
    /\ CASE kind = "block" -> BlockTool(p)
         [] kind = "transaction" -> TransactionTool(p)
         [] kind = "spend" -> SpendTool(p)
         [] kind = "history" -> HistoryTool(p)
         [] kind = "stealth" -> StealthTool(p)
         [] kind = "mmr" -> MmrAdd(p) \/ MmrDelete(p) \/ MmrLookup(p) \/ ReadRecord(p)
    /\ UNCHANGED <<kind, asserts>>

\* The counts go to the file, and the tool ends.
Synchronize(p) ==
    /\ tool[p].at = "synchronize"
    /\ file' = [file EXCEPT !.count = tool[p].rows, !.heights = tool[p].heights]
    /\ Exit(p, "done")
    /\ UNCHANGED <<kind, asserts>>

Kill(p) ==
    /\ tool[p].at \in KillAt
    /\ Exit(p, "killed")
    /\ UNCHANGED <<kind, asserts, file>>

ToolStep(p) ==
    \/ \E command \in Commands :
         \E k \in KeysFor(command), v \in ValuesFor(command) : Start(p, command, k, v)
    \/ Refuse(p) \/ Accept(p)
    \/ CreateFiles(p) \/ CreateTable(p)
    \/ Open(p) \/ Operate(p) \/ Synchronize(p)
    \/ Kill(p)

Next == \E p \in Tools : ToolStep(p)

Spec == Init /\ [][Next]_vars

-----------------------------------------------------------------------------
\* Properties.

\* The types of the variables.
TypeOK ==
    /\ kind \in Kinds /\ asserts \in BOOLEAN
    /\ file \in File
    /\ \A p \in Tools : /\ tool[p].at \in Running \cup {"end"}
                        /\ tool[p].command \in Commands \cup {"none"}
                        /\ tool[p].code \in Codes

\* The tables with rows that tools can find by a key.
Keyed == {"transaction", "spend", "history", "stealth"}

Shown == IF kind \in Keyed THEN ListsOf(file) ELSE [k \in Keys |-> <<>>]

Lists == INSTANCE KeyedLists WITH Keys <- Keys, Values <- Values, lists <- Shown

\* Run one after the other, whatever ends them before their call, the tools of
\* the tables by key put rows before a list, take the newest row off one, or
\* make the table anew; no row that a tool stored is ever written over, which
\* is the work of the count that synchronize writes and the next tool reads.
ImplementsLists == Lists!SpecWithClear

\* What a command that ends with success leaves of the lists before it.
Effect(p) ==
    LET k == tool[p].key
        before == tool[p].before
        command == tool[p].command
    IN  CASE command = "initialize_new" -> [j \in Keys |-> <<>>]
          [] command \in Stores -> [before EXCEPT ![k] = <<tool[p].value>> \o @]
          [] command \in {"remove", "delete_last_row", "mmr_delete_last_row"} ->
                [before EXCEPT ![k] = IF @ = <<>> THEN @ ELSE Tail(@)]
          [] OTHER -> before

\* The lists are as the command makes them, or as they were.
IsDone(p) == ListsOf(file) = Effect(p)
IsUndone(p) == ListsOf(file) = tool[p].before

\* The commands whose success tells less: initialize_new, which without
\* assertions succeeds with no table, mmr_add_row, which succeeds without a row
\* for a key of another size, store of block_db, whose row is of no block, and
\* mmr_delete_last_row, which LastRowIsDeleted is about.
TellsLess(p) ==
    \/ tool[p].command = "initialize_new" /\ ~asserts
    \/ tool[p].command = "store" /\ kind = "block"
    \/ tool[p].command \in {"mmr_add_row", "mmr_delete_last_row"}

\* The exit status tells what a tool did that ran alone, on the files of any
\* table.  After success the table shows the whole effect of the command, of
\* the four that tell less but the last the whole or nothing.  After a refusal,
\* or when an exception, an assertion or an access to no file ended the tool,
\* the table is as it was, but for initialize_new, which may have cut it.  No
\* tool is to be believed about the links that mmr_delete_last_row may leave.
StatusIsTrue ==
    \A p \in Tools : (Idle(p) /\ tool[p].sound) =>
        LET command == tool[p].command
            code == tool[p].code
        IN  /\ (code = "done" /\ ~TellsLess(p)) =>
                  IsDone(p) /\ (command = "initialize_new" => file.made = "table")
            /\ (code = "done" /\ command # "mmr_delete_last_row") =>
                  IsDone(p) \/ IsUndone(p)
            /\ (code \in {"refused", "fault"} /\ command # "initialize_new") =>
                  IsUndone(p)

\* mmr_delete_last_row (tools/mmr_delete_last_row/mmr_delete_last_row.cpp:14) that
\* ends with success has taken the newest row of its key and no other row.
LastRowIsDeleted ==
    \A p \in Tools :
        (Idle(p) /\ tool[p].command = "mmr_delete_last_row" /\ tool[p].code = "done") =>
            ListsOf(file) = Effect(p)
=============================================================================
