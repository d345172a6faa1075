----------------------------- MODULE ChainData -----------------------------
(***************************************************************************)
(* What the store is given: blocks linked by parent hash, the transactions *)
(* of each, their inputs and outputs.  The hash of a block or transaction  *)
(* is its identity here.  A coinbase has no inputs: its null input spends  *)
(* nothing and is skipped wherever the code reads inputs.                  *)
(***************************************************************************)
EXTENDS Naturals, FiniteSets, SequencesExt

CONSTANTS
    Blocks, Txs, Addresses,
    NoBlock,       \* null_hash, the parent of the first block
    NoAddress,     \* no payment address can be extracted from the script
    Parent,        \* header().previous_block_hash()
    TxsOf,         \* transactions(), the coinbase first
    InputsOf,      \* inputs(): the output point spent and the address
    OutputsOf,     \* outputs(): the address of each
    Ephemeral,     \* the outputs with an ephemeral key and a stealth prefix
    MaxWord        \* max_uint32, beyond every height and position

Point == [tx : Txs, index : 0 .. MaxWord]

ASSUME DataAssumption ==
    /\ MaxWord \in Nat
    /\ NoBlock \notin Blocks /\ NoAddress \notin Addresses
    /\ Parent \in [Blocks -> Blocks \cup {NoBlock}]
    /\ TxsOf \in [Blocks -> Seq(Txs) \ {<<>>}]
    /\ InputsOf \in [Txs -> Seq([point : Point,
                                 address : Addresses \cup {NoAddress}])]
    /\ OutputsOf \in [Txs -> Seq(Addresses \cup {NoAddress})]
    /\ Ephemeral \subseteq Point
    /\ \A b \in Blocks : \A i \in DOMAIN TxsOf[b] :
          /\ InputsOf[TxsOf[b][i]] = <<>> <=> i = 1
          /\ \A j \in DOMAIN TxsOf[b] : TxsOf[b][i] = TxsOf[b][j] => i = j

Outputs(tx) == {i \in 0 .. Len(OutputsOf[tx]) : i < Len(OutputsOf[tx])}
PointsOf(tx) == {InputsOf[tx][i].point : i \in DOMAIN InputsOf[tx]}
Points == UNION {PointsOf(tx) : tx \in Txs}
TxSet(b) == ToSet(TxsOf[b])

\* The points of a block's inputs.
BlockPoints(b) == UNION {PointsOf(tx) : tx \in TxSet(b)}

-----------------------------------------------------------------------------
\* Chains of blocks, from the genesis block at height 0.

Heights(chain) == {h \in 0 .. Len(chain) : h < Len(chain)}
ChainTxs(chain) == UNION {TxSet(b) : b \in ToSet(chain)}

\* Where a transaction stands in a chain: its heights and positions.
Places(chain, tx) ==
    {place \in [height : Heights(chain), position : 0 .. MaxWord] :
        LET txs == TxsOf[chain[place.height + 1]]
        IN  place.position < Len(txs) /\ txs[place.position + 1] = tx}

\* The heights at which a chain spends an output.
SpentAt(chain, point) ==
    {h \in Heights(chain) : \E tx \in TxSet(chain[h + 1]) : point \in PointsOf(tx)}

\* The inputs by which a transaction, and the blocks of a chain from a height
\* up, spend it.
InputsAt(tx, point) ==
    {[tx |-> tx, index |-> i - 1] :
        i \in {i \in DOMAIN InputsOf[tx] : InputsOf[tx][i].point = point}}

SpendsOf(chain, point, from) ==
    UNION {UNION {InputsAt(tx, point) : tx \in TxSet(chain[h + 1])} :
              h \in {h \in Heights(chain) : h >= from}}

\* The history rows of a transaction, in the order of its inputs or outputs.
InputRows(tx, h) ==
    [i \in DOMAIN InputsOf[tx] |->
        [kind |-> "spend", tx |-> tx, index |-> i - 1, height |-> h,
         address |-> InputsOf[tx][i].address]]

OutputRows(tx, h) ==
    [i \in DOMAIN OutputsOf[tx] |->
        [kind |-> "output", tx |-> tx, index |-> i - 1, height |-> h,
         address |-> OutputsOf[tx][i]]]

\* The stealth rows of a transaction: an output with an ephemeral key,
\* followed by one that pays an address.
StealthRows(tx, h) ==
    {[tx |-> tx, index |-> i, height |-> h] :
        i \in {i \in Outputs(tx) : /\ i + 1 \in Outputs(tx)
                                  /\ OutputsOf[tx][i + 2] # NoAddress
                                  /\ [tx |-> tx, index |-> i] \in Ephemeral}}

\* The members of a finite set of positions, in order.
InOrder(S) ==
    [n \in 1 .. Cardinality(S) |->
        CHOOSE i \in S : Cardinality({j \in S : j <= i}) = n]

\* Of a sequence of rows, those of an address.
RowsFor(rows, a) ==
    LET at == InOrder({i \in DOMAIN rows : rows[i].address = a})
    IN  [n \in DOMAIN at |-> rows[at[n]]]

\* The history of an address in a transaction, and in the blocks of a chain
\* from a height up.
HistoryRows(tx, h, a) ==
    {r \in ToSet(InputRows(tx, h)) \cup ToSet(OutputRows(tx, h)) : r.address = a}

HistoryOf(chain, a, from) ==
    UNION {UNION {HistoryRows(tx, h, a) : tx \in TxSet(chain[h + 1])} :
              h \in {h \in Heights(chain) : h >= from}}

\* A branch of blocks that links to a block.
Linked(b, branch) ==
    \A i \in DOMAIN branch :
        Parent[branch[i]] = IF i = 1 THEN b ELSE branch[i - 1]

\* What validation leaves to the store: on one chain no transaction is twice
\* and no output is spent twice, and heights and positions are below MaxWord.
ValidBlocks ==
    /\ IsFiniteSet(Blocks) /\ Cardinality(Blocks) <= MaxWord
    /\ \A b \in Blocks :
         /\ Len(TxsOf[b]) <= MaxWord
         /\ \A tx \in TxSet(b) : \A i, j \in DOMAIN InputsOf[tx] :
              InputsOf[tx][i].point = InputsOf[tx][j].point => i = j
         /\ \A tx, u \in TxSet(b) : tx # u => PointsOf(tx) \cap PointsOf(u) = {}
    /\ \A chain \in SeqOf(Blocks, Cardinality(Blocks)) :
         Linked(NoBlock, chain) =>
             \A i, j \in DOMAIN chain : i < j =>
                 /\ TxSet(chain[i]) \cap TxSet(chain[j]) = {}
                 /\ BlockPoints(chain[i]) \cap BlockPoints(chain[j]) = {}
=============================================================================
