---------------------------- MODULE ChainProofs ----------------------------
(***************************************************************************)
(* Theorems about the content of the store, for any valid blocks, any      *)
(* threads, capacity and order of the imports.                             *)
(***************************************************************************)
EXTENDS Chain, FiniteSetTheorems, SequenceTheorems, TLAPS

\* Heights, positions and sequences are numbers.
LEMMA WordIsNat == MaxWord \in Nat
BY DataAssumption DEF DataAssumption

USE WordIsNat

-----------------------------------------------------------------------------
\* The inductive invariant.

\* A chain of blocks from the genesis block, and the place of a transaction in
\* it: the block of height n - 1 has it at position i - 1.
IsChain(c) == c \in Seq(Blocks) /\ Linked(NoBlock, c)
Has(c, n, i, tx) == n \in DOMAIN c /\ i \in DOMAIN TxsOf[c[n]] /\ TxsOf[c[n]][i] = tx

IsTable(s) ==
    /\ DOMAIN s \subseteq Txs
    /\ \A tx \in DOMAIN s :
         s[tx] \in [height : Nat, position : Nat, spent : [Outputs(tx) -> Nat]]

ConfirmedIn(s) == {tx \in DOMAIN s : s[tx].position # Unconfirmed}

\* What is confirmed is at its place in a chain, and is between two sets.
PlacedAt(s, c, tx) ==
    \E n, i \in Nat :
        Has(c, n, i, tx) /\ s[tx].height = n - 1 /\ s[tx].position = i - 1
Placed(s, c, least, most) ==
    /\ least \subseteq ConfirmedIn(s) /\ ConfirmedIn(s) \subseteq most
    /\ \A tx \in ConfirmedIn(s) : PlacedAt(s, c, tx)

\* A mark tells the height of a spender, and a set of spenders have their marks.
MarkedBy(c, h, p, u) == p \in PointsOf(u) /\ \E n, i \in Nat : Has(c, n, i, u) /\ h = n - 1
IsMarked(s, p) ==
    /\ p.tx \in DOMAIN s /\ p.index \in Outputs(p.tx)
    /\ s[p.tx].spent[p.index] # NotSpent
Marked(s, c, spenders) ==
    /\ \A tx \in DOMAIN s : \A o \in Outputs(tx) : s[tx].spent[o] # NotSpent =>
         \E u \in spenders : MarkedBy(c, s[tx].spent[o], [tx |-> tx, index |-> o], u)
    /\ \A u \in spenders : \A p \in PointsOf(u) : IsMarked(s, p)

\* Spenders come after what they spend, which is in a set.
ComesAfter(c, u, tx) ==
    \E n, i, m, j \in Nat : Has(c, n, i, u) /\ Has(c, m, j, tx) /\ m <= n
Ordered(c, spenders) ==
    \A u \in spenders : \A p \in PointsOf(u) : ComesAfter(c, u, p.tx)
Backed(spenders, stored) ==
    \A u \in spenders : \A p \in PointsOf(u) : p.tx \in stored

-----------------------------------------------------------------------------
\* Sequences and chains of blocks.

\* A sequence has its elements at 1 to its length.
LEMMA ElementsOf ==
    ASSUME NEW S, NEW s \in Seq(S)
    PROVE  Len(s) \in Nat /\ DOMAIN s = 1 .. Len(s) /\ \A i \in 1 .. Len(s) : s[i] \in S
OBVIOUS

\* A set of numbers has a least one.
LEMMA Least ==
    ASSUME NEW T \in SUBSET Nat, T # {}
    PROVE  \E m \in T : \A n \in T : m <= n
<1> DEFINE R == OpToRel(<, Nat)
<1>1. IsWellFoundedOn(R, Nat)
  BY NatLessThanWellFounded
<1>2. PICK m \in T : \A n \in T : <<n, m>> \notin R
  <2>. HIDE DEF R
  <2>. QED
    BY <1>1, WFMin
<1>3. \A n \in T : ~(n < m)
  BY <1>2, Zenon DEF OpToRel
<1>. QED
  BY <1>3

\* The transactions of a block.
LEMMA BlockHas ==
    ASSUME NEW b \in Blocks
    PROVE  /\ Len(TxsOf[b]) \in Nat \ {0} /\ DOMAIN TxsOf[b] = 1 .. Len(TxsOf[b])
           /\ \A i \in DOMAIN TxsOf[b] : TxsOf[b][i] \in Txs
           /\ \A i, j \in DOMAIN TxsOf[b] : TxsOf[b][i] = TxsOf[b][j] => i = j
           /\ TxSet(b) = {TxsOf[b][i] : i \in DOMAIN TxsOf[b]} /\ TxSet(b) \subseteq Txs
<1>1. TxsOf[b] \in Seq(Txs) /\ TxsOf[b] # <<>>
  BY DataAssumption DEF DataAssumption
<1>2. /\ Len(TxsOf[b]) \in Nat /\ DOMAIN TxsOf[b] = 1 .. Len(TxsOf[b])
      /\ \A i \in 1 .. Len(TxsOf[b]) : TxsOf[b][i] \in Txs
  BY <1>1, ElementsOf
<1>3. Len(TxsOf[b]) # 0
  BY <1>1
<1>4. TxSet(b) = {TxsOf[b][i] : i \in DOMAIN TxsOf[b]}
  BY Zenon DEF TxSet, ToSet
<1>5. \A i, j \in DOMAIN TxsOf[b] : TxsOf[b][i] = TxsOf[b][j] => i = j
  BY DataAssumption DEF DataAssumption
<1>6. TxSet(b) \subseteq Txs
  BY <1>2, <1>4
<1>. QED
  BY <1>2, <1>3, <1>4, <1>5, <1>6

\* The places of a chain of blocks.
LEMMA HasIs ==
    ASSUME NEW c \in Seq(Blocks), NEW n, NEW i, NEW tx, Has(c, n, i, tx)
    PROVE  /\ n \in 1 .. Len(c) /\ Len(c) \in Nat /\ n \in Nat
           /\ c[n] \in Blocks /\ tx \in Txs /\ tx \in TxSet(c[n])
           /\ i \in 1 .. Len(TxsOf[c[n]]) /\ Len(TxsOf[c[n]]) \in Nat /\ i \in Nat
<1>1. /\ Len(c) \in Nat /\ DOMAIN c = 1 .. Len(c)
      /\ \A m \in 1 .. Len(c) : c[m] \in Blocks
  BY ElementsOf
<1>2. n \in DOMAIN c /\ i \in DOMAIN TxsOf[c[n]] /\ TxsOf[c[n]][i] = tx
  BY DEF Has
<1>3. n \in 1 .. Len(c) /\ n \in Nat /\ c[n] \in Blocks
  BY <1>1, <1>2
<1>4. /\ Len(TxsOf[c[n]]) \in Nat /\ DOMAIN TxsOf[c[n]] = 1 .. Len(TxsOf[c[n]])
      /\ \A k \in DOMAIN TxsOf[c[n]] : TxsOf[c[n]][k] \in Txs
      /\ TxSet(c[n]) = {TxsOf[c[n]][k] : k \in DOMAIN TxsOf[c[n]]}
  BY <1>3, BlockHas
<1>5. i \in 1 .. Len(TxsOf[c[n]]) /\ i \in Nat
  BY <1>2, <1>4
<1>6. tx \in TxSet(c[n]) /\ tx \in Txs
  BY <1>2, <1>4
<1>. QED
  BY <1>1, <1>3, <1>4, <1>5, <1>6

\* A transaction of a chain is one that has a place in it.
LEMMA ChainHas ==
    ASSUME NEW c \in Seq(Blocks), NEW tx
    PROVE  tx \in ChainTxs(c) <=> \E n, i \in Nat : Has(c, n, i, tx)
<1>1. /\ Len(c) \in Nat /\ DOMAIN c = 1 .. Len(c)
      /\ \A m \in 1 .. Len(c) : c[m] \in Blocks
  BY ElementsOf
<1>2. ToSet(c) = {c[n] : n \in DOMAIN c}
  BY Zenon DEF ToSet
<1>3. ASSUME tx \in ChainTxs(c) PROVE \E n, i \in Nat : Has(c, n, i, tx)
  <2>1. PICK b \in ToSet(c) : tx \in TxSet(b)
    BY <1>3 DEF ChainTxs
  <2>2. PICK n \in DOMAIN c : b = c[n]
    BY <1>2, <2>1
  <2>3. PICK i \in DOMAIN TxsOf[b] : TxsOf[b][i] = tx
    BY <1>1, <2>1, <2>2, BlockHas
  <2>4. n \in Nat /\ i \in Nat
    <3>1. n \in Nat /\ b \in Blocks
      BY <1>1, <2>2
    <3>2. Len(TxsOf[b]) \in Nat /\ DOMAIN TxsOf[b] = 1 .. Len(TxsOf[b])
      BY <3>1, BlockHas
    <3>. QED
      BY <3>1, <3>2, <2>3
  <2>5. Has(c, n, i, tx)
    BY <2>2, <2>3 DEF Has
  <2>. QED
    BY <2>4, <2>5
<1>4. ASSUME NEW n \in Nat, NEW i \in Nat, Has(c, n, i, tx) PROVE tx \in ChainTxs(c)
  <2>1. c[n] \in ToSet(c)
    BY <1>2, <1>4 DEF Has
  <2>2. tx \in TxSet(c[n])
    BY <1>4, HasIs
  <2>. QED
    BY <2>1, <2>2 DEF ChainTxs
<1>. QED
  BY <1>3, <1>4

\* A line of blocks that goes back to the genesis block comes to no block twice.
LEMMA NoBlockTwice ==
    ASSUME NEW c, IsChain(c)
    PROVE  \A i, j \in 1 .. Len(c) : c[i] = c[j] => i = j
<1> DEFINE T == {i \in 1 .. Len(c) : \E j \in 1 .. Len(c) : i < j /\ c[i] = c[j]}
<1>0. c \in Seq(Blocks) /\ Linked(NoBlock, c)
  BY DEF IsChain
<1>1. /\ Len(c) \in Nat /\ DOMAIN c = 1 .. Len(c)
      /\ \A i \in 1 .. Len(c) : c[i] \in Blocks
  BY <1>0, ElementsOf
<1>2. \A i \in 1 .. Len(c) : Parent[c[i]] = IF i = 1 THEN NoBlock ELSE c[i - 1]
  BY <1>0, <1>1 DEF Linked
<1>3. T = {}
  <2>1. SUFFICES ASSUME T # {} PROVE FALSE
    OBVIOUS
  <2>2. PICK i \in T : \A n \in T : i <= n
    <3>1. T \in SUBSET Nat
      BY <1>1
    <3>. HIDE DEF T
    <3>. QED
      BY <2>1, <3>1, Least
  <2>3. PICK j \in 1 .. Len(c) : i < j /\ c[i] = c[j]
    BY <2>2
  <2>4. i \in 1 .. Len(c) /\ j - 1 \in 1 .. Len(c) /\ j # 1
    BY <1>1, <2>2, <2>3
  <2>5. Parent[c[j]] = c[j - 1] /\ c[j - 1] \in Blocks
    BY <1>1, <1>2, <2>3, <2>4, Zenon
  <2>6. Parent[c[i]] = c[j - 1] /\ c[j - 1] # NoBlock
    BY <2>3, <2>5, DataAssumption DEF DataAssumption
  <2>7. i # 1
    BY <1>2, <2>4, <2>6
  <2>8. Parent[c[i]] = c[i - 1]
    BY <1>2, <2>4, <2>7, Zenon
  <2>9. i - 1 \in 1 .. Len(c) /\ i - 1 < j - 1 /\ ~(i <= i - 1)
    BY <1>1, <2>3, <2>4, <2>7
  <2>10. i - 1 \in T
    BY <2>4, <2>6, <2>8, <2>9
  <2>. QED
    BY <2>2, <2>9, <2>10
<1>4. \A i, j \in 1 .. Len(c) : ~(i < j /\ c[i] = c[j])
  BY <1>3
<1>5. \A i, j \in 1 .. Len(c) : i = j \/ i < j \/ j < i
  BY <1>1
<1>. QED
  BY <1>4, <1>5, Zenon

\* It is not longer than there are blocks.
LEMMA LineIsShort ==
    ASSUME ValidBlocks, NEW c, IsChain(c)
    PROVE  /\ Len(c) <= MaxWord
           /\ c \in SeqOf(Blocks, Cardinality(Blocks))
<1>0. c \in Seq(Blocks)
  BY DEF IsChain
<1>1. Len(c) \in Nat /\ c \in [1 .. Len(c) -> Blocks]
  BY <1>0, LenProperties
<1>2. c \in Injection(1 .. Len(c), Blocks)
  BY <1>1, NoBlockTwice DEF Injection, IsInjective
<1>3. IsFiniteSet(Blocks) /\ Cardinality(Blocks) \in Nat /\ Cardinality(Blocks) <= MaxWord
  BY FS_CardinalityType DEF ValidBlocks
<1>4. Cardinality(1 .. Len(c)) <= Cardinality(Blocks)
  BY <1>2, <1>3, FS_Injection
<1>5. Cardinality(1 .. Len(c)) = Len(c)
  BY SMTT(20), <1>1, FS_Interval
<1>6. Len(c) <= Cardinality(Blocks)
  BY <1>4, <1>5
<1>7. Len(c) \in 0 .. Cardinality(Blocks)
  BY <1>1, <1>3, <1>6
<1>8. c \in UNION {[1 .. m -> Blocks] : m \in 0 .. Cardinality(Blocks)}
  BY <1>1, <1>7
<1>9. Len(c) <= MaxWord
  BY <1>1, <1>3, <1>6
<1>. QED
  BY <1>8, <1>9 DEF SeqOf

\* A transaction has one place in a chain.
LEMMA OnePlace ==
    ASSUME ValidBlocks, NEW c, IsChain(c), NEW n, NEW i, NEW m, NEW j, NEW tx,
           Has(c, n, i, tx), Has(c, m, j, tx)
    PROVE  n = m /\ i = j
<1>0. c \in Seq(Blocks) /\ Linked(NoBlock, c)
  BY DEF IsChain
<1>1. /\ n \in 1 .. Len(c) /\ m \in 1 .. Len(c) /\ Len(c) \in Nat
      /\ c[n] \in Blocks /\ tx \in TxSet(c[n]) /\ tx \in TxSet(c[m])
  BY <1>0, HasIs
<1>2. DOMAIN c = 1 .. Len(c)
  BY <1>0, ElementsOf
<1>3. \A k, l \in DOMAIN c : k < l => TxSet(c[k]) \cap TxSet(c[l]) = {}
  BY <1>0, LineIsShort, Zenon DEF ValidBlocks
<1>4. ~(n < m) /\ ~(m < n)
  BY <1>1, <1>2, <1>3
<1>5. n = m
  BY <1>1, <1>4
<1>6. i = j
  BY <1>1, <1>5, BlockHas DEF Has
<1>. QED
  BY <1>5, <1>6

\* An output has one spender in a chain.
LEMMA OneSpender ==
    ASSUME ValidBlocks, NEW c, IsChain(c), NEW n, NEW i, NEW m, NEW j, NEW tx, NEW u, NEW p,
           Has(c, n, i, tx), Has(c, m, j, u), p \in PointsOf(tx), p \in PointsOf(u)
    PROVE  tx = u
<1>0. c \in Seq(Blocks) /\ Linked(NoBlock, c)
  BY DEF IsChain
<1>1. /\ n \in 1 .. Len(c) /\ m \in 1 .. Len(c) /\ Len(c) \in Nat
      /\ c[n] \in Blocks /\ tx \in TxSet(c[n]) /\ u \in TxSet(c[m])
  BY <1>0, HasIs
<1>2. DOMAIN c = 1 .. Len(c)
  BY <1>0, ElementsOf
<1>3. \A k, l \in DOMAIN c : k < l => BlockPoints(c[k]) \cap BlockPoints(c[l]) = {}
  BY <1>0, LineIsShort, Zenon DEF ValidBlocks
<1>4. p \in BlockPoints(c[n]) /\ p \in BlockPoints(c[m])
  BY <1>1 DEF BlockPoints
<1>5. ~(n < m) /\ ~(m < n)
  BY <1>1, <1>2, <1>3, <1>4
<1>6. n = m
  BY <1>1, <1>5
<1>7. \A t, v \in TxSet(c[n]) : t # v => PointsOf(t) \cap PointsOf(v) = {}
  BY <1>1 DEF ValidBlocks
<1>. QED
  BY <1>1, <1>6, <1>7

\* Heights and positions are below MaxWord.
LEMMA PlaceIsLow ==
    ASSUME ValidBlocks, NEW c, IsChain(c), NEW n, NEW i, NEW tx, Has(c, n, i, tx)
    PROVE  n - 1 \in Nat /\ i - 1 \in Nat /\ n - 1 < MaxWord /\ i - 1 < MaxWord
<1>0. c \in Seq(Blocks)
  BY DEF IsChain
<1>1. /\ n \in 1 .. Len(c) /\ Len(c) \in Nat /\ c[n] \in Blocks
      /\ i \in 1 .. Len(TxsOf[c[n]]) /\ Len(TxsOf[c[n]]) \in Nat
  BY <1>0, HasIs
<1>2. Len(c) <= MaxWord /\ Len(TxsOf[c[n]]) <= MaxWord
  BY <1>1, LineIsShort DEF ValidBlocks
<1>. QED
  BY <1>1, <1>2

-----------------------------------------------------------------------------
\* What the writes make of a table.

\* A point spent is that of an output of a transaction.
LEMMA PointIs ==
    ASSUME NEW tx \in Txs, NEW p \in PointsOf(tx)
    PROVE  p \in Point /\ p = [tx |-> p.tx, index |-> p.index]
<1>1. InputsOf[tx] \in Seq([point : Point, address : Addresses \cup {NoAddress}])
  BY DataAssumption DEF DataAssumption
<1>2. PICK i \in DOMAIN InputsOf[tx] : p = InputsOf[tx][i].point
  BY DEF PointsOf
<1>3. InputsOf[tx][i] \in [point : Point, address : Addresses \cup {NoAddress}]
  <2> DEFINE S == [point : Point, address : Addresses \cup {NoAddress}]
  <2>1. InputsOf[tx] \in Seq(S)
    BY <1>1
  <2>. HIDE DEF S
  <2>2. DOMAIN InputsOf[tx] = 1 .. Len(InputsOf[tx])
        /\ \A j \in 1 .. Len(InputsOf[tx]) : InputsOf[tx][j] \in S
    BY <2>1, ElementsOf
  <2>. QED
    BY <1>2, <2>2 DEF S
<1>4. p \in Point
  BY <1>2, <1>3
<1>. QED
  BY <1>4 DEF Point

\* A table after the store of a transaction: its marks are those it had, if any.
Stores(s, t, tx, h, at) ==
    /\ DOMAIN t = DOMAIN s \cup {tx}
    /\ t[tx].height = h /\ t[tx].position = at
    /\ \A u \in DOMAIN s : u # tx => t[u] = s[u]
    /\ \A o \in Outputs(tx) : t[tx].spent[o] # NotSpent =>
         tx \in DOMAIN s /\ s[tx].spent[o] = t[tx].spent[o]

\* store writes the slab of one transaction, and no other.
LEMMA StoredSlabIs ==
    ASSUME IsTable(slab), NEW tx \in Txs, NEW h \in Nat, NEW at \in Nat,
           NEW pooled \in BOOLEAN, NEW t, t = StoredSlab(tx, h, at, pooled)
    PROVE  IsTable(t) /\ Stores(slab, t, tx, h, at)
<1> DEFINE new == [height |-> h, position |-> at,
                   spent |-> [i \in Outputs(tx) |-> NotSpent]]
<1>1. CASE at \notin {Unconfirmed, 0} /\ pooled /\ tx \in DOMAIN slab
  <2>1. t = [slab EXCEPT ![tx].height = h, ![tx].position = at]
    BY <1>1 DEF StoredSlab, Confirmed
  <2>2. slab[tx] \in [height : Nat, position : Nat, spent : [Outputs(tx) -> Nat]]
    BY <1>1 DEF IsTable
  <2>3. DOMAIN t = DOMAIN slab /\ DOMAIN slab = DOMAIN slab \cup {tx}
    <3>1. DOMAIN t = DOMAIN slab
      BY <2>1
    <3>2. tx \in DOMAIN slab
      BY <1>1
    <3>3. DOMAIN slab = DOMAIN slab \cup {tx}
      BY <3>2
    <3>. QED
      BY <3>1, <3>3, Zenon
  <2>4. t[tx] = [[slab[tx] EXCEPT !.height = h] EXCEPT !.position = at]
    BY <1>1, <2>1
  <2>5. /\ t[tx] \in [height : Nat, position : Nat, spent : [Outputs(tx) -> Nat]]
        /\ t[tx].height = h /\ t[tx].position = at /\ t[tx].spent = slab[tx].spent
    BY <2>2, <2>4
  <2>6. \A u \in DOMAIN slab : u # tx => t[u] = slab[u]
    BY <2>1
  <2>7. IsTable(t)
    BY <2>3, <2>5, <2>6 DEF IsTable
  <2>. QED
    BY <1>1, <2>3, <2>5, <2>6, <2>7, Zenon DEF Stores
<1>2. CASE ~(at \notin {Unconfirmed, 0} /\ pooled /\ tx \in DOMAIN slab)
  <2>1. t = WithSlab(slab, tx, new)
    BY <1>2, Zenon DEF StoredSlab
  <2>2. DOMAIN t = DOMAIN slab \cup {tx} /\ t[tx] = new
        /\ \A u \in DOMAIN slab : u # tx => t[u] = slab[u]
    <3>. HIDE DEF new
    <3>. QED
      BY <2>1 DEF WithSlab
  <2>3. new \in [height : Nat, position : Nat, spent : [Outputs(tx) -> Nat]]
    BY DEF NotSpent
  <2>4. /\ new.height = h /\ new.position = at
        /\ \A o \in Outputs(tx) : new.spent[o] = NotSpent
    OBVIOUS
  <2>. HIDE DEF new
  <2>5. IsTable(t)
    BY <2>2, <2>3 DEF IsTable
  <2>. QED
    <3>1. DOMAIN t = DOMAIN slab \cup {tx} /\ \A u \in DOMAIN slab : u # tx => t[u] = slab[u]
      BY <2>2
    <3>2. /\ t[tx].height = h /\ t[tx].position = at
          /\ \A o \in Outputs(tx) : t[tx].spent[o] = NotSpent
      BY <2>2, <2>4, Zenon
    <3>. QED
      BY <2>5, <3>1, <3>2, Zenon DEF Stores
<1>. QED
  BY <1>1, <1>2

\* spend marks the points given, and nothing else, at the height of the block.
LEMMA SpendAllIs ==
    ASSUME NEW s, IsTable(s), NEW points, NEW h \in Nat
    PROVE  LET t == SpendAll(s, points, h)
           IN  /\ IsTable(t) /\ DOMAIN t = DOMAIN s
               /\ \A tx \in DOMAIN s :
                    /\ t[tx].height = s[tx].height /\ t[tx].position = s[tx].position
                    /\ \A o \in Outputs(tx) : t[tx].spent[o] =
                         IF [tx |-> tx, index |-> o] \in points THEN h
                         ELSE s[tx].spent[o]
<1> DEFINE t == SpendAll(s, points, h)
<1>1. DOMAIN t = DOMAIN s
  BY DEF SpendAll
<1>2. ASSUME NEW tx \in DOMAIN s
      PROVE  /\ t[tx] \in [height : Nat, position : Nat, spent : [Outputs(tx) -> Nat]]
             /\ t[tx].height = s[tx].height /\ t[tx].position = s[tx].position
             /\ \A o \in Outputs(tx) : t[tx].spent[o] =
                  IF [tx |-> tx, index |-> o] \in points THEN h ELSE s[tx].spent[o]
  <2> DEFINE marks == [o \in DOMAIN s[tx].spent |->
                          IF [tx |-> tx, index |-> o] \in points THEN h
                          ELSE s[tx].spent[o]]
  <2>1. s[tx] \in [height : Nat, position : Nat, spent : [Outputs(tx) -> Nat]]
    BY DEF IsTable
  <2>2. t[tx] = [s[tx] EXCEPT !.spent = marks]
    BY DEF SpendAll
  <2>3. DOMAIN s[tx].spent = Outputs(tx) /\ \A o \in Outputs(tx) : s[tx].spent[o] \in Nat
    BY <2>1
  <2>4. marks \in [Outputs(tx) -> Nat]
    BY <2>3
  <2>5. \A o \in Outputs(tx) : marks[o] =
          IF [tx |-> tx, index |-> o] \in points THEN h ELSE s[tx].spent[o]
    BY <2>3
  <2>6. /\ t[tx] \in [height : Nat, position : Nat, spent : [Outputs(tx) -> Nat]]
        /\ t[tx].height = s[tx].height /\ t[tx].position = s[tx].position
        /\ t[tx].spent = marks
    <3>. HIDE DEF marks, t
    <3>. QED
      BY <2>1, <2>2, <2>4
  <2>. HIDE DEF marks, t
  <2>. QED
    BY <2>5, <2>6
<1>. HIDE DEF t
<1>3. IsTable(t)
  BY <1>1, <1>2 DEF IsTable
<1>4. \A tx \in DOMAIN s :
        /\ t[tx].height = s[tx].height /\ t[tx].position = s[tx].position
        /\ \A o \in Outputs(tx) : t[tx].spent[o] =
             IF [tx |-> tx, index |-> o] \in points THEN h ELSE s[tx].spent[o]
  BY <1>2, Zenon
<1>. QED
  BY <1>1, <1>3, <1>4 DEF t

\* unconfirm takes one transaction back to the pool, its marks as they are.
LEMMA UnconfirmIs ==
    ASSUME NEW s, IsTable(s), NEW tx \in DOMAIN s, Unverified \in Nat
    PROVE  LET t == Unconfirm(s, tx)
           IN  /\ IsTable(t) /\ DOMAIN t = DOMAIN s
               /\ t[tx].position = Unconfirmed
               /\ t[tx].spent = s[tx].spent
               /\ \A u \in DOMAIN s : u # tx => t[u] = s[u]
<1> DEFINE t == Unconfirm(s, tx)
<1>1. t = [s EXCEPT ![tx].height = Unverified, ![tx].position = Unconfirmed]
  BY DEF Unconfirm, Confirmed
<1>2. s[tx] \in [height : Nat, position : Nat, spent : [Outputs(tx) -> Nat]]
  BY DEF IsTable
<1>3. DOMAIN t = DOMAIN s /\ \A u \in DOMAIN s : u # tx => t[u] = s[u]
  BY <1>1
<1>4. t[tx] = [[s[tx] EXCEPT !.height = Unverified] EXCEPT !.position = Unconfirmed]
  BY <1>1
<1>5. /\ t[tx] \in [height : Nat, position : Nat, spent : [Outputs(tx) -> Nat]]
      /\ t[tx].position = Unconfirmed /\ t[tx].spent = s[tx].spent
  <2>. HIDE DEF t
  <2>. QED
    BY <1>2, <1>4 DEF Unconfirmed
<1>. HIDE DEF t
<1>6. IsTable(t)
  BY <1>3, <1>5 DEF IsTable
<1>. QED
  BY <1>3, <1>5, <1>6 DEF t

-----------------------------------------------------------------------------
\* What the writes make of what the slabs say of a chain.

\* A transaction stored at a position is confirmed.
LEMMA StoreConfirms ==
    ASSUME NEW s, NEW t, NEW tx, NEW h, NEW at, Stores(s, t, tx, h, at), at # Unconfirmed
    PROVE  ConfirmedIn(t) = ConfirmedIn(s) \cup {tx}
<1>1. tx \in ConfirmedIn(t)
  BY DEF ConfirmedIn, Stores
<1>2. \A u : u # tx => (u \in ConfirmedIn(t) <=> u \in ConfirmedIn(s))
  <2>1. DOMAIN t = DOMAIN s \cup {tx} /\ \A u \in DOMAIN s : u # tx => t[u] = s[u]
    BY DEF Stores
  <2>. QED
    BY <2>1, Zenon DEF ConfirmedIn
<1>. QED
  BY <1>1, <1>2

\* The store of a transaction of a chain, at its place, leaves all at their places.
LEMMA StoreKeepsPlaces ==
    ASSUME ValidBlocks, NEW c, IsChain(c), NEW least, NEW most, NEW s, NEW t,
           NEW tx, NEW h \in Nat, NEW at \in Nat, Stores(s, t, tx, h, at),
           Placed(s, c, least, most), Has(c, h + 1, at + 1, tx)
    PROVE  Placed(t, c, least \cup {tx}, most \cup {tx})
<1> DEFINE n == h + 1
           i == at + 1
<1>a. /\ n \in Nat /\ i \in Nat /\ h = n - 1 /\ at = i - 1 /\ Has(c, n, i, tx)
  OBVIOUS
<1>. HIDE DEF n, i
<1>0. /\ DOMAIN t = DOMAIN s \cup {tx} /\ t[tx].height = n - 1 /\ t[tx].position = i - 1
      /\ \A u \in DOMAIN s : u # tx => t[u] = s[u]
      /\ \A o \in Outputs(tx) : t[tx].spent[o] # NotSpent =>
           tx \in DOMAIN s /\ s[tx].spent[o] = t[tx].spent[o]
  BY <1>a DEF Stores
<1>1. /\ n - 1 \in Nat /\ i - 1 \in Nat /\ i - 1 # Unconfirmed /\ n \in Nat /\ i \in Nat
  <2>1. n - 1 \in Nat /\ i - 1 \in Nat /\ i - 1 < MaxWord
    BY <1>a, PlaceIsLow
  <2>2. n \in Nat /\ i \in Nat
    BY <1>a
  <2>. QED
    BY <2>1, <2>2 DEF Unconfirmed
<1>2. ConfirmedIn(t) = ConfirmedIn(s) \cup {tx}
  BY <1>a, <1>1, StoreConfirms
<1>3. \A u \in ConfirmedIn(t) : PlacedAt(t, c, u)
  <2>1. PlacedAt(t, c, tx)
    BY <1>a, <1>0, <1>1, Zenon DEF PlacedAt
  <2>2. ASSUME NEW u \in ConfirmedIn(s), u # tx PROVE PlacedAt(t, c, u)
    <3>1. PlacedAt(s, c, u) /\ t[u] = s[u]
      BY <1>0, <2>2, Zenon DEF Placed, ConfirmedIn
    <3>. QED
      BY <3>1, Zenon DEF PlacedAt
  <2>. QED
    BY <1>2, <2>1, <2>2
<1>4. Placed(t, c, least \cup {tx}, most \cup {tx})
  <2>1. least \subseteq ConfirmedIn(s) /\ ConfirmedIn(s) \subseteq most
    BY DEF Placed
  <2>2. least \cup {tx} \subseteq ConfirmedIn(t) /\ ConfirmedIn(t) \subseteq most \cup {tx}
    BY <1>2, <2>1
  <2>. QED
    BY <1>3, <2>2, Zenon DEF Placed
<1>. QED
  BY <1>4

\* The store of a transaction leaves the marks of the others.
LEMMA StoreKeepsMarks ==
    ASSUME NEW c, NEW least, NEW spenders, NEW s, NEW t, NEW h, NEW at,
           NEW tx, tx \notin least, Stores(s, t, tx, h, at),
           Marked(s, c, spenders), Backed(spenders, least)
    PROVE  Marked(t, c, spenders)
<1>0. /\ DOMAIN t = DOMAIN s \cup {tx}
      /\ \A u \in DOMAIN s : u # tx => t[u] = s[u]
      /\ \A o \in Outputs(tx) : t[tx].spent[o] # NotSpent =>
           tx \in DOMAIN s /\ s[tx].spent[o] = t[tx].spent[o]
  BY DEF Stores
<1>1. ASSUME NEW u \in DOMAIN t, NEW o \in Outputs(u), t[u].spent[o] # NotSpent
      PROVE  \E v \in spenders : MarkedBy(c, t[u].spent[o], [tx |-> u, index |-> o], v)
  <2>1. u \in DOMAIN s /\ s[u].spent[o] = t[u].spent[o]
    <3>1. CASE u = tx
      BY <1>0, <1>1, <3>1, Zenon
    <3>2. CASE u # tx
      BY <1>0, <1>1, <3>2
    <3>. QED
      BY <3>1, <3>2
  <2>. QED
    BY <1>1, <2>1, Zenon DEF Marked
<1>2. ASSUME NEW u \in spenders, NEW p \in PointsOf(u) PROVE IsMarked(t, p)
  <2>0. p.tx \in least
    BY DEF Backed
  <2>1. IsMarked(s, p) /\ p.tx # tx
    BY <2>0, Zenon DEF Marked
  <2>2. p.tx \in DOMAIN t /\ t[p.tx] = s[p.tx]
    BY <1>0, <2>1 DEF IsMarked
  <2>. QED
    BY <2>1, <2>2, Zenon DEF IsMarked
<1>. QED
  BY <1>1, <1>2, Zenon DEF Marked

\* push_heights: when the points of a block can be spent, the transactions of the
\* block are among those whose spends are marked.
LEMMA SpendKeeps ==
    ASSUME ValidBlocks, NEW c, IsChain(c), NEW stored, NEW spenders,
           NEW s, IsTable(s), NEW n \in Nat, n \in DOMAIN c,
           Placed(s, c, stored, stored), Marked(s, c, spenders),
           Ordered(c, spenders), Backed(spenders, stored),
           \A p \in BlockPoints(c[n]) : CanSpend(s, p, n - 1)
    PROVE  LET t == SpendAll(s, BlockPoints(c[n]), n - 1)
               all == spenders \cup TxSet(c[n])
           IN  /\ IsTable(t) /\ DOMAIN t = DOMAIN s /\ ConfirmedIn(t) = ConfirmedIn(s)
               /\ \A u \in DOMAIN s : t[u].position = s[u].position
               /\ Placed(t, c, stored, stored) /\ Marked(t, c, all)
               /\ Ordered(c, all) /\ Backed(all, stored)
<1> DEFINE points == BlockPoints(c[n])
           t == SpendAll(s, points, n - 1)
           all == spenders \cup TxSet(c[n])
<1>1. c \in Seq(Blocks) /\ c[n] \in Blocks /\ n - 1 \in Nat /\ n - 1 < MaxWord
  <2>1. c \in Seq(Blocks)
    BY DEF IsChain
  <2>2. DOMAIN c = 1 .. Len(c) /\ Len(c) \in Nat /\ \A m \in 1 .. Len(c) : c[m] \in Blocks
    BY <2>1, ElementsOf
  <2>3. Len(c) <= MaxWord
    BY LineIsShort
  <2>. QED
    BY <2>1, <2>2, <2>3
<1>2. /\ IsTable(t) /\ DOMAIN t = DOMAIN s
      /\ \A tx \in DOMAIN s :
           /\ t[tx].height = s[tx].height /\ t[tx].position = s[tx].position
           /\ \A o \in Outputs(tx) : t[tx].spent[o] =
                IF [tx |-> tx, index |-> o] \in points THEN n - 1 ELSE s[tx].spent[o]
  <2>. HIDE DEF points
  <2>. QED
    BY <1>1, SpendAllIs
<1>. HIDE DEF t
<1>3. ConfirmedIn(t) = ConfirmedIn(s)
  BY <1>2, Zenon DEF ConfirmedIn
<1>4. \A u \in ConfirmedIn(s) : PlacedAt(t, c, u)
  <2>1. ASSUME NEW u \in ConfirmedIn(s) PROVE PlacedAt(t, c, u)
    <3>1. PlacedAt(s, c, u) /\ t[u].height = s[u].height /\ t[u].position = s[u].position
      BY <1>2, <2>1, Zenon DEF Placed, ConfirmedIn
    <3>. QED
      BY <3>1, Zenon DEF PlacedAt
  <2>. QED
    BY <2>1
<1>5. Placed(t, c, stored, stored)
  BY <1>3, <1>4, Zenon DEF Placed
<1>6. \A p \in points : \E u \in TxSet(c[n]) : p \in PointsOf(u)
  BY DEF BlockPoints
<1>7. \A u \in TxSet(c[n]) : u \in Txs /\ PointsOf(u) \subseteq points
                             /\ \E i \in Nat : Has(c, n, i, u)
  <2>1. ASSUME NEW u \in TxSet(c[n]) PROVE \E i \in Nat : Has(c, n, i, u)
    <3>1. TxSet(c[n]) = {TxsOf[c[n]][i] : i \in DOMAIN TxsOf[c[n]]}
      BY <1>1, BlockHas
    <3>2. PICK i \in DOMAIN TxsOf[c[n]] : TxsOf[c[n]][i] = u
      BY <3>1
    <3>3. DOMAIN TxsOf[c[n]] = 1 .. Len(TxsOf[c[n]])
      BY <1>1, BlockHas
    <3>4. i \in Nat
      BY <3>2, <3>3
    <3>5. Has(c, n, i, u)
      BY <3>2 DEF Has
    <3>. QED
      BY <3>4, <3>5
  <2>2. TxSet(c[n]) \subseteq Txs
    BY <1>1, BlockHas
  <2>. QED
    BY <2>1, <2>2 DEF BlockPoints
<1>8. ASSUME NEW p \in points
      PROVE  /\ p.tx \in ConfirmedIn(s) /\ p.tx \in DOMAIN s /\ p.index \in Outputs(p.tx)
             /\ s[p.tx].height <= n - 1 /\ p = [tx |-> p.tx, index |-> p.index]
  <2>1. Found(s, p.tx, n - 1, TRUE) /\ p.index \in DOMAIN s[p.tx].spent
    BY Zenon DEF CanSpend
  <2>2. p.tx \in DOMAIN s /\ s[p.tx].height <= n - 1 /\ s[p.tx].position # Unconfirmed
    BY <2>1 DEF Found
  <2>3. DOMAIN s[p.tx].spent = Outputs(p.tx)
    BY <2>2 DEF IsTable
  <2>4. PICK u \in TxSet(c[n]) : p \in PointsOf(u)
    BY <1>6
  <2>5. p = [tx |-> p.tx, index |-> p.index]
    BY <1>7, <2>4, PointIs
  <2>. QED
    BY <2>1, <2>2, <2>3, <2>5 DEF ConfirmedIn
<1>9. ASSUME NEW u \in DOMAIN t, NEW o \in Outputs(u), t[u].spent[o] # NotSpent
      PROVE  \E v \in all : MarkedBy(c, t[u].spent[o], [tx |-> u, index |-> o], v)
  <2>1. CASE [tx |-> u, index |-> o] \in points
    <3>1. t[u].spent[o] = n - 1
      BY <1>2, <2>1
    <3>2. PICK v \in TxSet(c[n]) : [tx |-> u, index |-> o] \in PointsOf(v)
      BY <1>6, <2>1, Zenon
    <3>3. MarkedBy(c, n - 1, [tx |-> u, index |-> o], v)
      BY <1>7, <3>2, Zenon DEF MarkedBy
    <3>. QED
      BY <3>1, <3>2, <3>3
  <2>2. CASE [tx |-> u, index |-> o] \notin points
    <3>1. u \in DOMAIN s /\ t[u].spent[o] = s[u].spent[o]
      BY <1>2, <2>2
    <3>2. PICK v \in spenders : MarkedBy(c, s[u].spent[o], [tx |-> u, index |-> o], v)
      BY <1>9, <3>1, Zenon DEF Marked
    <3>. QED
      BY <3>1, <3>2
  <2>. QED
    BY <2>1, <2>2
<1>10. ASSUME NEW u \in all, NEW p \in PointsOf(u) PROVE IsMarked(t, p)
  <2>1. CASE p \in points
    <3>1. t[p.tx].spent[p.index] = n - 1
      BY <1>2, <1>8, <2>1
    <3>2. n - 1 # NotSpent
      BY <1>1 DEF NotSpent
    <3>. QED
      BY <1>2, <1>8, <2>1, <3>1, <3>2 DEF IsMarked
  <2>2. CASE p \notin points
    <3>1. u \in spenders
      BY <1>7, <2>2
    <3>2. IsMarked(s, p)
      BY <3>1, Zenon DEF Marked
    <3>3. ComesAfter(c, u, p.tx)
      BY <3>1, Zenon DEF Ordered
    <3>4. u \in Txs
      BY <1>1, <3>3, HasIs DEF ComesAfter
    <3>5. p = [tx |-> p.tx, index |-> p.index]
      BY <3>4, PointIs
    <3>6. t[p.tx].spent[p.index] = s[p.tx].spent[p.index]
      BY <1>2, <2>2, <3>2, <3>5 DEF IsMarked
    <3>. QED
      BY <1>2, <3>2, <3>6 DEF IsMarked
  <2>. QED
    BY <2>1, <2>2
<1>11. Marked(t, c, all)
  BY <1>9, <1>10, Zenon DEF Marked
<1>12. ASSUME NEW u \in TxSet(c[n]), NEW p \in PointsOf(u)
       PROVE  ComesAfter(c, u, p.tx) /\ p.tx \in stored
  <2>1. p \in points
    BY <1>7
  <2>2. p.tx \in ConfirmedIn(s) /\ s[p.tx].height <= n - 1
    BY <1>8, <2>1
  <2>3. PICK m, j \in Nat : Has(c, m, j, p.tx) /\ s[p.tx].height = m - 1
    BY <2>2, Zenon DEF Placed, PlacedAt
  <2>4. m <= n
    BY <2>2, <2>3
  <2>5. PICK i \in Nat : Has(c, n, i, u)
    BY <1>7
  <2>6. p.tx \in stored
    BY <2>2 DEF Placed
  <2>. QED
    BY <2>3, <2>4, <2>5, <2>6 DEF ComesAfter
<1>13. Ordered(c, all)
  BY <1>12, Zenon DEF Ordered
<1>14. Backed(all, stored)
  BY <1>12, Zenon DEF Backed
<1>. QED
  BY <1>2, <1>3, <1>5, <1>11, <1>13, <1>14, Zenon DEF t

\* pop unconfirms a transaction and takes back its marks.
LEMMA UnspendKeeps ==
    ASSUME ValidBlocks, NEW c, IsChain(c), NEW stored, NEW spenders,
           NEW s, IsTable(s), NEW tx \in stored, NEW n, NEW i, Has(c, n, i, tx),
           Placed(s, c, stored, stored), Marked(s, c, spenders), Ordered(c, spenders),
           Unverified \in Nat
    PROVE  LET t == UnspendAll(Unconfirm(s, tx), PointsOf(tx))
           IN  /\ IsTable(t) /\ DOMAIN t = DOMAIN s
               /\ ConfirmedIn(t) = ConfirmedIn(s) \ {tx} /\ tx \in ConfirmedIn(s)
               /\ Placed(t, c, stored \ {tx}, stored \ {tx})
               /\ Marked(t, c, spenders \ {tx}) /\ Ordered(c, spenders \ {tx})
<1> DEFINE d == Unconfirm(s, tx)
           t == UnspendAll(d, PointsOf(tx))
<1>1. tx \in ConfirmedIn(s) /\ tx \in DOMAIN s
  BY DEF Placed, ConfirmedIn
<1>2. /\ IsTable(d) /\ DOMAIN d = DOMAIN s
      /\ d[tx].position = Unconfirmed /\ d[tx].spent = s[tx].spent
      /\ \A u \in DOMAIN s : u # tx => d[u] = s[u]
  BY <1>1, UnconfirmIs
<1>3. /\ IsTable(t) /\ DOMAIN t = DOMAIN s
      /\ \A u \in DOMAIN s :
           /\ t[u].height = d[u].height /\ t[u].position = d[u].position
           /\ \A o \in Outputs(u) : t[u].spent[o] =
                IF [tx |-> u, index |-> o] \in PointsOf(tx) THEN NotSpent
                ELSE d[u].spent[o]
  <2>1. t = SpendAll(d, PointsOf(tx), NotSpent) /\ NotSpent \in Nat
    BY DEF UnspendAll, NotSpent
  <2>. HIDE DEF t, d
  <2>. QED
    BY <1>2, <2>1, SpendAllIs
<1>. HIDE DEF t, d
<1>4. \A u \in DOMAIN s : u # tx => t[u].height = s[u].height /\ t[u].position = s[u].position
  BY <1>2, <1>3, Zenon
<1>5. \A u \in DOMAIN s : \A o \in Outputs(u) : t[u].spent[o] =
         IF [tx |-> u, index |-> o] \in PointsOf(tx) THEN NotSpent ELSE s[u].spent[o]
  <2>1. \A u \in DOMAIN s : d[u].spent = s[u].spent
    BY <1>2, Zenon
  <2>2. ASSUME NEW u \in DOMAIN s, NEW o \in Outputs(u)
        PROVE  t[u].spent[o] = IF [tx |-> u, index |-> o] \in PointsOf(tx) THEN NotSpent
                               ELSE d[u].spent[o]
    BY <1>3, Zenon
  <2>3. ASSUME NEW u \in DOMAIN s, NEW o \in Outputs(u)
        PROVE  t[u].spent[o] = IF [tx |-> u, index |-> o] \in PointsOf(tx) THEN NotSpent
                               ELSE s[u].spent[o]
    <3>1. d[u].spent[o] = s[u].spent[o]
      BY <2>1
    <3>. QED
      BY <2>2, <3>1
  <2>. QED
    BY <2>3, Zenon
<1>6. ConfirmedIn(t) = ConfirmedIn(s) \ {tx}
  <2>1. tx \notin ConfirmedIn(t)
    BY <1>2, <1>3 DEF ConfirmedIn
  <2>2. \A u : u # tx => (u \in ConfirmedIn(t) <=> u \in ConfirmedIn(s))
    BY <1>3, <1>4, Zenon DEF ConfirmedIn
  <2>. QED
    BY <2>1, <2>2
<1>7. Placed(t, c, stored \ {tx}, stored \ {tx})
  <2>1. ASSUME NEW u \in ConfirmedIn(s), u # tx PROVE PlacedAt(t, c, u)
    <3>1. PlacedAt(s, c, u) /\ t[u].height = s[u].height /\ t[u].position = s[u].position
      BY <1>4, <2>1, Zenon DEF Placed, ConfirmedIn
    <3>. QED
      BY <3>1, Zenon DEF PlacedAt
  <2>2. stored = ConfirmedIn(s)
    BY DEF Placed
  <2>3. stored \ {tx} = ConfirmedIn(t)
    BY <1>6, <2>2
  <2>4. \A u \in ConfirmedIn(t) : PlacedAt(t, c, u)
    BY <1>6, <2>1
  <2>. QED
    BY <2>3, <2>4 DEF Placed
<1>8. ASSUME NEW u \in DOMAIN t, NEW o \in Outputs(u), t[u].spent[o] # NotSpent
      PROVE  \E v \in spenders \ {tx} :
                MarkedBy(c, t[u].spent[o], [tx |-> u, index |-> o], v)
  <2>1. u \in DOMAIN s /\ [tx |-> u, index |-> o] \notin PointsOf(tx)
        /\ t[u].spent[o] = s[u].spent[o]
    BY <1>3, <1>5, <1>8
  <2>2. PICK v \in spenders : MarkedBy(c, s[u].spent[o], [tx |-> u, index |-> o], v)
    BY <1>8, <2>1, Zenon DEF Marked
  <2>3. v # tx
    BY <2>1, <2>2 DEF MarkedBy
  <2>. QED
    BY <2>1, <2>2, <2>3
<1>9. ASSUME NEW u \in spenders \ {tx}, NEW p \in PointsOf(u) PROVE IsMarked(t, p)
  <2>1. IsMarked(s, p) /\ ComesAfter(c, u, p.tx)
    BY Zenon DEF Marked, Ordered
  <2>2. PICK m, j \in Nat : Has(c, m, j, u)
    BY <2>1 DEF ComesAfter
  <2>3. p \notin PointsOf(tx)
    BY <2>2, OneSpender
  <2>4. u \in Txs
    BY <2>2, HasIs DEF IsChain
  <2>5. p = [tx |-> p.tx, index |-> p.index]
    BY <2>4, PointIs
  <2>6. t[p.tx].spent[p.index] = s[p.tx].spent[p.index]
    BY <1>5, <2>1, <2>3, <2>5 DEF IsMarked
  <2>. QED
    BY <1>3, <2>1, <2>6 DEF IsMarked
<1>10. Marked(t, c, spenders \ {tx})
  BY <1>8, <1>9, Zenon DEF Marked
<1>11. Ordered(c, spenders \ {tx})
  BY DEF Ordered
<1>. QED
  BY <1>1, <1>3, <1>6, <1>7, <1>10, <1>11, Zenon DEF t, d

\* The blocks of a chain that goes on.
LEMMA MoreBlocks ==
    ASSUME NEW c \in Seq(Blocks), NEW d \in Seq(Blocks)
    PROVE  /\ DOMAIN c = 1 .. Len(c) /\ Len(c) \in Nat
           /\ DOMAIN d = 1 .. Len(d) /\ Len(d) \in Nat
           /\ c \o d \in Seq(Blocks) /\ Len(c \o d) = Len(c) + Len(d)
           /\ DOMAIN (c \o d) = 1 .. Len(c) + Len(d)
           /\ \A m \in DOMAIN c : m \in DOMAIN (c \o d) /\ (c \o d)[m] = c[m]
           /\ \A m \in DOMAIN d :
                Len(c) + m \in DOMAIN (c \o d) /\ (c \o d)[Len(c) + m] = d[m]
           /\ \A m \in DOMAIN (c \o d) : m \notin DOMAIN c =>
                m - Len(c) \in DOMAIN d /\ (c \o d)[m] = d[m - Len(c)]
<1>1. /\ DOMAIN c = 1 .. Len(c) /\ Len(c) \in Nat
      /\ DOMAIN d = 1 .. Len(d) /\ Len(d) \in Nat
  BY ElementsOf
<1>2. /\ c \o d \in Seq(Blocks) /\ Len(c \o d) = Len(c) + Len(d)
      /\ \A i \in 1 .. Len(c) + Len(d) :
           (c \o d)[i] = IF i <= Len(c) THEN c[i] ELSE d[i - Len(c)]
  BY ConcatProperties
<1>3. DOMAIN (c \o d) = 1 .. Len(c) + Len(d)
  BY <1>2, ElementsOf
<1>4. \A m \in 1 .. Len(c) : m \in 1 .. Len(c) + Len(d) /\ (c \o d)[m] = c[m]
  BY <1>1, <1>2
<1>5. \A m \in 1 .. Len(d) :
         Len(c) + m \in 1 .. Len(c) + Len(d) /\ (c \o d)[Len(c) + m] = d[m]
  <2>1. ASSUME NEW m \in 1 .. Len(d)
        PROVE  /\ Len(c) + m \in 1 .. Len(c) + Len(d) /\ ~(Len(c) + m <= Len(c))
               /\ Len(c) + m - Len(c) = m
    BY <1>1
  <2>. QED
    BY <1>2, <2>1
<1>6. \A m \in 1 .. Len(c) + Len(d) : m \notin 1 .. Len(c) =>
         m - Len(c) \in 1 .. Len(d) /\ (c \o d)[m] = d[m - Len(c)]
  <2>1. ASSUME NEW m \in 1 .. Len(c) + Len(d), m \notin 1 .. Len(c)
        PROVE  m - Len(c) \in 1 .. Len(d) /\ ~(m <= Len(c))
    BY <1>1, <2>1
  <2>. QED
    BY <1>2, <2>1
<1>. QED
  BY <1>1, <1>2, <1>3, <1>4, <1>5, <1>6

\* A longer chain has what a shorter one has.
LEMMA MoreHas ==
    ASSUME NEW c \in Seq(Blocks), NEW d \in Seq(Blocks), NEW n, NEW i, NEW tx
    PROVE  /\ Has(c, n, i, tx) => Has(c \o d, n, i, tx)
           /\ Has(d, n, i, tx) => Has(c \o d, Len(c) + n, i, tx)
           /\ n \in DOMAIN c /\ Has(c \o d, n, i, tx) => Has(c, n, i, tx)
           /\ n \notin DOMAIN c /\ Has(c \o d, n, i, tx) => Has(d, n - Len(c), i, tx)
<1> DEFINE e == c \o d
<1>1. \A m \in DOMAIN c : m \in DOMAIN e /\ e[m] = c[m]
  BY MoreBlocks
<1>2. \A m \in DOMAIN d : Len(c) + m \in DOMAIN e /\ e[Len(c) + m] = d[m]
  BY MoreBlocks
<1>3. \A m \in DOMAIN e : m \notin DOMAIN c =>
         m - Len(c) \in DOMAIN d /\ e[m] = d[m - Len(c)]
  BY MoreBlocks
<1>. HIDE DEF e
<1>4. /\ Has(c, n, i, tx) => Has(e, n, i, tx)
      /\ Has(d, n, i, tx) => Has(e, Len(c) + n, i, tx)
      /\ n \in DOMAIN c /\ Has(e, n, i, tx) => Has(c, n, i, tx)
      /\ n \notin DOMAIN c /\ Has(e, n, i, tx) => Has(d, n - Len(c), i, tx)
  BY <1>1, <1>2, <1>3, Zenon DEF Has
<1>. QED
  BY <1>4 DEF e

\* What slabs say of a chain they say of a longer one.
LEMMA MoreKeeps ==
    ASSUME NEW c \in Seq(Blocks), NEW d \in Seq(Blocks),
           NEW s, NEW least, NEW most, NEW spenders,
           Placed(s, c, least, most), Marked(s, c, spenders), Ordered(c, spenders)
    PROVE  /\ Placed(s, c \o d, least, most) /\ Marked(s, c \o d, spenders)
           /\ Ordered(c \o d, spenders)
<1> DEFINE e == c \o d
<1>1. \A n, i, tx : Has(c, n, i, tx) => Has(e, n, i, tx)
  BY MoreHas
<1>. HIDE DEF e
<1>2. \A tx \in ConfirmedIn(s) : PlacedAt(s, e, tx)
  BY <1>1, Zenon DEF Placed, PlacedAt
<1>3. Placed(s, e, least, most)
  BY <1>2, Zenon DEF Placed
<1>4. \A h, p, u : MarkedBy(c, h, p, u) => MarkedBy(e, h, p, u)
  BY <1>1, Zenon DEF MarkedBy
<1>5. Marked(s, e, spenders)
  BY <1>4, Zenon DEF Marked
<1>6. \A u, tx : ComesAfter(c, u, tx) => ComesAfter(e, u, tx)
  BY <1>1, Zenon DEF ComesAfter
<1>7. Ordered(e, spenders)
  BY <1>6, Zenon DEF Ordered
<1>. QED
  BY <1>3, <1>5, <1>7 DEF e

\* The transactions of a chain that goes on.
LEMMA MoreTxs ==
    ASSUME NEW c \in Seq(Blocks), NEW d \in Seq(Blocks)
    PROVE  ChainTxs(c \o d) = ChainTxs(c) \cup ChainTxs(d)
<1> DEFINE e == c \o d
<1>1. /\ e \in Seq(Blocks) /\ Len(c) \in Nat
      /\ \A n \in DOMAIN e : n \notin DOMAIN c => n - Len(c) \in Nat
  <2>1. /\ e \in Seq(Blocks) /\ Len(c) \in Nat /\ DOMAIN d = 1 .. Len(d)
        /\ \A n \in DOMAIN e : n \notin DOMAIN c => n - Len(c) \in DOMAIN d
    BY MoreBlocks
  <2>. QED
    BY <2>1
<1>2. ASSUME NEW tx \in ChainTxs(c) PROVE tx \in ChainTxs(e)
  <2>1. PICK n, i \in Nat : Has(c, n, i, tx)
    BY ChainHas
  <2>2. Has(e, n, i, tx)
    BY <2>1, MoreHas
  <2>. HIDE DEF e
  <2>. QED
    BY <1>1, <2>2, ChainHas
<1>3. ASSUME NEW tx \in ChainTxs(d) PROVE tx \in ChainTxs(e)
  <2>1. PICK n, i \in Nat : Has(d, n, i, tx)
    BY ChainHas
  <2>2. Has(e, Len(c) + n, i, tx)
    BY <2>1, MoreHas
  <2>3. Len(c) + n \in Nat
    BY <1>1
  <2>. HIDE DEF e
  <2>. QED
    BY <1>1, <2>2, <2>3, ChainHas
<1>4. ASSUME NEW tx \in ChainTxs(e) PROVE tx \in ChainTxs(c) \/ tx \in ChainTxs(d)
  <2>1. PICK n, i \in Nat : Has(e, n, i, tx)
    <3>. HIDE DEF e
    <3>. QED
      BY <1>1, <1>4, ChainHas
  <2>2. CASE n \in DOMAIN c
    <3>1. Has(c, n, i, tx)
      BY <2>1, <2>2, MoreHas
    <3>. QED
      BY <3>1, ChainHas
  <2>3. CASE n \notin DOMAIN c
    <3>1. Has(d, n - Len(c), i, tx) /\ n - Len(c) \in Nat
      BY <1>1, <2>1, <2>3, MoreHas DEF Has
    <3>. QED
      BY <3>1, ChainHas
  <2>. QED
    BY <2>2, <2>3
<1>. QED
  BY <1>2, <1>3, <1>4

\* A chain is cut where all that is not confirmed any more has gone.
LEMMA CutKeeps ==
    ASSUME ValidBlocks, NEW c \in Seq(Blocks), NEW d \in Seq(Blocks), IsChain(c \o d),
           NEW s, Placed(s, c \o d, ChainTxs(c), ChainTxs(c)),
           Marked(s, c \o d, ChainTxs(c)), Ordered(c \o d, ChainTxs(c))
    PROVE  /\ Placed(s, c, ChainTxs(c), ChainTxs(c)) /\ Marked(s, c, ChainTxs(c))
           /\ Ordered(c, ChainTxs(c)) /\ Backed(ChainTxs(c), ChainTxs(c))
<1> DEFINE e == c \o d
           T == ChainTxs(c)
<1>1. ASSUME NEW n, NEW i, NEW tx \in T, Has(e, n, i, tx) PROVE Has(c, n, i, tx)
  <2>1. PICK m, j \in Nat : Has(c, m, j, tx)
    BY ChainHas
  <2>2. Has(e, m, j, tx)
    BY <2>1, MoreHas
  <2>3. n = m /\ i = j
    BY <1>1, <2>2, OnePlace
  <2>. QED
    BY <2>1, <2>3
<1>2. ASSUME NEW n \in Nat, NEW m \in Nat, NEW i, NEW j, NEW u, NEW tx,
             Has(c, n, i, u), Has(e, m, j, tx), m <= n
      PROVE  Has(c, m, j, tx)
  <2>1. m \in DOMAIN c
    <3>1. n \in 1 .. Len(c) /\ m \in 1 .. Len(e) /\ DOMAIN c = 1 .. Len(c) /\ Len(c) \in Nat
      BY <1>2, HasIs, ElementsOf DEF IsChain
    <3>. QED
      BY <1>2, <3>1
  <2>. QED
    BY <1>2, <2>1, MoreHas
<1>3. \A n, i, tx : Has(c, n, i, tx) /\ n \in Nat /\ i \in Nat => tx \in T
  BY ChainHas
<1>. HIDE DEF e, T
<1>4. T = ConfirmedIn(s) /\ \A tx \in T : PlacedAt(s, e, tx)
  BY DEF Placed, e, T
<1>5. \A tx \in ConfirmedIn(s) : PlacedAt(s, c, tx)
  BY <1>1, <1>4, Zenon DEF PlacedAt
<1>6. Placed(s, c, T, T)
  BY <1>4, <1>5 DEF Placed
<1>7. \A h, p : \A u \in T : MarkedBy(e, h, p, u) => MarkedBy(c, h, p, u)
  BY <1>1, Zenon DEF MarkedBy
<1>8. Marked(s, c, T)
  BY <1>7, Zenon DEF Marked, e, T
<1>9. ASSUME NEW u \in T, NEW p \in PointsOf(u)
      PROVE  ComesAfter(c, u, p.tx) /\ p.tx \in T
  <2>1. PICK n, i, m, j \in Nat : Has(e, n, i, u) /\ Has(e, m, j, p.tx) /\ m <= n
    BY <1>9, Zenon DEF Ordered, ComesAfter, e, T
  <2>2. Has(c, n, i, u)
    BY <1>1, <2>1
  <2>3. Has(c, m, j, p.tx)
    BY <1>2, <2>1, <2>2
  <2>. QED
    BY <1>3, <2>1, <2>2, <2>3 DEF ComesAfter
<1>. QED
  BY <1>6, <1>8, <1>9, Zenon DEF Ordered, Backed, T

-----------------------------------------------------------------------------
\* The inductive invariant.

\* The blocks of the index and those on their way into it.
Added == IF phase = "pushing" THEN <<Head(incoming)>>
         ELSE IF phase = "importing" THEN incoming ELSE <<>>
Line == index \o Added

\* The top block is popped from its last transaction down.
Popped == IF phase = "unwinding"
            THEN {TxsOf[Last(index)][i] : i \in {i \in DOMAIN TxsOf[Last(index)] : i > left}}
            ELSE {}
Settled == ChainTxs(index) \ Popped

\* A bucket at q of k buckets has the transaction at p before it.
Ahead(q, k, p) == \E m \in Nat : p = q + m * k
Dealt(i) == \A j \in DOMAIN position : ~Ahead(position[j], Len(position), i - 1)

\* The transactions of the line that are stored, that may be stored (a bucket
\* may have come to a transaction before another one does), and whose spends
\* are marked.
DealtTxs ==
    {tx \in Txs : \E i \in Nat : Has(incoming, 1, i, tx) /\ Dealt(i)}
ImportedTxs ==
    {tx \in Txs : \E n, i \in Nat : Has(incoming, n, i, tx) /\ i <= position[n]}
StoredTxs ==
    Settled \cup IF phase = "pushing" THEN DealtTxs
                 ELSE IF phase = "importing" THEN ImportedTxs ELSE {}
MaybeTxs == IF phase = "pushing" THEN ChainTxs(Line) ELSE StoredTxs
InsertedTxs ==
    {tx \in Txs : \E n \in Nat : n \in DOMAIN incoming /\ Inserted(n) /\ tx \in TxSet(incoming[n])}
MarkedTxs == Settled \cup IF phase = "importing" THEN InsertedTxs ELSE {}

Typed ==
    /\ index \in Seq(Blocks) /\ incoming \in Seq(Blocks) /\ outgoing \in Seq(Blocks)
    /\ \A b \in DOMAIN rows : rows[b] \in Nat
    /\ IsTable(slab)
    /\ pool \in [Txs -> Nat]
    /\ phase \in {"idle", "popping", "unwinding", "linking", "pushing", "importing",
                  "failed", "thrown"}
    /\ height \in Nat /\ fork \in Nat /\ left \in Nat
    /\ position \in [DOMAIN position -> Nat]
    /\ committed \in [chain : Seq(Blocks), mempool : SUBSET Txs]

\* What each phase of a write knows of the index, its input and its output.
FlowInv ==
    /\ Linked(NoBlock, Line)
    /\ phase = "idle" => /\ index = committed.chain /\ outgoing = <<>>
                         /\ committed.mempool = Mempool(pool, index)
    /\ phase \in {"popping", "unwinding"} =>
         index \o outgoing = committed.chain /\ fork <= Top
    /\ phase = "unwinding" => fork < Top /\ left <= Len(TxsOf[Last(index)])
    /\ phase = "pushing" => /\ incoming # <<>> /\ height = Len(index)
                            /\ Len(position) \in Nat \ {0}
                            /\ DOMAIN position = 1 .. Len(position)
    /\ phase = "importing" => /\ index # <<>> /\ height = Len(index)
                              /\ DOMAIN position = 1 .. Len(incoming)
                              /\ index = committed.chain /\ outgoing = <<>>

\* The slabs tell the places of the transactions stored and the heights of
\* the spends marked.  While a block is unwound, a transaction may be popped
\* before one of the same block that spends it.
BookInv ==
    /\ Placed(slab, Line, StoredTxs, MaybeTxs)
    /\ Marked(slab, Line, MarkedTxs)
    /\ Ordered(Line, MarkedTxs)
    /\ phase # "unwinding" => Backed(MarkedTxs, StoredTxs)

\* The pool has what is stored and not confirmed, and rows that races left.
Waits(s, tx) == tx \in DOMAIN s /\ tx \notin ConfirmedIn(s)
RestAt(p, s, stays, tx) ==
    /\ Waits(s, tx) => p[tx] > 0
    /\ p[tx] > 0 => tx \in DOMAIN s
    /\ tx \notin stays => p[tx] = IF Waits(s, tx) THEN 1 ELSE 0
PoolInv == \A tx \in Txs : RestAt(pool, slab, stale, tx)

StealthInv ==
    \A tx \in StoredTxs : \A n, i \in Nat :
        Has(Line, n, i, tx) /\ n - 1 >= IndexStart => StealthRows(tx, n - 1) \subseteq stealth

\* What was in the store before the write is there, and the write adds no
\* transactions but those of its blocks.
StoreInv ==
    /\ committed.mempool \cup ChainTxs(committed.chain) \subseteq DOMAIN slab
    /\ DOMAIN slab \subseteq
         committed.mempool \cup ChainTxs(committed.chain) \cup ChainTxs(Line)

\* A write leaves some of the chain as it was, but for the first block of all.
Shared(n) ==
    /\ n \in 0 .. Len(committed.chain) /\ n <= Len(index)
    /\ SubSeq(index, 1, n) = SubSeq(committed.chain, 1, n)
    /\ n = 0 => committed.chain = <<>> /\ Len(index) + Len(incoming) <= 1
BranchInv == phase \in {"pushing", "linking"} => \E n \in Nat : Shared(n)

Live == phase \notin {"failed", "thrown"}
LiveInv == /\ Typed /\ FlowInv /\ BookInv /\ PoolInv /\ StealthInv
           /\ StoreInv /\ BranchInv
Inv == Live => LiveInv

-----------------------------------------------------------------------------
\* What the steps keep.

\* The blocks of the index and those on their way into it are a chain.
LEMMA LineIs ==
    ASSUME Typed, FlowInv
    PROVE  /\ index \in Seq(Blocks) /\ Added \in Seq(Blocks) /\ Line = index \o Added
           /\ IsChain(Line)
<1>1. index \in Seq(Blocks) /\ incoming \in Seq(Blocks)
  BY DEF Typed
<1>2. Added \in Seq(Blocks)
  <2>1. CASE phase = "pushing"
    <3>1. incoming # <<>>
      BY <2>1 DEF FlowInv
    <3>2. Head(incoming) \in Blocks
      BY <1>1, <3>1
    <3>3. Added = <<Head(incoming)>>
      BY <2>1 DEF Added
    <3>. QED
      BY <3>2, <3>3
  <2>2. CASE phase # "pushing"
    BY <1>1, <2>2 DEF Added
  <2>. QED
    BY <2>1, <2>2
<1>3. Line \in Seq(Blocks)
  BY <1>1, <1>2 DEF Line
<1>. QED
  BY <1>1, <1>2, <1>3 DEF IsChain, FlowInv, Line

\* A transaction stored is at a place of the line.
LEMMA StoredHas ==
    ASSUME BookInv, NEW tx \in StoredTxs
    PROVE  PlacedAt(slab, Line, tx)
BY DEF BookInv, Placed

\* Nothing is written, and the line may go on.
LEMMA KeepStep ==
    ASSUME ValidBlocks, Typed, FlowInv, BookInv, PoolInv, StealthInv,
           slab' = slab, pool' = pool, stale' = stale, stealth' = stealth,
           NEW d \in Seq(Blocks), Line' = Line \o d, IsChain(Line)',
           StoredTxs' = StoredTxs, MaybeTxs \subseteq MaybeTxs', MarkedTxs' = MarkedTxs,
           phase # "unwinding" \/ phase' = "unwinding"
    PROVE  BookInv' /\ PoolInv' /\ StealthInv'
<1>1. PICK c \in Seq(Blocks), e \in Seq(Blocks) : c = Line /\ e = Line'
  BY LineIs DEF IsChain
<1>2. PICK s, stored, more, spenders :
         s = slab /\ stored = StoredTxs /\ more = MaybeTxs' /\ spenders = MarkedTxs
  OBVIOUS
<1>3. Placed(s, c, stored, more) /\ Marked(s, c, spenders) /\ Ordered(c, spenders)
  <2>1. Placed(s, c, stored, MaybeTxs) /\ Marked(s, c, spenders) /\ Ordered(c, spenders)
    BY <1>1, <1>2 DEF BookInv
  <2>. QED
    BY <1>2, <2>1 DEF Placed
<1>4. e = c \o d /\ IsChain(e)
  BY <1>1
<1>5. Placed(s, e, stored, more) /\ Marked(s, e, spenders) /\ Ordered(e, spenders)
  BY <1>3, <1>4, MoreKeeps
<1>6. phase' # "unwinding" => Backed(spenders, stored)
  BY <1>2 DEF BookInv
<1>7. BookInv'
  BY <1>1, <1>2, <1>5, <1>6 DEF BookInv
<1>8. PoolInv'
  BY DEF PoolInv, RestAt
<1>9. ASSUME NEW tx \in StoredTxs', NEW n \in Nat, NEW i \in Nat,
             Has(Line', n, i, tx), n - 1 >= IndexStart
      PROVE  StealthRows(tx, n - 1) \subseteq stealth'
  <2>1. PICK m \in Nat, j \in Nat : Has(c, m, j, tx)
    BY <1>1, <1>9, StoredHas DEF PlacedAt
  <2>2. Has(e, m, j, tx)
    BY <1>4, <2>1, MoreHas
  <2>3. n = m /\ i = j
    BY <1>1, <1>4, <1>9, <2>2, OnePlace
  <2>4. Has(Line, n, i, tx) /\ tx \in StoredTxs
    BY <1>1, <1>9, <2>1, <2>3
  <2>. QED
    BY <1>9, <2>4 DEF StealthInv
<1>10. StealthInv'
  BY <1>9 DEF StealthInv
<1>. QED
  BY <1>7, <1>8, <1>10

\* A transaction of the line is stored.
LEMMA StoreStep ==
    ASSUME ValidBlocks, ChainAssumption, Typed, FlowInv, BookInv, PoolInv, StealthInv, StoreInv,
           phase \in {"pushing", "importing"}, phase' = phase,
           NEW b \in Blocks, NEW h \in Nat, NEW at \in Nat,
           NEW beside, StoreTransaction(b, h, at, beside),
           NEW tx, tx = TxsOf[b][at + 1], Has(Line, h + 1, at + 1, tx),
           tx \notin StoredTxs,
           Line' = Line, committed' = committed, MarkedTxs' = MarkedTxs,
           StoredTxs \subseteq StoredTxs', StoredTxs' \subseteq StoredTxs \cup {tx},
           MaybeTxs \cup {tx} \subseteq MaybeTxs'
    PROVE  /\ IsTable(slab') /\ pool' \in [Txs -> Nat]
           /\ BookInv' /\ PoolInv' /\ StealthInv' /\ StoreInv'
<1>1. PICK c \in Seq(Blocks) : c = Line /\ IsChain(c)
  BY LineIs DEF IsChain
<1>2. PICK s, t, stored, more, spenders :
         /\ s = slab /\ t = slab' /\ stored = StoredTxs /\ more = MaybeTxs
         /\ spenders = MarkedTxs
  OBVIOUS
<1>3. tx \in Txs /\ Unpool(tx, beside)
  BY <1>1, HasIs DEF StoreTransaction
<1>4. IsTable(t) /\ Stores(s, t, tx, h, at)
  <2>1. PICK pooled \in BOOLEAN : Store(tx, h, at, pooled)
    BY DEF StoreTransaction
  <2>2. t = StoredSlab(tx, h, at, pooled)
    BY <1>2, <2>1 DEF Store
  <2>3. IsTable(slab)
    BY DEF Typed
  <2>. QED
    BY <1>2, <1>3, <2>2, <2>3, StoredSlabIs
<1>5. /\ Placed(s, c, stored, more) /\ Marked(s, c, spenders) /\ Ordered(c, spenders)
      /\ Backed(spenders, stored) /\ IsTable(s)
  BY <1>1, <1>2 DEF BookInv, Typed
<1>6. h + 1 \in Nat /\ at + 1 \in Nat /\ h = (h + 1) - 1 /\ at = (at + 1) - 1
  OBVIOUS
<1>7. PICK n \in Nat, i \in Nat : n = h + 1 /\ i = at + 1 /\ h = n - 1 /\ at = i - 1
  BY <1>6
<1>8. /\ Has(c, n, i, tx) /\ tx \notin stored
      /\ h = n - 1 /\ at = i - 1 /\ Stores(s, t, tx, h, at)
  BY <1>1, <1>2, <1>4, <1>7
<1>9. /\ Placed(t, c, stored \cup {tx}, more \cup {tx}) /\ Marked(t, c, spenders)
      /\ ConfirmedIn(t) = ConfirmedIn(s) \cup {tx}
  <2>1. Placed(t, c, stored \cup {tx}, more \cup {tx})
    BY <1>1, <1>2, <1>4, <1>5, StoreKeepsPlaces
  <2>3. at # Unconfirmed
    BY <1>1, <1>7, <1>8, PlaceIsLow DEF Unconfirmed
  <2>4. ConfirmedIn(t) = ConfirmedIn(s) \cup {tx}
    BY <1>4, <2>3, StoreConfirms
  <2>2. Marked(t, c, spenders)
    BY <1>5, <1>8, StoreKeepsMarks
  <2>. QED
    BY <2>1, <2>2, <2>4
<1>10. BookInv'
  <2>1. Placed(slab', Line', StoredTxs', MaybeTxs')
    <3>1. Placed(t, c, StoredTxs', MaybeTxs')
      BY <1>2, <1>9 DEF Placed
    <3>. QED
      BY <1>1, <1>2, <3>1
  <2>2. Marked(slab', Line', MarkedTxs') /\ Ordered(Line', MarkedTxs')
    BY <1>1, <1>2, <1>5, <1>9
  <2>3. Backed(MarkedTxs', StoredTxs')
    BY <1>2, <1>5 DEF Backed
  <2>. QED
    BY <2>1, <2>2, <2>3 DEF BookInv
<1>11. pool \in [Txs -> Nat]
  BY DEF Typed
<1>12. /\ pool' \in [Txs -> Nat] /\ \A u \in Txs : u # tx => pool'[u] = pool[u]
       /\ stale \subseteq stale' /\ stale' \subseteq stale \cup {tx}
       /\ tx \notin stale' => pool'[tx] = IF pool[tx] = 0 THEN 0 ELSE pool[tx] - 1
  <2>1. CASE pool' = [pool EXCEPT ![tx] = IF @ = 0 THEN 0 ELSE @ - 1] /\ stale' = stale
    BY <1>3, <1>11, <2>1
  <2>2. CASE pool' = pool /\ stale' = stale \cup {tx}
    BY <1>11, <2>2
  <2>. QED
    BY <1>3, <2>1, <2>2 DEF Unpool
<1>13. ASSUME NEW u \in Txs
       PROVE  RestAt(pool', t, stale', u)
  <2>1. RestAt(pool, s, stale, u)
    BY <1>2 DEF PoolInv
  <2>2. CASE u = tx
    <3>1. ~Waits(t, tx) /\ tx \in DOMAIN t
      BY <1>4, <1>9 DEF Waits, Stores
    <3>2. tx \notin stale => pool[tx] = 0 \/ pool[tx] = 1
      BY <2>1, <2>2 DEF RestAt
    <3>3. tx \notin stale' => pool'[tx] = 0
      BY <1>12, <3>2
    <3>. QED
      BY <2>2, <3>1, <3>3 DEF RestAt
  <2>3. CASE u # tx
    <3>1. /\ Waits(t, u) <=> Waits(s, u)
          /\ u \in DOMAIN t <=> u \in DOMAIN s
      BY <1>4, <1>9, <2>3 DEF Waits, Stores
    <3>2. pool'[u] = pool[u] /\ (u \in stale' <=> u \in stale)
      BY <1>12, <2>3
    <3>. QED
      BY <2>1, <3>1, <3>2 DEF RestAt
  <2>. QED
    BY <2>2, <2>3
<1>14. PoolInv'
  BY <1>2, <1>13 DEF PoolInv
<1>15. ASSUME NEW u \in StoredTxs', NEW m \in Nat, NEW j \in Nat,
              Has(Line', m, j, u), m - 1 >= IndexStart
       PROVE  StealthRows(u, m - 1) \subseteq stealth'
  <2>1. stealth \subseteq stealth'
    BY DEF StoreTransaction, AddStealth
  <2>2. CASE u \in StoredTxs
    BY <1>15, <2>1, <2>2 DEF StealthInv
  <2>3. CASE u = tx
    <3>1. m = n
      BY <1>1, <1>8, <1>15, <2>3, OnePlace
    <3>2. ~(h < IndexStart)
      BY <1>7, <1>15, <3>1 DEF ChainAssumption
    <3>3. stealth' = stealth \cup StealthRows(tx, h)
      BY <3>2 DEF StoreTransaction, AddStealth
    <3>. QED
      BY <1>7, <2>3, <3>1, <3>3
  <2>. QED
    BY <2>2, <2>3
<1>16. StealthInv'
  BY <1>15 DEF StealthInv
<1>17. StoreInv'
  <2>1. tx \in ChainTxs(Line)
    BY <1>1, <1>7, <1>8, ChainHas
  <2>2. DOMAIN slab' = DOMAIN slab \cup {tx}
    BY <1>2, <1>4 DEF Stores
  <2>. QED
    BY <2>1, <2>2 DEF StoreInv
<1>. QED
  BY <1>2, <1>4, <1>10, <1>12, <1>14, <1>16, <1>17

-----------------------------------------------------------------------------
\* The calls and the steps that write no slab.

\* A chain goes on with blocks that link to its last one.
LEMMA LinkedMore ==
    ASSUME NEW c, IsChain(c), NEW d \in Seq(Blocks),
           Linked(IF c = <<>> THEN NoBlock ELSE Last(c), d)
    PROVE  IsChain(c \o d)
<1> DEFINE e == c \o d
<1>1. c \in Seq(Blocks) /\ Linked(NoBlock, c)
  BY DEF IsChain
<1>2. /\ DOMAIN c = 1 .. Len(c) /\ Len(c) \in Nat
      /\ DOMAIN d = 1 .. Len(d) /\ Len(d) \in Nat
      /\ e \in Seq(Blocks) /\ DOMAIN e = 1 .. Len(c) + Len(d)
  BY <1>1, MoreBlocks
<1>3. /\ \A m \in DOMAIN c : e[m] = c[m]
      /\ \A m \in DOMAIN e : m \notin DOMAIN c => m - Len(c) \in DOMAIN d /\ e[m] = d[m - Len(c)]
  BY <1>1, MoreBlocks
<1>. HIDE DEF e
<1>4. ASSUME NEW i \in DOMAIN e PROVE Parent[e[i]] = IF i = 1 THEN NoBlock ELSE e[i - 1]
  <2>1. CASE i \in DOMAIN c
    <3>1. Parent[c[i]] = IF i = 1 THEN NoBlock ELSE c[i - 1]
      BY <1>1, <2>1 DEF Linked
    <3>2. e[i] = c[i] /\ (i # 1 => e[i - 1] = c[i - 1])
      BY <1>2, <1>3, <2>1
    <3>. QED
      BY <3>1, <3>2
  <2>2. CASE i \notin DOMAIN c
    <3>1. i - Len(c) \in DOMAIN d /\ e[i] = d[i - Len(c)]
      BY <1>3, <2>2
    <3>2. Parent[d[i - Len(c)]] = IF i - Len(c) = 1 THEN IF c = <<>> THEN NoBlock ELSE Last(c)
                                  ELSE d[i - Len(c) - 1]
      BY <3>1, Zenon DEF Linked
    <3>3. CASE i - Len(c) = 1 /\ c = <<>>
      <4>1. Len(c) = 0
        BY <3>3
      <4>. QED
        BY <1>2, <3>1, <3>2, <3>3, <4>1
    <3>4. CASE i - Len(c) = 1 /\ c # <<>>
      <4>1. Len(c) # 0 /\ Last(c) = c[Len(c)]
        BY <1>1, <3>4 DEF Last
      <4>2. Len(c) \in DOMAIN c /\ i - 1 = Len(c) /\ i # 1
        BY <1>2, <3>4, <4>1
      <4>3. e[i - 1] = Last(c)
        BY <1>3, <4>1, <4>2
      <4>. QED
        BY <3>1, <3>2, <3>4, <4>2, <4>3
    <3>5. CASE i - Len(c) # 1
      <4>1. i - 1 \in DOMAIN e /\ i - 1 \notin DOMAIN c /\ i # 1
            /\ i - 1 - Len(c) = i - Len(c) - 1
        BY <1>2, <3>1, <3>5
      <4>2. e[i - 1] = d[i - Len(c) - 1]
        BY <1>3, <4>1
      <4>. QED
        BY <3>1, <3>2, <3>5, <4>1, <4>2
    <3>. QED
      BY <3>3, <3>4, <3>5
  <2>. QED
    BY <2>1, <2>2
<1>5. IsChain(e)
  BY <1>2, <1>4 DEF IsChain, Linked
<1>. QED
  BY <1>5 DEF e

\* The pool and the slabs between them.
LEMMA RestIs ==
    ASSUME Typed, BookInv, PoolInv, Line \in Seq(Blocks)
    PROVE  /\ \A c : ChainTxs(c) = ConfirmedIn(slab) =>
                Mempool(pool, c) = DOMAIN slab \ ConfirmedIn(slab)
           /\ ConfirmedIn(slab) \subseteq ChainTxs(Line)
           /\ StoredTxs \subseteq ConfirmedIn(slab) /\ ConfirmedIn(slab) \subseteq MaybeTxs
           /\ ConfirmedIn(slab) \subseteq DOMAIN slab
<1>1. DOMAIN slab \subseteq Txs /\ pool \in [Txs -> Nat]
  BY DEF Typed, IsTable
<1>2. ASSUME NEW c, ChainTxs(c) = ConfirmedIn(slab)
      PROVE  Mempool(pool, c) = DOMAIN slab \ ConfirmedIn(slab)
  <2>1. \A tx \in Txs : /\ Waits(slab, tx) => pool[tx] > 0
                        /\ pool[tx] > 0 => tx \in DOMAIN slab
    BY DEF PoolInv, RestAt
  <2>2. \A tx \in Txs : tx \in Pooled(pool) <=> pool[tx] > 0
    BY DEF Pooled
  <2>3. Pooled(pool) \subseteq Txs
    BY DEF Pooled
  <2>. QED
    BY <1>1, <1>2, <2>1, <2>2, <2>3 DEF Mempool, Waits
<1>3. StoredTxs \subseteq ConfirmedIn(slab) /\ ConfirmedIn(slab) \subseteq MaybeTxs
  BY DEF BookInv, Placed
<1>4. ASSUME NEW tx \in ConfirmedIn(slab) PROVE tx \in ChainTxs(Line)
  <2>1. PICK n, i \in Nat : Has(Line, n, i, tx)
    BY Zenon DEF BookInv, Placed, PlacedAt
  <2>. QED
    BY <2>1, ChainHas
<1>. QED
  BY <1>2, <1>3, <1>4 DEF ConfirmedIn

\* Every transaction of a block is ahead of some bucket when they start.
LEMMA AheadSome ==
    ASSUME NEW k \in Nat \ {0}, NEW p \in Nat
    PROVE  \E q \in 0 .. k - 1 : Ahead(q, k, p)
<1> DEFINE q == p % k
           m == p \div k
<1>1. q \in 0 .. k - 1 /\ m \in Nat /\ p = q + m * k
  OBVIOUS
<1>. HIDE DEF q, m
<1>. QED
  BY <1>1 DEF Ahead

\* Between writes, and before pushes and after pops, the line is the index.
LEMMA PlainIs ==
    ASSUME index \in Seq(Blocks), phase \in {"idle", "popping", "linking"}
    PROVE  /\ Line = index /\ StoredTxs = ChainTxs(index) /\ MaybeTxs = ChainTxs(index)
           /\ MarkedTxs = ChainTxs(index)
<1>1. Added = <<>> /\ Popped = {}
  BY DEF Added, Popped
<1>2. Line = index
  BY <1>1 DEF Line
<1>3. Settled = ChainTxs(index)
  BY <1>1 DEF Settled
<1>. QED
  BY <1>2, <1>3 DEF StoredTxs, MaybeTxs, MarkedTxs

\* The same of the next state.
LEMMA PlainNext ==
    ASSUME index' \in Seq(Blocks), phase' \in {"idle", "popping", "linking"}
    PROVE  /\ Line' = index' /\ StoredTxs' = ChainTxs(index') /\ MaybeTxs' = ChainTxs(index')
           /\ MarkedTxs' = ChainTxs(index')
<1>1. Added' = <<>> /\ Popped' = {}
  BY DEF Added, Popped
<1>2. Line' = index'
  BY <1>1 DEF Line
<1>3. Settled' = ChainTxs(index')
  BY <1>1 DEF Settled
<1>. QED
  BY <1>2, <1>3 DEF StoredTxs, MaybeTxs, MarkedTxs

\* A block is about to be dealt out to buckets.
LEMMA DealNext ==
    ASSUME index' = index, index \in Seq(Blocks), phase' = "pushing",
           incoming' \in Seq(Blocks), NEW b \in Blocks, b = Head(incoming'),
           incoming' # <<>>,
           NEW k \in Nat \ {0}, position' = [j \in 1 .. k |-> j - 1]
    PROVE  /\ Line' = index \o <<b>> /\ StoredTxs' = ChainTxs(index)
           /\ ChainTxs(index) \subseteq MaybeTxs' /\ MarkedTxs' = ChainTxs(index)
           /\ Len(position)' \in Nat \ {0} /\ DOMAIN position' = 1 .. Len(position)'
           /\ position' \in [DOMAIN position' -> Nat]
<1>1. Added' = <<b>> /\ Popped' = {}
  BY DEF Added, Popped
<1>2. Line' = index \o <<b>>
  BY <1>1 DEF Line
<1>3. Settled' = ChainTxs(index)
  BY <1>1 DEF Settled
<1>4. Len(position)' = k /\ DOMAIN position' = 1 .. k
      /\ \A j \in 1 .. k : position'[j] = j - 1
  OBVIOUS
<1>5. ASSUME NEW i \in Nat, i # 0 PROVE ~Dealt(i)'
  <2>1. PICK q \in 0 .. k - 1 : Ahead(q, k, i - 1)
    BY <1>5, AheadSome
  <2>2. q + 1 \in 1 .. k /\ position'[q + 1] = q
    BY <1>4, <2>1
  <2>. QED
    BY <1>4, <2>1, <2>2 DEF Dealt
<1>6. DealtTxs' = {}
  <2>1. ASSUME NEW tx, NEW i \in Nat, Has(incoming', 1, i, tx) PROVE i # 0
    BY <2>1, HasIs
  <2>. QED
    BY <1>5, <2>1 DEF DealtTxs
<1>7. StoredTxs' = ChainTxs(index) /\ MarkedTxs' = ChainTxs(index)
      /\ MaybeTxs' = ChainTxs(Line')
  BY <1>3, <1>6 DEF StoredTxs, MarkedTxs, MaybeTxs
<1>8. ChainTxs(index) \subseteq ChainTxs(Line')
  <2>1. <<b>> \in Seq(Blocks)
    OBVIOUS
  <2>. QED
    BY <1>2, <2>1, MoreTxs, ZenonT(30)
<1>. QED
  BY <1>2, <1>4, <1>7, <1>8

\* The index and a block that may be pushed are a chain.
LEMMA PushLinks ==
    ASSUME index \in Seq(Blocks), IsChain(index), NEW b \in Blocks, NEW h, CanPush(b, h)
    PROVE  IsChain(index \o <<b>>) /\ h = Len(index)
<1>1. Len(index) = h /\ Parent[b] = IF h = 0 THEN NoBlock ELSE index[h]
  BY DEF CanPush
<1>2. Len(index) \in Nat /\ (index = <<>> <=> Len(index) = 0)
  OBVIOUS
<1>3. Parent[b] = IF index = <<>> THEN NoBlock ELSE Last(index)
  BY <1>1, <1>2 DEF Last
<1>4. Linked(IF index = <<>> THEN NoBlock ELSE Last(index), <<b>>) /\ <<b>> \in Seq(Blocks)
  BY <1>3 DEF Linked
<1>. QED
  BY <1>1, <1>4, LinkedMore

\* push of a block.
LEMMA PushBlockKeeps ==
    ASSUME ValidBlocks, LiveInv, NEW b \in Blocks, NEW h, PushBlock(b, h)
    PROVE  LiveInv'
<1>1. /\ phase = "idle" /\ CanPush(b, h) /\ phase' = "pushing"
      /\ incoming' = <<b>> /\ height' = h /\ position' = <<0>>
      /\ index' = index /\ rows' = rows /\ slab' = slab /\ pool' = pool /\ stale' = stale
      /\ stealth' = stealth /\ fork' = fork /\ left' = left /\ outgoing' = outgoing
      /\ committed' = committed
  BY DEF PushBlock, tableVars, indexVars
<1>2. Typed /\ FlowInv /\ BookInv /\ PoolInv /\ StealthInv /\ StoreInv
  BY DEF LiveInv
<1>3. index \in Seq(Blocks) /\ Len(index) \in Nat
  BY <1>2 DEF Typed
<1>4. /\ Line = index /\ StoredTxs = ChainTxs(index) /\ MaybeTxs = ChainTxs(index)
      /\ MarkedTxs = ChainTxs(index)
  BY <1>1, <1>3, PlainIs
<1>5. IsChain(index \o <<b>>) /\ h = Len(index)
  BY <1>1, <1>2, <1>3, <1>4, LineIs, PushLinks
<1>6. incoming' \in Seq(Blocks) /\ b = Head(incoming') /\ incoming' # <<>>
      /\ Len(incoming)' = 1
  BY <1>1
<1>7. /\ Line' = index \o <<b>> /\ StoredTxs' = ChainTxs(index)
      /\ ChainTxs(index) \subseteq MaybeTxs' /\ MarkedTxs' = ChainTxs(index)
      /\ Len(position)' \in Nat \ {0} /\ DOMAIN position' = 1 .. Len(position)'
      /\ position' \in [DOMAIN position' -> Nat]
  <2>1. 1 \in Nat \ {0} /\ position' = [j \in 1 .. 1 |-> j - 1]
    BY <1>1
  <2>. QED
    BY <1>1, <1>3, <1>6, <2>1, DealNext
<1>8. Typed'
  BY <1>1, <1>2, <1>3, <1>5, <1>6, <1>7 DEF Typed
<1>9. FlowInv'
  BY <1>1, <1>5, <1>6, <1>7 DEF FlowInv, IsChain
<1>10. BookInv' /\ PoolInv' /\ StealthInv'
  <2>1. <<b>> \in Seq(Blocks) /\ Line' = Line \o <<b>> /\ IsChain(Line)'
    BY <1>4, <1>5, <1>7 DEF IsChain
  <2>2. StoredTxs' = StoredTxs /\ MaybeTxs \subseteq MaybeTxs' /\ MarkedTxs' = MarkedTxs
    BY <1>4, <1>7
  <2>. QED
    BY <1>1, <1>2, <2>1, <2>2, KeepStep
<1>11. StoreInv'
  <2>1. <<b>> \in Seq(Blocks)
    OBVIOUS
  <2>2. ChainTxs(Line) \subseteq ChainTxs(Line')
    BY <1>3, <1>4, <1>7, <2>1, MoreTxs
  <2>. QED
    BY <1>1, <1>2, <2>2 DEF StoreInv
<1>12. BranchInv'
  <2>1. committed.chain = index
    BY <1>1, <1>2 DEF FlowInv
  <2>2. Shared(Len(index))'
    BY <1>1, <1>3, <1>6, <2>1 DEF Shared
  <2>. QED
    BY <1>1, <1>3, <2>2 DEF BranchInv
<1>. QED
  BY <1>8, <1>9, <1>10, <1>11, <1>12 DEF LiveInv

\* push_next and do_push.
LEMMA LinkBlockKeeps ==
    ASSUME ValidBlocks, ChainAssumption, LiveInv, LinkBlock, Live'
    PROVE  LiveInv'
<1> DEFINE b == Head(incoming)
<1>1. /\ phase = "linking" /\ incoming # <<>> /\ CanPush(b, height) /\ phase' = "pushing"
      /\ index' = index /\ rows' = rows /\ slab' = slab /\ pool' = pool /\ stale' = stale
      /\ height' = height
      /\ stealth' = stealth /\ fork' = fork /\ left' = left /\ outgoing' = outgoing
      /\ committed' = committed /\ incoming' = incoming
  BY DEF LinkBlock, tableVars, indexVars, Live
<1>2. Typed /\ FlowInv /\ BookInv /\ PoolInv /\ StealthInv /\ StoreInv /\ BranchInv
  BY DEF LiveInv
<1>3. index \in Seq(Blocks) /\ Len(index) \in Nat /\ incoming \in Seq(Blocks)
  BY <1>2 DEF Typed
<1>4. b \in Blocks
  BY <1>1, <1>3
<1>5. PICK k \in Nat \ {0} : position' = [j \in 1 .. k |-> j - 1]
  <2> DEFINE count == Len(TxsOf[b])
             buckets == IF Threads < count THEN Threads ELSE count
  <2>1. position' = [i \in 1 .. buckets |-> i - 1]
    BY <1>1 DEF LinkBlock
  <2>2. count \in Nat \ {0} /\ Threads \in Nat \ {0}
    BY <1>4, BlockHas DEF ChainAssumption
  <2>3. buckets \in Nat \ {0}
    <3>. HIDE DEF count
    <3>. QED
      BY <2>2
  <2>. QED
    BY <2>1, <2>3
<1>. HIDE DEF b
<1>6. /\ Line = index /\ StoredTxs = ChainTxs(index) /\ MaybeTxs = ChainTxs(index)
      /\ MarkedTxs = ChainTxs(index)
  BY <1>1, <1>3, PlainIs
<1>7. IsChain(index \o <<b>>) /\ height = Len(index)
  BY <1>1, <1>2, <1>3, <1>4, <1>6, LineIs, PushLinks
<1>8. /\ Line' = index \o <<b>> /\ StoredTxs' = ChainTxs(index)
      /\ ChainTxs(index) \subseteq MaybeTxs' /\ MarkedTxs' = ChainTxs(index)
      /\ Len(position)' \in Nat \ {0} /\ DOMAIN position' = 1 .. Len(position)'
      /\ position' \in [DOMAIN position' -> Nat]
  <2>1. b = Head(incoming') /\ incoming' # <<>> /\ incoming' \in Seq(Blocks)
    BY <1>1, <1>3 DEF b
  <2>. QED
    BY <1>1, <1>3, <1>4, <1>5, <2>1, DealNext
<1>9. Typed'
  BY <1>1, <1>2, <1>8 DEF Typed
<1>10. FlowInv'
  BY <1>1, <1>7, <1>8 DEF FlowInv, IsChain
<1>11. BookInv' /\ PoolInv' /\ StealthInv'
  <2>1. <<b>> \in Seq(Blocks) /\ Line' = Line \o <<b>> /\ IsChain(Line)'
    BY <1>4, <1>6, <1>7, <1>8 DEF IsChain
  <2>2. StoredTxs' = StoredTxs /\ MaybeTxs \subseteq MaybeTxs' /\ MarkedTxs' = MarkedTxs
    BY <1>6, <1>8
  <2>. QED
    BY <1>1, <1>2, <2>1, <2>2, KeepStep
<1>12. StoreInv'
  <2>1. <<b>> \in Seq(Blocks)
    BY <1>4
  <2>2. ChainTxs(Line) \subseteq ChainTxs(Line')
    BY <1>3, <1>6, <1>8, <2>1, MoreTxs
  <2>. QED
    BY <1>1, <1>2, <2>2 DEF StoreInv
<1>13. BranchInv'
  BY <1>1, <1>2 DEF BranchInv, Shared
<1>. QED
  BY <1>9, <1>10, <1>11, <1>12, <1>13 DEF LiveInv

\* A branch is a sequence of blocks.
LEMMA BranchIs ==
    ASSUME ChainAssumption, NEW branch \in Branches
    PROVE  branch \in Seq(Blocks)
<1>1. branch \in BoundedSeq(Blocks, MaxBranch)
  BY DEF Branches
<1>2. PICK m \in 0 .. MaxBranch : branch \in [1 .. m -> Blocks]
  BY <1>1 DEF BoundedSeq, SeqOf
<1>3. m \in Nat
  BY <1>2 DEF ChainAssumption
<1>. QED
  BY <1>2, <1>3

\* reorganize.
LEMMA ReorganizeKeeps ==
    ASSUME ValidBlocks, ChainAssumption, LiveInv, Live',
           NEW f \in Blocks, NEW branch \in Branches, Reorganize(f, branch)
    PROVE  LiveInv'
<1>1. /\ phase = "idle" /\ phase' = "popping" /\ ~(rows[f] > Top) /\ f \in DOMAIN rows
      /\ incoming' = branch /\ fork' = rows[f] /\ height' = rows[f] + 1
      /\ index' = index /\ rows' = rows /\ slab' = slab /\ pool' = pool /\ stale' = stale
      /\ stealth' = stealth /\ position' = position /\ left' = left /\ outgoing' = outgoing
      /\ committed' = committed
  BY DEF Reorganize, tableVars, indexVars, Live
<1>2. Typed /\ FlowInv /\ BookInv /\ PoolInv /\ StealthInv /\ StoreInv /\ BranchInv
  BY DEF LiveInv
<1>3. index \in Seq(Blocks) /\ Len(index) \in Nat
  BY <1>2 DEF Typed
<1>4. incoming' \in Seq(Blocks) /\ fork' \in Nat /\ height' \in Nat /\ fork' <= Top
  BY <1>1, <1>2, <1>3, BranchIs, SMTT(30) DEF Typed, Top
<1>5. /\ Line = index /\ StoredTxs = ChainTxs(index) /\ MaybeTxs = ChainTxs(index)
      /\ MarkedTxs = ChainTxs(index)
  BY <1>1, <1>3, PlainIs
<1>6. /\ Line' = index /\ StoredTxs' = ChainTxs(index) /\ MaybeTxs' = ChainTxs(index)
      /\ MarkedTxs' = ChainTxs(index)
  BY <1>1, <1>3, PlainNext
<1>7. Typed'
  BY <1>1, <1>2, <1>4 DEF Typed
<1>8. IsChain(index) /\ IsChain(Line)'
  BY <1>2, <1>5, <1>6, LineIs
<1>9. FlowInv'
  <2>1. index \o outgoing = committed.chain
    BY <1>1, <1>2, <1>3 DEF FlowInv
  <2>. QED
    BY <1>1, <1>4, <1>8, <1>6, <2>1 DEF FlowInv, IsChain, Top
<1>10. BookInv' /\ PoolInv' /\ StealthInv'
  <2>1. <<>> \in Seq(Blocks) /\ Line' = Line \o <<>>
    BY <1>3, <1>5, <1>6
  <2>. QED
    BY <1>1, <1>2, <1>5, <1>6, <1>8, <2>1, KeepStep
<1>11. StoreInv'
  BY <1>1, <1>2, <1>5, <1>6 DEF StoreInv
<1>12. BranchInv'
  BY <1>1 DEF BranchInv
<1>. QED
  BY <1>7, <1>9, <1>10, <1>11, <1>12 DEF LiveInv

\* handle_pop.
LEMMA PoppedAllKeeps ==
    ASSUME ValidBlocks, LiveInv, PoppedAll
    PROVE  LiveInv'
<1>1. /\ phase = "popping" /\ Top = fork /\ phase' = "linking"
      /\ incoming' = incoming /\ fork' = fork /\ height' = height
      /\ index' = index /\ rows' = rows /\ slab' = slab /\ pool' = pool /\ stale' = stale
      /\ stealth' = stealth /\ position' = position /\ left' = left /\ outgoing' = outgoing
      /\ committed' = committed
  BY DEF PoppedAll, tableVars, indexVars, writeVars
<1>2. Typed /\ FlowInv /\ BookInv /\ PoolInv /\ StealthInv /\ StoreInv /\ BranchInv
  BY DEF LiveInv
<1>3. index \in Seq(Blocks) /\ outgoing \in Seq(Blocks) /\ Len(index) \in Nat
      /\ Len(outgoing) \in Nat /\ fork \in Nat
  BY <1>2 DEF Typed
<1>4. /\ Line = index /\ StoredTxs = ChainTxs(index) /\ MaybeTxs = ChainTxs(index)
      /\ MarkedTxs = ChainTxs(index)
  BY <1>1, <1>3, PlainIs
<1>5. /\ Line' = index /\ StoredTxs' = ChainTxs(index) /\ MaybeTxs' = ChainTxs(index)
      /\ MarkedTxs' = ChainTxs(index)
  BY <1>1, <1>3, PlainNext
<1>6. Typed'
  BY <1>1, <1>2 DEF Typed
<1>7. IsChain(index) /\ IsChain(Line)'
  BY <1>2, <1>4, <1>5, LineIs
<1>8. FlowInv'
  BY <1>1, <1>5, <1>7 DEF FlowInv, IsChain
<1>9. BookInv' /\ PoolInv' /\ StealthInv'
  <2>1. <<>> \in Seq(Blocks) /\ Line' = Line \o <<>>
    BY <1>3, <1>4, <1>5
  <2>. QED
    BY <1>1, <1>2, <1>4, <1>5, <1>7, <2>1, KeepStep
<1>10. StoreInv'
  BY <1>1, <1>2, <1>4, <1>5 DEF StoreInv
<1>11. BranchInv'
  <2>1. committed.chain = index \o outgoing
    BY <1>1, <1>2 DEF FlowInv
  <2>2. Len(index) <= Len(committed.chain)
        /\ SubSeq(committed.chain, 1, Len(index)) = SubSeq(index, 1, Len(index))
    <3>1. Len(index \o outgoing) = Len(index) + Len(outgoing)
      BY <1>3
    <3>2. SubSeq(index \o outgoing, 1, Len(index)) = SubSeq(index, 1, Len(index))
      BY <1>3
    <3>. QED
      BY <1>3, <2>1, <3>1, <3>2
  <2>3. Len(committed.chain) \in Nat
    BY <1>3, <2>1
  <2>4. Len(index) # 0
    BY <1>1, <1>3 DEF Top
  <2>5. Shared(Len(index))'
    BY <1>1, <1>3, <2>2, <2>3, <2>4 DEF Shared
  <2>. QED
    BY <1>1, <1>3, <2>5 DEF BranchInv
<1>. QED
  BY <1>6, <1>8, <1>9, <1>10, <1>11 DEF LiveInv

\* pop reads the top block.
LEMMA ReadBlockKeeps ==
    ASSUME ValidBlocks, LiveInv, ReadBlock, Live'
    PROVE  LiveInv'
<1>1. /\ phase = "popping" /\ Top > fork /\ phase' = "unwinding"
      /\ incoming' = incoming /\ fork' = fork /\ height' = height
      /\ index' = index /\ rows' = rows /\ slab' = slab /\ pool' = pool /\ stale' = stale
      /\ stealth' = stealth /\ position' = position /\ outgoing' = outgoing
      /\ left' = Len(TxsOf[Last(index)]) /\ committed' = committed
  BY DEF ReadBlock, tableVars, indexVars, Live
<1>2. Typed /\ FlowInv /\ BookInv /\ PoolInv /\ StealthInv /\ StoreInv /\ BranchInv
  BY DEF LiveInv
<1>3. index \in Seq(Blocks) /\ Len(index) \in Nat /\ fork \in Nat
  BY <1>2 DEF Typed
<1>4. Last(index) \in Blocks
  <2>1. Len(index) # 0
    BY <1>1, <1>3 DEF Top
  <2>. QED
    BY <1>3, <2>1 DEF Last
<1>5. left' \in Nat /\ DOMAIN TxsOf[Last(index)] = 1 .. left'
  BY <1>1, <1>4, BlockHas
<1>6. /\ Line = index /\ StoredTxs = ChainTxs(index) /\ MaybeTxs = ChainTxs(index)
      /\ MarkedTxs = ChainTxs(index)
  BY <1>1, <1>3, PlainIs
<1>7. /\ Line' = index /\ StoredTxs' = ChainTxs(index) /\ MaybeTxs' = ChainTxs(index)
      /\ MarkedTxs' = ChainTxs(index)
  <2>1. Added' = <<>>
    BY <1>1 DEF Added
  <2>2. Popped' = {}
    BY <1>1, <1>5 DEF Popped
  <2>3. Line' = index
    BY <1>1, <1>3, <2>1 DEF Line
  <2>4. Settled' = ChainTxs(index)
    BY <1>1, <2>2 DEF Settled
  <2>. QED
    BY <1>1, <2>3, <2>4 DEF StoredTxs, MaybeTxs, MarkedTxs
<1>8. Typed'
  BY <1>1, <1>2, <1>5 DEF Typed
<1>9. IsChain(index) /\ IsChain(Line)'
  BY <1>2, <1>6, <1>7, LineIs
<1>10. FlowInv'
  <2>1. fork' < Top' /\ fork' <= Top' /\ left' <= Len(TxsOf[Last(index')])
    BY <1>1, <1>3, <1>5 DEF Top
  <2>. QED
    BY <1>1, <1>2, <1>7, <1>9, <2>1 DEF FlowInv, IsChain
<1>11. BookInv' /\ PoolInv' /\ StealthInv'
  <2>1. <<>> \in Seq(Blocks) /\ Line' = Line \o <<>>
    BY <1>3, <1>6, <1>7
  <2>. QED
    BY <1>1, <1>2, <1>6, <1>7, <1>9, <2>1, KeepStep
<1>12. StoreInv'
  BY <1>1, <1>2, <1>6, <1>7 DEF StoreInv
<1>13. BranchInv'
  BY <1>1 DEF BranchInv
<1>. QED
  BY <1>8, <1>10, <1>11, <1>12, <1>13 DEF LiveInv

\* end_write after a push.
LEMMA CommitKeeps ==
    ASSUME ValidBlocks, LiveInv, Commit
    PROVE  LiveInv'
<1>1. /\ phase = "linking" /\ phase' = "idle" /\ incoming' = incoming
      /\ fork' = 0 /\ height' = 0 /\ outgoing' = <<>>
      /\ index' = index /\ rows' = rows /\ slab' = slab /\ pool' = pool /\ stale' = stale
      /\ stealth' = stealth /\ position' = position /\ left' = left
      /\ committed' = [chain |-> index, mempool |-> Mempool(pool, index)]
  BY DEF Commit, tableVars, indexVars
<1>2. Typed /\ FlowInv /\ BookInv /\ PoolInv /\ StealthInv /\ StoreInv /\ BranchInv
  BY DEF LiveInv
<1>3. index \in Seq(Blocks) /\ Len(index) \in Nat
  BY <1>2 DEF Typed
<1>4. /\ Line = index /\ StoredTxs = ChainTxs(index) /\ MaybeTxs = ChainTxs(index)
      /\ MarkedTxs = ChainTxs(index)
  BY <1>1, <1>3, PlainIs
<1>5. /\ Line' = index /\ StoredTxs' = ChainTxs(index) /\ MaybeTxs' = ChainTxs(index)
      /\ MarkedTxs' = ChainTxs(index)
  BY <1>1, <1>3, PlainNext
<1>6. Typed'
  <2>1. Mempool(pool, index) \subseteq Txs
    BY DEF Pooled, Mempool
  <2>2. committed' \in [chain : Seq(Blocks), mempool : SUBSET Txs]
    BY <1>1, <1>3, <2>1
  <2>. QED
    BY <1>1, <1>2, <2>2 DEF Typed
<1>7. IsChain(index) /\ IsChain(Line)'
  BY <1>2, <1>4, <1>5, LineIs
<1>8. FlowInv'
  <2>1. Mempool(pool, index)' = Mempool(pool, index)
    BY <1>1 DEF Pooled, Mempool
  <2>. QED
    BY <1>1, <1>5, <1>7, <2>1 DEF FlowInv, IsChain
<1>9. BookInv' /\ PoolInv' /\ StealthInv'
  <2>1. <<>> \in Seq(Blocks) /\ Line' = Line \o <<>>
    BY <1>3, <1>4, <1>5
  <2>. QED
    BY <1>1, <1>2, <1>4, <1>5, <1>7, <2>1, KeepStep
<1>10. StoreInv'
  <2>1. ConfirmedIn(slab) = ChainTxs(index) /\ ConfirmedIn(slab) \subseteq DOMAIN slab
    BY <1>2, <1>3, <1>4, RestIs
  <2>2. Mempool(pool, index) = DOMAIN slab \ ConfirmedIn(slab)
    BY <1>2, <1>3, <1>4, <2>1, RestIs
  <2>3. committed'.chain = index /\ committed'.mempool = Mempool(pool, index)
    BY <1>1
  <2>. QED
    BY <1>1, <1>5, <2>1, <2>2, <2>3 DEF StoreInv
<1>11. BranchInv'
  BY <1>1 DEF BranchInv
<1>. QED
  BY <1>6, <1>8, <1>9, <1>10, <1>11 DEF LiveInv

\* begin_insert: nothing is stored yet.
LEMMA BeginInsertKeeps ==
    ASSUME ValidBlocks, ChainAssumption, LiveInv, NEW branch \in Branches, BeginInsert(branch)
    PROVE  LiveInv'
<1>1. /\ phase = "idle" /\ phase' = "importing" /\ index # <<>> /\ branch # <<>>
      /\ Linked(Last(index), branch)
      /\ incoming' = branch /\ height' = Len(index)
      /\ position' = [i \in DOMAIN branch |-> 0]
      /\ index' = index /\ rows' = rows /\ slab' = slab /\ pool' = pool /\ stale' = stale
      /\ stealth' = stealth /\ fork' = fork /\ left' = left /\ outgoing' = outgoing
      /\ committed' = committed
  BY DEF BeginInsert, tableVars, indexVars
<1>2. Typed /\ FlowInv /\ BookInv /\ PoolInv /\ StealthInv /\ StoreInv /\ BranchInv
  BY DEF LiveInv
<1>3. index \in Seq(Blocks) /\ Len(index) \in Nat /\ branch \in Seq(Blocks)
      /\ DOMAIN branch = 1 .. Len(branch)
  BY <1>2, BranchIs DEF Typed
<1>4. /\ Line = index /\ StoredTxs = ChainTxs(index) /\ MaybeTxs = ChainTxs(index)
      /\ MarkedTxs = ChainTxs(index)
  BY <1>1, <1>3, PlainIs
<1>5. /\ Line' = index \o branch /\ StoredTxs' = ChainTxs(index)
      /\ MaybeTxs' = ChainTxs(index) /\ MarkedTxs' = ChainTxs(index)
  <2>1. Added' = branch /\ Popped' = {}
    BY <1>1 DEF Added, Popped
  <2>2. Line' = index \o branch /\ Settled' = ChainTxs(index)
    BY <1>1, <2>1 DEF Line, Settled
  <2>3. ImportedTxs' = {}
    <3>1. ASSUME NEW n \in Nat, NEW i \in Nat, NEW tx, Has(branch, n, i, tx)
          PROVE  ~(i <= position'[n])
      <4>1. i \in 1 .. Len(TxsOf[branch[n]]) /\ n \in DOMAIN branch
        BY <1>3, <3>1, HasIs DEF Has
      <4>2. position'[n] = 0
        BY <1>1, <4>1
      <4>. QED
        BY <4>1, <4>2
    <3>. QED
      BY <1>1, <3>1 DEF ImportedTxs
  <2>4. InsertedTxs' = {}
    <3>1. ASSUME NEW n \in DOMAIN branch PROVE ~Inserted(n)'
      <4>1. branch[n] \in Blocks /\ position'[n] = 0
        BY <1>1, <1>3
      <4>2. Len(TxsOf[branch[n]]) \in Nat
        BY <4>1, BlockHas
      <4>. QED
        BY <1>1, <4>1, <4>2 DEF Inserted
    <3>. QED
      BY <1>1, <3>1 DEF InsertedTxs
  <2>. QED
    BY <1>1, <2>2, <2>3, <2>4 DEF StoredTxs, MaybeTxs, MarkedTxs
<1>6. IsChain(index) /\ IsChain(Line)'
  <2>1. IsChain(index)
    BY <1>2, <1>4, LineIs
  <2>2. IsChain(index \o branch)
    BY <1>1, <1>3, <2>1, LinkedMore
  <2>. QED
    BY <1>5, <2>1, <2>2 DEF IsChain
<1>7. /\ DOMAIN position' = 1 .. Len(incoming)'
      /\ position' \in [DOMAIN position' -> Nat]
  BY <1>1, <1>3
<1>8. Typed'
  BY <1>1, <1>2, <1>3, <1>7 DEF Typed
<1>9. FlowInv'
  BY <1>1, <1>2, <1>6, <1>7 DEF FlowInv, IsChain
<1>10. BookInv' /\ PoolInv' /\ StealthInv'
  BY <1>1, <1>2, <1>3, <1>4, <1>5, <1>6, KeepStep
<1>11. StoreInv'
  <2>1. ChainTxs(Line) \subseteq ChainTxs(Line')
    BY <1>3, <1>4, <1>5, MoreTxs
  <2>. QED
    BY <1>1, <1>2, <2>1 DEF StoreInv
<1>12. BranchInv'
  BY <1>1 DEF BranchInv
<1>. QED
  BY <1>8, <1>9, <1>10, <1>11, <1>12 DEF LiveInv

\* When every block is inserted, all of the line is stored and marked.
LEMMA EndInsertSets ==
    ASSUME Typed, FlowInv, phase = "importing", \A i \in DOMAIN incoming : Inserted(i)
    PROVE  /\ Line = index \o incoming /\ StoredTxs = ChainTxs(Line)
           /\ MaybeTxs = ChainTxs(Line) /\ MarkedTxs = ChainTxs(Line)
<1>1. /\ index \in Seq(Blocks) /\ incoming \in Seq(Blocks)
      /\ DOMAIN incoming = 1 .. Len(incoming)
      /\ \A n \in DOMAIN incoming : incoming[n] \in Blocks /\ position[n] \in Nat
  BY DEF Typed, FlowInv
<1>2. Added = incoming /\ Popped = {} /\ Line = index \o incoming /\ Settled = ChainTxs(index)
  BY DEF Added, Popped, Line, Settled
<1>3. ChainTxs(Line) = ChainTxs(index) \cup ChainTxs(incoming)
  BY <1>1, <1>2, MoreTxs
<1>4. ImportedTxs = ChainTxs(incoming)
  <2>1. ASSUME NEW tx \in ImportedTxs PROVE tx \in ChainTxs(incoming)
    BY <1>1, ChainHas DEF ImportedTxs
  <2>2. ASSUME NEW tx \in ChainTxs(incoming) PROVE tx \in ImportedTxs
    <3>1. PICK n, i \in Nat : Has(incoming, n, i, tx)
      BY <1>1, ChainHas
    <3>2. /\ n \in DOMAIN incoming /\ tx \in Txs /\ i \in 1 .. Len(TxsOf[incoming[n]])
          /\ Len(TxsOf[incoming[n]]) \in Nat
      BY <1>1, <3>1, HasIs DEF Has
    <3>3. position[n] > Len(TxsOf[incoming[n]]) /\ position[n] \in Nat
      BY <1>1, <3>2 DEF Inserted
    <3>4. i <= position[n]
      BY <3>2, <3>3
    <3>. QED
      BY <3>1, <3>2, <3>4 DEF ImportedTxs
  <2>. QED
    BY <2>1, <2>2
<1>5. InsertedTxs = ChainTxs(incoming)
  <2>1. ASSUME NEW tx \in InsertedTxs PROVE tx \in ChainTxs(incoming)
    <3>1. PICK n \in DOMAIN incoming : tx \in TxSet(incoming[n])
      BY DEF InsertedTxs
    <3>. QED
      BY <3>1 DEF ChainTxs, ToSet
  <2>2. ASSUME NEW tx \in ChainTxs(incoming) PROVE tx \in InsertedTxs
    <3>1. PICK n, i \in Nat : Has(incoming, n, i, tx)
      BY <1>1, ChainHas
    <3>2. n \in DOMAIN incoming /\ tx \in Txs /\ tx \in TxSet(incoming[n])
      BY <1>1, <3>1, HasIs DEF Has
    <3>. QED
      BY <3>2 DEF InsertedTxs
  <2>. QED
    BY <2>1, <2>2
<1>. QED
  BY <1>2, <1>3, <1>4, <1>5 DEF StoredTxs, MaybeTxs, MarkedTxs

\* end_insert.
LEMMA EndInsertKeeps ==
    ASSUME ValidBlocks, LiveInv, EndInsert
    PROVE  LiveInv'
<1>1. /\ phase = "importing" /\ phase' = "idle" /\ \A i \in DOMAIN incoming : Inserted(i)
      /\ index' = index \o incoming /\ incoming' = <<>> /\ height' = 0 /\ position' = <<>>
      /\ committed' = [chain |-> index', mempool |-> Mempool(pool, index')]
      /\ rows' = rows /\ slab' = slab /\ pool' = pool /\ stale' = stale
      /\ stealth' = stealth /\ fork' = fork /\ left' = left /\ outgoing' = outgoing
  BY DEF EndInsert, tableVars, indexVars
<1>2. Typed /\ FlowInv /\ BookInv /\ PoolInv /\ StealthInv /\ StoreInv /\ BranchInv
  BY DEF LiveInv
<1>3. /\ Line = index' /\ StoredTxs = ChainTxs(index') /\ MaybeTxs = ChainTxs(index')
      /\ MarkedTxs = ChainTxs(index')
  BY <1>1, <1>2, EndInsertSets
<1>4. IsChain(Line) /\ index' \in Seq(Blocks)
  BY <1>2, <1>3, LineIs DEF IsChain
<1>5. /\ Line' = index' /\ StoredTxs' = ChainTxs(index') /\ MaybeTxs' = ChainTxs(index')
      /\ MarkedTxs' = ChainTxs(index')
  BY <1>1, <1>4, PlainNext
<1>6. Typed'
  <2>1. Mempool(pool, index') \subseteq Txs
    BY DEF Pooled, Mempool
  <2>2. committed' \in [chain : Seq(Blocks), mempool : SUBSET Txs]
    BY <1>1, <1>4, <2>1
  <2>3. incoming' \in Seq(Blocks) /\ DOMAIN position' = {}
    BY <1>1
  <2>. QED
    BY <1>1, <1>2, <1>4, <2>2, <2>3 DEF Typed
<1>7. FlowInv'
  <2>1. Mempool(pool, index)' = Mempool(pool, index')
    BY <1>1 DEF Pooled, Mempool
  <2>2. outgoing = <<>>
    BY <1>1, <1>2 DEF FlowInv
  <2>. QED
    BY <1>1, <1>2, <1>3, <1>4, <1>5, <2>1, <2>2 DEF FlowInv, IsChain
<1>8. BookInv' /\ PoolInv' /\ StealthInv'
  <2>1. <<>> \in Seq(Blocks) /\ Line' = Line \o <<>> /\ IsChain(Line)'
    BY <1>3, <1>4, <1>5
  <2>. QED
    BY <1>1, <1>2, <1>3, <1>5, <2>1, KeepStep
<1>9. StoreInv'
  <2>1. ConfirmedIn(slab) = ChainTxs(index') /\ ConfirmedIn(slab) \subseteq DOMAIN slab
    BY <1>2, <1>3, <1>4, RestIs
  <2>2. Mempool(pool, index') = DOMAIN slab \ ConfirmedIn(slab)
    BY <1>2, <1>3, <1>4, <2>1, RestIs
  <2>3. committed'.chain = index' /\ committed'.mempool = Mempool(pool, index')
    BY <1>1
  <2>. QED
    BY <1>1, <1>5, <2>1, <2>2, <2>3 DEF StoreInv
<1>10. BranchInv'
  BY <1>1 DEF BranchInv
<1>. QED
  BY <1>6, <1>7, <1>8, <1>9, <1>10 DEF LiveInv

-----------------------------------------------------------------------------
\* The steps that write slabs.

\* push of a transaction: with its inputs checked it is stored, and joins the pool.
LEMMA PushTxKeeps ==
    ASSUME ValidBlocks, ChainAssumption, ChecksInputs, LiveInv, NEW tx \in Txs, PushTx(tx)
    PROVE  /\ LiveInv' /\ tx \notin DOMAIN slab
           /\ Mempool(pool', index) = Mempool(pool, index) \cup {tx}
<1>1. /\ phase = "idle" /\ Offered(tx) /\ (tx \in DOMAIN slab => IsSpent(slab[tx]))
      /\ slab' = StoredSlab(tx, Forks, Unconfirmed, FALSE) /\ pool' = PooledMore(tx)
      /\ committed' = [committed EXCEPT !.mempool = Mempool(pool', index)]
      /\ stale' = stale /\ phase' = phase /\ incoming' = incoming /\ height' = height /\ position' = position
      /\ index' = index /\ rows' = rows /\ stealth' = stealth /\ fork' = fork
      /\ left' = left /\ outgoing' = outgoing
  BY DEF PushTx, Store, writeVars
<1>2. Typed /\ FlowInv /\ BookInv /\ PoolInv /\ StealthInv /\ StoreInv /\ BranchInv
  BY DEF LiveInv
<1>3. index \in Seq(Blocks) /\ IsTable(slab) /\ pool \in [Txs -> Nat]
      /\ committed \in [chain : Seq(Blocks), mempool : SUBSET Txs]
  BY <1>2 DEF Typed
<1>4. /\ Line = index /\ StoredTxs = ChainTxs(index) /\ MaybeTxs = ChainTxs(index)
      /\ MarkedTxs = ChainTxs(index)
  BY <1>1, <1>3, PlainIs
<1>5. /\ Line' = index /\ StoredTxs' = ChainTxs(index) /\ MaybeTxs' = ChainTxs(index)
      /\ MarkedTxs' = ChainTxs(index)
  BY <1>1, <1>3, PlainNext
<1>6. tx \notin DOMAIN slab
  <2>1. SUFFICES ASSUME tx \in DOMAIN slab PROVE FALSE
    OBVIOUS
  <2>2. tx \in ConfirmedIn(slab)
    BY <1>1, <2>1 DEF IsSpent, ConfirmedIn
  <2>3. tx \in MarkedTxs
    BY <1>2, <1>3, <1>4, <2>2, RestIs
  <2>4. PICK p \in PointsOf(tx) : TRUE
    <3>1. InputsOf[tx] # <<>>
      BY <1>1 DEF Offered
    <3>2. InputsOf[tx] \in Seq([point : Point, address : Addresses \cup {NoAddress}])
      BY DataAssumption DEF DataAssumption
    <3>3. 1 \in DOMAIN InputsOf[tx]
      BY <3>1, <3>2
    <3>4. InputsOf[tx][1].point \in PointsOf(tx)
      BY <3>3 DEF PointsOf
    <3>. QED
      BY <3>4
  <2>5. IsMarked(slab, p)
    BY <1>2, <2>3, <2>4, Zenon DEF BookInv, Marked
  <2>6. slab[p.tx].spent[p.index] = NotSpent
    BY <1>1, <2>4, Zenon DEF Offered, Spendable
  <2>. QED
    BY <2>5, <2>6 DEF IsMarked
<1>7. IsTable(slab') /\ Stores(slab, slab', tx, Forks, Unconfirmed)
  <2>1. Forks \in Nat /\ Unconfirmed \in Nat /\ FALSE \in BOOLEAN
    BY DEF ChainAssumption, Unconfirmed
  <2>. QED
    BY <1>1, <1>3, <2>1, StoredSlabIs
<1>8. PICK s, t, c, txs : s = slab /\ t = slab' /\ c = index /\ txs = ChainTxs(index)
  OBVIOUS
<1>9. /\ DOMAIN t = DOMAIN s \cup {tx} /\ t[tx].position = Unconfirmed
      /\ \A u \in DOMAIN s : t[u] = s[u]
      /\ \A o \in Outputs(tx) : t[tx].spent[o] = NotSpent
  BY <1>6, <1>7, <1>8 DEF Stores
<1>10. tx \notin DOMAIN s
  BY <1>6, <1>8
<1>11. ConfirmedIn(t) = ConfirmedIn(s)
  <2>1. \A u : u \in ConfirmedIn(t) <=> u \in ConfirmedIn(s)
    BY <1>9, <1>10, Zenon DEF ConfirmedIn
  <2>. QED
    BY <2>1
<1>12. Placed(s, c, txs, txs) /\ Marked(s, c, txs) /\ Ordered(c, txs) /\ Backed(txs, txs)
  BY <1>1, <1>2, <1>4, <1>8 DEF BookInv
<1>13. Placed(t, c, txs, txs)
  <2>1. ASSUME NEW u \in ConfirmedIn(s) PROVE PlacedAt(t, c, u)
    <3>1. PlacedAt(s, c, u) /\ t[u] = s[u]
      BY <1>9, <1>12, <2>1, Zenon DEF Placed, ConfirmedIn
    <3>. QED
      BY <3>1, Zenon DEF PlacedAt
  <2>. QED
    BY <1>11, <1>12, <2>1, Zenon DEF Placed
<1>14. Marked(t, c, txs)
  <2>1. ASSUME NEW u \in DOMAIN t, NEW o \in Outputs(u), t[u].spent[o] # NotSpent
        PROVE  \E v \in txs : MarkedBy(c, t[u].spent[o], [tx |-> u, index |-> o], v)
    <3>1. u \in DOMAIN s /\ t[u] = s[u]
      BY <1>9, <2>1, Zenon
    <3>. QED
      BY <1>12, <2>1, <3>1, Zenon DEF Marked
  <2>2. ASSUME NEW u \in txs, NEW p \in PointsOf(u) PROVE IsMarked(t, p)
    <3>1. IsMarked(s, p)
      BY <1>12, Zenon DEF Marked
    <3>. QED
      BY <1>9, <3>1 DEF IsMarked
  <2>. QED
    BY <2>1, <2>2, Zenon DEF Marked
<1>15. BookInv'
  BY <1>5, <1>8, <1>12, <1>13, <1>14 DEF BookInv
<1>16. /\ pool' \in [Txs -> Nat] /\ pool'[tx] = pool[tx] + 1
       /\ \A u \in Txs : u # tx => pool'[u] = pool[u]
  BY <1>1, <1>3 DEF PooledMore
<1>17. PoolInv'
  <2>1. pool[tx] = 0 /\ pool'[tx] = 1
    <3>1. RestAt(pool, slab, stale, tx)
      BY <1>2 DEF PoolInv
    <3>. QED
      BY <1>3, <1>6, <1>16, <3>1 DEF RestAt
  <2>2. tx \notin ConfirmedIn(t)
    BY <1>9 DEF ConfirmedIn
  <2>3. ASSUME NEW u \in Txs
        PROVE  RestAt(pool', t, stale', u)
    <3>1. CASE u = tx
      BY <1>9, <2>1, <2>2, <3>1 DEF RestAt, Waits
    <3>2. CASE u # tx
      <4>1. RestAt(pool, s, stale, u)
        BY <1>2, <1>8 DEF PoolInv
      <4>2. (Waits(t, u) <=> Waits(s, u)) /\ (u \in DOMAIN t <=> u \in DOMAIN s)
        BY <1>9, <1>11, <3>2 DEF Waits
      <4>3. pool'[u] = pool[u] /\ stale' = stale
        BY <1>1, <1>16, <3>2
      <4>. QED
        BY <4>1, <4>2, <4>3 DEF RestAt
    <3>. QED
      BY <3>1, <3>2
  <2>. QED
    BY <1>8, <2>3 DEF PoolInv
<1>18. Mempool(pool', index) = Mempool(pool, index) \cup {tx}
  <2>1. \A u \in Txs : pool'[u] > 0 <=> pool[u] > 0 \/ u = tx
    BY <1>3, <1>16
  <2>2. tx \notin ChainTxs(index)
    BY <1>2, <1>3, <1>4, <1>6, RestIs
  <2>. QED
    BY <2>1, <2>2 DEF Pooled, Mempool
<1>19. committed'.chain = committed.chain /\ committed'.mempool = committed.mempool \cup {tx}
       /\ committed' \in [chain : Seq(Blocks), mempool : SUBSET Txs]
       /\ committed'.mempool = Mempool(pool', index)
  <2>1. committed.mempool = Mempool(pool, index)
    BY <1>1, <1>2 DEF FlowInv
  <2>2. committed' = [committed EXCEPT !.mempool = committed.mempool \cup {tx}]
    BY <1>1, <1>18, <2>1
  <2>. QED
    BY <1>3, <1>18, <2>1, <2>2
<1>20. Typed'
  BY <1>1, <1>2, <1>7, <1>16, <1>19 DEF Typed
<1>21. IsChain(index)
  BY <1>2, <1>4, LineIs
<1>22. FlowInv'
  <2>1. index = committed.chain /\ outgoing = <<>>
    BY <1>1, <1>2 DEF FlowInv
  <2>. QED
    BY <1>1, <1>5, <1>19, <1>21, <2>1 DEF FlowInv, IsChain
<1>23. StealthInv'
  BY <1>1, <1>2, <1>4, <1>5 DEF StealthInv
<1>24. StoreInv'
  <2>1. DOMAIN slab' = DOMAIN slab \cup {tx}
    BY <1>8, <1>9
  <2>. QED
    BY <1>2, <1>4, <1>5, <1>19, <2>1 DEF StoreInv
<1>25. BranchInv'
  BY <1>1 DEF BranchInv
<1>. QED
  BY <1>6, <1>15, <1>17, <1>18, <1>20, <1>22, <1>23, <1>24, <1>25 DEF LiveInv

\* A bucket that goes on leaves behind the transaction it was at, and no other.
LEMMA AheadNext ==
    ASSUME NEW q \in Nat, NEW k \in Nat, NEW p
    PROVE  /\ Ahead(q, k, p) => p = q \/ Ahead(q + k, k, p)
           /\ Ahead(q + k, k, p) => Ahead(q, k, p)
           /\ Ahead(q, k, q)
<1>1. ASSUME NEW m \in Nat, p = q + m * k PROVE p = q \/ Ahead(q + k, k, p)
  <2>1. CASE m = 0
    BY <1>1, <2>1
  <2>2. CASE m # 0
    <3>1. m - 1 \in Nat /\ p = (q + k) + (m - 1) * k
      BY <1>1, <2>2
    <3>. QED
      BY <3>1 DEF Ahead
  <2>. QED
    BY <2>1, <2>2
<1>2. ASSUME NEW m \in Nat, p = (q + k) + m * k PROVE Ahead(q, k, p)
  <2>1. m + 1 \in Nat /\ p = q + (m + 1) * k
    BY <1>2
  <2>. QED
    BY <2>1 DEF Ahead
<1>3. 0 \in Nat /\ q = q + 0 * k
  OBVIOUS
<1>. QED
  BY <1>1, <1>2, <1>3 DEF Ahead

\* push_transactions: a bucket stores a transaction that was not stored.
LEMMA PushTransactionKeeps ==
    ASSUME ValidBlocks, ChainAssumption, LiveInv, NEW i \in DOMAIN position, PushTransaction(i)
    PROVE  /\ LiveInv' /\ TxsOf[Head(incoming)][position[i] + 1] \in Txs \ StoredTxs
           /\ Has(Line, height + 1, position[i] + 1, TxsOf[Head(incoming)][position[i] + 1])
           /\ StoredTxs \subseteq StoredTxs'
<1> DEFINE b == Head(incoming)
           at == position[i]
           k == Len(position)
           tx == TxsOf[b][at + 1]
<1>1. /\ phase = "pushing" /\ at < Len(TxsOf[b])
      /\ \E beside : StoreTransaction(b, height, at, beside)
      /\ position' = [position EXCEPT ![i] = at + k]
      /\ index' = index /\ rows' = rows /\ phase' = phase /\ incoming' = incoming
      /\ height' = height /\ fork' = fork /\ left' = left /\ outgoing' = outgoing
      /\ committed' = committed
  BY DEF PushTransaction
<1>2. Typed /\ FlowInv /\ BookInv /\ PoolInv /\ StealthInv /\ StoreInv /\ BranchInv
  BY DEF LiveInv
<1>3. /\ index \in Seq(Blocks) /\ incoming \in Seq(Blocks) /\ incoming # <<>>
      /\ height = Len(index) /\ Len(index) \in Nat
      /\ k \in Nat \ {0} /\ DOMAIN position = 1 .. k
      /\ position \in [DOMAIN position -> Nat]
  BY <1>1, <1>2 DEF Typed, FlowInv
<1>4. b \in Blocks /\ at \in Nat /\ 1 \in DOMAIN incoming /\ incoming[1] = b
  BY <1>3
<1>5. /\ Len(TxsOf[b]) \in Nat /\ DOMAIN TxsOf[b] = 1 .. Len(TxsOf[b])
      /\ \A l, m \in DOMAIN TxsOf[b] : TxsOf[b][l] = TxsOf[b][m] => l = m
  BY <1>4, BlockHas
<1>6. Has(incoming, 1, at + 1, tx)
  <2>1. at + 1 \in DOMAIN TxsOf[b]
    BY <1>1, <1>4, <1>5
  <2>. QED
    BY <1>4, <2>1 DEF Has
<1>7. Line = index \o <<b>> /\ <<b>> \in Seq(Blocks) /\ Settled = ChainTxs(index) /\ IsChain(Line)
  BY <1>1, <1>2, <1>4, LineIs DEF Line, Added, Settled, Popped
<1>8. Line' = Line /\ Settled' = Settled
  BY <1>1 DEF Line, Added, Settled, Popped
<1>9. Has(Line, height + 1, at + 1, tx)
  <2>1. Has(<<b>>, 1, at + 1, tx)
    BY <1>4, <1>6 DEF Has
  <2>. QED
    BY <1>3, <1>7, <2>1, MoreHas
<1>10. position' \in [1 .. k -> Nat]
  BY <1>1, <1>3, <1>4
<1>11. /\ Len(position)' = k /\ DOMAIN position' = 1 .. k
       /\ position' \in [DOMAIN position' -> Nat]
  BY <1>3, <1>10
<1>12. position'[i] = at + k /\ \A j \in DOMAIN position : j # i => position'[j] = position[j]
  BY <1>1
<1>. HIDE DEF b, at, k, tx
<1>13. ~Dealt(at + 1)
  <2>1. Ahead(at, k, at) /\ at = (at + 1) - 1
    BY <1>3, <1>4, AheadNext
  <2>. QED
    BY <2>1, Zenon DEF Dealt, at, k
<1>14. ASSUME NEW j \in Nat
       PROVE  /\ Dealt(j) => Dealt(j)'
              /\ Dealt(j)' => Dealt(j) \/ j = at + 1
  <2>1. Ahead(at, k, j - 1) => j - 1 = at \/ Ahead(at + k, k, j - 1)
    BY <1>3, <1>4, AheadNext
  <2>2. Ahead(at + k, k, j - 1) => Ahead(at, k, j - 1)
    BY <1>3, <1>4, AheadNext
  <2>3. j - 1 = at => j = at + 1
    BY <1>4
  <2>4. Dealt(j) <=> /\ ~Ahead(at, k, j - 1)
                     /\ \A l \in 1 .. k : l # i => ~Ahead(position[l], k, j - 1)
    BY <1>3, Zenon DEF Dealt, at, k
  <2>5. Dealt(j)' <=> /\ ~Ahead(at + k, k, j - 1)
                      /\ \A l \in 1 .. k : l # i => ~Ahead(position[l], k, j - 1)
    <3>1. Dealt(j)' <=> \A l \in 1 .. k : ~Ahead(position'[l], k, j - 1)
      BY <1>11, Zenon DEF Dealt
    <3>2. i \in 1 .. k
      BY <1>3
    <3>. QED
      BY <1>3, <1>12, <3>1, <3>2, Zenon
  <2>. QED
    BY <2>1, <2>2, <2>3, <2>4, <2>5, Zenon
<1>15. tx \notin StoredTxs
  <2>1. tx \notin ChainTxs(index)
    <3>1. ASSUME NEW n \in Nat, NEW j \in Nat, Has(index, n, j, tx) PROVE FALSE
      <4>1. n \in 1 .. Len(index)
        BY <1>3, <3>1, HasIs
      <4>2. Has(Line, n, j, tx)
        BY <1>3, <1>7, <3>1, MoreHas
      <4>3. n = height + 1
        BY <1>7, <1>9, <4>2, OnePlace
      <4>. QED
        BY <1>3, <4>1, <4>3
    <3>. QED
      BY <1>3, <3>1, ChainHas
  <2>2. tx \notin DealtTxs
    <3>1. ASSUME NEW j \in Nat, Has(incoming, 1, j, tx), Dealt(j) PROVE FALSE
      <4>1. j = at + 1
        BY <1>4, <1>5, <1>6, <3>1 DEF Has
      <4>. QED
        BY <1>13, <3>1, <4>1
    <3>. QED
      BY <3>1 DEF DealtTxs
  <2>. QED
    BY <1>1, <1>7, <2>1, <2>2 DEF StoredTxs
<1>16. DealtTxs \subseteq DealtTxs' /\ DealtTxs' \subseteq DealtTxs \cup {tx}
  <2>1. ASSUME NEW u \in DealtTxs PROVE u \in DealtTxs'
    BY <1>1, <1>14 DEF DealtTxs
  <2>2. ASSUME NEW u \in DealtTxs', u # tx PROVE u \in DealtTxs
    <3>1. PICK j \in Nat : Has(incoming, 1, j, u) /\ Dealt(j)'
      BY <1>1 DEF DealtTxs
    <3>2. j # at + 1
      BY <1>6, <2>2, <3>1 DEF Has
    <3>3. Dealt(j)
      BY <1>14, <3>1, <3>2
    <3>. QED
      BY <3>1, <3>3 DEF DealtTxs
  <2>. QED
    BY <2>1, <2>2
<1>17. /\ StoredTxs \subseteq StoredTxs' /\ StoredTxs' \subseteq StoredTxs \cup {tx}
       /\ MarkedTxs' = MarkedTxs /\ MaybeTxs' = MaybeTxs /\ MaybeTxs = ChainTxs(Line)
  BY <1>1, <1>8, <1>16 DEF StoredTxs, MarkedTxs, MaybeTxs
<1>18. tx \in MaybeTxs
  <2>1. height + 1 \in Nat /\ at + 1 \in Nat /\ Line \in Seq(Blocks)
    BY <1>3, <1>4, <1>7, SMTT(30) DEF IsChain
  <2>. QED
    BY <1>9, <1>17, <2>1, ChainHas
<1>19. /\ IsTable(slab') /\ pool' \in [Txs -> Nat]
       /\ BookInv' /\ PoolInv' /\ StealthInv' /\ StoreInv'
  <2>1. height \in Nat /\ tx = TxsOf[b][at + 1] /\ phase \in {"pushing", "importing"}
    BY <1>1, <1>3 DEF tx
  <2>2. MaybeTxs \cup {tx} \subseteq MaybeTxs'
    BY <1>17, <1>18
  <2>3. PICK beside : StoreTransaction(b, height, at, beside)
    BY <1>1
  <2>. QED
    BY <1>1, <1>2, <1>4, <1>8, <1>9, <1>15, <1>17, <2>1, <2>2, <2>3, StoreStep
<1>20. Typed'
  BY <1>1, <1>2, <1>11, <1>19 DEF Typed
<1>21. FlowInv'
  BY <1>1, <1>2, <1>3, <1>8, <1>11 DEF FlowInv
<1>22. BranchInv'
  BY <1>1, <1>2 DEF BranchInv, Shared
<1>23. tx \in Txs
  BY <1>3, <1>6, HasIs
<1>. QED
  BY <1>9, <1>15, <1>17, <1>19, <1>20, <1>21, <1>22, <1>23 DEF LiveInv, tx, b, at

\* A transaction of an imported block is in the line behind the index.
LEMMA ImportHas ==
    ASSUME Typed, FlowInv, phase = "importing",
           NEW n, NEW i, NEW tx, Has(incoming, n, i, tx)
    PROVE  /\ n \in 1 .. Len(incoming) /\ n \in Nat /\ Has(Line, Len(index) + n, i, tx)
           /\ Len(index) + n \in Nat /\ Len(index) \in Nat /\ n \in DOMAIN position
<1>1. index \in Seq(Blocks) /\ incoming \in Seq(Blocks) /\ Line = index \o incoming
  BY DEF Typed, Line, Added
<1>2. n \in 1 .. Len(incoming) /\ n \in Nat /\ Len(index) \in Nat
  BY <1>1, HasIs
<1>3. Has(Line, Len(index) + n, i, tx)
  BY <1>1, MoreHas
<1>. QED
  BY <1>2, <1>3 DEF FlowInv

\* insert stores a transaction that was not stored.
LEMMA InsertTransactionKeeps ==
    ASSUME ValidBlocks, ChainAssumption, LiveInv, NEW i \in DOMAIN position, InsertTransaction(i)
    PROVE  /\ LiveInv' /\ TxsOf[incoming[i]][position[i] + 1] \in Txs \ StoredTxs
           /\ Has(Line, height + i - 1 + 1, position[i] + 1,
                  TxsOf[incoming[i]][position[i] + 1])
<1> DEFINE b == incoming[i]
           at == position[i]
           tx == TxsOf[b][at + 1]
           h == height + i - 1
<1>1. /\ phase = "importing" /\ ~Pushed(i)
      /\ \E beside : StoreTransaction(b, h, at, beside)
      /\ position' = [position EXCEPT ![i] = at + 1]
      /\ index' = index /\ rows' = rows /\ phase' = phase /\ incoming' = incoming
      /\ height' = height /\ fork' = fork /\ left' = left /\ outgoing' = outgoing
      /\ committed' = committed
  BY DEF InsertTransaction
<1>2. Typed /\ FlowInv /\ BookInv /\ PoolInv /\ StealthInv /\ StoreInv /\ BranchInv
  BY DEF LiveInv
<1>3. /\ index \in Seq(Blocks) /\ incoming \in Seq(Blocks)
      /\ height = Len(index) /\ Len(index) \in Nat
      /\ DOMAIN position = 1 .. Len(incoming) /\ position \in [1 .. Len(incoming) -> Nat]
      /\ DOMAIN incoming = 1 .. Len(incoming)
  BY <1>1, <1>2, SMTT(30) DEF Typed, FlowInv
<1>4. b \in Blocks /\ at \in Nat /\ i \in DOMAIN incoming /\ i \in Nat \ {0}
  BY <1>3
<1>5. /\ Len(TxsOf[b]) \in Nat /\ DOMAIN TxsOf[b] = 1 .. Len(TxsOf[b])
  BY <1>4, BlockHas
<1>6. at < Len(TxsOf[b])
  BY <1>1, <1>4, <1>5 DEF Pushed
<1>7. Has(incoming, i, at + 1, tx)
  <2>1. at + 1 \in DOMAIN TxsOf[b]
    BY <1>4, <1>5, <1>6
  <2>. QED
    BY <1>4, <2>1 DEF Has
<1>8. Line = index \o incoming /\ Settled = ChainTxs(index) /\ IsChain(Line)
  BY <1>1, <1>2, LineIs DEF Line, Added, Settled, Popped
<1>9. Line' = Line /\ Settled' = Settled
  BY <1>1 DEF Line, Added, Settled, Popped
<1>10. h \in Nat /\ h + 1 = Len(index) + i
  BY <1>3, <1>4
<1>11. Has(Line, h + 1, at + 1, tx) /\ Has(Line, Len(index) + i, at + 1, tx)
  BY <1>1, <1>2, <1>7, <1>10, ImportHas
<1>12. position' \in [1 .. Len(incoming) -> Nat] /\ position'[i] = at + 1
       /\ \A n \in 1 .. Len(incoming) : n # i => position'[n] = position[n]
  BY <1>1, <1>3, <1>4
<1>. HIDE DEF b, at, tx, h
<1>13. ASSUME NEW n \in Nat, NEW j \in Nat, Has(incoming, n, j, tx)
       PROVE  n = i /\ j = at + 1
  <2>1. Has(Line, Len(index) + n, j, tx) /\ n \in Nat /\ Len(index) + n \in Nat
    BY <1>1, <1>2, <1>13, ImportHas
  <2>2. Len(index) + n = Len(index) + i /\ j = at + 1
    BY <1>8, <1>11, <2>1, OnePlace
  <2>. QED
    BY <1>3, <1>4, <2>1, <2>2
<1>14. tx \notin StoredTxs
  <2>1. tx \notin ChainTxs(index)
    <3>1. ASSUME NEW n \in Nat, NEW j \in Nat, Has(index, n, j, tx) PROVE FALSE
      <4>1. n \in 1 .. Len(index)
        BY <1>3, <3>1, HasIs
      <4>2. Has(Line, n, j, tx)
        BY <1>3, <1>8, <3>1, MoreHas
      <4>3. n = Len(index) + i
        BY <1>8, <1>11, <4>2, OnePlace
      <4>. QED
        BY <1>3, <1>4, <4>1, <4>3
    <3>. QED
      BY <1>3, <3>1, ChainHas
  <2>2. tx \notin ImportedTxs
    <3>1. ASSUME NEW n \in Nat, NEW j \in Nat, Has(incoming, n, j, tx), j <= position[n]
          PROVE  FALSE
      <4>1. n = i /\ j = at + 1
        BY <1>13, <3>1
      <4>. QED
        BY <1>4, <3>1, <4>1 DEF at
    <3>. QED
      BY <3>1 DEF ImportedTxs
  <2>. QED
    BY <1>1, <1>8, <2>1, <2>2 DEF StoredTxs
<1>15. ASSUME NEW u, NEW n \in Nat, NEW j \in Nat, Has(incoming, n, j, u)
       PROVE  /\ j <= position[n] => j <= position'[n]
              /\ j <= position'[n] => j <= position[n] \/ u = tx
  <2>1. n \in 1 .. Len(incoming)
    BY <1>3, <1>15 DEF Has
  <2>2. CASE n # i
    BY <1>12, <2>1, <2>2
  <2>3. CASE n = i
    <3>1. j = at + 1 => u = tx
      BY <1>7, <1>15, <2>3 DEF Has
    <3>. QED
      BY <1>4, <1>12, <2>3, <3>1 DEF at
  <2>. QED
    BY <2>2, <2>3
<1>16. ImportedTxs' = ImportedTxs \cup {tx}
  <2>1. ASSUME NEW u \in ImportedTxs PROVE u \in ImportedTxs'
    BY <1>1, <1>15 DEF ImportedTxs
  <2>2. ASSUME NEW u \in ImportedTxs', u # tx PROVE u \in ImportedTxs
    <3>1. PICK n, j \in Nat : Has(incoming, n, j, u) /\ j <= position'[n]
      BY <1>1 DEF ImportedTxs
    <3>2. j <= position[n]
      BY <1>15, <2>2, <3>1
    <3>. QED
      BY <3>1, <3>2 DEF ImportedTxs
  <2>3. tx \in ImportedTxs'
    <3>1. tx \in Txs /\ i \in Nat /\ at + 1 \in Nat /\ at + 1 <= position'[i]
      BY <1>3, <1>4, <1>7, <1>12, HasIs
    <3>. QED
      BY <1>1, <1>7, <3>1 DEF ImportedTxs
  <2>. QED
    BY <2>1, <2>2, <2>3
<1>17. ASSUME NEW n \in DOMAIN incoming PROVE Inserted(n)' <=> Inserted(n)
  <2>1. CASE n # i
    BY <1>1, <1>3, <1>12, <2>1 DEF Inserted
  <2>2. CASE n = i
    BY <1>1, <1>4, <1>5, <1>6, <1>12, <2>2 DEF Inserted, b, at
  <2>. QED
    BY <2>1, <2>2
<1>18. InsertedTxs' = InsertedTxs
  BY <1>1, <1>17 DEF InsertedTxs
<1>19. /\ StoredTxs' = StoredTxs \cup {tx} /\ MarkedTxs' = MarkedTxs
       /\ MaybeTxs' = MaybeTxs \cup {tx}
  BY <1>1, <1>9, <1>16, <1>18 DEF StoredTxs, MarkedTxs, MaybeTxs
<1>20. /\ IsTable(slab') /\ pool' \in [Txs -> Nat]
       /\ BookInv' /\ PoolInv' /\ StealthInv' /\ StoreInv'
  <2>1. tx = TxsOf[b][at + 1] /\ phase \in {"pushing", "importing"}
    BY <1>1 DEF tx
  <2>2. PICK beside : StoreTransaction(b, h, at, beside)
    BY <1>1
  <2>3. StoredTxs \subseteq StoredTxs' /\ StoredTxs' \subseteq StoredTxs \cup {tx}
        /\ MaybeTxs \cup {tx} \subseteq MaybeTxs'
    BY <1>19
  <2>. QED
    BY <1>1, <1>2, <1>4, <1>9, <1>10, <1>11, <1>14, <1>19, <2>1, <2>2, <2>3, StoreStep
<1>21. Typed'
  BY <1>1, <1>2, <1>12, <1>20 DEF Typed
<1>22. FlowInv'
  BY <1>1, <1>2, <1>9, <1>12 DEF FlowInv
<1>23. BranchInv'
  BY <1>1 DEF BranchInv
<1>24. tx \in Txs
  BY <1>3, <1>7, HasIs
<1>. QED
  BY <1>11, <1>14, <1>20, <1>21, <1>22, <1>23, <1>24 DEF LiveInv, tx, b, at, h

\* The spends of a block of the line are marked: what both ways to complete a
\* block share.
LEMMA SpendStep ==
    ASSUME ValidBlocks, Typed, FlowInv, BookInv, PoolInv, StealthInv, StoreInv,
           phase \in {"pushing", "importing"}, phase' # "unwinding",
           NEW n \in Nat, n \in DOMAIN Line, NEW b, b = Line[n], NEW h, h = n - 1,
           \A p \in BlockPoints(b) : CanSpend(slab, p, h),
           slab' = SpendAll(slab, BlockPoints(b), h),
           pool' = pool, stale' = stale, stealth' = stealth, committed' = committed,
           Line' = Line,
           MaybeTxs = StoredTxs, StoredTxs' = StoredTxs, MaybeTxs' = StoredTxs,
           MarkedTxs' = MarkedTxs \cup TxSet(b)
    PROVE  IsTable(slab') /\ BookInv' /\ PoolInv' /\ StealthInv' /\ StoreInv'
<1>1. PICK c, s, t, stored, spenders, all :
         /\ c = Line /\ s = slab /\ t = slab' /\ stored = StoredTxs
         /\ spenders = MarkedTxs /\ all = MarkedTxs'
  OBVIOUS
<1>2. IsChain(c) /\ IsTable(s) /\ n \in DOMAIN c
  BY <1>1, LineIs DEF Typed
<1>3. /\ Placed(s, c, stored, stored) /\ Marked(s, c, spenders)
      /\ Ordered(c, spenders) /\ Backed(spenders, stored)
  BY <1>1 DEF BookInv
<1>4. \A p \in BlockPoints(c[n]) : CanSpend(s, p, n - 1)
  BY <1>1
<1>5. t = SpendAll(s, BlockPoints(c[n]), n - 1) /\ all = spenders \cup TxSet(c[n])
  BY <1>1
<1>6. /\ IsTable(t) /\ DOMAIN t = DOMAIN s /\ ConfirmedIn(t) = ConfirmedIn(s)
      /\ Placed(t, c, stored, stored) /\ Marked(t, c, all)
      /\ Ordered(c, all) /\ Backed(all, stored)
  BY <1>2, <1>3, <1>4, <1>5, SpendKeeps
<1>7. BookInv'
  BY <1>1, <1>6 DEF BookInv
<1>8. PoolInv'
  BY <1>1, <1>6 DEF PoolInv, RestAt, Waits
<1>9. StealthInv'
  BY DEF StealthInv
<1>10. StoreInv'
  BY <1>1, <1>6 DEF StoreInv
<1>. QED
  BY <1>1, <1>6, <1>7, <1>8, <1>9, <1>10

\* When every bucket has answered, all of the line is stored.
LEMMA AllStoredSets ==
    ASSUME Typed, FlowInv, phase = "pushing", AllStored, NEW b, b = Head(incoming)
    PROVE  /\ b \in Blocks /\ index \in Seq(Blocks) /\ incoming \in Seq(Blocks)
           /\ Len(index) \in Nat /\ height = Len(index)
           /\ Line = index \o <<b>> /\ ChainTxs(Line) = ChainTxs(index) \cup TxSet(b)
           /\ StoredTxs = ChainTxs(Line) /\ MaybeTxs = ChainTxs(Line)
           /\ MarkedTxs = ChainTxs(index)
<1>1. /\ index \in Seq(Blocks) /\ incoming \in Seq(Blocks) /\ incoming # <<>>
      /\ Len(index) \in Nat /\ height = Len(index)
      /\ Len(position) \in Nat \ {0} /\ position \in [DOMAIN position -> Nat]
  BY DEF Typed, FlowInv
<1>2. b \in Blocks /\ b = incoming[1] /\ 1 \in DOMAIN incoming
  <2>1. Len(incoming) \in Nat /\ DOMAIN incoming = 1 .. Len(incoming) /\ Len(incoming) # 0
    BY <1>1
  <2>. QED
    BY <1>1, <2>1
<1>3. /\ Len(TxsOf[b]) \in Nat /\ DOMAIN TxsOf[b] = 1 .. Len(TxsOf[b])
      /\ TxSet(b) = {TxsOf[b][i] : i \in DOMAIN TxsOf[b]} /\ TxSet(b) \subseteq Txs
  BY <1>2, BlockHas
<1>4. /\ Line = index \o <<b>> /\ Settled = ChainTxs(index)
  BY DEF Line, Added, Settled, Popped
<1>5. ChainTxs(<<b>>) = TxSet(b) /\ <<b>> \in Seq(Blocks)
  <2>1. ToSet(<<b>>) = {b}
    BY DEF ToSet
  <2>. QED
    BY <1>2, <2>1 DEF ChainTxs
<1>6. ChainTxs(Line) = ChainTxs(index) \cup TxSet(b)
  <2>1. PICK c \in Seq(Blocks), d \in Seq(Blocks) : c = index /\ d = <<b>>
    BY <1>1, <1>5
  <2>2. ChainTxs(c \o d) = ChainTxs(c) \cup ChainTxs(d)
    BY MoreTxs
  <2>. QED
    BY <1>4, <1>5, <2>1, <2>2
<1>7. ASSUME NEW tx \in DealtTxs PROVE tx \in TxSet(b)
  <2>1. PICK i \in Nat : Has(incoming, 1, i, tx)
    BY DEF DealtTxs
  <2>. QED
    BY <1>1, <1>2, <2>1, HasIs
<1>8. ASSUME NEW i \in DOMAIN TxsOf[b] PROVE Dealt(i)
  <2>1. ASSUME NEW j \in DOMAIN position, NEW m \in Nat,
               i - 1 = position[j] + m * Len(position)
        PROVE  FALSE
    <3>1. position[j] >= Len(TxsOf[b]) /\ position[j] \in Nat
      BY <1>1 DEF AllStored
    <3>2. PICK d \in Nat : d = m * Len(position)
      BY <1>1
    <3>3. i - 1 = position[j] + d
      BY <2>1, <3>2
    <3>. QED
      BY <1>3, <3>1, <3>3
  <2>. QED
    BY <2>1 DEF Dealt, Ahead
<1>9. ASSUME NEW tx \in TxSet(b) PROVE tx \in DealtTxs
  <2>1. PICK i \in DOMAIN TxsOf[b] : tx = TxsOf[b][i]
    BY <1>3
  <2>2. i \in Nat /\ tx \in Txs /\ Has(incoming, 1, i, tx)
    BY <1>2, <1>3, <2>1 DEF Has
  <2>. QED
    BY <1>8, <2>2 DEF DealtTxs
<1>10. DealtTxs = TxSet(b)
  BY <1>7, <1>9
<1>. QED
  BY <1>1, <1>2, <1>4, <1>6, <1>10 DEF StoredTxs, MaybeTxs, MarkedTxs

\* handle_push_transactions.
LEMMA CompleteBlockKeeps ==
    ASSUME ValidBlocks, LiveInv, CompleteBlock, Live'
    PROVE  LiveInv'
<1> DEFINE b == Head(incoming)
<1>1. /\ phase = "pushing" /\ AllStored
      /\ \A p \in BlockPoints(b) : CanSpend(slab, p, height)
      /\ slab' = SpendAll(slab, BlockPoints(b), height)
      /\ rows' = RowOf(b, height) /\ index' = Append(index, b) /\ incoming' = Tail(incoming)
      /\ height' = height + 1 /\ phase' = "linking" /\ position' = <<>>
      /\ pool' = pool /\ stale' = stale /\ stealth' = stealth /\ fork' = fork
      /\ left' = left
      /\ outgoing' = outgoing /\ committed' = committed
  BY DEF CompleteBlock, indexVars, Live
<1>2. Typed /\ FlowInv /\ BookInv /\ PoolInv /\ StealthInv /\ StoreInv /\ BranchInv
  BY DEF LiveInv
<1>. HIDE DEF b
<1>3. /\ b \in Blocks /\ index \in Seq(Blocks) /\ incoming \in Seq(Blocks)
      /\ Len(index) \in Nat /\ height = Len(index)
      /\ Line = index \o <<b>> /\ ChainTxs(Line) = ChainTxs(index) \cup TxSet(b)
      /\ StoredTxs = ChainTxs(Line) /\ MaybeTxs = ChainTxs(Line)
      /\ MarkedTxs = ChainTxs(index)
  BY <1>1, <1>2, AllStoredSets DEF b
<1>4. index' = Line /\ index' \in Seq(Blocks)
  BY <1>1, <1>3
<1>5. /\ Line' = index' /\ StoredTxs' = ChainTxs(index') /\ MaybeTxs' = ChainTxs(index')
      /\ MarkedTxs' = ChainTxs(index')
  BY <1>1, <1>4, PlainNext
<1>6. PICK n \in Nat : n = Len(index) + 1 /\ height = n - 1
  BY <1>3
<1>7. n \in DOMAIN Line /\ b = Line[n]
  BY <1>3, <1>6
<1>8. IsTable(slab') /\ BookInv' /\ PoolInv' /\ StealthInv' /\ StoreInv'
  <2>1. MarkedTxs' = MarkedTxs \cup TxSet(b)
    BY <1>3, <1>4, <1>5
  <2>2. /\ Line' = Line /\ MaybeTxs = StoredTxs /\ StoredTxs' = StoredTxs
        /\ MaybeTxs' = StoredTxs
    BY <1>3, <1>4, <1>5
  <2>. QED
    BY <1>1, <1>2, <1>6, <1>7, <2>1, <2>2, SpendStep
<1>9. Typed'
  <2>1. incoming' \in Seq(Blocks)
    <3>1. incoming # <<>>
      BY <1>1, <1>2 DEF FlowInv
    <3>. QED
      BY <1>1, <1>3, <3>1
  <2>2. height' \in Nat
    BY <1>1, <1>3
  <2>3. \A c \in DOMAIN rows' : rows'[c] \in Nat
    BY <1>1, <1>2, <1>3 DEF RowOf, Typed
  <2>4. DOMAIN position' = {}
    BY <1>1
  <2>. QED
    BY <1>1, <1>2, <1>4, <1>8, <2>1, <2>2, <2>3, <2>4 DEF Typed
<1>10. FlowInv'
  <2>1. Linked(NoBlock, Line')
    BY <1>2, <1>4, <1>5 DEF FlowInv
  <2>. QED
    BY <1>1, <2>1 DEF FlowInv
<1>11. BranchInv'
  <2>1. PICK k \in Nat : Shared(k)
    BY <1>1, <1>2 DEF BranchInv
  <2>2. Shared(k)'
    <3>1. /\ k \in 0 .. Len(committed.chain) /\ k <= Len(index)
          /\ SubSeq(index, 1, k) = SubSeq(committed.chain, 1, k)
          /\ k = 0 => committed.chain = <<>> /\ Len(index) + Len(incoming) <= 1
      BY <2>1 DEF Shared
    <3>2. Len(index') = Len(index) + 1 /\ Len(index') >= k
      BY <1>1, <1>3, <3>1
    <3>3. SubSeq(index', 1, k) = SubSeq(index, 1, k)
      BY <1>1, <1>3, <3>1
    <3>4. Len(incoming) \in Nat /\ Len(incoming') = Len(incoming) - 1
      <4>1. incoming # <<>>
        BY <1>1, <1>2 DEF FlowInv
      <4>. QED
        BY <1>1, <1>3, <4>1
    <3>5. k = 0 => Len(index') + Len(incoming') <= 1
      BY <1>3, <3>1, <3>2, <3>4
    <3>. QED
      BY <1>1, <3>1, <3>2, <3>3, <3>5 DEF Shared
  <2>. QED
    BY <2>2 DEF BranchInv
<1>. QED
  BY <1>8, <1>9, <1>10, <1>11 DEF LiveInv

\* insert marks what the block spends.
LEMMA InsertBlockKeeps ==
    ASSUME ValidBlocks, LiveInv, NEW i \in DOMAIN position, InsertBlock(i), Live'
    PROVE  LiveInv'
<1> DEFINE b == incoming[i]
           h == height + i - 1
<1>1. /\ phase = "importing" /\ Pushed(i) /\ ~Inserted(i)
      /\ \A p \in BlockPoints(b) : CanSpend(slab, p, h)
      /\ slab' = SpendAll(slab, BlockPoints(b), h) /\ rows' = RowOf(b, h)
      /\ position' = [position EXCEPT ![i] = @ + 1] /\ phase' = phase
      /\ index' = index /\ incoming' = incoming /\ height' = height
      /\ pool' = pool /\ stale' = stale /\ stealth' = stealth /\ fork' = fork
      /\ left' = left
      /\ outgoing' = outgoing /\ committed' = committed
  BY DEF InsertBlock, indexVars, Live
<1>2. Typed /\ FlowInv /\ BookInv /\ PoolInv /\ StealthInv /\ StoreInv /\ BranchInv
  BY DEF LiveInv
<1>3. /\ index \in Seq(Blocks) /\ incoming \in Seq(Blocks)
      /\ height = Len(index) /\ Len(index) \in Nat
      /\ DOMAIN position = 1 .. Len(incoming) /\ position \in [1 .. Len(incoming) -> Nat]
      /\ DOMAIN incoming = 1 .. Len(incoming) /\ Len(incoming) \in Nat
  BY <1>1, <1>2 DEF Typed, FlowInv
<1>4. b \in Blocks /\ i \in DOMAIN incoming /\ i \in Nat \ {0}
  BY <1>3
<1>5. Len(TxsOf[b]) \in Nat /\ TxSet(b) \subseteq Txs
  BY <1>4, BlockHas
<1>6. position[i] = Len(TxsOf[b])
  BY <1>1, <1>3, <1>5 DEF Pushed, Inserted
<1>7. Line = index \o incoming /\ Line' = Line /\ Settled' = Settled
  BY <1>1 DEF Line, Added, Settled, Popped
<1>8. position' \in [1 .. Len(incoming) -> Nat] /\ position'[i] = position[i] + 1
      /\ \A n \in 1 .. Len(incoming) : n # i => position'[n] = position[n]
  BY <1>1, <1>3, SMTT(30)
<1>9. PICK n \in Nat : n = Len(index) + i /\ h = n - 1
  BY <1>3, <1>4
<1>10. n \in DOMAIN Line /\ b = Line[n]
  <2>1. \A m \in DOMAIN incoming :
           Len(index) + m \in DOMAIN (index \o incoming)
           /\ (index \o incoming)[Len(index) + m] = incoming[m]
    BY <1>3, MoreBlocks
  <2>. QED
    BY <1>4, <1>7, <1>9, <2>1
<1>11. rows' = RowOf(b, h) /\ h \in Nat /\ b = incoming[i]
  BY <1>1, <1>3, <1>4
<1>. HIDE DEF b, h
<1>12. ImportedTxs' = ImportedTxs
  <2>1. ASSUME NEW tx, NEW m \in Nat, NEW j \in Nat, Has(incoming, m, j, tx)
        PROVE  j <= position'[m] <=> j <= position[m]
    <3>1. m \in 1 .. Len(incoming) /\ j \in 1 .. Len(TxsOf[incoming[m]])
      BY <1>3, <2>1, HasIs
    <3>2. CASE m = i
      BY <1>5, <1>6, <1>8, <1>11, <3>1, <3>2
    <3>. QED
      BY <1>8, <3>1, <3>2
  <2>. QED
    BY <1>1, <2>1 DEF ImportedTxs
<1>13. ASSUME NEW m \in DOMAIN incoming PROVE Inserted(m)' <=> m = i \/ Inserted(m)
  <2>1. CASE m # i
    BY <1>1, <1>3, <1>8, <2>1 DEF Inserted
  <2>2. CASE m = i
    BY <1>1, <1>5, <1>6, <1>8, <1>11, <2>2 DEF Inserted
  <2>. QED
    BY <2>1, <2>2
<1>14. InsertedTxs' = InsertedTxs \cup TxSet(b)
  <2>1. ASSUME NEW tx \in InsertedTxs' PROVE tx \in InsertedTxs \cup TxSet(b)
    BY <1>1, <1>11, <1>13 DEF InsertedTxs
  <2>2. ASSUME NEW tx \in InsertedTxs \cup TxSet(b) PROVE tx \in InsertedTxs'
    <3>1. tx \in Txs
      BY <1>5, <2>2 DEF InsertedTxs
    <3>2. PICK m \in DOMAIN incoming : Inserted(m)' /\ tx \in TxSet(incoming[m])
      BY <1>4, <1>11, <1>13, <2>2 DEF InsertedTxs
    <3>3. m \in Nat
      BY <1>3
    <3>. QED
      BY <1>1, <3>1, <3>2, <3>3 DEF InsertedTxs
  <2>. QED
    BY <2>1, <2>2
<1>15. /\ StoredTxs' = StoredTxs /\ MaybeTxs = StoredTxs /\ MaybeTxs' = StoredTxs
       /\ MarkedTxs' = MarkedTxs \cup TxSet(b)
  BY <1>1, <1>7, <1>12, <1>14 DEF StoredTxs, MaybeTxs, MarkedTxs
<1>16. IsTable(slab') /\ BookInv' /\ PoolInv' /\ StealthInv' /\ StoreInv'
  BY <1>1, <1>2, <1>7, <1>9, <1>10, <1>15, SpendStep
<1>17. Typed'
  <2>1. \A c \in DOMAIN rows' : rows'[c] \in Nat
    BY <1>2, <1>11 DEF RowOf, Typed
  <2>. QED
    BY <1>1, <1>2, <1>8, <1>16, <2>1 DEF Typed
<1>18. FlowInv'
  BY <1>1, <1>2, <1>7, <1>8 DEF FlowInv
<1>19. BranchInv'
  BY <1>1 DEF BranchInv
<1>. QED
  BY <1>16, <1>17, <1>18, <1>19 DEF LiveInv

\* Of the top block, the transactions down to one are popped.
LEMMA PopMore ==
    ASSUME index \in Seq(Blocks), index # <<>>, phase = "unwinding", phase' = "unwinding",
           index' = index, left \in Nat \ {0}, left' = left - 1,
           left <= Len(TxsOf[Last(index)]),
           NEW tx, tx = TxsOf[Last(index)][left]
    PROVE  /\ Has(index, Len(index), left, tx) /\ tx \notin Popped
           /\ Popped' = Popped \cup {tx} /\ tx \in ChainTxs(index)
<1>1. /\ Len(index) \in Nat \ {0} /\ DOMAIN index = 1 .. Len(index)
      /\ Last(index) = index[Len(index)] /\ Last(index) \in Blocks
  BY DEF Last
<1>2. PICK b \in Blocks : b = Last(index)
  BY <1>1
<1>3. /\ Len(TxsOf[b]) \in Nat /\ DOMAIN TxsOf[b] = 1 .. Len(TxsOf[b])
      /\ \A i, j \in DOMAIN TxsOf[b] : TxsOf[b][i] = TxsOf[b][j] => i = j
  BY BlockHas
<1>4. left \in DOMAIN TxsOf[b]
  BY <1>2, <1>3
<1>5. Has(index, Len(index), left, tx)
  BY <1>1, <1>2, <1>4 DEF Has
<1>6. /\ Popped = {TxsOf[b][i] : i \in {i \in DOMAIN TxsOf[b] : i > left}}
      /\ Popped' = {TxsOf[b][i] : i \in {i \in DOMAIN TxsOf[b] : i > left - 1}}
  BY <1>2 DEF Popped
<1>7. \A i \in DOMAIN TxsOf[b] : i > left - 1 <=> i > left \/ i = left
  BY <1>3
<1>8. Popped' = Popped \cup {tx}
  BY <1>2, <1>4, <1>6, <1>7
<1>9. tx \notin Popped
  <2>1. ASSUME NEW i \in DOMAIN TxsOf[b], i > left, tx = TxsOf[b][i] PROVE FALSE
    <3>1. i = left
      BY <1>2, <1>3, <1>4, <2>1
    <3>. QED
      BY <2>1, <3>1
  <2>. QED
    BY <1>6, <2>1
<1>10. tx \in ChainTxs(index)
  BY <1>1, <1>5, ChainHas
<1>. QED
  BY <1>5, <1>8, <1>9, <1>10

\* pop takes back the last transaction left of the top block.
LEMMA PopTransactionKeeps ==
    ASSUME ValidBlocks, ChainAssumption, LiveInv, PopTransaction, Live'
    PROVE  LET tx == TxsOf[Last(index)][left]
           IN  /\ LiveInv' /\ tx \in ConfirmedIn(slab) /\ Line' = Line
               /\ Has(Line, Len(index), left, tx)
               /\ ConfirmedIn(slab') = ConfirmedIn(slab) \ {tx}
<1> DEFINE tx == TxsOf[Last(index)][left]
<1>1. /\ phase = "unwinding" /\ left > 0 /\ left' = left - 1
      /\ slab' = UnspendAll(Unconfirm(slab, tx), PointsOf(tx))
      /\ pool' = PooledMore(tx) /\ stale' = stale /\ phase' = phase
      /\ index' = index /\ rows' = rows /\ stealth' = stealth /\ incoming' = incoming
      /\ height' = height /\ position' = position /\ fork' = fork
      /\ outgoing' = outgoing /\ committed' = committed
  BY DEF PopTransaction, Live
<1>2. Typed /\ FlowInv /\ BookInv /\ PoolInv /\ StealthInv /\ StoreInv /\ BranchInv
  BY DEF LiveInv
<1>3. /\ index \in Seq(Blocks) /\ fork \in Nat /\ left \in Nat \ {0}
      /\ fork < Top /\ left <= Len(TxsOf[Last(index)])
  BY <1>1, <1>2 DEF Typed, FlowInv
<1>4. index # <<>>
  BY <1>3 DEF Top
<1>5. /\ Has(index, Len(index), left, tx) /\ tx \notin Popped
      /\ Popped' = Popped \cup {tx} /\ tx \in ChainTxs(index)
  <2>. HIDE DEF tx
  <2>1. tx = TxsOf[Last(index)][left]
    BY DEF tx
  <2>. QED
    BY <1>1, <1>3, <1>4, <2>1, PopMore
<1>. HIDE DEF tx
<1>6. /\ Line = index /\ Line' = index /\ Settled = ChainTxs(index) \ Popped
      /\ Settled' = Settled \ {tx}
  <2>1. Added = <<>> /\ Added' = <<>>
    BY <1>1 DEF Added
  <2>2. Line = index /\ Line' = index
    BY <1>1, <1>3, <2>1 DEF Line
  <2>. QED
    BY <1>1, <1>5, <2>2 DEF Settled
<1>7. /\ StoredTxs = Settled /\ MaybeTxs = Settled /\ MarkedTxs = Settled
      /\ StoredTxs' = Settled' /\ MaybeTxs' = Settled' /\ MarkedTxs' = Settled'
  BY <1>1 DEF StoredTxs, MaybeTxs, MarkedTxs
<1>8. tx \in Settled /\ tx \in Txs /\ IsChain(index) /\ IsTable(slab)
  BY <1>2, <1>3, <1>5, <1>6, LineIs, HasIs DEF Typed
<1>9. PICK c, s, t, stored : c = index /\ s = slab /\ t = slab' /\ stored = Settled
  OBVIOUS
<1>10. Placed(s, c, stored, stored) /\ Marked(s, c, stored) /\ Ordered(c, stored)
  BY <1>2, <1>6, <1>7, <1>9 DEF BookInv
<1>11. /\ IsTable(t) /\ DOMAIN t = DOMAIN s
       /\ ConfirmedIn(t) = ConfirmedIn(s) \ {tx} /\ tx \in ConfirmedIn(s)
       /\ Placed(t, c, stored \ {tx}, stored \ {tx})
       /\ Marked(t, c, stored \ {tx}) /\ Ordered(c, stored \ {tx})
  <2>1. Unverified \in Nat
    BY DEF ChainAssumption
  <2>2. PICK n, i : Has(c, n, i, tx)
    BY <1>5, <1>9
  <2>3. IsChain(c) /\ IsTable(s) /\ tx \in stored
    BY <1>8, <1>9
  <2>4. t = UnspendAll(Unconfirm(s, tx), PointsOf(tx))
    BY <1>1, <1>9
  <2>5. PICK u, spenders : u = tx /\ spenders = stored
    OBVIOUS
  <2>6. /\ Has(c, n, i, u) /\ u \in stored /\ t = UnspendAll(Unconfirm(s, u), PointsOf(u))
        /\ Marked(s, c, spenders) /\ Ordered(c, spenders)
    BY <1>10, <2>2, <2>3, <2>4, <2>5
  <2>7. Unverified \in Nat /\ IsChain(c) /\ IsTable(s) /\ Placed(s, c, stored, stored)
    BY <1>10, <2>1, <2>3
  <2> DEFINE w == UnspendAll(Unconfirm(s, u), PointsOf(u))
  <2>8. /\ IsTable(w) /\ DOMAIN w = DOMAIN s
        /\ ConfirmedIn(w) = ConfirmedIn(s) \ {u} /\ u \in ConfirmedIn(s)
        /\ Placed(w, c, stored \ {u}, stored \ {u})
        /\ Marked(w, c, spenders \ {u}) /\ Ordered(c, spenders \ {u})
    BY <2>6, <2>7, UnspendKeeps
  <2>9. t = w
    BY <2>6
  <2>. HIDE DEF w
  <2>. QED
    BY <2>5, <2>8, <2>9
<1>12. BookInv'
  BY <1>1, <1>6, <1>7, <1>9, <1>11 DEF BookInv
<1>13. pool \in [Txs -> Nat]
  BY <1>2 DEF Typed
<1>14. /\ pool' \in [Txs -> Nat] /\ pool'[tx] = pool[tx] + 1
       /\ \A u \in Txs : u # tx => pool'[u] = pool[u]
  BY <1>1, <1>8, <1>13 DEF PooledMore
<1>15. ASSUME NEW u \in Txs
       PROVE  RestAt(pool', t, stale', u)
  <2>1. RestAt(pool, s, stale, u) /\ stale' = stale
    BY <1>1, <1>2, <1>9 DEF PoolInv
  <2>2. CASE u = tx
    <3>1. Waits(t, tx) /\ ~Waits(s, tx)
      BY <1>11 DEF ConfirmedIn, Waits
    <3>2. tx \notin stale => pool[tx] = 0
      BY <2>1, <2>2, <3>1 DEF RestAt
    <3>. QED
      BY <1>13, <1>14, <2>1, <2>2, <3>1, <3>2 DEF RestAt, Waits
  <2>3. CASE u # tx
    <3>1. Waits(t, u) <=> Waits(s, u)
      BY <1>11, <2>3 DEF Waits
    <3>. QED
      BY <1>11, <1>14, <2>1, <2>3, <3>1 DEF RestAt
  <2>. QED
    BY <2>2, <2>3
<1>16. PoolInv'
  BY <1>9, <1>15 DEF PoolInv
<1>17. StealthInv'
  BY <1>1, <1>2, <1>6, <1>7 DEF StealthInv
<1>18. StoreInv'
  BY <1>1, <1>2, <1>6, <1>9, <1>11 DEF StoreInv
<1>19. Typed'
  <2>1. left' \in Nat
    BY <1>1, <1>3
  <2>2. IsTable(slab') /\ pool' \in [Txs -> Nat]
    BY <1>9, <1>11, <1>14
  <2>. QED
    BY <1>1, <1>2, <2>1, <2>2 DEF Typed
<1>20. FlowInv'
  <2>1. left' <= Len(TxsOf[Last(index')])
    <3>1. Len(TxsOf[Last(index)]) \in Nat
      <4>1. Last(index) \in Blocks
        BY <1>3, <1>4 DEF Last
      <4>. QED
        BY <4>1, BlockHas
    <3>. QED
      BY <1>1, <1>3, <3>1
  <2>2. Linked(NoBlock, Line') /\ Top' = Top
    BY <1>1, <1>2, <1>6 DEF FlowInv, Top
  <2>. QED
    BY <1>1, <1>2, <2>1, <2>2 DEF FlowInv
<1>21. BranchInv'
  BY <1>1 DEF BranchInv
<1>22. tx \in ConfirmedIn(slab) /\ ConfirmedIn(slab') = ConfirmedIn(slab) \ {tx}
  BY <1>9, <1>11
<1>. QED
  BY <1>5, <1>6, <1>12, <1>16, <1>17, <1>18, <1>19, <1>20, <1>21, <1>22 DEF LiveInv, tx

\* pop removes the block itself.
LEMMA PopBlockKeeps ==
    ASSUME ValidBlocks, LiveInv, PopBlock
    PROVE  LiveInv'
<1>1. /\ phase = "unwinding" /\ left = 0 /\ phase' = "popping"
      /\ index' = SubSeq(index, 1, Top) /\ outgoing' = <<Last(index)>> \o outgoing
      /\ rows' = rows /\ slab' = slab /\ pool' = pool /\ stale' = stale /\ stealth' = stealth
      /\ incoming' = incoming /\ height' = height /\ position' = position
      /\ fork' = fork /\ left' = left /\ committed' = committed
  BY DEF PopBlock, tableVars, indexVars, writeVars
<1>2. Typed /\ FlowInv /\ BookInv /\ PoolInv /\ StealthInv /\ StoreInv /\ BranchInv
  BY DEF LiveInv
<1>3. /\ index \in Seq(Blocks) /\ outgoing \in Seq(Blocks) /\ fork \in Nat
      /\ Len(index) \in Nat /\ fork < Top /\ index \o outgoing = committed.chain
  BY <1>1, <1>2 DEF Typed, FlowInv
<1>4. PICK c, b : c = index' /\ b = Last(index)
  OBVIOUS
<1>5. /\ c \in Seq(Blocks) /\ b \in Blocks /\ <<b>> \in Seq(Blocks) /\ index = c \o <<b>>
      /\ Len(c) = Top /\ Len(c) \in Nat /\ Len(c) + 1 = Len(index)
  <2>1. Top \in Nat /\ Top + 1 = Len(index) /\ Len(index) > 0
    BY <1>3 DEF Top
  <2>2. b = index[Len(index)] /\ b \in Blocks
    BY <1>3, <1>4, <2>1 DEF Last
  <2>3. c = SubSeq(index, 1, Top) /\ c \in Seq(Blocks) /\ Len(c) = Top
    BY <1>1, <1>3, <1>4, <2>1
  <2>4. index = c \o <<b>>
    <3>1. SubSeq(index, 1, Len(index)) = SubSeq(index, 1, Len(index) - 1) \o <<index[Len(index)]>>
      BY <1>3, <2>1, SubSeqRecursiveSecond
    <3>2. SubSeq(index, 1, Len(index)) = index
      BY <1>3
    <3>. QED
      BY <2>2, <2>3, <3>1, <3>2 DEF Top
  <2>. QED
    BY <2>1, <2>2, <2>3, <2>4
<1>6. Line = index /\ Settled = ChainTxs(index) \ TxSet(b)
  <2>1. Added = <<>>
    BY <1>1 DEF Added
  <2>2. Popped = TxSet(b)
    <3>1. DOMAIN TxsOf[b] = 1 .. Len(TxsOf[b])
          /\ TxSet(b) = {TxsOf[b][i] : i \in DOMAIN TxsOf[b]}
          /\ Len(TxsOf[b]) \in Nat
      BY <1>5, BlockHas
    <3>2. \A i \in DOMAIN TxsOf[b] : i > left
      BY <1>1, <3>1
    <3>3. Popped = {TxsOf[b][i] : i \in {i \in DOMAIN TxsOf[b] : i > left}}
      BY <1>1, <1>4 DEF Popped
    <3>. QED
      BY <3>1, <3>2, <3>3
  <2>. QED
    BY <1>3, <2>1, <2>2 DEF Line, Settled
<1>7. IsChain(index)
  BY <1>2, <1>6, LineIs
<1>8. ChainTxs(index) = ChainTxs(c) \cup TxSet(b)
  <2>1. PICK d \in Seq(Blocks) : d = <<b>>
    BY <1>5
  <2>2. ChainTxs(c \o d) = ChainTxs(c) \cup ChainTxs(d)
    BY <1>5, MoreTxs
  <2>3. ToSet(<<b>>) = {b}
    BY DEF ToSet
  <2>4. ChainTxs(<<b>>) = TxSet(b)
    BY <2>3 DEF ChainTxs
  <2>. QED
    BY <1>5, <2>1, <2>2, <2>4
<1>9. ASSUME NEW tx \in ChainTxs(c), tx \in TxSet(b) PROVE FALSE
  <2>1. PICK n, i \in Nat : Has(c, n, i, tx)
    BY <1>5, ChainHas
  <2>2. n \in 1 .. Len(c)
    BY <1>5, <2>1, HasIs
  <2>3. Has(index, n, i, tx)
    BY <1>5, <2>1, MoreHas
  <2>4. PICK j \in DOMAIN TxsOf[b] : TxsOf[b][j] = tx
    BY <1>5, <1>9, BlockHas
  <2>5. Len(index) \in DOMAIN index /\ index[Len(index)] = b
    BY <1>3, <1>4, <1>5 DEF Last
  <2>6. Has(index, Len(index), j, tx)
    BY <2>4, <2>5 DEF Has
  <2>7. n = Len(index)
    BY <1>7, <2>3, <2>6, OnePlace
  <2>. QED
    BY <1>5, <2>2, <2>7
<1>10. Settled = ChainTxs(c)
  BY <1>6, <1>8, <1>9
<1>11. /\ StoredTxs = ChainTxs(c) /\ MaybeTxs = ChainTxs(c) /\ MarkedTxs = ChainTxs(c)
  BY <1>1, <1>10 DEF StoredTxs, MaybeTxs, MarkedTxs
<1>12. /\ Line' = c /\ StoredTxs' = ChainTxs(c) /\ MaybeTxs' = ChainTxs(c)
       /\ MarkedTxs' = ChainTxs(c)
  BY <1>1, <1>4, <1>5, PlainNext
<1>13. PICK d, s : d = <<b>> /\ s = slab /\ d \in Seq(Blocks) /\ index = c \o d
  BY <1>5
<1>14. BookInv'
  <2>1. /\ Placed(s, c \o d, ChainTxs(c), ChainTxs(c))
        /\ Marked(s, c \o d, ChainTxs(c)) /\ Ordered(c \o d, ChainTxs(c))
    BY <1>2, <1>6, <1>11, <1>13 DEF BookInv
  <2>2. IsChain(c \o d)
    BY <1>7, <1>13
  <2>3. /\ Placed(s, c, ChainTxs(c), ChainTxs(c)) /\ Marked(s, c, ChainTxs(c))
        /\ Ordered(c, ChainTxs(c)) /\ Backed(ChainTxs(c), ChainTxs(c))
    BY <1>5, <1>13, <2>1, <2>2, CutKeeps
  <2>. QED
    BY <1>1, <1>12, <1>13, <2>3 DEF BookInv
<1>15. PoolInv'
  BY <1>1, <1>2 DEF PoolInv
<1>16. StealthInv'
  <2>1. \A n, i, tx : Has(c, n, i, tx) => Has(index, n, i, tx)
    BY <1>5, <1>13, MoreHas
  <2>. QED
    BY <1>1, <1>2, <1>6, <1>11, <1>12, <2>1 DEF StealthInv
<1>17. StoreInv'
  <2>1. ChainTxs(committed.chain) = ChainTxs(index) \cup ChainTxs(outgoing)
    <3>1. ChainTxs(index \o outgoing) = ChainTxs(index) \cup ChainTxs(outgoing)
      BY <1>3, MoreTxs
    <3>. QED
      BY <1>3, <3>1
  <2>. QED
    BY <1>1, <1>2, <1>6, <1>12, <2>1 DEF StoreInv
<1>18. outgoing' \in Seq(Blocks) /\ index' \o outgoing' = committed'.chain
  <2>1. outgoing' = d \o outgoing
    BY <1>1, <1>4, <1>13
  <2>2. c \o (d \o outgoing) = (c \o d) \o outgoing
    BY <1>3, <1>5, <1>13, ConcatAssociative, SMTT(30)
  <2>3. c \o outgoing' = index \o outgoing
    BY <1>13, <2>1, <2>2
  <2>4. outgoing' \in Seq(Blocks)
    BY <1>3, <1>13, <2>1
  <2>. QED
    BY <1>1, <1>3, <1>4, <2>3, <2>4
<1>19. Typed'
  BY <1>1, <1>2, <1>4, <1>5, <1>18 DEF Typed
<1>20. FlowInv'
  <2>1. Linked(NoBlock, c)
    <3>1. /\ DOMAIN c = 1 .. Len(c)
          /\ \A m \in DOMAIN c : m \in DOMAIN (c \o d) /\ (c \o d)[m] = c[m]
      BY <1>5, <1>13, MoreBlocks
    <3>2. Linked(NoBlock, c \o d)
      BY <1>7, <1>13 DEF IsChain
    <3>3. \A m \in DOMAIN c : m # 1 => m - 1 \in DOMAIN c
      BY <1>5, <3>1
    <3>. QED
      BY <3>1, <3>2, <3>3 DEF Linked
  <2>2. fork <= Len(c) - 1
    BY <1>3, <1>5
  <2>3. Top' = Len(c) - 1
    BY <1>4 DEF Top
  <2>. QED
    BY <1>1, <1>12, <1>18, <2>1, <2>2, <2>3 DEF FlowInv
<1>21. BranchInv'
  BY <1>1 DEF BranchInv
<1>. QED
  BY <1>14, <1>15, <1>16, <1>17, <1>19, <1>20, <1>21 DEF LiveInv

-----------------------------------------------------------------------------
\* The inductive invariant holds.

\* The tables of create.
LEMMA InitInv ==
    ASSUME Init
    PROVE  Inv
<1>1. /\ slab = <<>> /\ index = <<>> /\ rows = <<>> /\ pool = [tx \in Txs |-> 0]
      /\ stealth = {} /\ stale = {} /\ phase = "idle" /\ incoming = <<>> /\ height = 0 /\ position = <<>>
      /\ fork = 0 /\ left = 0 /\ outgoing = <<>>
      /\ committed = [chain |-> <<>>, mempool |-> {}]
  BY DEF Init, TableInit
<1>2. index \in Seq(Blocks) /\ ChainTxs(index) = {}
  BY <1>1 DEF ChainTxs, ToSet
<1>3. /\ Line = index /\ StoredTxs = {} /\ MaybeTxs = {} /\ MarkedTxs = {}
  BY <1>1, <1>2, PlainIs
<1>4. DOMAIN slab = {} /\ ConfirmedIn(slab) = {} /\ Mempool(pool, index) = {}
  BY <1>1 DEF ConfirmedIn, Pooled, Mempool
<1>5. Typed
  <2>1. DOMAIN rows = {} /\ DOMAIN position = {} /\ IsTable(slab)
    BY <1>1 DEF IsTable
  <2>. QED
    BY <1>1, <1>2, <2>1 DEF Typed
<1>6. FlowInv
  <2>1. DOMAIN index = {}
    BY <1>1
  <2>. QED
    BY <1>1, <1>3, <1>4, <2>1 DEF FlowInv, Linked
<1>7. BookInv
  BY <1>3, <1>4 DEF BookInv, Placed, Marked, Ordered, Backed
<1>8. PoolInv
  BY <1>1, <1>4 DEF PoolInv, RestAt, Waits
<1>9. StealthInv
  BY <1>3 DEF StealthInv
<1>10. StoreInv
  <2>1. ChainTxs(committed.chain) = {} /\ committed.mempool = {}
    BY <1>1, <1>2
  <2>. QED
    BY <1>4, <2>1 DEF StoreInv
<1>11. BranchInv
  BY <1>1 DEF BranchInv
<1>. QED
  BY <1>5, <1>6, <1>7, <1>8, <1>9, <1>10, <1>11 DEF Inv, LiveInv

\* A write that failed does not go on.
LEMMA FailedStays ==
    ASSUME Next, ~Live
    PROVE  ~Live'
BY DEF Next, Call, Work, Live, PushTx, PushBlock, Reorganize, BeginInsert, LinkBlock,
       PushTransaction, CompleteBlock, Commit, ReadBlock, PopTransaction, PopBlock,
       PoppedAll, InsertTransaction, InsertBlock, EndInsert

\* Nothing happens.
LEMMA StutterKeeps ==
    ASSUME UNCHANGED vars, Inv
    PROVE  Inv'
<1>1. /\ slab' = slab /\ index' = index /\ rows' = rows /\ pool' = pool /\ stealth' = stealth
      /\ phase' = phase /\ incoming' = incoming /\ height' = height /\ position' = position
      /\ fork' = fork /\ left' = left /\ outgoing' = outgoing /\ committed' = committed
      /\ stale' = stale
  BY DEF vars, tableVars, indexVars, writeVars
<1>2. Added' = Added /\ Popped' = Popped /\ DealtTxs' = DealtTxs /\ ImportedTxs' = ImportedTxs
      /\ InsertedTxs' = InsertedTxs
  BY <1>1 DEF Added, Popped, DealtTxs, Dealt, ImportedTxs, InsertedTxs, Inserted
<1>3. Line' = Line /\ Settled' = Settled
  BY <1>1, <1>2 DEF Line, Settled
<1>4. StoredTxs' = StoredTxs /\ MaybeTxs' = MaybeTxs /\ MarkedTxs' = MarkedTxs
  BY <1>1, <1>2, <1>3 DEF StoredTxs, MaybeTxs, MarkedTxs
<1>5. Live => Typed /\ FlowInv /\ BookInv /\ PoolInv /\ StealthInv /\ StoreInv /\ BranchInv
  BY DEF Inv, LiveInv
<1>6. Live' <=> Live
  BY <1>1 DEF Live
<1>7. Typed => Typed'
  BY <1>1 DEF Typed
<1>8. FlowInv => FlowInv'
  BY <1>1, <1>3 DEF FlowInv, Top, Pooled, Mempool
<1>9. (BookInv => BookInv') /\ (StealthInv => StealthInv')
  BY <1>1, <1>3, <1>4 DEF BookInv, StealthInv
<1>10. (PoolInv => PoolInv') /\ (StoreInv => StoreInv')
  BY <1>1, <1>3 DEF PoolInv, RestAt, StoreInv
<1>11. BranchInv => BranchInv'
  BY <1>1 DEF BranchInv, Shared
<1>. QED
  BY <1>5, <1>6, <1>7, <1>8, <1>9, <1>10, <1>11 DEF Inv, LiveInv

\* Every step.
LEMMA NextKeeps ==
    ASSUME ValidBlocks, ChecksInputs, Inv, [Next]_vars
    PROVE  Inv'
<1>1. CASE UNCHANGED vars
  BY <1>1, StutterKeeps
<1>2. SUFFICES ASSUME Next, Live' PROVE LiveInv'
  BY <1>1 DEF Inv
<1>3. LiveInv /\ ChainAssumption
  BY <1>2, FailedStays, ChainAssumption DEF Inv
<1>4. CASE \E tx \in Txs : PushTx(tx)
  BY <1>3, <1>4, PushTxKeeps
<1>5. CASE \E b \in Blocks, h \in 0 .. Len(index) : PushBlock(b, h)
  BY <1>3, <1>5, PushBlockKeeps
<1>6. CASE \E f \in Blocks, branch \in Branches : Reorganize(f, branch)
  BY <1>2, <1>3, <1>6, ReorganizeKeeps
<1>7. CASE \E branch \in Branches : BeginInsert(branch)
  BY <1>3, <1>7, BeginInsertKeeps
<1>8. CASE LinkBlock
  BY <1>2, <1>3, <1>8, LinkBlockKeeps
<1>9. CASE \E i \in DOMAIN position : PushTransaction(i)
  BY <1>3, <1>9, PushTransactionKeeps
<1>10. CASE CompleteBlock
  BY <1>2, <1>3, <1>10, CompleteBlockKeeps
<1>11. CASE Commit
  BY <1>3, <1>11, CommitKeeps
<1>12. CASE ReadBlock
  BY <1>2, <1>3, <1>12, ReadBlockKeeps
<1>13. CASE PopTransaction
  BY <1>2, <1>3, <1>13, PopTransactionKeeps
<1>14. CASE PopBlock
  BY <1>3, <1>14, PopBlockKeeps
<1>15. CASE PoppedAll
  BY <1>3, <1>15, PoppedAllKeeps
<1>16. CASE \E i \in DOMAIN position : InsertTransaction(i)
  BY <1>3, <1>16, InsertTransactionKeeps
<1>17. CASE \E i \in DOMAIN position : InsertBlock(i)
  BY <1>2, <1>3, <1>17, InsertBlockKeeps
<1>18. CASE EndInsert
  BY <1>3, <1>18, EndInsertKeeps
<1>. QED
  BY <1>2, <1>4, <1>5, <1>6, <1>7, <1>8, <1>9, <1>10, <1>11, <1>12, <1>13, <1>14,
     <1>15, <1>16, <1>17, <1>18 DEF Next, Call, Work

\* However callers push, import and reorganize, and whatever the buckets come to
\* first: unless a write has failed, the slabs tell the places and the spends of
\* the blocks stored so far, and the pool has the rest, beside rows that races
\* left in it.
THEOREM InvIsInvariant ==
    ASSUME ValidBlocks, ChecksInputs
    PROVE  Spec => []Inv
<1>1. Init => Inv
  BY InitInv
<1>2. Inv /\ [Next]_vars => Inv'
  BY NextKeeps
<1>. QED
  BY <1>1, <1>2, PTL DEF Spec

-----------------------------------------------------------------------------
\* What readers find between writes.

\* Between writes, what is stored and marked is what the index has.
LEMMA QuietIs ==
    ASSUME Inv, phase = "idle"
    PROVE  /\ IsChain(index) /\ IsTable(slab)
           /\ Line = index /\ StoredTxs = ChainTxs(index)
           /\ Placed(slab, index, ChainTxs(index), ChainTxs(index))
           /\ Marked(slab, index, ChainTxs(index))
           /\ PoolInv /\ StealthInv
<1>1. Typed /\ FlowInv /\ BookInv /\ PoolInv /\ StealthInv
  BY DEF Inv, Live, LiveInv
<1>2. index \in Seq(Blocks)
  BY <1>1 DEF Typed
<1>3. /\ Line = index /\ StoredTxs = ChainTxs(index) /\ MaybeTxs = ChainTxs(index)
      /\ MarkedTxs = ChainTxs(index)
  BY <1>2, PlainIs
<1>4. IsChain(index)
  BY <1>1, <1>3, LineIs
<1>. QED
  BY <1>1, <1>3, <1>4 DEF BookInv, Typed

\* Heights and places of a chain.
LEMMA HeightHas ==
    ASSUME NEW c \in Seq(Blocks), NEW h \in Heights(c), NEW tx \in TxSet(c[h + 1])
    PROVE  h \in Nat /\ h + 1 \in Nat /\ \E i \in Nat : Has(c, h + 1, i, tx)
<1>1. Len(c) \in Nat /\ DOMAIN c = 1 .. Len(c) /\ \A n \in 1 .. Len(c) : c[n] \in Blocks
  BY ElementsOf
<1>2. h \in Nat /\ h < Len(c)
  BY <1>1 DEF Heights
<1>3. h + 1 \in DOMAIN c /\ c[h + 1] \in Blocks
  BY <1>1, <1>2
<1>4. PICK b \in Blocks : b = c[h + 1]
  BY <1>3
<1>5. /\ Len(TxsOf[b]) \in Nat /\ DOMAIN TxsOf[b] = 1 .. Len(TxsOf[b])
      /\ TxSet(b) = {TxsOf[b][i] : i \in DOMAIN TxsOf[b]}
  BY BlockHas
<1>6. PICK i \in DOMAIN TxsOf[b] : TxsOf[b][i] = tx
  BY <1>4, <1>5
<1>. QED
  BY <1>2, <1>3, <1>4, <1>5, <1>6 DEF Has

\* A place of a chain is at one of its heights.
LEMMA HasHeight ==
    ASSUME NEW c \in Seq(Blocks), NEW n, NEW i, NEW tx, Has(c, n, i, tx)
    PROVE  n - 1 \in Heights(c) /\ tx \in TxSet(c[(n - 1) + 1])
<1>1. n \in 1 .. Len(c) /\ Len(c) \in Nat /\ tx \in TxSet(c[n]) /\ n \in Nat
  BY HasIs
<1>2. n - 1 \in 0 .. Len(c) /\ n - 1 < Len(c) /\ (n - 1) + 1 = n
  BY <1>1
<1>. QED
  BY <1>1, <1>2 DEF Heights

\* The places of a transaction are where the chain has it.
LEMMA PlacesAre ==
    ASSUME ValidBlocks, NEW c, IsChain(c), NEW tx
    PROVE  /\ \A n, i \in Nat : Has(c, n, i, tx) =>
                 [height |-> n - 1, position |-> i - 1] \in Places(c, tx)
           /\ \A place \in Places(c, tx) : \E n, i \in Nat :
                 Has(c, n, i, tx) /\ place = [height |-> n - 1, position |-> i - 1]
<1>0. c \in Seq(Blocks) /\ Len(c) \in Nat /\ DOMAIN c = 1 .. Len(c)
      /\ \A n \in 1 .. Len(c) : c[n] \in Blocks
  BY ElementsOf DEF IsChain
<1>1. ASSUME NEW n \in Nat, NEW i \in Nat, Has(c, n, i, tx)
      PROVE  [height |-> n - 1, position |-> i - 1] \in Places(c, tx)
  <2>1. n - 1 \in Heights(c) /\ n \in 1 .. Len(c) /\ c[n] \in Blocks
        /\ i \in 1 .. Len(TxsOf[c[n]]) /\ Len(TxsOf[c[n]]) \in Nat
    BY <1>0, <1>1, HasHeight, HasIs
  <2>2. i - 1 \in 0 .. MaxWord
    BY <1>1, PlaceIsLow
  <2>3. (n - 1) + 1 = n /\ (i - 1) + 1 = i /\ i - 1 < Len(TxsOf[c[n]])
    BY <1>1, <2>1
  <2>4. TxsOf[c[n]][i] = tx
    BY <1>1 DEF Has
  <2> DEFINE place == [height |-> n - 1, position |-> i - 1]
  <2>5. place \in [height : Heights(c), position : 0 .. MaxWord]
    BY <2>1, <2>2
  <2>6. place.height = n - 1 /\ place.position = i - 1
    OBVIOUS
  <2>. HIDE DEF place
  <2>7. place.position < Len(TxsOf[c[place.height + 1]])
        /\ TxsOf[c[place.height + 1]][place.position + 1] = tx
    BY <2>3, <2>4, <2>6
  <2>8. place \in Places(c, tx)
    BY <2>5, <2>7 DEF Places
  <2>. QED
    BY <2>8 DEF place
<1>2. ASSUME NEW place \in Places(c, tx)
      PROVE  \E n, i \in Nat :
                Has(c, n, i, tx) /\ place = [height |-> n - 1, position |-> i - 1]
  <2>1. /\ place \in [height : Heights(c), position : 0 .. MaxWord]
        /\ place.position < Len(TxsOf[c[place.height + 1]])
        /\ TxsOf[c[place.height + 1]][place.position + 1] = tx
    BY DEF Places
  <2>2. PICK h, p : h = place.height /\ p = place.position
    OBVIOUS
  <2>3. /\ place = [height |-> h, position |-> p] /\ h \in Nat /\ h < Len(c) /\ p \in Nat
    BY <1>0, <2>1, <2>2 DEF Heights
  <2>4. h + 1 \in DOMAIN c /\ c[h + 1] \in Blocks
    BY <1>0, <2>3
  <2>5. DOMAIN TxsOf[c[h + 1]] = 1 .. Len(TxsOf[c[h + 1]]) /\ Len(TxsOf[c[h + 1]]) \in Nat
    BY <2>4, BlockHas
  <2>6. p + 1 \in DOMAIN TxsOf[c[h + 1]]
    BY <2>1, <2>2, <2>3, <2>5
  <2>7. PICK n \in Nat, i \in Nat : n = h + 1 /\ i = p + 1 /\ h = n - 1 /\ p = i - 1
    BY <2>3
  <2>8. Has(c, n, i, tx)
    BY <2>1, <2>2, <2>4, <2>6, <2>7 DEF Has
  <2>. QED
    BY <2>3, <2>7, <2>8
<1>. QED
  BY <1>1, <1>2

\* The slabs of the transactions confirmed are at their places in the index.
LEMMA ConfirmedNow ==
    ASSUME ValidBlocks, Inv
    PROVE  ConfirmedIsChain
<1>1. SUFFICES ASSUME phase = "idle", NEW tx \in Txs
               PROVE  {[height |-> slab[t].height, position |-> slab[t].position] :
                          t \in {t \in DOMAIN slab \cap {tx} : slab[t].position # Unconfirmed}}
                      = Places(index, tx)
  BY Zenon DEF ConfirmedIsChain, Quiet
<1>2. PICK c, s : c = index /\ s = slab
  OBVIOUS
<1>3. IsChain(c) /\ Placed(s, c, ChainTxs(c), ChainTxs(c))
  BY <1>1, <1>2, QuietIs
<1>4. /\ \A n, i \in Nat : Has(c, n, i, tx) =>
            [height |-> n - 1, position |-> i - 1] \in Places(c, tx)
      /\ \A place \in Places(c, tx) : \E n, i \in Nat :
            Has(c, n, i, tx) /\ place = [height |-> n - 1, position |-> i - 1]
  BY <1>3, PlacesAre
<1>5. ASSUME tx \in ConfirmedIn(s)
      PROVE  [height |-> s[tx].height, position |-> s[tx].position] \in Places(c, tx)
  <2>1. PICK n, i \in Nat :
           Has(c, n, i, tx) /\ s[tx].height = n - 1 /\ s[tx].position = i - 1
    BY <1>3, <1>5, Zenon DEF Placed, PlacedAt
  <2>. QED
    BY <1>4, <2>1
<1>6. ASSUME NEW place \in Places(c, tx)
      PROVE  tx \in ConfirmedIn(s) /\ place = [height |-> s[tx].height, position |-> s[tx].position]
  <2>1. PICK n, i \in Nat : Has(c, n, i, tx) /\ place = [height |-> n - 1, position |-> i - 1]
    BY <1>4
  <2>2. tx \in ConfirmedIn(s)
    BY <1>3, <2>1, ChainHas DEF Placed, IsChain
  <2>3. PICK m, j \in Nat :
           Has(c, m, j, tx) /\ s[tx].height = m - 1 /\ s[tx].position = j - 1
    BY <1>3, <2>2, Zenon DEF Placed, PlacedAt
  <2>4. m = n /\ j = i
    BY <1>3, <2>1, <2>3, OnePlace
  <2>. QED
    BY <2>1, <2>2, <2>3, <2>4
<1>. QED
  BY <1>2, <1>5, <1>6 DEF ConfirmedIn

\* The marks are those of the spenders in the index.
LEMMA SpentNow ==
    ASSUME ValidBlocks, Inv
    PROVE  SpentByChain
<1>1. SUFFICES ASSUME phase = "idle", NEW tx \in DOMAIN slab, NEW o \in Outputs(tx)
               PROVE  {slab[tx].spent[o]} \ {NotSpent}
                      = SpentAt(index, [tx |-> tx, index |-> o])
  BY Zenon DEF SpentByChain, Quiet
<1>2. PICK c, s, p : c = index /\ s = slab /\ p = [tx |-> tx, index |-> o]
  OBVIOUS
<1>3. IsChain(c) /\ Marked(s, c, ChainTxs(c)) /\ c \in Seq(Blocks)
  BY <1>1, <1>2, QuietIs DEF IsChain
<1>4. p.tx = tx /\ p.index = o
  BY <1>2
<1>5. ASSUME s[tx].spent[o] # NotSpent
      PROVE  \E u \in ChainTxs(c) : MarkedBy(c, s[tx].spent[o], p, u)
  BY <1>1, <1>2, <1>3, <1>5, Zenon DEF Marked
<1>6. ASSUME s[tx].spent[o] # NotSpent PROVE s[tx].spent[o] \in SpentAt(c, p)
  <2>1. PICK u \in ChainTxs(c) : MarkedBy(c, s[tx].spent[o], p, u)
    BY <1>5, <1>6
  <2>2. PICK n, i \in Nat : Has(c, n, i, u) /\ s[tx].spent[o] = n - 1
    BY <2>1 DEF MarkedBy
  <2>3. n - 1 \in Heights(c) /\ u \in TxSet(c[(n - 1) + 1]) /\ p \in PointsOf(u)
    BY <1>3, <2>1, <2>2, HasHeight DEF MarkedBy
  <2>. QED
    BY <2>2, <2>3 DEF SpentAt
<1>7. ASSUME NEW h \in SpentAt(c, p) PROVE s[tx].spent[o] # NotSpent /\ h = s[tx].spent[o]
  <2>1. h \in Heights(c) /\ \E u \in TxSet(c[h + 1]) : p \in PointsOf(u)
    BY DEF SpentAt
  <2>2. PICK u \in TxSet(c[h + 1]) : p \in PointsOf(u)
    BY <2>1
  <2>3. PICK i \in Nat : h \in Nat /\ h + 1 \in Nat /\ Has(c, h + 1, i, u)
    BY <1>3, <2>1, HeightHas
  <2>4. u \in ChainTxs(c)
    BY <1>3, <2>3, ChainHas
  <2>5. s[tx].spent[o] # NotSpent
    BY <1>3, <1>4, <2>2, <2>4, Zenon DEF Marked, IsMarked
  <2>6. PICK v \in ChainTxs(c) : MarkedBy(c, s[tx].spent[o], p, v)
    BY <1>5, <2>5
  <2>7. PICK n, j \in Nat : Has(c, n, j, v) /\ s[tx].spent[o] = n - 1 /\ p \in PointsOf(v)
    BY <2>6 DEF MarkedBy
  <2>8. v = u
    BY <1>3, <2>2, <2>3, <2>7, OneSpender
  <2>9. n = h + 1
    BY <1>3, <2>3, <2>7, <2>8, OnePlace
  <2>. QED
    BY <2>3, <2>5, <2>7, <2>9
<1>. QED
  BY <1>2, <1>6, <1>7

\* The pool has what is not confirmed.
LEMMA PoolNow ==
    ASSUME Inv
    PROVE  PoolHasRest
<1>1. SUFFICES ASSUME phase = "idle", NEW tx \in Txs
               PROVE  LET waits == tx \in DOMAIN slab \ ChainTxs(index)
                      IN  /\ waits => pool[tx] > 0
                          /\ tx \notin stale => pool[tx] = IF waits THEN 1 ELSE 0
  BY Zenon DEF PoolHasRest, Quiet
<1>2. PoolInv /\ Placed(slab, index, ChainTxs(index), ChainTxs(index))
  BY <1>1, QuietIs
<1>3. ConfirmedIn(slab) = ChainTxs(index)
  BY <1>2 DEF Placed
<1>4. Waits(slab, tx) <=> tx \in DOMAIN slab \ ChainTxs(index)
  BY <1>3 DEF Waits
<1>. QED
  BY <1>2, <1>4 DEF PoolInv, RestAt

\* The stealth rows of the index were added with its transactions.
LEMMA StealthNow ==
    ASSUME Inv
    PROVE  StealthIsFound
<1>1. SUFFICES ASSUME phase = "idle", NEW h \in Heights(index), h >= IndexStart,
                      NEW tx \in TxSet(index[h + 1])
               PROVE  StealthRows(tx, h) \subseteq stealth
  BY Zenon DEF StealthIsFound, Quiet
<1>2. PICK c : c = index
  OBVIOUS
<1>3. /\ c \in Seq(Blocks) /\ StealthInv /\ Line = c /\ StoredTxs = ChainTxs(c)
  BY <1>1, <1>2, QuietIs DEF IsChain
<1>4. PICK i \in Nat : h \in Nat /\ h + 1 \in Nat /\ Has(c, h + 1, i, tx)
  BY <1>1, <1>2, <1>3, HeightHas
<1>5. tx \in ChainTxs(c)
  BY <1>3, <1>4, ChainHas
<1>6. (h + 1) - 1 = h
  BY <1>4
<1>7. PICK n \in Nat : n = h + 1 /\ n - 1 = h
  BY <1>4, <1>6
<1>8. Has(Line, n, i, tx) /\ tx \in StoredTxs /\ n - 1 >= IndexStart
  BY <1>1, <1>3, <1>4, <1>5, <1>7
<1>9. StealthRows(tx, n - 1) \subseteq stealth
  BY <1>3, <1>8, Zenon DEF StealthInv
<1>. QED
  BY <1>7, <1>9

\* What is popped is handed out.
LEMMA OutgoingNow ==
    ASSUME Inv
    PROVE  OutgoingIsCut
BY DEF Inv, Live, LiveInv, FlowInv, OutgoingIsCut

\* A transaction is confirmed at a height and position exactly when the block
\* of that height in the index has it there.
THEOREM ConfirmedIsChainHolds ==
    ASSUME ValidBlocks, ChecksInputs
    PROVE  Spec => []ConfirmedIsChain
BY InvIsInvariant, ConfirmedNow, PTL

\* An output is marked spent at the height of the block of the index that
\* spends it, and is not marked when none does.
THEOREM SpentByChainHolds ==
    ASSUME ValidBlocks, ChecksInputs
    PROVE  Spec => []SpentByChain
BY InvIsInvariant, SpentNow, PTL

\* Whatever rows races of parallel unlinks leave, the unconfirmed table has a
\* row of each transaction stored that is in no block of the index.  Where no
\* race left a row of a transaction it has that one row, or none.
THEOREM PoolHasRestHolds ==
    ASSUME ValidBlocks, ChecksInputs
    PROVE  Spec => []PoolHasRest
BY InvIsInvariant, PoolNow, PTL

\* A scan of the stealth table misses no payment of the indexed blocks.
THEOREM StealthIsFoundHolds ==
    ASSUME ValidBlocks, ChecksInputs
    PROVE  Spec => []StealthIsFound
BY InvIsInvariant, StealthNow, PTL

\* While blocks are popped, the index and the blocks handed out are the chain
\* before the reorganization.
THEOREM OutgoingIsCutHolds ==
    ASSUME ValidBlocks, ChecksInputs
    PROVE  Spec => []OutgoingIsCut
BY InvIsInvariant, OutgoingNow, PTL

-----------------------------------------------------------------------------
\* The cache of unspent outputs.

\* What an entry holds of a transaction stored is unspent.
Fresh(c, s) ==
    \A e \in c : /\ e.tx \in DOMAIN s /\ e.left \subseteq Outputs(e.tx)
                 /\ \A o \in e.left : s[e.tx].spent[o] = NotSpent
CacheInv == Live => Fresh(cache, slab)

\* An add keeps entries, drops entries, and may add one of the transaction.
LEMMA CacheAddIs ==
    ASSUME NEW c, NEW n, NEW tx, NEW h, NEW confirmed,
           NEW e \in CacheAdd(c, n, tx, h, confirmed)
    PROVE  e \in c \/ (e.tx = tx /\ e.left = Outputs(tx))
<1> DEFINE kept == BeforeWrap(c, n)
           room == IF Cardinality(kept) >= CacheCapacity THEN Evict(kept) ELSE kept
           next == NextSequence(tx, n)
           entry == [tx |-> tx, height |-> h, confirmed |-> confirmed,
                     left |-> Outputs(tx), sequence |-> next]
<1>1. e \in c \/ e \in room \/ e = entry
  BY Zenon DEF CacheAdd
<1>2. kept \subseteq c
  BY DEF BeforeWrap
<1>3. Evict(kept) \subseteq kept
  BY DEF Evict
<1>4. room \subseteq kept
  BY <1>3
<1>5. entry.tx = tx /\ entry.left = Outputs(tx)
  OBVIOUS
<1>. QED
  BY <1>1, <1>2, <1>4, <1>5

\* A transaction that nothing of the chain spends is stored.
LEMMA StoreKeepsFresh ==
    ASSUME Fresh(cache, slab), IsTable(slab),
           NEW tx \in Txs, NEW h \in Nat, NEW at \in Nat, NEW pooled \in BOOLEAN,
           Store(tx, h, at, pooled),
           tx \in DOMAIN slab => \A o \in Outputs(tx) : slab[tx].spent[o] = NotSpent
    PROVE  Fresh(cache', slab')
<1>1. Stores(slab, slab', tx, h, at)
  BY StoredSlabIs DEF Store
<1>2. /\ DOMAIN slab' = DOMAIN slab \cup {tx}
      /\ \A u \in DOMAIN slab : u # tx => slab'[u] = slab[u]
      /\ \A o \in Outputs(tx) : slab'[tx].spent[o] = NotSpent
  BY <1>1 DEF Stores
<1>3. ASSUME NEW e \in cache'
      PROVE  /\ e.tx \in DOMAIN slab' /\ e.left \subseteq Outputs(e.tx)
             /\ \A o \in e.left : slab'[e.tx].spent[o] = NotSpent
  <2>1. e \in cache \/ (e.tx = tx /\ e.left = Outputs(tx))
    BY CacheAddIs DEF Store
  <2>2. CASE e.tx = tx
    BY <1>2, <2>1, <2>2 DEF Fresh
  <2>3. CASE e.tx # tx
    BY <1>2, <2>1, <2>3 DEF Fresh
  <2>. QED
    BY <2>2, <2>3
<1>. QED
  BY <1>3 DEF Fresh

\* An output that is not marked is not spent by a transaction marked as spent:
\* before it is stored, nothing spends a transaction.
LEMMA NotStoredIsUnspent ==
    ASSUME BookInv, phase # "unwinding", NEW tx \in DOMAIN slab, tx \notin StoredTxs,
           NEW o \in Outputs(tx)
    PROVE  slab[tx].spent[o] = NotSpent
<1>1. SUFFICES ASSUME slab[tx].spent[o] # NotSpent PROVE FALSE
  OBVIOUS
<1>2. PICK u \in MarkedTxs : MarkedBy(Line, slab[tx].spent[o], [tx |-> tx, index |-> o], u)
  BY <1>1, Zenon DEF BookInv, Marked
<1>3. [tx |-> tx, index |-> o] \in PointsOf(u)
  BY <1>2 DEF MarkedBy
<1>4. [tx |-> tx, index |-> o].tx \in StoredTxs
  BY <1>2, <1>3, Zenon DEF BookInv, Backed
<1>. QED
  BY <1>4

\* spend drops from the cache what it marks.
LEMMA SpendKeepsFresh ==
    ASSUME Fresh(cache, slab), IsTable(slab), NEW points, NEW h \in Nat,
           slab' = SpendAll(slab, points, h), cache' = ForgetAll(points)
    PROVE  Fresh(cache', slab')
<1>1. PICK s, t : s = slab /\ t = slab'
  OBVIOUS
<1>2. t = SpendAll(s, points, h) /\ IsTable(s)
  BY <1>1
<1>3. /\ DOMAIN t = DOMAIN s
      /\ \A tx \in DOMAIN s : \A o \in Outputs(tx) : t[tx].spent[o] =
           IF [tx |-> tx, index |-> o] \in points THEN h ELSE s[tx].spent[o]
  BY <1>2, SpendAllIs
<1>4. ASSUME NEW e \in cache'
      PROVE  /\ e.tx \in DOMAIN t /\ e.left \subseteq Outputs(e.tx)
             /\ \A o \in e.left : t[e.tx].spent[o] = NotSpent
  <2>1. PICK f \in cache : e = [f EXCEPT !.left =
                                  {i \in f.left : [tx |-> f.tx, index |-> i] \notin points}]
    BY DEF ForgetAll, CacheRemove
  <2>2. f.tx \in DOMAIN s /\ f.left \subseteq Outputs(f.tx)
        /\ \A o \in f.left : s[f.tx].spent[o] = NotSpent
    BY <1>1 DEF Fresh
  <2>3. e.tx = f.tx /\ e.left = {i \in f.left : [tx |-> f.tx, index |-> i] \notin points}
    BY <2>1
  <2>4. ASSUME NEW o \in e.left PROVE t[e.tx].spent[o] = NotSpent
    BY <1>3, <2>2, <2>3
  <2>. QED
    BY <1>3, <2>2, <2>3, <2>4
<1>. QED
  BY <1>1, <1>4 DEF Fresh

\* pop leaves the cache alone, and marks nothing.
LEMMA PopKeepsFresh ==
    ASSUME ChainAssumption, Fresh(cache, slab), IsTable(slab), NEW tx \in DOMAIN slab,
           slab' = UnspendAll(Unconfirm(slab, tx), PointsOf(tx)), cache' = cache
    PROVE  Fresh(cache', slab')
<1>1. PICK s, t : s = slab /\ t = slab'
  OBVIOUS
<1>2. IsTable(s) /\ tx \in DOMAIN s /\ Unverified \in Nat /\ NotSpent \in Nat
  BY <1>1 DEF ChainAssumption, NotSpent
<1> DEFINE d == Unconfirm(s, tx)
<1>3. /\ IsTable(d) /\ DOMAIN d = DOMAIN s /\ d[tx].spent = s[tx].spent
      /\ \A u \in DOMAIN s : u # tx => d[u] = s[u]
  BY <1>2, UnconfirmIs
<1>4. t = SpendAll(d, PointsOf(tx), NotSpent)
  BY <1>1 DEF UnspendAll
<1>. HIDE DEF d
<1>5. /\ DOMAIN t = DOMAIN d
      /\ \A u \in DOMAIN d : \A o \in Outputs(u) : t[u].spent[o] =
           IF [tx |-> u, index |-> o] \in PointsOf(tx) THEN NotSpent ELSE d[u].spent[o]
  BY <1>2, <1>3, <1>4, SpendAllIs
<1>6. \A u \in DOMAIN s : d[u].spent = s[u].spent
  BY <1>3
<1>7. ASSUME NEW e \in cache
      PROVE  /\ e.tx \in DOMAIN t /\ e.left \subseteq Outputs(e.tx)
             /\ \A o \in e.left : t[e.tx].spent[o] = NotSpent
  <2>1. e.tx \in DOMAIN s /\ e.left \subseteq Outputs(e.tx)
        /\ \A o \in e.left : s[e.tx].spent[o] = NotSpent
    BY <1>1 DEF Fresh
  <2>2. ASSUME NEW o \in e.left PROVE t[e.tx].spent[o] = NotSpent
    <3>1. d[e.tx].spent[o] = NotSpent
      BY <1>6, <2>1
    <3>2. t[e.tx].spent[o] = IF [tx |-> e.tx, index |-> o] \in PointsOf(tx) THEN NotSpent
                             ELSE d[e.tx].spent[o]
      BY <1>3, <1>5, <2>1
    <3>. QED
      BY <3>1, <3>2
  <2>. QED
    BY <1>3, <1>5, <2>1, <2>2
<1>. QED
  BY <1>1, <1>7 DEF Fresh

\* store adds an entry of a transaction with nothing spent.
LEMMA StoreTransactionKeepsFresh ==
    ASSUME Fresh(cache, slab), BookInv, IsTable(slab), phase # "unwinding",
           NEW b, NEW h \in Nat, NEW at \in Nat, NEW beside, StoreTransaction(b, h, at, beside),
           TxsOf[b][at + 1] \in Txs \ StoredTxs
    PROVE  Fresh(cache', slab')
<1>1. PICK tx : tx = TxsOf[b][at + 1]
  OBVIOUS
<1>2. PICK pooled \in BOOLEAN : Store(tx, h, at, pooled)
  BY <1>1 DEF StoreTransaction
<1>3. tx \in DOMAIN slab => \A o \in Outputs(tx) : slab[tx].spent[o] = NotSpent
  BY <1>1, NotStoredIsUnspent
<1>. QED
  BY <1>1, <1>2, <1>3, StoreKeepsFresh

\* Every step keeps that.
LEMMA CacheNext ==
    ASSUME ValidBlocks, ChecksInputs, Inv, CacheInv, [Next]_vars
    PROVE  CacheInv'
<1>1. CASE UNCHANGED <<slab, cache, phase>>
  BY <1>1 DEF CacheInv, Live
<1>2. CASE UNCHANGED vars
  BY <1>1, <1>2 DEF vars, tableVars
<1>3. SUFFICES ASSUME Next, Live' PROVE Fresh(cache', slab')
  BY <1>2 DEF CacheInv
<1>4. LiveInv /\ ChainAssumption /\ Fresh(cache, slab)
  BY <1>3, FailedStays, ChainAssumption DEF Inv, CacheInv
<1>5. Typed /\ FlowInv /\ BookInv /\ IsTable(slab) /\ height \in Nat
      /\ position \in [DOMAIN position -> Nat]
  BY <1>4 DEF LiveInv, Typed
<1>6. ASSUME UNCHANGED <<slab, cache>> PROVE Fresh(cache', slab')
  BY <1>4, <1>6
<1>7. ASSUME NEW tx \in Txs, PushTx(tx) PROVE Fresh(cache', slab')
  <2>1. tx \notin DOMAIN slab
    BY <1>4, <1>7, PushTxKeeps
  <2>2. PICK pooled \in BOOLEAN : Store(tx, Forks, Unconfirmed, pooled)
    BY <1>7 DEF PushTx
  <2>3. Forks \in Nat /\ Unconfirmed \in Nat
    BY <1>4 DEF ChainAssumption, Unconfirmed
  <2>. QED
    BY <1>4, <1>5, <2>1, <2>2, <2>3, StoreKeepsFresh
<1>8. ASSUME NEW i \in DOMAIN position, PushTransaction(i) PROVE Fresh(cache', slab')
  <2>1. TxsOf[Head(incoming)][position[i] + 1] \in Txs \ StoredTxs
    BY <1>4, <1>8, PushTransactionKeeps
  <2>2. PICK beside : StoreTransaction(Head(incoming), height, position[i], beside)
    BY <1>8 DEF PushTransaction
  <2>3. phase = "pushing" /\ position[i] \in Nat /\ height \in Nat
    BY <1>5, <1>8 DEF PushTransaction
  <2>. QED
    BY <1>4, <1>5, <2>1, <2>2, <2>3, StoreTransactionKeepsFresh
<1>9. ASSUME NEW i \in DOMAIN position, InsertTransaction(i) PROVE Fresh(cache', slab')
  <2>1. TxsOf[incoming[i]][position[i] + 1] \in Txs \ StoredTxs
    BY <1>4, <1>9, InsertTransactionKeeps
  <2>2. PICK beside : StoreTransaction(incoming[i], height + i - 1, position[i], beside)
    BY <1>9 DEF InsertTransaction
  <2>3. phase = "importing" /\ position[i] \in Nat
    BY <1>5, <1>9 DEF InsertTransaction
  <2>4. height + i - 1 \in Nat
    BY <1>5, <1>9, <2>3 DEF FlowInv
  <2>. QED
    BY <1>4, <1>5, <2>1, <2>2, <2>3, <2>4, StoreTransactionKeepsFresh
<1>10. ASSUME CompleteBlock PROVE Fresh(cache', slab')
  <2>1. /\ slab' = SpendAll(slab, BlockPoints(Head(incoming)), height)
        /\ cache' = ForgetAll(BlockPoints(Head(incoming)))
    BY <1>3, <1>10 DEF CompleteBlock, Live
  <2>. QED
    BY <1>4, <1>5, <2>1, SpendKeepsFresh
<1>11. ASSUME NEW i \in DOMAIN position, InsertBlock(i) PROVE Fresh(cache', slab')
  <2>1. /\ slab' = SpendAll(slab, BlockPoints(incoming[i]), height + i - 1)
        /\ cache' = ForgetAll(BlockPoints(incoming[i])) /\ phase = "importing"
    BY <1>3, <1>11 DEF InsertBlock, Live
  <2>2. height + i - 1 \in Nat
    BY <1>5, <1>11, <2>1 DEF FlowInv
  <2>. QED
    BY <1>4, <1>5, <2>1, <2>2, SpendKeepsFresh
<1>12. ASSUME PopTransaction PROVE Fresh(cache', slab')
  <2>1. TxsOf[Last(index)][left] \in DOMAIN slab
    BY <1>3, <1>4, <1>12, PopTransactionKeeps DEF ConfirmedIn
  <2>2. /\ cache' = cache
        /\ slab' = UnspendAll(Unconfirm(slab, TxsOf[Last(index)][left]),
                              PointsOf(TxsOf[Last(index)][left]))
    BY <1>3, <1>12 DEF PopTransaction, Live
  <2>. QED
    BY <1>4, <1>5, <2>1, <2>2, PopKeepsFresh
<1>13. CASE Call
  <2>1. CASE \E tx \in Txs : PushTx(tx)
    BY <1>7, <2>1
  <2>2. CASE \/ \E b \in Blocks, h \in 0 .. Len(index) : PushBlock(b, h)
             \/ \E f \in Blocks, branch \in Branches : Reorganize(f, branch)
             \/ \E branch \in Branches : BeginInsert(branch)
    BY <1>6, <2>2 DEF PushBlock, Reorganize, BeginInsert, tableVars
  <2>. QED
    BY <1>13, <2>1, <2>2 DEF Call
<1>14. CASE LinkBlock \/ Commit \/ ReadBlock \/ PopBlock \/ PoppedAll \/ EndInsert
  BY <1>6, <1>14 DEF LinkBlock, Commit, ReadBlock, PopBlock, PoppedAll, EndInsert, tableVars
<1>. QED
  BY <1>3, <1>8, <1>9, <1>10, <1>11, <1>12, <1>13, <1>14 DEF Next, Work

\* What the cache holds of a transaction is unspent in the table.
THEOREM CacheIsUnspentHolds ==
    ASSUME ValidBlocks, ChecksInputs
    PROVE  Spec => []CacheIsUnspent
<1>1. Init => CacheInv
  BY DEF Init, TableInit, CacheInv, Fresh
<1>2. Inv /\ CacheInv /\ [Next]_vars => CacheInv'
  BY CacheNext
<1>3. CacheInv => CacheIsUnspent
  BY DEF CacheInv, Live, Fresh, CacheIsUnspent, Quiet
<1>. QED
  BY <1>1, <1>2, <1>3, InvIsInvariant, PTL DEF Spec

\* No entry has a higher sequence than the one given last.
Counted(c, n) == \A e \in c : e.sequence \in Nat /\ e.sequence <= n

SequenceInv == sequence \in 0 .. SequenceMax /\ Counted(cache, sequence)

\* add: the entry that joins gets the next sequence, the highest, and after the
\* counter wraps joins an empty cache.
LEMMA AddCounts ==
    ASSUME NEW n \in 0 .. SequenceMax, NEW c, Counted(c, n), NEW tx, NEW h, NEW confirmed,
           NEW m, m = NextSequence(tx, n), NEW d, d = CacheAdd(c, n, tx, h, confirmed)
    PROVE  /\ m \in 0 .. SequenceMax /\ Counted(d, m)
           /\ \A e \in d : (\A f \in c : f.sequence # e.sequence) =>
                 \A f \in d : f.sequence <= e.sequence
<1> DEFINE kept == BeforeWrap(c, n)
           room == IF Cardinality(kept) >= CacheCapacity THEN Evict(kept) ELSE kept
           entry == [tx |-> tx, height |-> h, confirmed |-> confirmed,
                     left |-> Outputs(tx), sequence |-> m]
<1>0. SequenceMax \in Nat
  BY CacheAssumption DEF CacheAssumption
<1>1. CASE CacheCapacity = 0 \/ OutputsOf[tx] = <<>>
  <2>1. m = n /\ d = c
    BY <1>1, Zenon DEF NextSequence, CacheAdd
  <2>. QED
    BY <2>1
<1>2. CASE ~(CacheCapacity = 0 \/ OutputsOf[tx] = <<>>)
  <2>1. m = (n + 1) % (SequenceMax + 1)
    BY <1>2 DEF NextSequence
  <2>2. room \subseteq kept
    BY DEF Evict
  <2>3. d = room \/ d = room \cup {entry}
    BY <1>2, Zenon DEF CacheAdd
  <2>4. entry.sequence = m
    OBVIOUS
  <2>5. m \in 0 .. SequenceMax /\ \A e \in kept : e \in c /\ e.sequence \in Nat /\ e.sequence < m
    <3>1. CASE n = SequenceMax
      <4>1. kept = {} /\ m = 0
        BY <1>0, <2>1, <3>1 DEF BeforeWrap
      <4>. QED
        BY <1>0, <4>1
    <3>2. CASE n # SequenceMax
      <4>1. kept = c
        BY <3>2 DEF BeforeWrap
      <4>2. n + 1 \in 0 .. SequenceMax
        BY <1>0, <3>2
      <4>3. (n + 1) % (SequenceMax + 1) = n + 1
        BY <1>0, <4>2
      <4>. QED
        BY <2>1, <4>1, <4>2, <4>3 DEF Counted
    <3>. QED
      BY <3>1, <3>2
  <2>. HIDE DEF kept, room, entry
  <2>6. \A e \in d : (e \in c /\ e.sequence \in Nat /\ e.sequence < m) \/ e.sequence = m
    BY <2>2, <2>3, <2>4, <2>5
  <2>. QED
    BY <1>0, <2>5, <2>6 DEF Counted
<1>. QED
  BY <1>1, <1>2

\* remove drops entries, or outputs of them.
LEMMA RemoveCounts ==
    ASSUME NEW c, NEW n, Counted(c, n), NEW points, NEW d, d = CacheRemove(c, points)
    PROVE  Counted(d, n) /\ \A e \in d : \E f \in c : f.sequence = e.sequence
<1>1. ASSUME NEW e \in d PROVE \E f \in c : f.sequence = e.sequence
  <2>1. PICK f \in c : e = [f EXCEPT !.left =
                              {i \in f.left : [tx |-> f.tx, index |-> i] \notin points}]
    BY <1>1 DEF CacheRemove
  <2>2. e.sequence = f.sequence
    BY <2>1
  <2>. QED
    BY <2>2
<1>. QED
  BY <1>1 DEF Counted

\* What an entry that joins the cache is among those in it.
Joins == \A e \in cache' : (\A f \in cache : f.sequence # e.sequence) =>
            \A f \in cache' : f.sequence <= e.sequence

\* Every step leaves the sequences below the counter.
LEMMA SequenceNext ==
    ASSUME SequenceInv, [Next]_vars
    PROVE  SequenceInv' /\ Joins
<1>1. ASSUME UNCHANGED <<cache, sequence>> PROVE SequenceInv' /\ Joins
  BY <1>1 DEF SequenceInv, Joins
<1>2. ASSUME NEW tx, NEW h, NEW at, NEW pooled, Store(tx, h, at, pooled)
      PROVE  SequenceInv' /\ Joins
  <2>1. /\ sequence' = NextSequence(tx, sequence)
        /\ cache' = CacheAdd(cache, sequence, tx, h, at # Unconfirmed)
    BY <1>2 DEF Store
  <2>. QED
    BY <2>1, AddCounts DEF SequenceInv, Joins
<1>3. ASSUME NEW points, cache' = ForgetAll(points), sequence' = sequence
      PROVE  SequenceInv' /\ Joins
  <2>1. Counted(cache', sequence)
        /\ \A e \in cache' : \E f \in cache : f.sequence = e.sequence
    BY <1>3, RemoveCounts DEF ForgetAll, SequenceInv
  <2>. QED
    BY <1>3, <2>1 DEF SequenceInv, Joins
<1>4. CASE UNCHANGED vars
  BY <1>1, <1>4 DEF vars, tableVars
<1>5. CASE Call
  <2>1. CASE \E tx \in Txs : PushTx(tx)
    BY <1>2, <2>1 DEF PushTx
  <2>2. CASE \/ \E b \in Blocks, h \in 0 .. Len(index) : PushBlock(b, h)
             \/ \E f \in Blocks, branch \in Branches : Reorganize(f, branch)
             \/ \E branch \in Branches : BeginInsert(branch)
    BY <1>1, <2>2 DEF PushBlock, Reorganize, BeginInsert, tableVars
  <2>. QED
    BY <1>5, <2>1, <2>2 DEF Call
<1>6. ASSUME NEW b, NEW h, NEW at, NEW beside, StoreTransaction(b, h, at, beside)
      PROVE  SequenceInv' /\ Joins
  BY <1>2, <1>6 DEF StoreTransaction
<1>7. CASE \E i \in DOMAIN position : PushTransaction(i) \/ InsertTransaction(i)
  BY <1>6, <1>7 DEF PushTransaction, InsertTransaction
<1>8. CASE CompleteBlock
  BY <1>1, <1>3, <1>8 DEF CompleteBlock, tableVars
<1>9. CASE \E i \in DOMAIN position : InsertBlock(i)
  BY <1>1, <1>3, <1>9 DEF InsertBlock, tableVars
<1>10. CASE LinkBlock \/ Commit \/ ReadBlock \/ PopBlock \/ PoppedAll \/ EndInsert
            \/ PopTransaction
  BY <1>1, <1>10 DEF LinkBlock, Commit, ReadBlock, PopBlock, PoppedAll, EndInsert,
     PopTransaction, tableVars
<1>. QED
  BY <1>4, <1>5, <1>7, <1>8, <1>9, <1>10 DEF Next, Work

\* An entry that joins the cache has the highest sequence, also when the counter
\* wraps: the entry of the lowest one is the oldest.
THEOREM NewestIsHighestHolds == Spec => NewestIsHighest
<1>1. Init => SequenceInv
  BY CacheAssumption DEF Init, TableInit, SequenceInv, Counted, CacheAssumption
<1>2. SequenceInv /\ [Next]_vars => SequenceInv' /\ [Joins]_vars
  BY SequenceNext
<1>3. Spec => [][Joins]_vars
  BY <1>1, <1>2, PTL DEF Spec
<1>. QED
  BY <1>3 DEF NewestIsHighest, Joins

-----------------------------------------------------------------------------
\* The writes are steps of the ledger.

\* The ledger has its definitions of chains from ChainData, as the store has.
LEMMA SameData ==
    /\ \A b, branch : Promise!Linked(b, branch) <=> Linked(b, branch)
    /\ \A c : Promise!ChainTxs(c) = ChainTxs(c)
    /\ \A c : Promise!Heights(c) = Heights(c)
    /\ \A b : Promise!TxSet(b) = TxSet(b)
<1>1. \A b : Promise!TxSet(b) = TxSet(b)
  BY DEF Promise!TxSet, Promise!ToSet, TxSet, ToSet
<1>2. \A c : Promise!ToSet(c) = ToSet(c)
  BY DEF Promise!ToSet, ToSet
<1>3. \A c : Promise!ChainTxs(c) = ChainTxs(c)
  BY <1>1, <1>2 DEF Promise!ChainTxs, ChainTxs
<1>4. \A b, branch : Promise!Linked(b, branch) <=> Linked(b, branch)
  BY DEF Promise!Linked, Linked
<1>5. \A c : Promise!Heights(c) = Heights(c)
  BY DEF Promise!Heights, Heights
<1>. QED
  BY <1>1, <1>3, <1>4, <1>5

\* The blocks of a sequence above its first n.
LEMMA SuffixIs ==
    ASSUME NEW d \in Seq(Blocks), NEW n \in Nat, n <= Len(d)
    PROVE  \E k \in Nat, branch \in Seq(Blocks) :
              /\ Len(d) = n + k /\ branch = SubSeq(d, n + 1, Len(d))
              /\ Len(branch) = k /\ DOMAIN branch = 1 .. k
              /\ \A i \in 1 .. k : branch[i] = d[n + i]
<1>1. PICK l \in Nat : l = Len(d)
  OBVIOUS
<1>2. PICK k \in Nat : l = n + k
  <2>1. l - n \in Nat /\ l = n + (l - n)
    BY <1>1
  <2>. QED
    BY <2>1
<1>3. n + 1 \in Int /\ l \in Int /\ \A i \in n + 1 .. l : d[i] \in Blocks
  <2>1. n + 1 \in Int /\ l \in Int
    OBVIOUS
  <2>2. \A i \in n + 1 .. l : i \in 1 .. Len(d)
    BY <1>1
  <2>. QED
    BY <2>1, <2>2, ElementOfSeq
<1>4. PICK branch : branch = SubSeq(d, n + 1, l)
  OBVIOUS
<1>5. PICK m \in Int : m = n + 1
  OBVIOUS
<1>6. /\ branch \in Seq(Blocks)
      /\ Len(branch) = IF m <= l THEN l - m + 1 ELSE 0
      /\ \A i \in 1 .. l - m + 1 : branch[i] = d[m + i - 1]
  <2>1. l \in Int /\ \A i \in m .. l : d[i] \in Blocks
    BY <1>3, <1>5
  <2>. QED
    BY <1>4, <1>5, <2>1, SubSeqProperties
<1>7. l - m + 1 = k /\ \A i \in 1 .. k : m + i - 1 = n + i
  BY <1>2, <1>5
<1>8. Len(branch) = k
  <2>1. (IF m <= l THEN l - m + 1 ELSE 0) = k
    BY <1>2, <1>5
  <2>. QED
    BY <1>6, <2>1
<1>9. DOMAIN branch = 1 .. k
  BY <1>6, <1>8, LenProperties
<1>10. \A i \in 1 .. k : branch[i] = d[n + i]
  BY <1>6, <1>7
<1>. QED
  BY <1>1, <1>2, <1>4, <1>6, <1>8, <1>9, <1>10

\* Chains that share their first n blocks, a branch of one of them above these.
Forked(c, d, n, h, branch) ==
    /\ c \in Seq(Blocks) /\ IsChain(d) /\ h \in Nat /\ n = h + 1
    /\ n <= Len(c) /\ n <= Len(d) /\ SubSeq(d, 1, n) = SubSeq(c, 1, n)
    /\ branch = SubSeq(d, h + 2, Len(d))

Exchanged(c, d, n, h, branch) ==
    h \in Heights(c) /\ Linked(c[n], branch) /\ d = SubSeq(c, 1, n) \o branch

\* Chains that share their first blocks differ by an exchange of branches.
LEMMA BranchExchange ==
    ASSUME NEW c, NEW d, NEW n, NEW h, NEW branch, Forked(c, d, n, h, branch)
    PROVE  Exchanged(c, d, n, h, branch)
<1>0. /\ c \in Seq(Blocks) /\ IsChain(d) /\ h \in Nat /\ n = h + 1
      /\ n <= Len(c) /\ n <= Len(d) /\ SubSeq(d, 1, n) = SubSeq(c, 1, n)
      /\ branch = SubSeq(d, h + 2, Len(d))
  BY Zenon DEF Forked
<1>1. /\ d \in Seq(Blocks) /\ Linked(NoBlock, d) /\ n \in Nat \ {0} /\ h + 2 = n + 1
      /\ Len(c) \in Nat /\ Len(d) \in Nat /\ DOMAIN d = 1 .. Len(d)
  BY <1>0 DEF IsChain
<1>2. h \in Heights(c)
  BY <1>0, <1>1 DEF Heights
<1>3. c[n] = d[n]
  <2>1. SubSeq(d, 1, n) = SubSeq(c, 1, n)
    BY <1>0
  <2>2. SubSeq(d, 1, n)[n] = d[n] /\ SubSeq(c, 1, n)[n] = c[n]
    BY <1>0, <1>1
  <2>. QED
    BY <2>1, <2>2, Zenon
<1>4. PICK k \in Nat, suffix \in Seq(Blocks) :
        /\ Len(d) = n + k /\ suffix = SubSeq(d, n + 1, Len(d))
        /\ Len(suffix) = k /\ DOMAIN suffix = 1 .. k
        /\ \A i \in 1 .. k : suffix[i] = d[n + i]
  BY <1>0, <1>1, SuffixIs
<1>5. /\ branch = suffix /\ branch \in Seq(Blocks) /\ Len(branch) = k
      /\ DOMAIN branch = 1 .. k /\ \A i \in 1 .. k : branch[i] = d[n + i]
  <2>1. branch = suffix
    BY <1>0, <1>1, <1>4
  <2>. QED
    BY <1>4, <2>1
<1>6. Linked(c[n], branch)
  <2>1. ASSUME NEW i \in 1 .. k
        PROVE  Parent[branch[i]] = IF i = 1 THEN c[n] ELSE branch[i - 1]
    <3>1. n + i \in 1 .. Len(d) /\ n + i # 1
      BY <1>0, <1>1, <1>4
    <3>2. Parent[d[n + i]] = d[n + i - 1]
      <4>1. PICK j : j = n + i
        OBVIOUS
      <4>2. j \in DOMAIN d /\ j # 1
        BY <1>0, <1>1, <3>1, <4>1
      <4>3. Parent[d[j]] = IF j = 1 THEN NoBlock ELSE d[j - 1]
        BY <1>0, <1>1, <4>2 DEF Linked
      <4>4. Parent[d[j]] = d[j - 1]
        BY <4>2, <4>3, Zenon
      <4>5. Parent[d[n + i]] = Parent[d[j]]
        BY <4>1, Zenon
      <4>6. j - 1 = n + i - 1
        BY <1>0, <1>1, <1>4, <4>1
      <4>. QED
        BY <4>4, <4>5, <4>6, Zenon
    <3>3. CASE i = 1
      <4>1. n + i - 1 = n
        BY <1>0, <1>1, <3>3
      <4>. QED
        BY <1>3, <1>5, <3>2, <3>3, <4>1
    <3>4. CASE i # 1
      <4>1. i - 1 \in 1 .. k /\ n + (i - 1) = n + i - 1
        BY <1>0, <1>1, <1>4, <3>4
      <4>2. branch[i - 1] = d[n + i - 1]
        BY <1>5, <4>1
      <4>. QED
        BY <1>5, <3>2, <3>4, <4>2
    <3>. QED
      BY <3>3, <3>4
  <2>. QED
    BY <1>5, <2>1 DEF Linked
<1>7. d = SubSeq(c, 1, n) \o branch
  <2>1. PICK e : e = SubSeq(d, 1, n)
    OBVIOUS
  <2>2. e \in Seq(Blocks) /\ Len(e) = n /\ \A i \in 1 .. n : e[i] = d[i]
    BY <1>0, <1>1, <2>1
  <2>3. /\ e \o branch \in Seq(Blocks) /\ Len(e \o branch) = Len(e) + Len(branch)
        /\ \A i \in 1 .. Len(e) + Len(branch) :
             (e \o branch)[i] = IF i <= Len(e) THEN e[i] ELSE branch[i - Len(e)]
    BY <1>5, <2>2, ConcatProperties, ZenonT(30)
  <2>4. Len(e) + Len(branch) = Len(d)
    BY <1>4, <1>5, <2>2
  <2>5. ASSUME NEW i \in 1 .. Len(d) PROVE d[i] = (e \o branch)[i]
    <3>1. (e \o branch)[i] = IF i <= n THEN e[i] ELSE branch[i - n]
      BY <2>2, <2>3, <2>4
    <3>2. CASE i <= n
      <4>1. i \in 1 .. n
        BY <1>0, <1>1, <3>2
      <4>. QED
        BY <2>2, <3>1, <3>2, <4>1
    <3>3. CASE ~(i <= n)
      <4>1. i - n \in 1 .. k /\ n + (i - n) = i
        BY <1>0, <1>1, <1>4, <3>3
      <4>2. branch[i - n] = d[i]
        BY <1>5, <4>1
      <4>. QED
        BY <3>1, <3>3, <4>2
    <3>. QED
      BY <3>2, <3>3
  <2>6. d = e \o branch
    BY <1>0, <1>1, <2>3, <2>4, <2>5, SeqEqual
  <2>. QED
    BY <1>0, <2>1, <2>6
<1>. QED
  BY <1>2, <1>6, <1>7, Zenon DEF Exchanged

\* A sequence of one block.
LEMMA OneBlock ==
    ASSUME NEW d \in Seq(Blocks), d # <<>>, Len(d) <= 1
    PROVE  \E b \in Blocks : d = <<b>> /\ d[1] = b /\ 1 \in DOMAIN d
<1>1. Len(d) \in Nat /\ Len(d) # 0
  BY EmptySeq
<1>2. Len(d) = 1
  <2>1. PICK l \in Nat : l = Len(d)
    BY <1>1
  <2>2. l # 0 /\ l <= 1
    BY <1>1, <2>1
  <2>3. l = 1
    BY <2>2
  <2>. QED
    BY <2>1, <2>3
<1>3. PICK b \in Blocks : b = d[1]
  BY <1>2, ElementOfSeq
<1>4. <<b>> \in Seq(Blocks) /\ Len(<<b>>) = 1 /\ <<b>>[1] = b
  OBVIOUS
<1>5. \A i \in 1 .. Len(d) : d[i] = <<b>>[i]
  BY <1>2, <1>3, <1>4
<1>6. d = <<b>>
  BY <1>2, <1>4, <1>5, SeqEqual
<1>. QED
  BY <1>2, <1>3, <1>6

\* A write that shares n blocks with the chain before it, and puts what it takes
\* from the chain into the pool, is a step of the ledger.
LEMMA WriteIsStep ==
    ASSUME committed \in [chain : Seq(Blocks), mempool : SUBSET Txs],
           NEW c, c = committed.chain, NEW d, IsChain(d), NEW pooled,
           pooled = (committed.mempool \cup ChainTxs(c)) \ ChainTxs(d),
           committed' = [chain |-> d, mempool |-> pooled],
           NEW n \in Nat, n <= Len(c), n <= Len(d), SubSeq(d, 1, n) = SubSeq(c, 1, n),
           n = 0 => c = <<>> /\ Len(d) <= 1
    PROVE  [Promise!LedgerNext]_Promise!ledger
<1>1. committed'.chain = d /\ committed'.mempool = pooled /\ c \in Seq(Blocks)
      /\ d \in Seq(Blocks) /\ Linked(NoBlock, d)
  BY DEF IsChain
<1>2. SUFFICES ASSUME Promise!ledger' # Promise!ledger PROVE Promise!Write
  BY DEF Promise!LedgerNext
<1>3. CASE n = 0
  <2>1. c = <<>> /\ Len(d) <= 1 /\ Len(d) \in Nat
    BY <1>1, <1>3
  <2>2. ChainTxs(c) = {}
    BY <2>1 DEF ChainTxs, ToSet
  <2>3. d # <<>>
    <3>1. SUFFICES ASSUME d = <<>> PROVE FALSE
      OBVIOUS
    <3>2. ChainTxs(d) = {}
      BY <2>1, <2>2, <3>1
    <3>3. committed'.chain = committed.chain /\ committed'.mempool = committed.mempool
      BY <1>1, <2>1, <2>2, <3>1, <3>2
    <3>. QED
      BY <1>2, <3>3 DEF Promise!ledger
  <2>5. PICK b \in Blocks : d = <<b>> /\ d[1] = b /\ 1 \in DOMAIN d
    BY <1>1, <2>1, <2>3, OneBlock
  <2>6. Parent[b] = NoBlock
    <3>1. Parent[d[1]] = IF 1 = 1 THEN NoBlock ELSE d[1 - 1]
      BY <1>1, <2>5, Zenon DEF Linked
    <3>. QED
      BY <2>5, <3>1
  <2>7. ChainTxs(d) = TxSet(b)
    <3>1. ToSet(<<b>>) = {b}
      BY DEF ToSet
    <3>. QED
      BY <2>5, <3>1 DEF ChainTxs
  <2>8. Append(c, b) = d
    BY <2>1, <2>5
  <2>9. Promise!AddBlock(b)
    BY <1>1, <2>1, <2>2, <2>6, <2>7, <2>8, SameData DEF Promise!AddBlock, Promise!Tip
  <2>. QED
    BY <2>9 DEF Promise!Write
<1>4. CASE n # 0
  <2>1. PICK h \in Nat : n = h + 1
    <3>1. n - 1 \in Nat /\ n = (n - 1) + 1
      BY <1>4
    <3>. QED
      BY <3>1
  <2>2. PICK branch : branch = SubSeq(d, h + 2, Len(d))
    OBVIOUS
  <2>3. h \in Heights(c) /\ Linked(c[n], branch) /\ d = SubSeq(c, 1, n) \o branch
    <3>1. n <= Len(c) /\ n <= Len(d) /\ SubSeq(d, 1, n) = SubSeq(c, 1, n) /\ IsChain(d)
      OBVIOUS
    <3>2. Forked(c, d, n, h, branch)
      BY <1>1, <2>1, <2>2, <3>1 DEF Forked
    <3>3. Exchanged(c, d, n, h, branch)
      BY <3>2, BranchExchange, Zenon
    <3>. QED
      BY <3>3, Zenon DEF Exchanged
  <2>4. Promise!Exchange(h, branch)
    <3>1. /\ Promise!Linked(c[n], branch)
          /\ Promise!ChainTxs(c) = ChainTxs(c) /\ Promise!ChainTxs(d) = ChainTxs(d)
      BY <2>3, SameData
    <3>. QED
      BY <1>1, <2>1, <2>3, <3>1 DEF Promise!Exchange
  <2>5. h \in Promise!Heights(committed.chain)
    BY <2>3, SameData
  <2>6. /\ SubSeq(committed'.chain, 1, h + 1) = SubSeq(committed.chain, 1, h + 1)
        /\ h < Len(committed'.chain)
    BY <1>1, <2>1
  <2>7. Promise!Exchange(h, SubSeq(committed'.chain, h + 2, Len(committed'.chain)))
    BY <1>1, <2>2, <2>4
  <2>. QED
    BY <2>5, <2>6, <2>7 DEF Promise!Write
<1>. QED
  BY <1>3, <1>4

\* What the pool has when a write ends.
LEMMA PoolAfter ==
    ASSUME StoreInv, Typed, BookInv, PoolInv, Line \in Seq(Blocks),
           StoredTxs = ChainTxs(Line), MaybeTxs = ChainTxs(Line)
    PROVE  Mempool(pool, Line) =
             (committed.mempool \cup ChainTxs(committed.chain)) \ ChainTxs(Line)
<1>1. ConfirmedIn(slab) = ChainTxs(Line)
  BY RestIs
<1>2. Mempool(pool, Line) = DOMAIN slab \ ConfirmedIn(slab)
  BY <1>1, RestIs
<1>. QED
  BY <1>1, <1>2 DEF StoreInv

\* A push or a reorganization ends.
LEMMA CommitIsStep ==
    ASSUME LiveInv, Commit
    PROVE  [Promise!LedgerNext]_Promise!ledger
<1>1. /\ phase = "linking" /\ incoming = <<>>
      /\ committed' = [chain |-> index, mempool |-> Mempool(pool, index)]
  BY DEF Commit
<1>2. Typed /\ FlowInv /\ BookInv /\ PoolInv /\ StoreInv /\ BranchInv
  BY DEF LiveInv
<1>3. index \in Seq(Blocks) /\ committed \in [chain : Seq(Blocks), mempool : SUBSET Txs]
  BY <1>2 DEF Typed
<1>4. Line = index /\ StoredTxs = ChainTxs(index) /\ MaybeTxs = ChainTxs(index)
  BY <1>1, <1>3, PlainIs
<1>5. Mempool(pool, index) =
         (committed.mempool \cup ChainTxs(committed.chain)) \ ChainTxs(index)
  BY <1>2, <1>3, <1>4, PoolAfter
<1>6. PICK n \in Nat : Shared(n)
  BY <1>1, <1>2 DEF BranchInv
<1>7. PICK c, d, pooled : c = committed.chain /\ d = index /\ pooled = Mempool(pool, index)
  OBVIOUS
<1>8. /\ n <= Len(c) /\ n <= Len(d) /\ SubSeq(d, 1, n) = SubSeq(c, 1, n)
      /\ n = 0 => c = <<>> /\ Len(d) <= 1
  <2>1. Len(c) \in Nat /\ Len(d) \in Nat /\ Len(incoming) = 0
    BY <1>1, <1>3, <1>7
  <2>. QED
    BY <1>6, <1>7, <2>1 DEF Shared
<1>9. IsChain(d)
  BY <1>2, <1>4, <1>7, LineIs
<1>. QED
  BY <1>1, <1>3, <1>5, <1>7, <1>8, <1>9, WriteIsStep

\* An import ends.
LEMMA EndInsertIsStep ==
    ASSUME LiveInv, EndInsert
    PROVE  [Promise!LedgerNext]_Promise!ledger
<1>1. /\ phase = "importing" /\ \A i \in DOMAIN incoming : Inserted(i)
      /\ index' = index \o incoming
      /\ committed' = [chain |-> index', mempool |-> Mempool(pool, index')]
  BY DEF EndInsert
<1>2. Typed /\ FlowInv /\ BookInv /\ PoolInv /\ StoreInv
  BY DEF LiveInv
<1>3. /\ index \in Seq(Blocks) /\ incoming \in Seq(Blocks)
      /\ committed \in [chain : Seq(Blocks), mempool : SUBSET Txs]
      /\ index # <<>> /\ index = committed.chain
  BY <1>1, <1>2 DEF Typed, FlowInv
<1>4. Line = index' /\ StoredTxs = ChainTxs(Line) /\ MaybeTxs = ChainTxs(Line)
  BY <1>1, <1>2, EndInsertSets
<1>5. IsChain(Line)
  BY <1>2, LineIs
<1>6. Mempool(pool, Line) =
         (committed.mempool \cup ChainTxs(committed.chain)) \ ChainTxs(Line)
  BY <1>2, <1>4, <1>5, PoolAfter DEF IsChain
<1>7. PICK c, d, pooled : c = committed.chain /\ d = Line /\ pooled = Mempool(pool, Line)
  OBVIOUS
<1>8. PICK n \in Nat : n = Len(c)
  BY <1>3, <1>7
<1>9. n <= Len(c) /\ n <= Len(d) /\ SubSeq(d, 1, n) = SubSeq(c, 1, n) /\ n # 0
  <2>1. PICK e \in Seq(Blocks) : e = incoming /\ d = c \o e
    BY <1>1, <1>3, <1>4, <1>7
  <2>2. c \in Seq(Blocks) /\ c # <<>>
    BY <1>3, <1>7
  <2>3. Len(d) = Len(c) + Len(e) /\ SubSeq(c \o e, 1, Len(c)) = SubSeq(c, 1, Len(c))
    BY <2>1, <2>2
  <2>. QED
    BY <1>8, <2>1, <2>2, <2>3
<1>. QED
  BY <1>1, <1>3, <1>4, <1>5, <1>6, <1>7, <1>9, WriteIsStep

\* A transaction is offered.
LEMMA PushTxIsStep ==
    ASSUME ValidBlocks, ChainAssumption, ChecksInputs, LiveInv, NEW tx \in Txs, PushTx(tx)
    PROVE  [Promise!LedgerNext]_Promise!ledger
<1>1. phase = "idle" /\ committed' = [committed EXCEPT !.mempool = Mempool(pool', index)]
  BY DEF PushTx
<1>2. Typed /\ FlowInv /\ StoreInv
  BY DEF LiveInv
<1>3. committed \in [chain : Seq(Blocks), mempool : SUBSET Txs]
      /\ committed.mempool = Mempool(pool, index)
  BY <1>1, <1>2 DEF Typed, FlowInv
<1>4. tx \notin DOMAIN slab /\ Mempool(pool', index) = Mempool(pool, index) \cup {tx}
  BY PushTxKeeps
<1>5. /\ committed'.chain = committed.chain
      /\ committed'.mempool = committed.mempool \cup {tx}
  BY <1>1, <1>3, <1>4
<1>6. tx \notin Promise!ChainTxs(committed.chain) \cup committed.mempool
  BY <1>2, <1>4, SameData DEF StoreInv
<1>7. Promise!AddTx(tx)
  BY <1>5, <1>6 DEF Promise!AddTx
<1>. QED
  BY <1>7 DEF Promise!LedgerNext, Promise!Write

\* All other steps are seen by no reader.
LEMMA NextIsStep ==
    ASSUME ValidBlocks, ChecksInputs, Inv, [Next]_vars
    PROVE  [Promise!LedgerNext]_Promise!ledger
<1>1. CASE UNCHANGED committed
  BY <1>1 DEF Promise!ledger
<1>2. CASE UNCHANGED vars
  BY <1>1, <1>2 DEF vars
<1>3. CASE Live /\ Next
  <2>1. LiveInv /\ ChainAssumption
    BY <1>3, ChainAssumption DEF Inv
  <2>2. CASE Call
    <3>1. CASE \E tx \in Txs : PushTx(tx)
      BY <2>1, <3>1, PushTxIsStep
    <3>2. CASE \/ \E b \in Blocks, h \in 0 .. Len(index) : PushBlock(b, h)
               \/ \E f \in Blocks, branch \in Branches : Reorganize(f, branch)
               \/ \E branch \in Branches : BeginInsert(branch)
      BY <1>1, <3>2 DEF PushBlock, Reorganize, BeginInsert
    <3>. QED
      BY <2>2, <3>1, <3>2 DEF Call
  <2>3. CASE Commit
    BY <2>1, <2>3, CommitIsStep
  <2>4. CASE EndInsert
    BY <2>1, <2>4, EndInsertIsStep
  <2>5. CASE \E i \in DOMAIN position :
                PushTransaction(i) \/ InsertTransaction(i) \/ InsertBlock(i)
    BY <1>1, <2>5 DEF PushTransaction, InsertTransaction, InsertBlock
  <2>6. CASE LinkBlock \/ CompleteBlock \/ ReadBlock \/ PopTransaction \/ PopBlock \/ PoppedAll
    BY <1>1, <2>6 DEF LinkBlock, CompleteBlock, ReadBlock, PopTransaction, PopBlock, PoppedAll
  <2>. QED
    BY <1>3, <2>2, <2>3, <2>4, <2>5, <2>6 DEF Next, Work
<1>4. CASE ~Live /\ Next
  BY <1>4 DEF Next, Call, Work, Live, PushTx, PushBlock, Reorganize, BeginInsert, LinkBlock,
     PushTransaction, CompleteBlock, Commit, ReadBlock, PopTransaction, PopBlock,
     PoppedAll, InsertTransaction, InsertBlock, EndInsert
<1>. QED
  BY <1>2, <1>3, <1>4

\* Every write appears to readers as one step of the ledger: a transaction or a
\* block is added, or a branch is exchanged for another.
THEOREM ImplementsLedgerHolds ==
    ASSUME ValidBlocks, ChecksInputs
    PROVE  Spec => ImplementsLedger
<1>1. Init => Promise!LedgerInit
  BY DEF Init, Promise!LedgerInit
<1>2. Inv /\ [Next]_vars => [Promise!LedgerNext]_Promise!ledger
  BY NextIsStep
<1>. QED
  BY <1>1, <1>2, InvIsInvariant, PTL DEF Spec, ImplementsLedger, Promise!LedgerSpec

-----------------------------------------------------------------------------
\* The rows of the spends and the history.

\* A sequence that comes to nothing twice, and to what is in a set.
Once(s) == \A i, j \in DOMAIN s : s[i] = s[j] => i = j
Lists(s, T) == (\A i \in DOMAIN s : s[i] \in T) /\ \A r \in T : \E i \in DOMAIN s : s[i] = r

\* The members of a set of positions in order: each of them, once.
LEMMA InOrderIs ==
    ASSUME NEW n \in Nat, NEW S \in SUBSET (1 .. n), NEW q, q = InOrder(S)
    PROVE  /\ IsFiniteSet(S) /\ Cardinality(S) \in Nat /\ DOMAIN q = 1 .. Cardinality(S)
           /\ Lists(q, S) /\ Once(q)
<1> DEFINE Upto(i) == {j \in S : j <= i}
           N == [i \in S |-> Cardinality(Upto(i))]
<1>1. IsFiniteSet(S) /\ Cardinality(S) \in Nat
  <2>1. IsFiniteSet(1 .. n)
    BY FS_Interval
  <2>. QED
    BY <2>1, FS_Subset, FS_CardinalityType
<1>2. ASSUME NEW i \in S
      PROVE  /\ IsFiniteSet(Upto(i)) /\ Cardinality(Upto(i)) \in 1 .. Cardinality(S)
  <2>1. Upto(i) \in SUBSET S /\ i \in Upto(i)
    OBVIOUS
  <2>2. IsFiniteSet(Upto(i)) /\ Cardinality(Upto(i)) <= Cardinality(S)
    BY <1>1, <2>1, FS_Subset
  <2>3. Cardinality(Upto(i)) \in Nat /\ Cardinality(Upto(i)) # 0
    BY <2>1, <2>2, FS_CardinalityType, FS_EmptySet
  <2>. QED
    BY <1>1, <2>2, <2>3
<1>3. ASSUME NEW i \in S, NEW j \in S, i < j
      PROVE  Cardinality(Upto(i)) # Cardinality(Upto(j))
  <2>1. Upto(i) \in SUBSET Upto(j) /\ j \in Upto(j) /\ j \notin Upto(i)
    <3>1. \A k \in S : k \in Nat
      OBVIOUS
    <3>2. \A k \in S : k <= i => k <= j
      BY <1>3, <3>1
    <3>3. ~(j <= i) /\ j <= j
      BY <1>3, <3>1
    <3>. QED
      BY <3>2, <3>3
  <2>2. IsFiniteSet(Upto(j))
    BY <1>2
  <2>. HIDE DEF Upto
  <2>. QED
    BY <2>1, <2>2, FS_Subset
<1>4. N \in Injection(S, 1 .. Cardinality(S))
  <2>1. N \in [S -> 1 .. Cardinality(S)]
    BY <1>2
  <2>2. ASSUME NEW i \in S, NEW j \in S, N[i] = N[j] PROVE i = j
    BY <1>3, <2>2
  <2>. QED
    BY <2>1, <2>2 DEF Injection, IsInjective
<1>5. ASSUME NEW m \in 1 .. Cardinality(S) PROVE \E i \in S : N[i] = m
  <2>1. IsFiniteSet(1 .. Cardinality(S)) /\ Cardinality(1 .. Cardinality(S)) = Cardinality(S)
    BY <1>1, FS_Interval
  <2>2. N \in Surjection(S, 1 .. Cardinality(S))
    BY <1>4, <2>1, FS_Injection
  <2>. QED
    BY <2>2 DEF Surjection
<1>6. ASSUME NEW m \in 1 .. Cardinality(S) PROVE q[m] \in S /\ N[q[m]] = m
  <2>1. q[m] = CHOOSE i \in S : Cardinality(Upto(i)) = m
    BY DEF InOrder
  <2>2. \E i \in S : Cardinality(Upto(i)) = m
    BY <1>5
  <2>3. q[m] \in S /\ Cardinality(Upto(q[m])) = m
    <3>. HIDE DEF Upto
    <3>. QED
      BY <2>1, <2>2
  <2>. QED
    BY <2>3
<1>7. DOMAIN q = 1 .. Cardinality(S)
  BY DEF InOrder
<1>. HIDE DEF N
<1>8. \A i, j \in S : N[i] = N[j] => i = j
  BY <1>4 DEF Injection, IsInjective
<1>9. \A i \in S : N[i] \in 1 .. Cardinality(S)
  BY <1>4 DEF Injection
<1>10. ASSUME NEW i \in S PROVE \E j \in DOMAIN q : q[j] = i
  <2>1. N[i] \in 1 .. Cardinality(S) /\ q[N[i]] \in S /\ N[q[N[i]]] = N[i]
    BY <1>6, <1>9
  <2>. QED
    BY <1>7, <1>8, <2>1
<1>11. ASSUME NEW i \in DOMAIN q, NEW j \in DOMAIN q, q[i] = q[j] PROVE i = j
  BY <1>6, <1>7, <1>11
<1>. QED
  BY <1>1, <1>6, <1>7, <1>10, <1>11 DEF Lists, Once

\* Of a sequence, what is at some positions in order: each of them, once.
Part(s, at) == [n \in DOMAIN InOrder(at) |-> s[InOrder(at)[n]]]
PartOf(s, at) == {s[i] : i \in at}
LEMMA PartIs ==
    ASSUME NEW S, NEW s \in Seq(S), Once(s), NEW at \in SUBSET DOMAIN s,
           NEW d, d = Part(s, at), NEW T, T = PartOf(s, at)
    PROVE  d \in Seq(S) /\ Once(d) /\ Lists(d, T)
<1>1. Len(s) \in Nat /\ DOMAIN s = 1 .. Len(s) /\ \A i \in DOMAIN s : s[i] \in S
  BY ElementsOf
<1>2. at \in SUBSET (1 .. Len(s))
  BY <1>1
<1>3. PICK q : q = InOrder(at) /\ d = [n \in DOMAIN q |-> s[q[n]]]
  BY DEF Part
<1>7. Cardinality(at) \in Nat /\ DOMAIN q = 1 .. Cardinality(at) /\ Lists(q, at) /\ Once(q)
  BY <1>1, <1>2, <1>3, InOrderIs
<1>8. d \in Seq(S)
  BY <1>1, <1>3, <1>7 DEF Lists
<1>9. DOMAIN d = DOMAIN q /\ \A n \in DOMAIN q : d[n] = s[q[n]]
  BY <1>3
<1>10. Once(d)
  BY <1>7, <1>9 DEF Once, Lists
<1>11. \A n \in DOMAIN d : d[n] \in T
  BY <1>7, <1>9 DEF Lists, PartOf
<1>12. ASSUME NEW r \in T PROVE \E n \in DOMAIN d : d[n] = r
  <2>1. PICK i \in at : s[i] = r
    BY DEF PartOf
  <2>2. PICK n \in DOMAIN q : q[n] = i
    BY <1>7, <2>1 DEF Lists
  <2>. QED
    BY <1>9, <2>1, <2>2
<1>. QED
  BY <1>8, <1>10, <1>11, <1>12 DEF Lists

\* Of a sequence of rows, those of an address: each of them, once.
LEMMA RowsForIs ==
    ASSUME NEW S, NEW s \in Seq(S), Once(s), NEW a, NEW d, d = RowsFor(s, a)
    PROVE  d \in Seq(S) /\ Once(d) /\ Lists(d, {r \in ToSet(s) : r.address = a})
<1>1. PICK at, T : /\ at = {i \in DOMAIN s : s[i].address = a}
                   /\ T = {r \in ToSet(s) : r.address = a}
  OBVIOUS
<1>2. d = Part(s, at)
  BY <1>1 DEF RowsFor, Part
<1>3. ToSet(s) = {s[i] : i \in DOMAIN s}
  BY Zenon DEF ToSet
<1>4. T = PartOf(s, at)
  BY <1>1, <1>3 DEF PartOf
<1>5. at \in SUBSET DOMAIN s
  BY <1>1
<1>. QED
  BY <1>1, <1>2, <1>4, <1>5, PartIs

\* Those of them that a race leaves.
OfAddress(s, a) == {r \in ToSet(s) : r.address = a}
KeptAt(s, a, lost) == {i \in DOMAIN s : s[i].address = a /\ s[i] \notin lost}
LEMMA KeptIs ==
    ASSUME NEW S, NEW s \in Seq(S), Once(s), NEW a, NEW lost,
           NEW d, d = Part(s, KeptAt(s, a, lost))
    PROVE  d \in Seq(S) /\ Once(d) /\ Lists(d, OfAddress(s, a) \ lost)
<1>1. PICK at, T : /\ at = KeptAt(s, a, lost)
                   /\ T = OfAddress(s, a) \ lost
  OBVIOUS
<1>2. d = Part(s, at)
  BY <1>1
<1>3. ToSet(s) = {s[i] : i \in DOMAIN s}
  BY Zenon DEF ToSet
<1>4. T = PartOf(s, at)
  BY <1>1, <1>3 DEF OfAddress, KeptAt, PartOf
<1>5. at \in SUBSET DOMAIN s
  BY <1>1 DEF KeptAt
<1>. QED
  BY <1>1, <1>2, <1>4, <1>5, PartIs

\* Such a sequence is as long as the set is large.
LEMMA ListCounts ==
    ASSUME NEW S, NEW s \in Seq(S), Once(s), NEW T, Lists(s, T)
    PROVE  IsFiniteSet(T) /\ Cardinality(T) = Len(s)
<1>1. Len(s) \in Nat /\ DOMAIN s = 1 .. Len(s)
  BY ElementsOf
<1>2. s \in [1 .. Len(s) -> T]
  <2>1. s = [i \in 1 .. Len(s) |-> s[i]]
    BY LenProperties
  <2>. QED
    BY <1>1, <2>1 DEF Lists
<1>3. s \in Injection(1 .. Len(s), T) /\ s \in Surjection(1 .. Len(s), T)
  BY <1>1, <1>2 DEF Injection, IsInjective, Surjection, Once, Lists
<1>4. s \in Bijection(1 .. Len(s), T)
  BY <1>3 DEF Bijection
<1>5. IsFiniteSet(1 .. Len(s)) /\ Cardinality(1 .. Len(s)) = Len(s)
  BY SMTT(20), <1>1, FS_Interval
<1>6. ExistsBijection(1 .. Len(s), T)
  BY <1>4 DEF ExistsBijection
<1>. QED
  BY <1>5, <1>6, FS_Bijection

\* What is turned around has the same elements.
LEMMA ReverseIs ==
    ASSUME NEW S, NEW s \in Seq(S), NEW t, t = Reverse(s)
    PROVE  /\ t \in Seq(S) /\ Len(t) = Len(s) /\ (Once(s) => Once(t))
           /\ \A T : Lists(s, T) => Lists(t, T)
<1>1. Len(s) \in Nat /\ DOMAIN s = 1 .. Len(s) /\ \A i \in DOMAIN s : s[i] \in S
  BY ElementsOf
<1>2. t = [i \in 1 .. Len(s) |-> s[(Len(s) - i) + 1]]
  BY DEF Reverse
<1>3. \A i \in 1 .. Len(s) : (Len(s) - i) + 1 \in 1 .. Len(s)
                             /\ (Len(s) - ((Len(s) - i) + 1)) + 1 = i
  BY <1>1
<1>4. t \in Seq(S) /\ Len(t) = Len(s) /\ DOMAIN t = 1 .. Len(s)
  BY <1>1, <1>2, <1>3
<1>5. \A i \in 1 .. Len(s) : t[i] = s[(Len(s) - i) + 1] /\ t[(Len(s) - i) + 1] = s[i]
  BY <1>2, <1>3
<1>6. ASSUME Once(s), NEW i \in 1 .. Len(s), NEW j \in 1 .. Len(s), t[i] = t[j] PROVE i = j
  <2>0. s[(Len(s) - i) + 1] = s[(Len(s) - j) + 1]
    BY <1>5, <1>6
  <2>1. (Len(s) - i) + 1 = (Len(s) - j) + 1
    BY <1>1, <1>3, <1>6, <2>0, Zenon DEF Once
  <2>. QED
    BY <1>1, <2>1
<1>7. ASSUME NEW T, Lists(s, T) PROVE Lists(t, T)
  <2>1. \A i \in DOMAIN t : t[i] \in T
    BY <1>1, <1>3, <1>4, <1>5, <1>7 DEF Lists
  <2>2. ASSUME NEW r \in T PROVE \E i \in DOMAIN t : t[i] = r
    <3>1. PICK i \in 1 .. Len(s) : s[i] = r
      BY <1>1, <1>7 DEF Lists
    <3>. QED
      BY <1>3, <1>4, <1>5, <3>1
  <2>. QED
    BY <2>1, <2>2 DEF Lists
<1>. QED
  BY <1>4, <1>6, <1>7 DEF Once

-----------------------------------------------------------------------------
\* The history of an address.

HistoryRow == [kind : {"spend", "output"}, tx : Txs, index : Nat, height : Nat,
               address : Addresses \cup {NoAddress}]

\* Behind its first k rows, a history has the rows of a set, each once and the
\* higher first.
Tells(s, k, R) ==
    /\ k \in 0 .. Len(s)
    /\ \A j \in DOMAIN s : j > k => s[j] \in R
    /\ \A r \in R : \E j \in DOMAIN s : j > k /\ s[j] = r
    /\ \A i, j \in DOMAIN s : k < i /\ i < j => s[i] # s[j] /\ s[i].height >= s[j].height

AllAt(T, h) == \A r \in T : r.height = h

\* Rows of a height are put before those that are not higher.
LEMMA AddTells ==
    ASSUME NEW s \in Seq(HistoryRow), NEW R, Tells(s, 0, R),
           NEW d \in Seq(HistoryRow), NEW T, Lists(d, T), Once(d),
           NEW h \in Nat, AllAt(T, h), T \cap R = {},
           T # {} => \A r \in R : r.height <= h,
           NEW t, t = Reverse(d) \o s
    PROVE  t \in Seq(HistoryRow) /\ Tells(t, 0, R \cup T)
<1>1. PICK e \in Seq(HistoryRow) : e = Reverse(d) /\ Once(e) /\ Lists(e, T)
  BY ReverseIs
<1>2. t = e \o s /\ t \in Seq(HistoryRow)
  BY <1>1
<1>3. /\ Len(s) \in Nat /\ DOMAIN s = 1 .. Len(s) /\ \A i \in DOMAIN s : s[i] \in HistoryRow
      /\ Len(e) \in Nat /\ DOMAIN e = 1 .. Len(e) /\ \A i \in DOMAIN e : e[i] \in HistoryRow
  BY ElementsOf
<1>4. /\ Len(t) = Len(e) + Len(s) /\ DOMAIN t = 1 .. Len(t)
      /\ \A i \in DOMAIN e : i > 0 /\ i \in DOMAIN t /\ t[i] = e[i]
      /\ \A i \in DOMAIN s : /\ Len(e) + i > 0 /\ Len(e) + i \in DOMAIN t
                             /\ t[Len(e) + i] = s[i]
      /\ \A i \in DOMAIN t : i \in DOMAIN e \/ (i - Len(e) \in DOMAIN s /\ t[i] = s[i - Len(e)])
  BY <1>2, <1>3
<1>5. \A i \in DOMAIN e : e[i] \in T /\ e[i].height = h
  BY <1>1 DEF Lists, AllAt
<1>6. \A i \in DOMAIN s : s[i] \in R /\ s[i].height \in Nat /\ (T # {} => s[i].height <= h)
  BY <1>3 DEF Tells, HistoryRow
<1>7. \A j \in DOMAIN t : t[j] \in R \cup T
  BY <1>4, <1>5, <1>6
<1>8. ASSUME NEW r \in R \cup T PROVE \E j \in DOMAIN t : j > 0 /\ t[j] = r
  <2>1. CASE r \in T
    <3>1. PICK j \in DOMAIN e : e[j] = r
      BY <1>1, <2>1 DEF Lists
    <3>. QED
      BY <1>3, <1>4, <3>1
  <2>2. CASE r \in R
    <3>1. PICK j \in DOMAIN s : s[j] = r
      BY <2>2 DEF Tells
    <3>. QED
      BY <1>3, <1>4, <3>1
  <2>. QED
    BY <2>1, <2>2
<1>9. ASSUME NEW i \in DOMAIN t, NEW j \in DOMAIN t, i < j
      PROVE  t[i] # t[j] /\ t[i].height >= t[j].height
  <2>1. CASE i \in DOMAIN e /\ j \in DOMAIN e
    <3>1. e[i] # e[j]
      BY <1>1, <1>3, <1>9, <2>1 DEF Once
    <3>. QED
      BY <1>4, <1>5, <2>1, <3>1
  <2>2. CASE i \in DOMAIN e /\ j \notin DOMAIN e
    <3>1. j - Len(e) \in DOMAIN s /\ t[j] = s[j - Len(e)]
      BY <1>4, <2>2
    <3>2. t[i] \in T /\ t[i].height = h /\ t[j] \in R /\ t[j].height <= h /\ t[j].height \in Nat
      BY <1>4, <1>5, <1>6, <2>2, <3>1
    <3>. QED
      BY <3>2
  <2>3. CASE i \notin DOMAIN e
    <3>1. j \notin DOMAIN e
      BY <1>3, <1>4, <1>9, <2>3
    <3>2. /\ i - Len(e) \in DOMAIN s /\ t[i] = s[i - Len(e)]
          /\ j - Len(e) \in DOMAIN s /\ t[j] = s[j - Len(e)]
      BY <1>4, <2>3, <3>1
    <3>3. 0 < i - Len(e) /\ i - Len(e) < j - Len(e)
      <4>1. i - Len(e) \in 1 .. Len(s) /\ Len(e) \in Nat
        BY <1>3, <3>2
      <4>2. i \in Int /\ j \in Int
        BY <1>3, <1>4
      <4>. QED
        BY <1>9, <4>1, <4>2
    <3>. QED
      BY <3>2, <3>3 DEF Tells
  <2>. QED
    BY <2>1, <2>2, <2>3
<1>10. 0 \in 0 .. Len(t)
  BY <1>3, <1>4
<1>. QED
  BY <1>2, <1>7, <1>8, <1>9, <1>10 DEF Tells

\* Of the first k rows, some are deleted.
LEMMA DropTells ==
    ASSUME NEW s \in Seq(HistoryRow), NEW k, NEW R, Tells(s, k, R), NEW n \in 0 .. k,
           NEW t, t = SubSeq(s, n + 1, Len(s))
    PROVE  t \in Seq(HistoryRow) /\ Tells(t, k - n, R)
<1>1. Len(s) \in Nat /\ DOMAIN s = 1 .. Len(s) /\ \A i \in DOMAIN s : s[i] \in HistoryRow
  BY ElementsOf
<1>2. k \in Nat /\ k <= Len(s) /\ n \in Nat /\ n <= k /\ n <= Len(s)
  <2>1. k \in 0 .. Len(s)
    BY DEF Tells
  <2>. QED
    BY <1>1, <2>1
<1>3. t = [i \in 1 .. Len(s) - n |-> s[i + n]]
  <2>1. t = [i \in 1 .. (1 + Len(s) - (n + 1)) |-> s[i + (n + 1) - 1]]
    BY <1>1, <1>2
  <2>2. 1 + Len(s) - (n + 1) = Len(s) - n
    BY <1>1, <1>2
  <2>3. \A i \in 1 .. Len(s) - n : i + (n + 1) - 1 = i + n
    BY <1>1, <1>2
  <2>. QED
    BY <2>1, <2>2, <2>3
<1>4. PICK l \in Nat, m \in Nat : l = Len(s) - n /\ m = k - n /\ m <= l
  <2>1. Len(s) - n \in Nat /\ k - n \in Nat /\ k - n <= Len(s) - n
    BY <1>1, <1>2
  <2>. QED
    BY <2>1
<1>5. /\ \A i \in 1 .. l : i + n \in DOMAIN s /\ (i > m <=> i + n > k)
      /\ \A i \in DOMAIN s : i > k => i - n \in 1 .. l /\ i - n > m /\ (i - n) + n = i
  BY <1>1, <1>2, <1>4
<1>6. t = [i \in 1 .. l |-> s[i + n]]
  BY <1>3, <1>4
<1>7. t \in Seq(HistoryRow) /\ Len(t) = l /\ DOMAIN t = 1 .. l
  <2>1. \A i \in 1 .. l : s[i + n] \in HistoryRow
    BY <1>1, <1>5
  <2>. QED
    BY <1>6, <2>1
<1>8. \A i \in 1 .. l : t[i] = s[i + n]
  BY <1>6
<1>9. m \in 0 .. Len(t)
  BY <1>4, <1>7
<1>10. ASSUME NEW j \in DOMAIN t, j > m PROVE t[j] \in R
  <2>1. j + n \in DOMAIN s /\ j + n > k
    BY <1>5, <1>7, <1>10
  <2>. QED
    BY <1>7, <1>8, <2>1 DEF Tells
<1>11. ASSUME NEW r \in R PROVE \E j \in DOMAIN t : j > m /\ t[j] = r
  <2>1. PICK i \in DOMAIN s : i > k /\ s[i] = r
    BY DEF Tells
  <2>2. i - n \in DOMAIN t /\ i - n > m /\ t[i - n] = r
    BY <1>5, <1>7, <1>8, <2>1
  <2>. QED
    BY <2>2
<1>12. ASSUME NEW i \in DOMAIN t, NEW j \in DOMAIN t, m < i, i < j
       PROVE  t[i] # t[j] /\ t[i].height >= t[j].height
  <2>1. /\ i + n \in DOMAIN s /\ j + n \in DOMAIN s /\ k < i + n /\ i + n < j + n
        /\ t[i] = s[i + n] /\ t[j] = s[j + n]
    <3>1. i \in 1 .. l /\ j \in 1 .. l /\ i + n < j + n
      BY <1>2, <1>4, <1>7, <1>12
    <3>. QED
      BY <1>5, <1>8, <1>12, <3>1
  <2>. QED
    BY <2>1 DEF Tells
<1>13. Tells(t, m, R)
  BY <1>9, <1>10, <1>11, <1>12 DEF Tells
<1>. QED
  BY <1>4, <1>7, <1>13

\* Where fewer are there than are deleted, rows behind them go.
Drop(s, n) == SubSeq(s, n + 1, Len(s))
LEMMA DropMore ==
    ASSUME NEW s \in Seq(HistoryRow), NEW k, NEW R, Tells(s, k, R),
           NEW n \in Nat, n >= k, NEW t, t = Drop(s, n)
    PROVE  t \in Seq(HistoryRow) /\ \E Q \in SUBSET R : Tells(t, 0, Q)
<1>1. Len(s) \in Nat /\ DOMAIN s = 1 .. Len(s) /\ \A i \in DOMAIN s : s[i] \in HistoryRow
  BY ElementsOf
<1>2. k \in Nat
  BY <1>1 DEF Tells
<1>3. PICK l \in Nat : IF n <= Len(s) THEN l = Len(s) - n ELSE l = 0
  <2>1. CASE n <= Len(s)
    <3>1. Len(s) - n \in Nat
      BY <1>1, <2>1
    <3>. QED
      BY <2>1, <3>1
  <2>2. CASE ~(n <= Len(s))
    BY <2>2
  <2>. QED
    BY <2>1, <2>2
<1>4. \A i \in 1 .. l : i + n \in DOMAIN s /\ i + n > k /\ i + (n + 1) - 1 = i + n
  <2>1. CASE n <= Len(s)
    BY <1>1, <1>2, <1>3, <2>1
  <2>2. CASE ~(n <= Len(s))
    BY <1>3, <2>2
  <2>. QED
    BY <2>1, <2>2
<1>5. t = [i \in 1 .. (1 + Len(s) - (n + 1)) |-> s[i + (n + 1) - 1]]
  BY <1>1 DEF Drop
<1>6. 1 .. (1 + Len(s) - (n + 1)) = 1 .. l
  <2>1. CASE n <= Len(s)
    <3>1. 1 + Len(s) - (n + 1) = Len(s) - n
      BY <1>1
    <3>2. l = Len(s) - n
      BY <1>3, <2>1, Zenon
    <3>. QED
      BY <3>1, <3>2
  <2>2. CASE ~(n <= Len(s))
    <3>1. \A i \in Nat : ~(1 <= i /\ i <= 1 + Len(s) - (n + 1)) /\ ~(1 <= i /\ i <= 0)
      BY <1>1, <2>2
    <3>2. 1 .. (1 + Len(s) - (n + 1)) = {} /\ 1 .. 0 = {}
      BY <1>1, <2>2, <3>1
    <3>. QED
      BY <1>3, <2>2, <3>2
  <2>. QED
    BY <2>1, <2>2
<1>7. t = [i \in 1 .. l |-> s[i + n]]
  BY <1>4, <1>5, <1>6
<1>8. t \in Seq(HistoryRow) /\ Len(t) = l /\ DOMAIN t = 1 .. l
  <2>1. \A i \in 1 .. l : s[i + n] \in HistoryRow
    BY <1>1, <1>4
  <2>. QED
    BY <1>7, <2>1
<1>9. \A i \in 1 .. l : t[i] = s[i + n]
  BY <1>7
<1>10. PICK Q : Q = {t[i] : i \in 1 .. l}
  OBVIOUS
<1>11. Q \in SUBSET R
  <2>1. \A i \in 1 .. l : s[i + n] \in R
    BY <1>4 DEF Tells
  <2>. QED
    BY <1>9, <1>10, <2>1
<1>12. ASSUME NEW i \in DOMAIN t, NEW j \in DOMAIN t, i < j
       PROVE  t[i] # t[j] /\ t[i].height >= t[j].height
  <2>1. /\ i + n \in DOMAIN s /\ j + n \in DOMAIN s /\ k < i + n /\ i + n < j + n
        /\ t[i] = s[i + n] /\ t[j] = s[j + n]
    <3>1. i \in 1 .. l /\ j \in 1 .. l /\ i + n < j + n
      BY <1>8, <1>12
    <3>2. i + n > k
      BY <1>4, <3>1
    <3>. QED
      BY <1>2, <1>4, <1>9, <3>1, <3>2
  <2>. QED
    BY <2>1 DEF Tells
<1>13. \A i \in DOMAIN t : i > 0 /\ t[i] \in Q
  BY <1>8, <1>10
<1>14. \A r \in Q : \E i \in DOMAIN t : i > 0 /\ t[i] = r
  BY <1>8, <1>10, <1>13
<1>15. 0 \in 0 .. Len(t)
  BY <1>8
<1>16. Tells(t, 0, Q)
  BY <1>12, <1>13, <1>14, <1>15 DEF Tells
<1>. QED
  BY <1>8, <1>11, <1>16

\* However many are deleted.
Less(k, n) == IF n <= k THEN k - n ELSE 0
LEMMA DropsIs ==
    ASSUME NEW s \in Seq(HistoryRow), NEW k, NEW R, Tells(s, k, R), NEW n \in Nat,
           NEW t, t = Drop(s, n)
    PROVE  /\ k \in Nat /\ t \in Seq(HistoryRow)
           /\ \E Q \in SUBSET R : Tells(t, Less(k, n), Q) /\ (n <= k => Q = R)
<1>1. k \in Nat
  <2>1. Len(s) \in Nat
    BY ElementsOf
  <2>. QED
    BY <2>1 DEF Tells
<1>2. CASE n <= k
  <2>1. n \in 0 .. k /\ Less(k, n) = k - n
    BY <1>1, <1>2 DEF Less
  <2>2. t \in Seq(HistoryRow) /\ Tells(t, k - n, R)
    BY <2>1, DropTells DEF Drop
  <2>. QED
    BY <1>1, <2>1, <2>2
<1>3. CASE ~(n <= k)
  <2>1. n >= k /\ Less(k, n) = 0
    BY <1>1, <1>3 DEF Less
  <2>2. t \in Seq(HistoryRow) /\ \E Q \in SUBSET R : Tells(t, 0, Q)
    BY <2>1, DropMore
  <2>. QED
    BY <1>1, <1>3, <2>1, <2>2
<1>. QED
  BY <1>2, <1>3

\* The rows of the highest height are the first.
LEMMA SplitTells ==
    ASSUME NEW s \in Seq(HistoryRow), NEW R, Tells(s, 0, R), NEW h \in Nat,
           \A r \in R : r.height <= h, NEW U, U = {r \in R : r.height = h}
    PROVE  IsFiniteSet(U) /\ Tells(s, Cardinality(U), R \ U)
<1>1. Len(s) \in Nat /\ DOMAIN s = 1 .. Len(s) /\ \A i \in DOMAIN s : s[i] \in HistoryRow
  BY ElementsOf
<1>2. \A i \in DOMAIN s : s[i] \in R /\ s[i].height <= h /\ s[i].height \in Nat
  BY <1>1 DEF Tells, HistoryRow
<1> DEFINE T == {j \in 1 .. Len(s) + 1 : j \in DOMAIN s => s[j].height # h}
<1>3. PICK m \in T : \A n \in T : m <= n
  <2>1. T \in SUBSET Nat /\ Len(s) + 1 \in T
    BY <1>1
  <2>. HIDE DEF T
  <2>. QED
    BY <2>1, Least
<1>4. PICK k \in Nat : k = m - 1 /\ k <= Len(s)
  BY <1>1, <1>3
<1>5. \A j \in DOMAIN s : j <= k => s[j].height = h
  BY <1>1, <1>3, <1>4
<1>6. ASSUME NEW j \in DOMAIN s, j > k PROVE s[j].height # h
  <2>1. m \in DOMAIN s /\ s[m].height # h /\ m <= j
    BY <1>1, <1>3, <1>4, <1>6
  <2>2. m = j \/ s[m].height >= s[j].height
    BY <1>1, <2>1 DEF Tells
  <2>. QED
    BY <1>2, <2>1, <2>2
<1>7. PICK u : u = [j \in 1 .. k |-> s[j]]
  OBVIOUS
<1>8. /\ u \in Seq(HistoryRow) /\ Len(u) = k /\ DOMAIN u = 1 .. k
      /\ \A j \in 1 .. k : u[j] = s[j] /\ j \in DOMAIN s
  BY <1>1, <1>4, <1>7
<1>9. Once(u)
  <2>1. ASSUME NEW i \in 1 .. k, NEW j \in 1 .. k, i < j PROVE s[i] # s[j]
    BY <1>8, <2>1 DEF Tells
  <2>2. \A i, j \in 1 .. k : i = j \/ i < j \/ j < i
    BY <1>4
  <2>. QED
    BY <1>8, <2>1, <2>2 DEF Once
<1>10. Lists(u, U)
  <2>1. \A j \in DOMAIN u : u[j] \in U
    BY <1>2, <1>4, <1>5, <1>8
  <2>2. ASSUME NEW r \in U PROVE \E j \in DOMAIN u : u[j] = r
    <3>1. PICK j \in DOMAIN s : s[j] = r
      BY DEF Tells
    <3>2. j <= k
      BY <1>1, <1>4, <1>6, <3>1
    <3>. QED
      BY <1>1, <1>8, <3>1, <3>2
  <2>. QED
    BY <2>1, <2>2 DEF Lists
<1>11. IsFiniteSet(U) /\ Cardinality(U) = k
  BY <1>8, <1>9, <1>10, ListCounts
<1>12. \A j \in DOMAIN s : j > k => s[j] \in R \ U
  BY <1>2, <1>6
<1>13. ASSUME NEW r \in R \ U PROVE \E j \in DOMAIN s : j > k /\ s[j] = r
  <2>1. PICK j \in DOMAIN s : s[j] = r
    BY DEF Tells
  <2>2. ~(j <= k)
    BY <1>5, <2>1
  <2>. QED
    BY <1>1, <1>4, <2>1, <2>2
<1>14. \A i, j \in DOMAIN s : k < i /\ i < j => s[i] # s[j] /\ s[i].height >= s[j].height
  BY <1>1, <1>4 DEF Tells
<1>15. k \in 0 .. Len(s)
  BY <1>1, <1>4
<1>16. Tells(s, k, R \ U)
  BY <1>12, <1>13, <1>14, <1>15 DEF Tells
<1>. QED
  BY <1>11, <1>16

\* The rows of a transaction are of its height, and no two are the same.
LEMMA RowsAre ==
    ASSUME NEW tx \in Txs, NEW h \in Nat
    PROVE  /\ InputRows(tx, h) \in Seq(HistoryRow) /\ Once(InputRows(tx, h))
           /\ OutputRows(tx, h) \in Seq(HistoryRow) /\ Once(OutputRows(tx, h))
           /\ \A r \in ToSet(InputRows(tx, h)) : r.kind = "spend" /\ r.tx = tx /\ r.height = h
           /\ \A r \in ToSet(OutputRows(tx, h)) : r.kind = "output" /\ r.tx = tx /\ r.height = h
<1> DEFINE I == InputRows(tx, h)
           O == OutputRows(tx, h)
           Input == [point : Point, address : Addresses \cup {NoAddress}]
           Address == Addresses \cup {NoAddress}
<1>1. InputsOf[tx] \in Seq(Input) /\ OutputsOf[tx] \in Seq(Address)
  BY DataAssumption DEF DataAssumption
<1>2. PICK ins \in Seq(Input), outs \in Seq(Address) : ins = InputsOf[tx] /\ outs = OutputsOf[tx]
  BY <1>1
<1>3. /\ Len(ins) \in Nat /\ DOMAIN ins = 1 .. Len(ins) /\ \A i \in 1 .. Len(ins) : ins[i] \in Input
      /\ Len(outs) \in Nat /\ DOMAIN outs = 1 .. Len(outs)
      /\ \A i \in 1 .. Len(outs) : outs[i] \in Address
  <2>. HIDE DEF Input, Address
  <2>. QED
    BY ElementsOf
<1>4. \A i \in 1 .. Len(ins) : ins[i].address \in Address
  BY <1>3
<1>5. /\ I = [i \in 1 .. Len(ins) |->
               [kind |-> "spend", tx |-> tx, index |-> i - 1, height |-> h,
                address |-> ins[i].address]]
      /\ O = [i \in 1 .. Len(outs) |->
               [kind |-> "output", tx |-> tx, index |-> i - 1, height |-> h,
                address |-> outs[i]]]
  BY <1>2, <1>3 DEF InputRows, OutputRows
<1>. HIDE DEF I, O, Input
<1>6. /\ \A i \in 1 .. Len(ins) : /\ I[i] \in HistoryRow /\ I[i].kind = "spend" /\ I[i].tx = tx
                                 /\ I[i].height = h /\ I[i].index = i - 1
      /\ \A i \in 1 .. Len(outs) : /\ O[i] \in HistoryRow /\ O[i].kind = "output" /\ O[i].tx = tx
                                  /\ O[i].height = h /\ O[i].index = i - 1
  <2>1. ASSUME NEW i \in 1 .. Len(ins)
        PROVE  /\ I[i] \in HistoryRow /\ I[i].kind = "spend" /\ I[i].tx = tx
               /\ I[i].height = h /\ I[i].index = i - 1
    <3>1. i - 1 \in Nat /\ ins[i].address \in Address
      BY <1>3, <1>4
    <3>. QED
      BY <1>5, <3>1 DEF HistoryRow
  <2>2. ASSUME NEW i \in 1 .. Len(outs)
        PROVE  /\ O[i] \in HistoryRow /\ O[i].kind = "output" /\ O[i].tx = tx
               /\ O[i].height = h /\ O[i].index = i - 1
    <3>1. i - 1 \in Nat /\ outs[i] \in Address
      BY <1>3
    <3>. QED
      BY <1>5, <3>1 DEF HistoryRow
  <2>. QED
    BY <2>1, <2>2
<1>7. DOMAIN I = 1 .. Len(ins) /\ DOMAIN O = 1 .. Len(outs)
  BY <1>5
<1>8. I \in Seq(HistoryRow) /\ O \in Seq(HistoryRow)
  <2>1. I \in [1 .. Len(ins) -> HistoryRow] /\ O \in [1 .. Len(outs) -> HistoryRow]
    BY <1>5, <1>6
  <2>2. I \in UNION {[1 .. n -> HistoryRow] : n \in Nat}
    BY <1>3, <2>1
  <2>3. O \in UNION {[1 .. n -> HistoryRow] : n \in Nat}
    BY <1>3, <2>1
  <2>. QED
    BY <2>2, <2>3, SeqDef, Zenon
<1>9. Once(I) /\ Once(O)
  <2>1. ASSUME NEW i \in 1 .. Len(ins), NEW j \in 1 .. Len(ins), I[i] = I[j] PROVE i = j
    <3>1. i - 1 = j - 1
      BY <1>6, <2>1
    <3>. QED
      BY <1>3, <3>1
  <2>2. ASSUME NEW i \in 1 .. Len(outs), NEW j \in 1 .. Len(outs), O[i] = O[j] PROVE i = j
    <3>1. i - 1 = j - 1
      BY <1>6, <2>2
    <3>. QED
      BY <1>3, <3>1
  <2>. QED
    BY <1>7, <2>1, <2>2 DEF Once
<1>10. ToSet(I) = {I[i] : i \in DOMAIN I} /\ ToSet(O) = {O[i] : i \in DOMAIN O}
  BY Zenon DEF ToSet
<1>11. /\ \A r \in ToSet(I) : r.kind = "spend" /\ r.tx = tx /\ r.height = h
       /\ \A r \in ToSet(O) : r.kind = "output" /\ r.tx = tx /\ r.height = h
  BY <1>6, <1>7, <1>10
<1>. QED
  BY <1>8, <1>9, <1>11 DEF I, O

\* Those of an address are the spends and the outputs.
Inputs(tx, h, a) == {r \in ToSet(InputRows(tx, h)) : r.address = a}
Outs(tx, h, a) == {r \in ToSet(OutputRows(tx, h)) : r.address = a}

\* They are apart, and as many as both together.
LEMMA HistoryRowsAre ==
    ASSUME NEW tx \in Txs, NEW h \in Nat, NEW a,
           NEW i, i = RowsFor(InputRows(tx, h), a), NEW o, o = RowsFor(OutputRows(tx, h), a)
    PROVE  /\ i \in Seq(HistoryRow) /\ Once(i) /\ Lists(i, Inputs(tx, h, a))
           /\ o \in Seq(HistoryRow) /\ Once(o) /\ Lists(o, Outs(tx, h, a))
           /\ HistoryRows(tx, h, a) = Inputs(tx, h, a) \cup Outs(tx, h, a)
           /\ Inputs(tx, h, a) \cap Outs(tx, h, a) = {}
           /\ \A r \in HistoryRows(tx, h, a) : r.tx = tx /\ r.height = h
           /\ IsFiniteSet(HistoryRows(tx, h, a))
           /\ Cardinality(HistoryRows(tx, h, a)) = Len(i) + Len(o)
<1>1. /\ InputRows(tx, h) \in Seq(HistoryRow) /\ Once(InputRows(tx, h))
      /\ OutputRows(tx, h) \in Seq(HistoryRow) /\ Once(OutputRows(tx, h))
      /\ \A r \in ToSet(InputRows(tx, h)) : r.kind = "spend" /\ r.tx = tx /\ r.height = h
      /\ \A r \in ToSet(OutputRows(tx, h)) : r.kind = "output" /\ r.tx = tx /\ r.height = h
  BY RowsAre
<1>2. /\ i \in Seq(HistoryRow) /\ Once(i) /\ Lists(i, Inputs(tx, h, a))
      /\ o \in Seq(HistoryRow) /\ Once(o) /\ Lists(o, Outs(tx, h, a))
  BY <1>1, RowsForIs DEF Inputs, Outs
<1>3. HistoryRows(tx, h, a) = Inputs(tx, h, a) \cup Outs(tx, h, a)
  BY DEF HistoryRows, Inputs, Outs
<1>4. /\ Inputs(tx, h, a) \cap Outs(tx, h, a) = {}
      /\ \A r \in HistoryRows(tx, h, a) : r.tx = tx /\ r.height = h
  BY <1>1, <1>3 DEF Inputs, Outs
<1>5. /\ IsFiniteSet(Inputs(tx, h, a)) /\ Cardinality(Inputs(tx, h, a)) = Len(i)
      /\ IsFiniteSet(Outs(tx, h, a)) /\ Cardinality(Outs(tx, h, a)) = Len(o)
  BY <1>2, ListCounts
<1>6. PICK I, O : I = Inputs(tx, h, a) /\ O = Outs(tx, h, a)
  OBVIOUS
<1>7. /\ IsFiniteSet(I \cup O)
      /\ Cardinality(I \cup O) = Cardinality(I) + Cardinality(O) - Cardinality({})
  <2>1. IsFiniteSet(I \cup O)
        /\ Cardinality(I \cup O) = Cardinality(I) + Cardinality(O) - Cardinality(I \cap O)
    BY <1>5, <1>6, FS_Union
  <2>2. I \cap O = {}
    BY <1>4, <1>6
  <2>. QED
    BY <2>1, <2>2, Zenon
<1>8. Len(i) \in Nat /\ Len(o) \in Nat /\ Cardinality({}) = 0
  BY <1>2, FS_EmptySet
<1>9. Cardinality(I \cup O) = Len(i) + Len(o)
  BY <1>5, <1>6, <1>7, <1>8
<1>. QED
  BY <1>2, <1>3, <1>4, <1>6, <1>7, <1>9

\* What a transaction adds to the history of an address: its rows, but for
\* those that are lost.
LEMMA AddRowIs ==
    ASSUME NEW tx \in Txs, NEW h \in Nat, NEW a \in Addresses, NEW g, NEW k, NEW lost,
           k = AddRow(OutputRows(tx, h), lost, AddRow(InputRows(tx, h), lost, g)),
           g[a] \in Seq(HistoryRow), NEW R, Tells(g[a], 0, R),
           HistoryRows(tx, h, a) # {} => \A r \in R : r.height <= h,
           \A r \in R : r.tx # tx
    PROVE  k[a] \in Seq(HistoryRow) /\ Tells(k[a], 0, R \cup (HistoryRows(tx, h, a) \ lost))
<1>1. PICK i, o, I, O :
         /\ i = Part(InputRows(tx, h), KeptAt(InputRows(tx, h), a, lost))
         /\ o = Part(OutputRows(tx, h), KeptAt(OutputRows(tx, h), a, lost))
         /\ I = Inputs(tx, h, a) \ lost /\ O = Outs(tx, h, a) \ lost
  OBVIOUS
<1>2. /\ InputRows(tx, h) \in Seq(HistoryRow) /\ Once(InputRows(tx, h))
      /\ OutputRows(tx, h) \in Seq(HistoryRow) /\ Once(OutputRows(tx, h))
  BY RowsAre
<1>3. /\ i \in Seq(HistoryRow) /\ Once(i) /\ Lists(i, I)
      /\ o \in Seq(HistoryRow) /\ Once(o) /\ Lists(o, O)
  <2>1. /\ I = OfAddress(InputRows(tx, h), a) \ lost
        /\ O = OfAddress(OutputRows(tx, h), a) \ lost
    BY <1>1 DEF Inputs, Outs, OfAddress
  <2>2. i \in Seq(HistoryRow) /\ Once(i) /\ Lists(i, I)
    BY <1>1, <1>2, <2>1, KeptIs
  <2>3. o \in Seq(HistoryRow) /\ Once(o) /\ Lists(o, O)
    BY <1>1, <1>2, <2>1, KeptIs
  <2>. QED
    BY <2>2, <2>3
<1>4. /\ HistoryRows(tx, h, a) \ lost = I \cup O /\ I \cap O = {}
      /\ \A r \in HistoryRows(tx, h, a) : r.tx = tx /\ r.height = h
      /\ (I # {} \/ O # {} => HistoryRows(tx, h, a) # {})
  <2>1. /\ HistoryRows(tx, h, a) = Inputs(tx, h, a) \cup Outs(tx, h, a)
        /\ Inputs(tx, h, a) \cap Outs(tx, h, a) = {}
        /\ \A r \in HistoryRows(tx, h, a) : r.tx = tx /\ r.height = h
    BY HistoryRowsAre
  <2>. QED
    BY <1>1, <2>1
<1>5. I \subseteq HistoryRows(tx, h, a) /\ O \subseteq HistoryRows(tx, h, a)
  BY <1>4
<1>6. /\ AllAt(I, h) /\ AllAt(O, h) /\ I \cap R = {} /\ O \cap (R \cup I) = {}
      /\ (I # {} \/ O # {} => \A r \in R : r.height <= h)
  BY <1>4, <1>5 DEF AllAt
<1>7. PICK s \in Seq(HistoryRow) : s = g[a]
  OBVIOUS
<1>8. PICK t : t = Reverse(i) \o s
  OBVIOUS
<1>9. k[a] = Reverse(o) \o t
  <2>1. AddRow(InputRows(tx, h), lost, g)[a] = t
    BY <1>1, <1>7, <1>8 DEF AddRow, Part, KeptAt
  <2>2. k[a] = Reverse(o) \o AddRow(InputRows(tx, h), lost, g)[a]
    BY <1>1 DEF AddRow, Part, KeptAt
  <2>. QED
    BY <2>1, <2>2
<1>10. t \in Seq(HistoryRow) /\ Tells(t, 0, R \cup I)
  BY <1>3, <1>6, <1>7, <1>8, AddTells
<1>11. O # {} => \A r \in R \cup I : r.height <= h
  BY <1>6 DEF AllAt
<1>12. PICK u : u = Reverse(o) \o t
  OBVIOUS
<1>13. u \in Seq(HistoryRow) /\ Tells(u, 0, (R \cup I) \cup O)
  BY <1>3, <1>6, <1>10, <1>11, <1>12, AddTells
<1>14. (R \cup I) \cup O = R \cup (HistoryRows(tx, h, a) \ lost)
  BY <1>4
<1>. QED
  BY <1>9, <1>12, <1>13, <1>14

\* What is left of the rows without those of a transaction.
Without(U, H, V) == H \subseteq U /\ V = U \ H

\* What a transaction that is popped takes off the history: its rows, or
\* others where rows were lost.
Dropped(s, U, V, n, R) ==
    \E Q \in SUBSET R, m \in Nat :
        /\ Tells(s, m, Q) /\ m <= Cardinality(V)
        /\ n = Cardinality(U) => m = Cardinality(V) /\ Q = R
LEMMA DropRowsIs ==
    ASSUME NEW tx \in Txs, NEW h \in Nat, NEW a \in Addresses, NEW g, NEW k,
           k = DropRows(InputRows(tx, h), DropRows(OutputRows(tx, h), g)),
           g[a] \in Seq(HistoryRow), NEW U, IsFiniteSet(U), NEW n, n <= Cardinality(U),
           NEW R, Tells(g[a], n, R),
           NEW V, Without(U, HistoryRows(tx, h, a), V)
    PROVE  k[a] \in Seq(HistoryRow) /\ IsFiniteSet(V) /\ Dropped(k[a], U, V, n, R)
<1>1. PICK i, o, H : /\ i = RowsFor(InputRows(tx, h), a) /\ o = RowsFor(OutputRows(tx, h), a)
                     /\ H = HistoryRows(tx, h, a)
  OBVIOUS
<1>2. /\ i \in Seq(HistoryRow) /\ o \in Seq(HistoryRow)
      /\ IsFiniteSet(H) /\ Cardinality(H) = Len(i) + Len(o)
  BY SMTT(20), <1>1, HistoryRowsAre
<1>3. PICK x \in Nat, y \in Nat : x = Len(i) /\ y = Len(o)
  BY <1>2
<1>4. /\ IsFiniteSet(V) /\ Cardinality(V) \in Nat /\ Cardinality(U) \in Nat
      /\ Cardinality(U) = Cardinality(V) + Cardinality(H)
  <2>1. V \in SUBSET U /\ V \cup H = U /\ V \cap H = {}
    BY <1>1 DEF Without
  <2>2. IsFiniteSet(V) /\ Cardinality(V) \in Nat /\ Cardinality(U) \in Nat
    BY <2>1, FS_Subset, FS_CardinalityType
  <2>3. Cardinality(V \cup H) = Cardinality(V) + Cardinality(H) - Cardinality(V \cap H)
    BY <1>2, <2>2, FS_Union
  <2>4. Cardinality({}) = 0 /\ Cardinality(H) \in Nat
    BY <1>2, <1>3, FS_EmptySet
  <2>5. Cardinality(U) = Cardinality(V) + Cardinality(H) - Cardinality({})
    BY <2>1, <2>3, Zenon
  <2>. QED
    BY <2>2, <2>4, <2>5
<1>5. PICK c \in Nat, v \in Nat : c = Cardinality(U) /\ v = Cardinality(V)
  BY <1>4
<1>6. c = v + (x + y) /\ n <= c
  BY <1>2, <1>3, <1>4, <1>5
<1>7. PICK s \in Seq(HistoryRow) : s = g[a]
  OBVIOUS
<1>8. PICK t : t = Drop(s, y)
  OBVIOUS
<1>9. k[a] = Drop(t, x)
  BY <1>1, <1>3, <1>7, <1>8 DEF DropRows, Drop
<1>10. /\ n \in Nat /\ t \in Seq(HistoryRow)
       /\ \E P \in SUBSET R : Tells(t, Less(n, y), P) /\ (y <= n => P = R)
  BY <1>7, <1>8, DropsIs
<1>11. PICK P \in SUBSET R : Tells(t, Less(n, y), P) /\ (y <= n => P = R)
  BY <1>10
<1>12. PICK l : l = Less(n, y) /\ Tells(t, l, P)
  BY <1>11
<1>13. PICK u : u = Drop(t, x)
  OBVIOUS
<1>14. /\ l \in Nat /\ u \in Seq(HistoryRow)
       /\ \E Q \in SUBSET P : Tells(u, Less(l, x), Q) /\ (x <= l => Q = P)
  <2>1. t \in Seq(HistoryRow) /\ Tells(t, l, P)
    BY <1>10, <1>12
  <2>. QED
    BY <1>13, <2>1, DropsIs
<1>15. PICK Q \in SUBSET P : Tells(u, Less(l, x), Q) /\ (x <= l => Q = P)
  BY <1>14
<1>16. Less(l, x) <= v
  BY <1>6, <1>10, <1>12, <1>14 DEF Less
<1>17. n = c => Less(l, x) = v /\ y <= n /\ x <= l
  BY <1>6, <1>10, <1>12, <1>14 DEF Less
<1>18. Q \in SUBSET R /\ (n = c => Q = R)
  BY <1>11, <1>15, <1>17
<1>19. PICK m : m = Less(l, x)
  OBVIOUS
<1>20. m \in Nat
  BY <1>14, <1>19 DEF Less
<1>21. Tells(u, m, Q) /\ m <= v /\ (n = c => m = v /\ Q = R) /\ k[a] = u
  BY <1>9, <1>13, <1>15, <1>16, <1>17, <1>18, <1>19
<1>22. /\ Tells(k[a], m, Q) /\ m <= Cardinality(V)
       /\ n = Cardinality(U) => m = Cardinality(V) /\ Q = R
  BY <1>5, <1>21
<1>. QED
  BY <1>4, <1>14, <1>18, <1>20, <1>21, <1>22 DEF Dropped

-----------------------------------------------------------------------------
\* What a table confirms, and at which heights, is what the rows are of.

\* Nothing changes, a transaction joins at a height, or one leaves.
SameBook(s, t) ==
    ConfirmedIn(t) = ConfirmedIn(s) /\ \A u \in ConfirmedIn(s) : t[u].height = s[u].height
AddsTo(s, t, tx, h) ==
    /\ tx \notin ConfirmedIn(s) /\ ConfirmedIn(t) = ConfirmedIn(s) \cup {tx}
    /\ t[tx].height = h /\ \A u \in ConfirmedIn(s) : t[u].height = s[u].height
TakesFrom(s, t, tx) ==
    /\ tx \in ConfirmedIn(s) /\ ConfirmedIn(t) = ConfirmedIn(s) \ {tx}
    /\ \A u \in ConfirmedIn(t) : t[u].height = s[u].height

\* The transactions from the indexed height up, and the rows of an address.
IndexedIn(s) == {tx \in ConfirmedIn(s) : s[tx].height >= IndexStart}
TableRows(s, a) == UNION {HistoryRows(tx, s[tx].height, a) : tx \in IndexedIn(s)}
InRows(s, a, tx, r) == tx \in IndexedIn(s) /\ r \in HistoryRows(tx, s[tx].height, a)

\* A row of an address is one of an indexed transaction.
LEMMA InTable ==
    ASSUME NEW s, NEW a, NEW r
    PROVE  r \in TableRows(s, a) <=> \E tx : InRows(s, a, tx, r)
<1>1. r \in TableRows(s, a) <=> \E tx \in IndexedIn(s) : r \in HistoryRows(tx, s[tx].height, a)
  BY Zenon DEF TableRows
<1>. QED
  BY <1>1, Zenon DEF InRows

\* The same book has the same rows.
LEMMA SameRows ==
    ASSUME NEW s, NEW t, SameBook(s, t)
    PROVE  /\ IndexedIn(t) = IndexedIn(s) /\ \A u \in IndexedIn(s) : t[u].height = s[u].height
           /\ \A a : TableRows(t, a) = TableRows(s, a)
<1>1. \A u : u \in IndexedIn(t) <=> u \in IndexedIn(s)
  BY DEF SameBook, IndexedIn
<1>2. IndexedIn(t) = IndexedIn(s)
  BY <1>1
<1>3. \A u \in IndexedIn(s) : t[u].height = s[u].height
  BY DEF SameBook, IndexedIn
<1>4. ASSUME NEW a PROVE TableRows(t, a) = TableRows(s, a)
  <2>1. ASSUME NEW u, NEW r PROVE InRows(t, a, u, r) <=> InRows(s, a, u, r)
    <3>1. CASE u \in IndexedIn(s)
      <4>1. t[u].height = s[u].height
        BY <1>3, <3>1
      <4>. QED
        BY <1>2, <4>1, Zenon DEF InRows
    <3>2. CASE u \notin IndexedIn(s)
      BY <1>2, <3>2, Zenon DEF InRows
    <3>. QED
      BY <3>1, <3>2
  <2>2. \A r : r \in TableRows(t, a) <=> r \in TableRows(s, a)
    BY <2>1, InTable, Zenon
  <2>. QED
    BY <2>2
<1>. QED
  BY <1>2, <1>3, <1>4

\* A transaction that joins below the indexed height changes no rows, any
\* other adds its own.
LEMMA AddedRows ==
    ASSUME NEW s, NEW t, NEW tx, NEW h \in Nat, IndexStart \in Nat, AddsTo(s, t, tx, h)
    PROVE  /\ tx \notin IndexedIn(s)
           /\ \A u \in IndexedIn(s) : u \in IndexedIn(t) /\ t[u].height = s[u].height
           /\ h < IndexStart => /\ IndexedIn(t) = IndexedIn(s)
                                /\ \A a : TableRows(t, a) = TableRows(s, a)
           /\ h >= IndexStart =>
                /\ IndexedIn(t) = IndexedIn(s) \cup {tx} /\ t[tx].height = h
                /\ \A a : TableRows(t, a) = TableRows(s, a) \cup HistoryRows(tx, h, a)
<1>1. /\ tx \notin IndexedIn(s)
      /\ \A u \in IndexedIn(s) : u \in ConfirmedIn(t) /\ t[u].height = s[u].height
  BY DEF AddsTo, IndexedIn
<1>2. \A u \in IndexedIn(s) : u \in IndexedIn(t)
  BY <1>1 DEF IndexedIn
<1>3. \A u \in IndexedIn(t) : u \in IndexedIn(s) \/ (u = tx /\ h >= IndexStart)
  BY DEF AddsTo, IndexedIn
<1>4. h >= IndexStart => tx \in IndexedIn(t)
  BY DEF AddsTo, IndexedIn
<1>5. t[tx].height = h
  BY DEF AddsTo
<1>6. ASSUME NEW a, NEW r
      PROVE  r \in TableRows(t, a) <=>
               r \in TableRows(s, a) \/ (h >= IndexStart /\ r \in HistoryRows(tx, h, a))
  <2>1. ASSUME NEW u, InRows(s, a, u, r) PROVE InRows(t, a, u, r)
    <3>1. u \in IndexedIn(s) /\ u \in IndexedIn(t) /\ t[u].height = s[u].height
      BY <1>1, <1>2, <2>1, Zenon DEF InRows
    <3>. QED
      BY <2>1, <3>1, Zenon DEF InRows
  <2>2. ASSUME NEW u, InRows(t, a, u, r)
        PROVE  InRows(s, a, u, r) \/ (h >= IndexStart /\ r \in HistoryRows(tx, h, a))
    <3>1. CASE u \in IndexedIn(s)
      <4>1. t[u].height = s[u].height
        BY <1>1, <3>1
      <4>. QED
        BY <2>2, <3>1, <4>1, Zenon DEF InRows
    <3>2. CASE u = tx /\ h >= IndexStart
      BY <1>5, <2>2, <3>2, Zenon DEF InRows
    <3>. QED
      BY <1>3, <2>2, <3>1, <3>2, Zenon DEF InRows
  <2>3. h >= IndexStart /\ r \in HistoryRows(tx, h, a) => InRows(t, a, tx, r)
    BY <1>4, <1>5, Zenon DEF InRows
  <2>. QED
    BY <2>1, <2>2, <2>3, InTable, Zenon
<1>7. h < IndexStart => ~(h >= IndexStart)
  OBVIOUS
<1>8. h < IndexStart => IndexedIn(t) = IndexedIn(s) /\ \A a : TableRows(t, a) = TableRows(s, a)
  <2>1. ASSUME ~(h >= IndexStart), NEW a PROVE TableRows(t, a) = TableRows(s, a)
    BY <1>6, <2>1
  <2>2. ASSUME ~(h >= IndexStart) PROVE IndexedIn(t) = IndexedIn(s)
    BY <1>2, <1>3, <2>2
  <2>. QED
    BY <1>7, <2>1, <2>2
<1>9. h >= IndexStart =>
        /\ IndexedIn(t) = IndexedIn(s) \cup {tx}
        /\ \A a : TableRows(t, a) = TableRows(s, a) \cup HistoryRows(tx, h, a)
  <2>1. ASSUME h >= IndexStart, NEW a
        PROVE  TableRows(t, a) = TableRows(s, a) \cup HistoryRows(tx, h, a)
    BY <1>6, <2>1
  <2>2. ASSUME h >= IndexStart PROVE IndexedIn(t) = IndexedIn(s) \cup {tx}
    BY <1>2, <1>3, <1>4, <2>2
  <2>. QED
    BY <2>1, <2>2
<1>. QED
  BY <1>1, <1>2, <1>5, <1>8, <1>9

\* A transaction that leaves takes its rows.
LEMMA TakenRows ==
    ASSUME NEW s, NEW t, NEW tx, s[tx].height \in Nat, IndexStart \in Nat, TakesFrom(s, t, tx)
    PROVE  /\ IndexedIn(t) = IndexedIn(s) \ {tx}
           /\ \A u \in IndexedIn(t) : t[u].height = s[u].height
           /\ s[tx].height < IndexStart => /\ IndexedIn(t) = IndexedIn(s)
                                           /\ \A a : TableRows(t, a) = TableRows(s, a)
           /\ s[tx].height >= IndexStart =>
                /\ tx \in IndexedIn(s)
                /\ \A a : TableRows(s, a) = TableRows(t, a) \cup HistoryRows(tx, s[tx].height, a)
<1>1. \A u \in IndexedIn(t) : u \in IndexedIn(s) /\ u # tx /\ t[u].height = s[u].height
  BY DEF TakesFrom, IndexedIn
<1>2. \A u \in IndexedIn(s) : u # tx => u \in IndexedIn(t)
  BY DEF TakesFrom, IndexedIn
<1>3. tx \in IndexedIn(s) <=> s[tx].height >= IndexStart
  BY DEF TakesFrom, IndexedIn
<1>4. ASSUME NEW a, NEW r
      PROVE  r \in TableRows(s, a) <=>
               \/ r \in TableRows(t, a)
               \/ s[tx].height >= IndexStart /\ r \in HistoryRows(tx, s[tx].height, a)
  <2>1. ASSUME NEW u, InRows(t, a, u, r) PROVE InRows(s, a, u, r)
    <3>1. u \in IndexedIn(t) /\ u \in IndexedIn(s) /\ t[u].height = s[u].height
      BY <1>1, <2>1, Zenon DEF InRows
    <3>. QED
      BY <2>1, <3>1, Zenon DEF InRows
  <2>2. ASSUME NEW u, InRows(s, a, u, r)
        PROVE  \/ InRows(t, a, u, r)
               \/ s[tx].height >= IndexStart /\ r \in HistoryRows(tx, s[tx].height, a)
    <3>1. CASE u # tx
      <4>1. u \in IndexedIn(t) /\ t[u].height = s[u].height
        BY <1>1, <1>2, <2>2, <3>1, Zenon DEF InRows
      <4>. QED
        BY <2>2, <4>1, Zenon DEF InRows
    <3>2. CASE u = tx
      BY <1>3, <2>2, <3>2, Zenon DEF InRows
    <3>. QED
      BY <3>1, <3>2
  <2>3. s[tx].height >= IndexStart /\ r \in HistoryRows(tx, s[tx].height, a)
          => InRows(s, a, tx, r)
    BY <1>3, Zenon DEF InRows
  <2>. QED
    BY <2>1, <2>2, <2>3, InTable, Zenon
<1>5. s[tx].height < IndexStart => ~(s[tx].height >= IndexStart)
  OBVIOUS
<1>6. IndexedIn(t) = IndexedIn(s) \ {tx}
  BY <1>1, <1>2
<1>7. s[tx].height < IndexStart =>
        IndexedIn(t) = IndexedIn(s) /\ \A a : TableRows(t, a) = TableRows(s, a)
  <2>1. ASSUME ~(s[tx].height >= IndexStart), NEW a PROVE TableRows(t, a) = TableRows(s, a)
    <3>1. \A r : r \in TableRows(s, a) <=> r \in TableRows(t, a)
      BY <1>4, <2>1, Zenon
    <3>. QED
      BY <3>1
  <2>2. ~(s[tx].height >= IndexStart) => IndexedIn(t) = IndexedIn(s)
    BY <1>3, <1>6
  <2>. QED
    BY <1>5, <2>1, <2>2
<1>8. s[tx].height >= IndexStart =>
        \A a : TableRows(s, a) = TableRows(t, a) \cup HistoryRows(tx, s[tx].height, a)
  <2>1. ASSUME s[tx].height >= IndexStart, NEW a
        PROVE  TableRows(s, a) = TableRows(t, a) \cup HistoryRows(tx, s[tx].height, a)
    BY <1>4, <2>1
  <2>. QED
    BY <2>1
<1>. QED
  BY <1>1, <1>3, <1>6, <1>7, <1>8

\* What a step does about the rows of a transaction at a height.
AddsRows(tx, h) ==
    IF h < IndexStart
      THEN spends' = spends /\ history' = history /\ lossy' = lossy
      ELSE /\ spends' = SpendRows(tx)
           /\ \E lost : /\ history' = AddRow(OutputRows(tx, h), lost,
                                            AddRow(InputRows(tx, h), lost, history))
                        /\ lossy' = lossy \cup {r.address : r \in lost}
DropsRows(tx, h) ==
    /\ lossy' = lossy
    /\ IF h < IndexStart
         THEN spends' = spends /\ history' = history
         ELSE /\ spends' = DropSpends(tx)
              /\ history' = DropRows(InputRows(tx, h), DropRows(OutputRows(tx, h), history))

\* A step confirms a transaction that the line has, takes the last one left of
\* the top block, or leaves the book and the rows alone.
Confirms(tx, h, i) ==
    /\ AddsTo(slab, slab', tx, h) /\ AddsRows(tx, h)
    /\ h \in Nat /\ Has(Line, h + 1, i, tx) /\ Line' = Line
    /\ phase \in {"pushing", "importing"} /\ phase' = phase
    /\ phase = "pushing" => h = Len(index)
Unconfirms(tx, i) ==
    /\ TakesFrom(slab, slab', tx) /\ DropsRows(tx, Top)
    /\ Has(Line, Len(index), i, tx) /\ Line' = Line /\ slab[tx].height = Top
    /\ phase = "unwinding" /\ phase' = phase /\ Top' = Top
Keeps == /\ SameBook(slab, slab') /\ spends' = spends /\ history' = history
         /\ lossy' = lossy

\* What is confirmed is in the line, at its height.
LEMMA ConfirmedPlace ==
    ASSUME LiveInv, NEW tx \in ConfirmedIn(slab)
    PROVE  \E n, i \in Nat : Has(Line, n, i, tx) /\ slab[tx].height = n - 1
<1>1. PlacedAt(slab, Line, tx)
  BY Zenon DEF LiveInv, BookInv, Placed
<1>. QED
  BY <1>1, Zenon DEF PlacedAt

\* Storing or confirming a transaction.
LEMMA StoreBook ==
    ASSUME IsTable(slab), NEW b, NEW h \in Nat, NEW at \in Nat,
           NEW beside, StoreTransaction(b, h, at, beside),
           NEW tx \in Txs, tx = TxsOf[b][at + 1], tx \notin ConfirmedIn(slab), at # Unconfirmed
    PROVE  AddsTo(slab, slab', tx, h) /\ AddsRows(tx, h)
<1>1. PICK pooled \in BOOLEAN : slab' = StoredSlab(tx, h, at, pooled)
  BY DEF StoreTransaction, Store
<1>2. AddsRows(tx, h)
  BY DEF StoreTransaction, AddsRows, AddHistory
<1>3. Stores(slab, slab', tx, h, at)
  BY <1>1, StoredSlabIs
<1>4. PICK s, t : s = slab /\ t = slab'
  OBVIOUS
<1>5. Stores(s, t, tx, h, at) /\ tx \notin ConfirmedIn(s)
  BY <1>3, <1>4
<1>6. ConfirmedIn(t) = ConfirmedIn(s) \cup {tx}
  BY <1>5, StoreConfirms
<1>7. t[tx].height = h /\ \A u \in ConfirmedIn(s) : t[u].height = s[u].height
  BY <1>5 DEF Stores, ConfirmedIn
<1>. QED
  BY <1>2, <1>4, <1>5, <1>6, <1>7 DEF AddsTo

\* In a block, each bucket comes to its own transactions only.
BucketInv ==
    Live /\ phase = "pushing" =>
        /\ ConfirmedIn(slab) \subseteq StoredTxs
        /\ \A j \in DOMAIN position : Ahead(j - 1, Len(position), position[j])

\* push: a bucket confirms a transaction of the block.
LEMMA PushTransactionConfirms ==
    ASSUME ValidBlocks, ChainAssumption, LiveInv, Live, BucketInv,
           NEW i \in DOMAIN position, PushTransaction(i)
    PROVE  Confirms(TxsOf[Head(incoming)][position[i] + 1], height, position[i] + 1)
<1>1. PICK tx : tx = TxsOf[Head(incoming)][position[i] + 1]
  OBVIOUS
<1>2. /\ phase = "pushing" /\ phase' = phase /\ index' = index /\ incoming' = incoming
      /\ \E beside : StoreTransaction(Head(incoming), height, position[i], beside)
  BY DEF PushTransaction
<1>3. Typed /\ FlowInv /\ BookInv /\ IsTable(slab) /\ height \in Nat /\ position[i] \in Nat
      /\ height = Len(index)
  BY <1>2 DEF LiveInv, Typed, FlowInv
<1>4. tx \in Txs \ StoredTxs /\ Has(Line, height + 1, position[i] + 1, tx)
  BY <1>1, PushTransactionKeeps
<1>5. tx \notin ConfirmedIn(slab)
  BY <1>2, <1>4 DEF BucketInv
<1>6. position[i] # Unconfirmed
  <2>1. (position[i] + 1) - 1 < MaxWord
    BY <1>3, <1>4, LineIs, PlaceIsLow
  <2>. QED
    BY <1>3, <2>1 DEF Unconfirmed
<1>7. AddsTo(slab, slab', tx, height) /\ AddsRows(tx, height)
  BY <1>1, <1>2, <1>3, <1>4, <1>5, <1>6, StoreBook
<1>8. Line' = Line
  BY <1>2 DEF Line, Added
<1>. QED
  BY <1>1, <1>2, <1>3, <1>4, <1>7, <1>8 DEF Confirms

\* insert: a thread confirms a transaction of its block.
LEMMA InsertTransactionConfirms ==
    ASSUME ValidBlocks, ChainAssumption, LiveInv,
           NEW i \in DOMAIN position, InsertTransaction(i)
    PROVE  Confirms(TxsOf[incoming[i]][position[i] + 1], height + i - 1, position[i] + 1)
<1>1. PICK tx, h : tx = TxsOf[incoming[i]][position[i] + 1] /\ h = height + i - 1
  OBVIOUS
<1>2. /\ phase = "importing" /\ phase' = phase /\ index' = index /\ incoming' = incoming
      /\ \E beside : StoreTransaction(incoming[i], h, position[i], beside)
  BY <1>1 DEF InsertTransaction
<1>3. Typed /\ FlowInv /\ BookInv /\ PoolInv /\ IsTable(slab) /\ position[i] \in Nat
  BY <1>2 DEF LiveInv, Typed, FlowInv
<1>4. tx \in Txs \ StoredTxs /\ Has(Line, h + 1, position[i] + 1, tx)
  BY <1>1, InsertTransactionKeeps
<1>5. h \in Nat
  <2>1. height \in Nat /\ i \in Nat /\ i >= 1
    BY <1>2, <1>3 DEF FlowInv, Typed
  <2>. QED
    BY <1>1, <2>1
<1>6. tx \notin ConfirmedIn(slab)
  <2>1. ConfirmedIn(slab) \subseteq MaybeTxs
    BY <1>3, LineIs, RestIs DEF IsChain
  <2>. QED
    BY <1>2, <1>4, <2>1 DEF MaybeTxs
<1>7. position[i] # Unconfirmed
  <2>1. (position[i] + 1) - 1 < MaxWord
    BY <1>3, <1>4, LineIs, PlaceIsLow
  <2>. QED
    BY <1>3, <2>1 DEF Unconfirmed
<1>8. AddsTo(slab, slab', tx, h) /\ AddsRows(tx, h)
  BY <1>1, <1>2, <1>3, <1>4, <1>5, <1>6, <1>7, StoreBook
<1>9. Line' = Line
  BY <1>2 DEF Line, Added
<1>. QED
  BY <1>1, <1>2, <1>3, <1>4, <1>5, <1>8, <1>9 DEF Confirms

\* pop takes a transaction of the top block.
LEMMA PopTransactionUnconfirms ==
    ASSUME ValidBlocks, ChainAssumption, LiveInv, PopTransaction, Live'
    PROVE  Unconfirms(TxsOf[Last(index)][left], left)
<1>1. PICK tx : tx = TxsOf[Last(index)][left]
  OBVIOUS
<1>2. /\ phase = "unwinding" /\ phase' = phase /\ index' = index
      /\ slab' = UnspendAll(Unconfirm(slab, tx), PointsOf(tx)) /\ DropsRows(tx, Top)
  BY <1>1 DEF PopTransaction, Live, DropsRows
<1>3. Typed /\ FlowInv /\ IsTable(slab) /\ Len(index) \in Nat
  BY DEF LiveInv, Typed
<1>4. /\ tx \in ConfirmedIn(slab) /\ Line' = Line /\ Has(Line, Len(index), left, tx)
      /\ ConfirmedIn(slab') = ConfirmedIn(slab) \ {tx}
  BY <1>1, PopTransactionKeeps
<1>5. slab[tx].height = Top
  <2>1. PICK n, i \in Nat : Has(Line, n, i, tx) /\ slab[tx].height = n - 1
    BY <1>4, ConfirmedPlace
  <2>2. n = Len(index)
    BY <1>3, <1>4, <2>1, LineIs, OnePlace
  <2>. QED
    BY <2>1, <2>2 DEF Top
<1>6. PICK s, t : s = slab /\ t = slab'
  OBVIOUS
<1>7. \A u \in ConfirmedIn(s) : u # tx => t[u].height = s[u].height
  <2>1. PICK d : d = Unconfirm(s, tx)
    OBVIOUS
  <2>2. tx \in DOMAIN s /\ Unverified \in Nat /\ IsTable(s)
    BY <1>3, <1>4, <1>6 DEF ConfirmedIn, ChainAssumption
  <2>3. IsTable(d) /\ DOMAIN d = DOMAIN s /\ \A u \in DOMAIN s : u # tx => d[u] = s[u]
    BY <2>1, <2>2, UnconfirmIs
  <2>4. t = SpendAll(d, PointsOf(tx), NotSpent) /\ NotSpent \in Nat
    BY <1>2, <1>6, <2>1 DEF UnspendAll, NotSpent
  <2>5. \A u \in DOMAIN d : t[u].height = d[u].height
    BY <2>3, <2>4, SpendAllIs
  <2>. QED
    BY <2>3, <2>5 DEF ConfirmedIn
<1>8. TakesFrom(slab, slab', tx)
  BY <1>4, <1>6, <1>7 DEF TakesFrom
<1>9. Top' = Top
  BY <1>2 DEF Top
<1>. QED
  BY <1>1, <1>2, <1>4, <1>5, <1>8, <1>9 DEF Unconfirms

\* Buckets that start at different positions never come to the same one.
LEMMA BucketsApart ==
    ASSUME NEW k \in Nat \ {0}, NEW i \in 1 .. k, NEW j \in 1 .. k, NEW p \in Nat, NEW q \in Nat,
           Ahead(i - 1, k, p), Ahead(j - 1, k, q), Ahead(q, k, p)
    PROVE  i = j
<1>1. PICK l, m, n \in Nat : p = (i - 1) + l * k /\ q = (j - 1) + m * k /\ p = q + n * k
  BY DEF Ahead
<1>2. PICK e \in Int : e = (m + n) - l
  OBVIOUS
<1>3. i - j = e * k
  <2>1. e * k = (m * k + n * k) - l * k
    BY <1>2
  <2>2. l * k \in Int /\ m * k \in Int /\ n * k \in Int
    OBVIOUS
  <2>. QED
    BY <1>1, <2>1, <2>2
<1>4. e = 0
  <2>1. ASSUME e >= 1 PROVE FALSE
    <3>1. e * k >= k
      BY <2>1
    <3>. QED
      BY <1>3, <3>1
  <2>2. ASSUME e <= -1 PROVE FALSE
    <3>1. e * k <= -k
      BY <2>2
    <3>. QED
      BY <1>3, <3>1
  <2>. QED
    BY <2>1, <2>2
<1>. QED
  BY <1>3, <1>4

\* A bucket that goes on stays on its own positions.
LEMMA BucketGoesOn ==
    ASSUME NEW k \in Nat, NEW q \in Nat, NEW p \in Nat, Ahead(q, k, p)
    PROVE  Ahead(q, k, p + k)
<1>1. PICK m \in Nat : p = q + m * k
  BY DEF Ahead
<1>2. m + 1 \in Nat /\ p + k = q + (m + 1) * k
  BY <1>1
<1>. QED
  BY <1>2 DEF Ahead

\* Before a block, only what the index has is confirmed.
LEMMA BucketsStart ==
    ASSUME LiveInv, phase \in {"idle", "linking"}, phase' = "pushing",
           index' = index, slab' = slab, incoming' \in Seq(Blocks), incoming' # <<>>,
           NEW k \in Nat \ {0}, position' = [j \in 1 .. k |-> j - 1]
    PROVE  BucketInv'
<1>1. Typed /\ BookInv /\ PoolInv /\ index \in Seq(Blocks)
  BY DEF LiveInv, Typed
<1>2. Line = index /\ MaybeTxs = ChainTxs(index)
  BY <1>1, PlainIs
<1>3. ConfirmedIn(slab) \subseteq ChainTxs(index)
  BY <1>1, <1>2, RestIs
<1>4. PICK b \in Blocks : b = Head(incoming')
  OBVIOUS
<1>5. StoredTxs' = ChainTxs(index) /\ DOMAIN position' = 1 .. Len(position)'
  BY <1>1, <1>4, DealNext
<1>6. DOMAIN position' = 1 .. k /\ \A j \in 1 .. k : position'[j] = j - 1
  OBVIOUS
<1>7. Len(position)' \in Nat /\ Len(position)' = k
  BY <1>6
<1>8. ASSUME NEW j \in 1 .. k PROVE Ahead(j - 1, k, j - 1)
  <2>1. j - 1 \in Nat /\ k \in Nat
    OBVIOUS
  <2>. QED
    BY <2>1, AheadNext
<1>. QED
  BY <1>3, <1>5, <1>6, <1>7, <1>8 DEF BucketInv

\* A bucket that has taken its position does not return to it.
LEMMA NeverBack ==
    ASSUME NEW at \in Nat, NEW k \in Nat \ {0}
    PROVE  ~Ahead(at + k, k, at)
<1>1. ASSUME NEW m \in Nat, at = (at + k) + m * k PROVE FALSE
  <2>1. \A x \in Nat : at # (at + k) + x
    OBVIOUS
  <2>2. m * k \in Nat
    OBVIOUS
  <2>. QED
    BY <1>1, <2>1, <2>2
<1>. QED
  BY <1>1 DEF Ahead

\* push_transactions: what is confirmed is behind a bucket.
LEMMA BucketMoves ==
    ASSUME ValidBlocks, ChainAssumption, LiveInv, Live, BucketInv,
           NEW i \in DOMAIN position, PushTransaction(i)
    PROVE  BucketInv'
<1>1. PICK tx, at, k, b : /\ tx = TxsOf[b][at + 1] /\ at = position[i]
                          /\ k = Len(position) /\ b = Head(incoming)
  OBVIOUS
<1>2. /\ phase = "pushing" /\ phase' = phase /\ index' = index /\ incoming' = incoming
      /\ position' = [position EXCEPT ![i] = at + k] /\ at < Len(TxsOf[b])
  BY <1>1 DEF PushTransaction
<1>3. /\ k \in Nat \ {0} /\ DOMAIN position = 1 .. k /\ position \in [DOMAIN position -> Nat]
      /\ incoming \in Seq(Blocks) /\ incoming # <<>> /\ at \in Nat
  BY <1>1, <1>2 DEF LiveInv, Typed, FlowInv
<1>4. /\ position'[i] = at + k /\ DOMAIN position' = DOMAIN position
      /\ \A j \in DOMAIN position : j # i => position'[j] = position[j]
  BY <1>2, <1>3
<1>5. Len(position)' = k
  BY <1>3, <1>4
<1>6. /\ ConfirmedIn(slab) \subseteq StoredTxs
      /\ \A j \in DOMAIN position : Ahead(j - 1, k, position[j])
  BY <1>1, <1>2 DEF BucketInv
<1>7. tx \in Txs /\ StoredTxs \subseteq StoredTxs'
  BY <1>1, PushTransactionKeeps
<1>8. ConfirmedIn(slab') = ConfirmedIn(slab) \cup {tx}
  BY <1>1, PushTransactionConfirms DEF Confirms, AddsTo
<1>9. ASSUME NEW j \in 1 .. k PROVE ~Ahead(position'[j], k, at)
  <2>1. CASE j = i
    BY <1>3, <1>4, <2>1, NeverBack
  <2>2. CASE j # i
    <3>1. position'[j] = position[j] /\ position[j] \in Nat
      BY <1>3, <1>4, <2>2
    <3>2. Ahead(j - 1, k, position[j]) /\ Ahead(i - 1, k, at)
      BY <1>1, <1>3, <1>6
    <3>. QED
      BY <1>3, <2>2, <3>1, <3>2, BucketsApart
  <2>. QED
    BY <2>1, <2>2
<1>10. Dealt(at + 1)'
  <2>1. (at + 1) - 1 = at
    BY <1>3
  <2>2. \A j \in 1 .. k : ~Ahead(position'[j], k, (at + 1) - 1)
    BY <1>9, <2>1
  <2>. QED
    BY <1>3, <1>4, <1>5, <2>2, Zenon DEF Dealt
<1>11. Has(incoming', 1, at + 1, tx)
  <2>1. b \in Blocks /\ 1 \in DOMAIN incoming /\ incoming[1] = b
    BY <1>1, <1>3
  <2>2. at + 1 \in DOMAIN TxsOf[b]
    BY SMTT(20), <1>2, <1>3, <2>1, BlockHas
  <2>. QED
    BY <1>1, <1>2, <2>1, <2>2 DEF Has
<1>12. tx \in StoredTxs'
  <2>1. tx \in DealtTxs'
    <3>1. at + 1 \in Nat
      BY <1>3
    <3>. QED
      BY <1>7, <1>10, <1>11, <3>1 DEF DealtTxs
  <2>. QED
    BY <1>2, <2>1 DEF StoredTxs
<1>13. ASSUME NEW j \in DOMAIN position' PROVE Ahead(j - 1, k, position'[j])
  <2>1. CASE j = i
    <3>1. i - 1 \in Nat /\ Ahead(i - 1, k, at)
      BY <1>1, <1>3, <1>6
    <3>2. Ahead(i - 1, k, at + k)
      BY <1>3, <3>1, BucketGoesOn
    <3>. QED
      BY <1>4, <2>1, <3>2
  <2>2. CASE j # i
    BY <1>4, <1>6, <2>2
  <2>. QED
    BY <2>1, <2>2
<1>. QED
  BY <1>5, <1>6, <1>7, <1>8, <1>12, <1>13 DEF BucketInv

\* Every step keeps to the buckets.
LEMMA BucketNext ==
    ASSUME ValidBlocks, LiveInv, Live, BucketInv, [Next]_vars, Live'
    PROVE  BucketInv'
<1>1. SUFFICES ASSUME phase' = "pushing" PROVE BucketInv'
  BY DEF BucketInv
<1>2. CASE UNCHANGED vars
  <2>1. phase' = phase /\ slab' = slab /\ position' = position /\ index' = index
        /\ incoming' = incoming /\ left' = left
    BY <1>2 DEF vars, tableVars, writeVars
  <2>2. StoredTxs' = StoredTxs
    BY <2>1 DEF StoredTxs, Settled, Popped, DealtTxs, Dealt, ImportedTxs
  <2>. QED
    BY <1>1, <2>1, <2>2 DEF BucketInv
<1>3. ASSUME NEW b \in Blocks, NEW h, PushBlock(b, h) PROVE BucketInv'
  <2>1. /\ phase = "idle" /\ index' = index /\ slab' = slab
        /\ incoming' = <<b>> /\ position' = <<0>>
    BY <1>3 DEF PushBlock, tableVars
  <2>2. position' = [j \in 1 .. 1 |-> j - 1] /\ 1 \in Nat \ {0}
    BY <2>1
  <2>3. incoming' \in Seq(Blocks) /\ incoming' # <<>>
    BY <2>1
  <2>. QED
    BY <1>1, <2>1, <2>2, <2>3, BucketsStart
<1>4. ASSUME LinkBlock PROVE BucketInv'
  <2> DEFINE count == Len(TxsOf[Head(incoming)])
             buckets == IF Threads < count THEN Threads ELSE count
  <2>1. /\ phase = "linking" /\ index' = index /\ slab' = slab /\ incoming' = incoming
        /\ incoming # <<>> /\ position' = [i \in 1 .. buckets |-> i - 1]
    BY <1>1, <1>4 DEF LinkBlock, tableVars
  <2>2. incoming \in Seq(Blocks)
    BY DEF LiveInv, Typed
  <2>3. count \in Nat \ {0} /\ Threads \in Nat \ {0}
    BY <2>1, <2>2, ChainAssumption, BlockHas DEF ChainAssumption
  <2>4. buckets \in Nat \ {0}
    <3>. HIDE DEF count
    <3>. QED
      BY <2>3
  <2>. HIDE DEF buckets
  <2>. QED
    BY <1>1, <2>1, <2>2, <2>4, BucketsStart
<1>5. ASSUME NEW i \in DOMAIN position, PushTransaction(i) PROVE BucketInv'
  BY <1>5, ChainAssumption, BucketMoves
<1>6. CASE Call
  <2>1. ASSUME NEW tx \in Txs, PushTx(tx) PROVE FALSE
    BY <1>1, <2>1 DEF PushTx
  <2>2. ASSUME NEW f \in Blocks, NEW branch \in Branches, Reorganize(f, branch) PROVE FALSE
    BY <1>1, <2>2 DEF Reorganize
  <2>3. ASSUME NEW branch \in Branches, BeginInsert(branch) PROVE FALSE
    BY <1>1, <2>3 DEF BeginInsert
  <2>. QED
    BY <1>3, <1>6, <2>1, <2>2, <2>3 DEF Call
<1>7. CASE \/ CompleteBlock \/ Commit \/ ReadBlock \/ PopTransaction \/ PopBlock
           \/ PoppedAll \/ EndInsert \/ \E i \in DOMAIN position : InsertTransaction(i)
           \/ \E i \in DOMAIN position : InsertBlock(i)
  BY <1>1, <1>7 DEF CompleteBlock, Commit, ReadBlock, PopTransaction, PopBlock,
                    PoppedAll, EndInsert, InsertTransaction, InsertBlock
<1>. QED
  BY <1>2, <1>4, <1>5, <1>6, <1>7 DEF Next, Work

\* An insert that has begun has waited for the lower blocks it waits for.
WaitInv ==
    Live /\ phase = "importing" =>
        /\ Imports # "none"
        /\ \A i, j \in DOMAIN incoming :
             i < j /\ position[j] # 0 /\ WaitsFor(incoming[i], incoming[j]) => Inserted(i)

\* A block goes on, or begins when those it waits for are in.
LEMMA WaitGoesOn ==
    ASSUME LiveInv, Live, WaitInv, phase = "importing", phase' = phase, incoming' = incoming,
           NEW k \in DOMAIN position, position' = [position EXCEPT ![k] = @ + 1],
           \/ position[k] # 0
           \/ \A j \in 1 .. k - 1 : WaitsFor(incoming[j], incoming[k]) => Inserted(j)
    PROVE  WaitInv'
<1>1. /\ DOMAIN position = 1 .. Len(incoming) /\ position \in [DOMAIN position -> Nat]
      /\ incoming \in Seq(Blocks) /\ Len(incoming) \in Nat
      /\ DOMAIN incoming = 1 .. Len(incoming)
  BY DEF LiveInv, Typed, FlowInv
<1>2. /\ \A j \in DOMAIN position : position[j] \in Nat /\ position'[j] \in Nat
                                    /\ position'[j] >= position[j]
      /\ \A j \in DOMAIN position : j # k => position'[j] = position[j]
  BY <1>1
<1>3. ASSUME NEW i \in DOMAIN incoming, Inserted(i) PROVE Inserted(i)'
  <2>1. Len(TxsOf[incoming[i]]) \in Nat
    BY <1>1, BlockHas
  <2>2. position[i] > Len(TxsOf[incoming[i]]) /\ i \in DOMAIN position
    BY <1>1, <1>3 DEF Inserted
  <2>3. position'[i] > Len(TxsOf[incoming[i]])
    BY <1>2, <2>1, <2>2
  <2>. QED
    BY <2>3 DEF Inserted
<1>4. ASSUME NEW i \in DOMAIN incoming, NEW j \in DOMAIN incoming, i < j, position'[j] # 0,
             WaitsFor(incoming[i], incoming[j])
      PROVE  Inserted(i)'
  <2>1. i \in 1 .. j - 1 /\ j \in DOMAIN position
    BY <1>1, <1>4
  <2>2. CASE position[j] # 0
    BY <1>3, <1>4, <2>2 DEF WaitInv
  <2>3. CASE position[j] = 0
    <3>1. j = k
      BY <1>2, <1>4, <2>1, <2>3
    <3>. QED
      BY <1>3, <1>4, <2>1, <2>3, <3>1
  <2>. QED
    BY <2>2, <2>3
<1>5. \A i, j : WaitsFor(incoming[i], incoming[j])' <=> WaitsFor(incoming[i], incoming[j])
  BY DEF WaitsFor, Spenders, AddressesOf
<1>6. \A i, j \in DOMAIN incoming :
        i < j /\ position'[j] # 0 /\ WaitsFor(incoming[i], incoming[j]) => Inserted(i)'
  BY <1>4
<1>7. WaitInv' <=> (Live' /\ phase' = "importing" =>
         /\ Imports # "none"
         /\ \A i, j \in DOMAIN incoming' :
              i < j /\ position'[j] # 0 /\ WaitsFor(incoming[i], incoming[j])' => Inserted(i)')
  BY Zenon DEF WaitInv
<1>8. Imports # "none"
  BY DEF WaitInv
<1>. QED
  BY <1>5, <1>6, <1>7, <1>8

\* Every step keeps to the order that callers keep.
LEMMA WaitNext ==
    ASSUME LiveInv, Live, WaitInv, [Next]_vars, Live'
    PROVE  WaitInv'
<1>1. SUFFICES ASSUME phase' = "importing" PROVE WaitInv'
  BY DEF WaitInv
<1>2. CASE UNCHANGED vars
  <2>1. phase' = phase /\ position' = position /\ incoming' = incoming
    BY <1>2 DEF vars, writeVars
  <2>. QED
    BY <2>1 DEF WaitInv, Inserted, Live
<1>3. ASSUME NEW branch \in Branches, BeginInsert(branch) PROVE WaitInv'
  <2>1. /\ Imports # "none" /\ incoming' = branch
        /\ position' = [i \in DOMAIN branch |-> 0]
    BY <1>3 DEF BeginInsert
  <2>2. \A j \in DOMAIN incoming' : position'[j] = 0
    BY <2>1
  <2>. QED
    BY <2>1, <2>2 DEF WaitInv
<1>4. ASSUME NEW i \in DOMAIN position, InsertTransaction(i) PROVE WaitInv'
  <2>1. /\ phase = "importing" /\ incoming' = incoming
        /\ position' = [position EXCEPT ![i] = @ + 1]
        /\ \A j \in 1 .. i - 1 : WaitsFor(incoming[j], incoming[i]) => Inserted(j)
    BY <1>4 DEF InsertTransaction
  <2>. QED
    BY <1>1, <2>1, WaitGoesOn
<1>5. ASSUME NEW i \in DOMAIN position, InsertBlock(i) PROVE WaitInv'
  <2>1. /\ phase = "importing" /\ incoming' = incoming /\ Pushed(i)
        /\ position' = [position EXCEPT ![i] = @ + 1]
    BY <1>1, <1>5 DEF InsertBlock
  <2>2. position[i] # 0
    <3>1. i \in DOMAIN incoming /\ incoming \in Seq(Blocks) /\ position[i] \in Nat
      BY <2>1 DEF LiveInv, Typed, FlowInv
    <3>2. Len(TxsOf[incoming[i]]) \in Nat \ {0}
      BY <3>1, BlockHas
    <3>. QED
      BY <2>1, <3>1, <3>2 DEF Pushed
  <2>. QED
    BY <1>1, <2>1, <2>2, WaitGoesOn
<1>6. CASE Call
  <2>1. ASSUME NEW tx \in Txs, PushTx(tx) PROVE FALSE
    BY <1>1, <2>1 DEF PushTx
  <2>2. ASSUME NEW f \in Blocks, NEW branch \in Branches, Reorganize(f, branch) PROVE FALSE
    BY <1>1, <2>2 DEF Reorganize
  <2>3. ASSUME NEW b \in Blocks, NEW h, PushBlock(b, h) PROVE FALSE
    BY <1>1, <2>3 DEF PushBlock
  <2>. QED
    BY <1>3, <1>6, <2>1, <2>2, <2>3 DEF Call
<1>7. CASE \/ LinkBlock \/ CompleteBlock \/ Commit \/ ReadBlock \/ PopTransaction \/ PopBlock
           \/ PoppedAll \/ EndInsert \/ \E i \in DOMAIN position : PushTransaction(i)
  BY <1>1, <1>7 DEF LinkBlock, CompleteBlock, Commit, ReadBlock, PopTransaction, PopBlock,
                    PoppedAll, EndInsert, PushTransaction
<1>. QED
  BY <1>2, <1>4, <1>5, <1>6, <1>7 DEF Next, Work

\* Whether a transaction has rows of an address does not depend on its height.
LEMMA RowsAnywhere ==
    ASSUME NEW tx, NEW h, NEW a, HistoryRows(tx, h, a) # {}
    PROVE  HistoryRows(tx, 0, a) # {}
<1>1. \A k : /\ DOMAIN InputRows(tx, k) = DOMAIN InputsOf[tx]
             /\ DOMAIN OutputRows(tx, k) = DOMAIN OutputsOf[tx]
             /\ \A i \in DOMAIN InputsOf[tx] : InputRows(tx, k)[i].address = InputsOf[tx][i].address
             /\ \A i \in DOMAIN OutputsOf[tx] : OutputRows(tx, k)[i].address = OutputsOf[tx][i]
  BY DEF InputRows, OutputRows
<1>2. \A k : /\ ToSet(InputRows(tx, k)) = {InputRows(tx, k)[i] : i \in DOMAIN InputRows(tx, k)}
             /\ ToSet(OutputRows(tx, k)) = {OutputRows(tx, k)[i] : i \in DOMAIN OutputRows(tx, k)}
  BY Zenon DEF ToSet
<1>3. PICK r \in HistoryRows(tx, h, a) : TRUE
  OBVIOUS
<1>4. CASE r \in ToSet(InputRows(tx, h))
  <2>1. PICK i \in DOMAIN InputsOf[tx] : r = InputRows(tx, h)[i]
    BY <1>1, <1>2, <1>4
  <2>2. InputRows(tx, 0)[i].address = a
    BY <1>1, <1>3, <2>1 DEF HistoryRows
  <2>3. InputRows(tx, 0)[i] \in ToSet(InputRows(tx, 0))
    BY <1>1, <1>2, <2>1
  <2>. QED
    BY <2>2, <2>3 DEF HistoryRows
<1>5. CASE r \in ToSet(OutputRows(tx, h))
  <2>1. PICK i \in DOMAIN OutputsOf[tx] : r = OutputRows(tx, h)[i]
    BY <1>1, <1>2, <1>5
  <2>2. OutputRows(tx, 0)[i].address = a
    BY <1>1, <1>3, <2>1 DEF HistoryRows
  <2>3. OutputRows(tx, 0)[i] \in ToSet(OutputRows(tx, 0))
    BY <1>1, <1>2, <2>1
  <2>. QED
    BY <2>2, <2>3 DEF HistoryRows
<1>. QED
  BY <1>3, <1>4, <1>5 DEF HistoryRows

\* A transaction that is stored has rows of no address that a higher one has.
Highest(tx, h) ==
    \A u \in ConfirmedIn(slab) : \A a \in Addresses :
        HistoryRows(tx, h, a) # {} /\ HistoryRows(u, slab[u].height, a) # {}
            => slab[u].height <= h

\* A block that is pushed is above the index.
LEMMA PushedIsHighest ==
    ASSUME LiveInv, phase = "pushing", NEW tx
    PROVE  Highest(tx, Len(index))
<1>1. Typed /\ FlowInv /\ index \in Seq(Blocks) /\ Len(index) \in Nat
      /\ incoming \in Seq(Blocks) /\ incoming # <<>>
  BY DEF LiveInv, Typed, FlowInv
<1>2. Line = index \o <<Head(incoming)>> /\ <<Head(incoming)>> \in Seq(Blocks)
  BY <1>1 DEF Line, Added
<1>3. DOMAIN Line = 1 .. Len(index) + 1
  BY <1>1, <1>2
<1>4. ASSUME NEW u \in ConfirmedIn(slab) PROVE slab[u].height <= Len(index)
  <2>1. PICK n, i \in Nat : Has(Line, n, i, u) /\ slab[u].height = n - 1
    BY ConfirmedPlace
  <2>2. n \in 1 .. Len(index) + 1
    BY <1>3, <2>1 DEF Has
  <2>. QED
    BY <1>1, <2>1, <2>2
<1>. QED
  BY <1>4 DEF Highest

\* A higher block with rows of the address has waited for this one.
LEMMA InsertedIsHighest ==
    ASSUME ValidBlocks, Imports \in {"none", "rows"}, LiveInv, Live, WaitInv,
           NEW k \in DOMAIN position, InsertTransaction(k)
    PROVE  Highest(TxsOf[incoming[k]][position[k] + 1], height + k - 1)
<1>1. PICK tx, h : tx = TxsOf[incoming[k]][position[k] + 1] /\ h = height + k - 1
  OBVIOUS
<1>2. phase = "importing" /\ ~Pushed(k)
  BY DEF InsertTransaction
<1>3. /\ Typed /\ FlowInv /\ BookInv /\ PoolInv /\ index \in Seq(Blocks) /\ Len(index) \in Nat
      /\ incoming \in Seq(Blocks) /\ DOMAIN position = 1 .. Len(incoming)
      /\ DOMAIN incoming = 1 .. Len(incoming) /\ Len(incoming) \in Nat
      /\ \A j \in DOMAIN position : position[j] \in Nat /\ height = Len(index)
  BY <1>2 DEF LiveInv, Typed, FlowInv
<1>4. Line = index \o incoming /\ IsChain(Line)
  BY <1>2, <1>3, LineIs DEF Line, Added
<1>5. tx \in TxSet(incoming[k])
  <2>1. incoming[k] \in Blocks
    BY <1>3
  <2>2. position[k] + 1 \in DOMAIN TxsOf[incoming[k]]
    BY <1>2, <1>3, <2>1, BlockHas DEF Pushed
  <2>. QED
    BY <1>1, <2>1, <2>2, BlockHas
<1>6. ASSUME NEW u \in ConfirmedIn(slab), NEW a \in Addresses, HistoryRows(tx, h, a) # {},
             HistoryRows(u, slab[u].height, a) # {}, ~(slab[u].height <= h)
      PROVE  FALSE
  <2>1. PICK n, i \in Nat : Has(Line, n, i, u) /\ slab[u].height = n - 1
    BY ConfirmedPlace
  <2>2. n > Len(index) + k
    BY <1>1, <1>3, <1>6, <2>1
  <2>3. PICK m \in Nat : m = n - Len(index) /\ k < m
    <3>1. n - Len(index) \in Nat /\ k < n - Len(index)
      BY <1>3, <2>1, <2>2
    <3>. QED
      BY <3>1
  <2>4. Has(incoming, m, i, u)
    <3>1. n \notin DOMAIN index
      BY <1>3, <2>1, <2>2
    <3>. QED
      BY <1>3, <1>4, <2>1, <2>3, <3>1, MoreHas
  <2>5. u \in StoredTxs
    <3>1. ConfirmedIn(slab) \subseteq MaybeTxs
      BY <1>3, <1>4, RestIs DEF IsChain
    <3>. QED
      BY <1>2, <3>1 DEF MaybeTxs
  <2>6. u \notin Settled
    <3>1. SUFFICES ASSUME u \in ChainTxs(index) PROVE FALSE
      BY DEF Settled
    <3>2. PICK l, j \in Nat : Has(index, l, j, u)
      BY <1>3, <3>1, ChainHas
    <3>3. Has(Line, l, j, u) /\ l \in 1 .. Len(index)
      BY <1>3, <1>4, <3>2, MoreHas, HasIs
    <3>4. l = n
      BY <1>4, <2>1, <3>3, OnePlace
    <3>. QED
      BY <1>3, <2>2, <3>3, <3>4
  <2>7. PICK l, j \in Nat : Has(incoming, l, j, u) /\ j <= position[l]
    <3>1. u \in ImportedTxs
      BY <1>2, <2>5, <2>6 DEF StoredTxs
    <3>. QED
      BY <3>1 DEF ImportedTxs
  <2>8. l = m
    <3>1. Has(Line, Len(index) + l, j, u)
      BY <1>3, <1>4, <2>7, MoreHas
    <3>2. Len(index) + l = n
      BY <1>4, <2>1, <3>1, OnePlace
    <3>. QED
      BY <1>3, <2>3, <2>7, <3>2
  <2>9. position[m] # 0 /\ m \in DOMAIN incoming /\ u \in TxSet(incoming[m])
    <3>1. j >= 1 /\ m \in DOMAIN incoming /\ u \in TxSet(incoming[m])
      BY <1>3, <2>7, <2>8, HasIs
    <3>. QED
      BY <1>3, <2>7, <2>8, <3>1
  <2>10. HistoryRows(tx, 0, a) # {} /\ HistoryRows(u, 0, a) # {}
    BY <1>6, RowsAnywhere
  <2>11. a \in AddressesOf(incoming[k]) /\ a \in AddressesOf(incoming[m])
    BY <1>5, <2>9, <2>10 DEF AddressesOf, HasRows
  <2>12. Imports = "rows"
    BY <1>2 DEF WaitInv
  <2>13. WaitsFor(incoming[k], incoming[m])
    BY <2>11, <2>12 DEF WaitsFor
  <2>14. Inserted(k)
    BY <1>2, <1>3, <2>3, <2>9, <2>13 DEF WaitInv
  <2>15. position[k] \in Nat /\ Len(TxsOf[incoming[k]]) \in Nat
    BY <1>3, BlockHas
  <2>. QED
    BY <1>2, <2>14, <2>15 DEF Inserted, Pushed
<1>. QED
  BY <1>1, <1>6 DEF Highest

\* Every step is one of these.
AnyConfirms ==
    \E tx, h, i : Confirms(tx, h, i) /\ (Imports \in {"none", "rows"} => Highest(tx, h))
AnyUnconfirms == \E tx, i : Unconfirms(tx, i)
Winds == IF phase = "unwinding" THEN phase' = phase /\ Top' = Top ELSE phase' # "unwinding"

\* A step that leaves the slabs and the rows alone.
LEMMA SameSlabKeeps ==
    ASSUME slab' = slab, spends' = spends, history' = history, lossy' = lossy
    PROVE  Keeps
BY DEF Keeps, SameBook, ConfirmedIn

\* Marks are not in the book.
LEMMA SpendAllKeeps ==
    ASSUME IsTable(slab), NEW points, NEW h \in Nat, slab' = SpendAll(slab, points, h),
           spends' = spends, history' = history, lossy' = lossy
    PROVE  Keeps
<1>1. PICK s, t : s = slab /\ t = slab'
  OBVIOUS
<1>2. DOMAIN t = DOMAIN s /\ \A u \in DOMAIN s : t[u].height = s[u].height
                                                 /\ t[u].position = s[u].position
  <2>1. IsTable(s) /\ t = SpendAll(s, points, h)
    BY <1>1
  <2>. QED
    BY <2>1, SpendAllIs
<1>3. \A u : u \in ConfirmedIn(t) <=> u \in ConfirmedIn(s)
  BY <1>2 DEF ConfirmedIn
<1>4. SameBook(s, t)
  BY <1>2, <1>3 DEF SameBook, ConfirmedIn
<1>. QED
  BY <1>1, <1>4 DEF Keeps

\* A pooled transaction is not in the book.
LEMMA PushTxIsKept ==
    ASSUME ValidBlocks, ChainAssumption, ChecksInputs, LiveInv, NEW tx \in Txs, PushTx(tx)
    PROVE  Keeps
<1>1. tx \notin DOMAIN slab /\ IsTable(slab)
  BY PushTxKeeps DEF LiveInv, Typed
<1>2. /\ slab' = StoredSlab(tx, Forks, Unconfirmed, FALSE)
      /\ spends' = spends /\ history' = history /\ lossy' = lossy
  BY DEF PushTx, Store
<1>3. Stores(slab, slab', tx, Forks, Unconfirmed)
  <2>1. Forks \in Nat /\ Unconfirmed \in Nat /\ FALSE \in BOOLEAN
    BY DEF ChainAssumption, Unconfirmed
  <2>. QED
    BY <1>1, <1>2, <2>1, StoredSlabIs
<1>4. PICK s, t : s = slab /\ t = slab'
  OBVIOUS
<1>5. /\ DOMAIN t = DOMAIN s \cup {tx} /\ t[tx].position = Unconfirmed
      /\ tx \notin DOMAIN s /\ \A u \in DOMAIN s : t[u] = s[u]
  BY <1>1, <1>3, <1>4 DEF Stores
<1>6. \A u : u \in ConfirmedIn(t) <=> u \in ConfirmedIn(s)
  BY <1>5, Zenon DEF ConfirmedIn
<1>7. \A u \in ConfirmedIn(s) : t[u].height = s[u].height
  BY <1>5, Zenon DEF ConfirmedIn
<1>8. SameBook(s, t)
  BY <1>6, <1>7 DEF SameBook
<1>. QED
  BY <1>2, <1>4, <1>8 DEF Keeps

\* However the store is called, and whatever thread is at work.
LEMMA StepIs ==
    ASSUME ValidBlocks, ChecksInputs, LiveInv, Live, BucketInv, WaitInv, [Next]_vars, Live'
    PROVE  \/ AnyConfirms \/ AnyUnconfirms
           \/ Keeps /\ (Winds \/ ReadBlock \/ PopBlock)
<1>1. ChainAssumption /\ IsTable(slab) /\ height \in Nat
  BY ChainAssumption DEF LiveInv, Typed
<1>2. CASE UNCHANGED vars
  <2>1. /\ slab' = slab /\ spends' = spends /\ history' = history /\ lossy' = lossy
        /\ phase' = phase
        /\ index' = index
    BY <1>2 DEF vars, tableVars, indexVars
  <2>. QED
    BY <2>1, SameSlabKeeps DEF Winds, Top
<1>3. ASSUME NEW i \in DOMAIN position, PushTransaction(i) PROVE AnyConfirms
  <2>1. PICK tx, h, j : /\ tx = TxsOf[Head(incoming)][position[i] + 1]
                        /\ h = height /\ j = position[i] + 1
    OBVIOUS
  <2>2. Confirms(tx, h, j)
    BY <1>1, <1>3, <2>1, PushTransactionConfirms
  <2>3. phase = "pushing" /\ h = Len(index)
    BY <1>3, <2>1 DEF PushTransaction, LiveInv, FlowInv
  <2>4. Highest(tx, h)
    BY <2>3, PushedIsHighest
  <2>. QED
    BY <2>2, <2>4 DEF AnyConfirms
<1>4. ASSUME NEW i \in DOMAIN position, InsertTransaction(i) PROVE AnyConfirms
  <2>1. PICK tx, h, j : /\ tx = TxsOf[incoming[i]][position[i] + 1]
                        /\ h = height + i - 1 /\ j = position[i] + 1
    OBVIOUS
  <2>2. Confirms(tx, h, j)
    BY <1>1, <1>4, <2>1, InsertTransactionConfirms
  <2>3. Imports \in {"none", "rows"} => Highest(tx, h)
    BY <1>4, <2>1, InsertedIsHighest
  <2>. QED
    BY <2>2, <2>3 DEF AnyConfirms
<1>5. ASSUME PopTransaction PROVE AnyUnconfirms
  BY <1>1, <1>5, PopTransactionUnconfirms DEF AnyUnconfirms
<1>6. ASSUME NEW tx \in Txs, PushTx(tx) PROVE Keeps /\ Winds
  <2>1. Winds
    BY <1>6 DEF PushTx, Winds
  <2>. QED
    BY <1>1, <1>6, <2>1, PushTxIsKept
<1>7. ASSUME CompleteBlock PROVE Keeps /\ Winds
  <2>1. /\ slab' = SpendAll(slab, BlockPoints(Head(incoming)), height)
        /\ spends' = spends /\ history' = history /\ lossy' = lossy
        /\ phase = "pushing" /\ phase' = "linking"
    BY <1>7 DEF CompleteBlock, Live, indexVars
  <2>. QED
    BY <1>1, <2>1, SpendAllKeeps DEF Winds
<1>8. ASSUME NEW i \in DOMAIN position, InsertBlock(i) PROVE Keeps /\ Winds
  <2>1. /\ slab' = SpendAll(slab, BlockPoints(incoming[i]), height + i - 1)
        /\ spends' = spends /\ history' = history /\ lossy' = lossy
        /\ phase = "importing" /\ phase' = phase
    BY <1>8 DEF InsertBlock, Live, indexVars
  <2>2. height + i - 1 \in Nat
    BY SMTT(20), <1>1, <1>8, <2>1 DEF LiveInv, Typed, FlowInv
  <2>. QED
    BY <1>1, <2>1, <2>2, SpendAllKeeps DEF Winds
<1>9. ASSUME NEW b \in Blocks, NEW h, PushBlock(b, h) PROVE Keeps /\ Winds
  BY <1>9, SameSlabKeeps DEF PushBlock, tableVars, indexVars, Winds
<1>10. ASSUME NEW f \in Blocks, NEW branch \in Branches, Reorganize(f, branch)
       PROVE  Keeps /\ Winds
  BY <1>10, SameSlabKeeps DEF Reorganize, tableVars, indexVars, Winds
<1>11. ASSUME NEW branch \in Branches, BeginInsert(branch) PROVE Keeps /\ Winds
  BY <1>11, SameSlabKeeps DEF BeginInsert, tableVars, indexVars, Winds
<1>12. CASE Call
  BY <1>6, <1>9, <1>10, <1>11, <1>12 DEF Call
<1>13. CASE LinkBlock \/ Commit \/ PoppedAll \/ EndInsert
  <2>1. /\ slab' = slab /\ spends' = spends /\ history' = history /\ lossy' = lossy
        /\ phase \in {"linking", "popping", "importing"} /\ phase' # "unwinding"
    BY <1>13 DEF LinkBlock, Commit, PoppedAll, EndInsert, tableVars, indexVars
  <2>. QED
    BY <2>1, SameSlabKeeps DEF Winds
<1>14. CASE ReadBlock \/ PopBlock
  <2>1. slab' = slab /\ spends' = spends /\ history' = history /\ lossy' = lossy
    BY <1>14 DEF ReadBlock, PopBlock, tableVars, indexVars
  <2>. QED
    BY <1>14, <2>1, SameSlabKeeps
<1>. QED
  BY <1>2, <1>3, <1>4, <1>5, <1>7, <1>8, <1>12, <1>13, <1>14 DEF Next, Work

-----------------------------------------------------------------------------
\* The spends.

\* A point has the row of the one indexed transaction that spends it, or none.
NoSpend(r, s, p) == r[p] = <<>> /\ \A u \in IndexedIn(s) : p \notin PointsOf(u)
IsSpend(u, i, p, list) ==
    i \in DOMAIN InputsOf[u] /\ InputsOf[u][i].point = p
    /\ list = <<[tx |-> u, index |-> i - 1]>>
OneSpend(r, s, p) == \E u \in IndexedIn(s) : \E i : IsSpend(u, i, p, r[p])
SpendsTell(r, s) == \A p \in Points : NoSpend(r, s, p) \/ OneSpend(r, s, p)
SpendsInv == Live => SpendsTell(spends, slab)

\* push_inputs adds the row of each point of a transaction.
LEMMA SpendRowsIs ==
    ASSUME ValidBlocks, NEW b \in Blocks, NEW tx \in TxSet(b), NEW p \in Points,
           NEW r, r = SpendRows(tx), NEW S, spends[p] \in Seq(S)
    PROVE  /\ p \notin PointsOf(tx) => r[p] = spends[p]
           /\ p \in PointsOf(tx) /\ spends[p] = <<>> => \E i : IsSpend(tx, i, p, r[p])
<1>1. tx \in Txs
  BY BlockHas
<1>2. PICK ins, n : ins = InputsOf[tx] /\ n = Len(ins)
  OBVIOUS
<1>3. ins \in Seq([point : Point, address : Addresses \cup {NoAddress}])
  BY <1>1, <1>2, DataAssumption DEF DataAssumption
<1>4. n \in Nat /\ DOMAIN ins = 1 .. n
  BY <1>2, <1>3, ElementsOf
<1>5. \A i, j \in DOMAIN ins : ins[i].point = ins[j].point => i = j
  BY <1>2 DEF ValidBlocks
<1> DEFINE at == {i \in DOMAIN ins : ins[i].point = p}
<1>6. PICK q, d : q = InOrder(at) /\ d = [m \in DOMAIN q |-> [tx |-> tx, index |-> q[m] - 1]]
  OBVIOUS
<1>7. r[p] = Reverse(d) \o spends[p]
  BY <1>2, <1>6 DEF SpendRows
<1>8. at \in SUBSET (1 .. n)
  BY <1>4
<1>9. p \in PointsOf(tx) <=> \E i \in DOMAIN ins : ins[i].point = p
  BY <1>2 DEF PointsOf
<1>10. \A i : i \in at <=> i \in DOMAIN ins /\ ins[i].point = p
  OBVIOUS
<1>. HIDE DEF at
<1>11. /\ IsFiniteSet(at) /\ Cardinality(at) \in Nat /\ DOMAIN q = 1 .. Cardinality(at)
       /\ Lists(q, at)
  BY <1>4, <1>6, <1>8, InOrderIs
<1>12. ASSUME p \notin PointsOf(tx) PROVE r[p] = spends[p]
  <2>1. at = {}
    BY <1>9, <1>10, <1>12
  <2>2. DOMAIN q = 1 .. 0
    BY <1>11, <2>1, FS_EmptySet
  <2>3. d = <<>>
    BY <1>6, <2>2
  <2>4. Reverse(d) = <<>>
    BY <2>3 DEF Reverse
  <2>. QED
    BY <1>7, <2>4
<1>13. ASSUME p \in PointsOf(tx), spends[p] = <<>> PROVE \E i : IsSpend(tx, i, p, r[p])
  <2>1. PICK i \in DOMAIN ins : ins[i].point = p
    BY <1>9, <1>13
  <2>2. at = {i}
    <3>1. \A j : j \in at <=> j = i
      BY <1>5, <1>10, <2>1
    <3>. QED
      BY <3>1
  <2>3. DOMAIN q = 1 .. 1
    BY <1>11, <2>2, FS_Singleton
  <2>4. q[1] = i
    <3>1. 1 \in DOMAIN q
      BY <2>3
    <3>2. q[1] \in at
      BY <1>11, <3>1, Zenon DEF Lists
    <3>. QED
      BY <2>2, <3>2, Zenon
  <2>5. PICK x : x = [tx |-> tx, index |-> i - 1]
    OBVIOUS
  <2>6. d = <<x>>
    BY <1>6, <2>3, <2>4, <2>5
  <2>7. Reverse(d) = <<x>>
    BY <2>6 DEF Reverse
  <2>8. r[p] = <<x>>
    BY <1>7, <1>13, <2>7
  <2>. QED
    BY <1>2, <2>1, <2>5, <2>8 DEF IsSpend
<1>. QED
  BY <1>12, <1>13

\* The row of a point is there alone.
LEMMA SpendIsPoint ==
    ASSUME NEW u, NEW i, NEW p, NEW list, IsSpend(u, i, p, list)
    PROVE  /\ p \in PointsOf(u) /\ list \in Seq({list[1]}) /\ list # <<>> /\ Tail(list) = <<>>
<1>1. p \in PointsOf(u)
  BY DEF IsSpend, PointsOf
<1>2. PICK x : list = <<x>>
  BY DEF IsSpend
<1>. QED
  BY <1>1, <1>2

\* No two confirmed transactions spend a point.
LEMMA OneIndexed ==
    ASSUME ValidBlocks, LiveInv, NEW u \in IndexedIn(slab), NEW n, NEW i, NEW tx,
           Has(Line, n, i, tx), NEW p, p \in PointsOf(u), p \in PointsOf(tx)
    PROVE  u = tx
<1>1. u \in ConfirmedIn(slab)
  BY DEF IndexedIn
<1>2. PICK m, j \in Nat : Has(Line, m, j, u)
  BY <1>1, ConfirmedPlace
<1>3. IsChain(Line)
  BY LineIs DEF LiveInv
<1>. QED
  BY <1>2, <1>3, OneSpender

\* push_inputs: no other transaction of the line spends its points.
LEMMA ConfirmsSpends ==
    ASSUME ValidBlocks, LiveInv, SpendsTell(spends, slab), NEW tx, NEW h, NEW i,
           Confirms(tx, h, i)
    PROVE  SpendsTell(spends', slab')
<1>1. IndexStart \in Nat /\ h \in Nat /\ AddsTo(slab, slab', tx, h) /\ Has(Line, h + 1, i, tx)
  BY ChainAssumption DEF ChainAssumption, Confirms
<1>2. PICK s, t, r, q : s = slab /\ t = slab' /\ r = spends /\ q = spends'
  OBVIOUS
<1>3. /\ tx \notin IndexedIn(s)
      /\ h < IndexStart => IndexedIn(t) = IndexedIn(s)
      /\ h >= IndexStart => IndexedIn(t) = IndexedIn(s) \cup {tx}
  BY <1>1, <1>2, AddedRows
<1>4. SpendsTell(r, s)
  BY <1>2
<1>5. CASE h < IndexStart
  <2>1. q = r /\ IndexedIn(t) = IndexedIn(s)
    BY <1>2, <1>3, <1>5 DEF Confirms, AddsRows
  <2>2. SpendsTell(q, t)
    BY <1>4, <2>1, Zenon DEF SpendsTell, NoSpend, OneSpend
  <2>. QED
    BY <1>2, <2>2
<1>6. CASE ~(h < IndexStart)
  <2>1. q = SpendRows(tx) /\ IndexedIn(t) = IndexedIn(s) \cup {tx}
    BY <1>1, <1>2, <1>3, <1>6 DEF Confirms, AddsRows
  <2>2. PICK b \in Blocks : tx \in TxSet(b)
    <3>1. Line \in Seq(Blocks)
      BY LineIs DEF LiveInv, IsChain
    <3>. QED
      BY <1>1, <3>1, HasIs
  <2>3. ASSUME NEW p \in Points PROVE NoSpend(q, t, p) \/ OneSpend(q, t, p)
    <3>1. CASE NoSpend(r, s, p)
      <4>1. /\ spends[p] = <<>> /\ spends[p] \in Seq({})
            /\ \A u \in IndexedIn(s) : p \notin PointsOf(u)
        BY <1>2, <3>1 DEF NoSpend
      <4>2. CASE p \in PointsOf(tx)
        <5>1. \E j : IsSpend(tx, j, p, q[p])
          BY <2>1, <2>2, <4>1, <4>2, SpendRowsIs
        <5>. QED
          BY <2>1, <5>1 DEF OneSpend
      <4>3. CASE p \notin PointsOf(tx)
        <5>1. q[p] = <<>>
          BY <2>1, <2>2, <4>1, <4>3, SpendRowsIs
        <5>. QED
          BY <2>1, <4>1, <4>3, <5>1 DEF NoSpend
      <4>. QED
        BY <4>2, <4>3
    <3>2. CASE OneSpend(r, s, p)
      <4>1. PICK u \in IndexedIn(s) : \E j : IsSpend(u, j, p, r[p])
        BY <3>2, Zenon DEF OneSpend
      <4>2. PICK j : IsSpend(u, j, p, r[p])
        BY <4>1
      <4>3. p \in PointsOf(u) /\ r[p] \in Seq({r[p][1]})
        BY <4>2, SpendIsPoint
      <4>4. p \notin PointsOf(tx)
        BY <1>1, <1>2, <1>3, <4>1, <4>3, OneIndexed
      <4>5. q[p] = r[p]
        BY <1>2, <2>1, <2>2, <4>3, <4>4, SpendRowsIs
      <4>. QED
        BY <2>1, <4>1, <4>2, <4>5 DEF OneSpend
    <3>. QED
      BY <1>4, <3>1, <3>2, Zenon DEF SpendsTell
  <2>. QED
    BY <1>2, <2>3, Zenon DEF SpendsTell
<1>. QED
  BY <1>5, <1>6

\* pop_inputs: the row it unlinks is its own.
LEMMA UnconfirmsSpends ==
    ASSUME ValidBlocks, LiveInv, SpendsTell(spends, slab), NEW tx, NEW i, Unconfirms(tx, i)
    PROVE  SpendsTell(spends', slab')
<1>1. /\ IndexStart \in Nat /\ TakesFrom(slab, slab', tx) /\ Has(Line, Len(index), i, tx)
      /\ slab[tx].height = Top /\ Top \in Nat
  <2>1. slab[tx].height \in Nat
    BY DEF Unconfirms, TakesFrom, ConfirmedIn, LiveInv, Typed, IsTable
  <2>. QED
    BY <2>1, ChainAssumption DEF ChainAssumption, Unconfirms
<1>2. PICK s, t, r, q : s = slab /\ t = slab' /\ r = spends /\ q = spends'
  OBVIOUS
<1>3. /\ IndexedIn(t) = IndexedIn(s) \ {tx} /\ SpendsTell(r, s)
      /\ Top < IndexStart => IndexedIn(t) = IndexedIn(s)
  BY <1>1, <1>2, TakenRows
<1>4. CASE Top < IndexStart
  <2>1. q = r /\ IndexedIn(t) = IndexedIn(s)
    BY <1>2, <1>3, <1>4 DEF Unconfirms, DropsRows
  <2>2. SpendsTell(q, t)
    BY <1>3, <2>1, Zenon DEF SpendsTell, NoSpend, OneSpend
  <2>. QED
    BY <1>2, <2>2
<1>5. CASE ~(Top < IndexStart)
  <2>1. q = [p \in Points |-> IF p \in PointsOf(tx) /\ r[p] # <<>> THEN Tail(r[p]) ELSE r[p]]
    BY <1>2, <1>5 DEF Unconfirms, DropsRows, DropSpends
  <2>2. ASSUME NEW p \in Points PROVE NoSpend(q, t, p) \/ OneSpend(q, t, p)
    <3>1. CASE NoSpend(r, s, p)
      <4>1. r[p] = <<>> /\ \A u \in IndexedIn(s) : p \notin PointsOf(u)
        BY <3>1 DEF NoSpend
      <4>2. q[p] = <<>>
        BY <2>1, <4>1
      <4>. QED
        BY <1>3, <4>1, <4>2 DEF NoSpend
    <3>2. CASE OneSpend(r, s, p)
      <4>1. PICK u \in IndexedIn(s) : \E j : IsSpend(u, j, p, r[p])
        BY <3>2, Zenon DEF OneSpend
      <4>2. PICK j : IsSpend(u, j, p, r[p])
        BY <4>1
      <4>3. p \in PointsOf(u) /\ r[p] # <<>> /\ Tail(r[p]) = <<>>
        BY <4>2, SpendIsPoint
      <4>4. CASE p \in PointsOf(tx)
        <5>1. q[p] = <<>>
          BY <2>1, <4>3, <4>4
        <5>2. \A v \in IndexedIn(s) : p \in PointsOf(v) => v = tx
          BY <1>1, <1>2, <4>4, OneIndexed
        <5>. QED
          BY <1>3, <5>1, <5>2 DEF NoSpend
      <4>5. CASE p \notin PointsOf(tx)
        <5>1. q[p] = r[p]
          BY <2>1, <4>5
        <5>2. u \in IndexedIn(t)
          BY <1>3, <4>3, <4>5
        <5>. QED
          BY <4>2, <5>1, <5>2 DEF OneSpend
      <4>. QED
        BY <4>4, <4>5
    <3>. QED
      BY <1>3, <3>1, <3>2, Zenon DEF SpendsTell
  <2>. QED
    BY <1>2, <2>2, Zenon DEF SpendsTell
<1>. QED
  BY <1>4, <1>5

\* Every step keeps the spends.
LEMMA SpendsNext ==
    ASSUME ValidBlocks, ChecksInputs, LiveInv, Live, BucketInv, WaitInv,
           SpendsTell(spends, slab), [Next]_vars, Live'
    PROVE  SpendsTell(spends', slab')
<1>1. ASSUME AnyConfirms PROVE SpendsTell(spends', slab')
  <2>1. PICK tx, h, i : Confirms(tx, h, i)
    BY <1>1 DEF AnyConfirms
  <2>. QED
    BY <2>1, ConfirmsSpends
<1>2. ASSUME AnyUnconfirms PROVE SpendsTell(spends', slab')
  <2>1. PICK tx, i : Unconfirms(tx, i)
    BY <1>2 DEF AnyUnconfirms
  <2>. QED
    BY <2>1, UnconfirmsSpends
<1>3. ASSUME Keeps PROVE SpendsTell(spends', slab')
  <2>1. PICK s, t, r : s = slab /\ t = slab' /\ r = spends /\ r = spends' /\ SameBook(s, t)
    BY <1>3 DEF Keeps
  <2>2. IndexedIn(t) = IndexedIn(s) /\ SpendsTell(r, s)
    BY <2>1, SameRows
  <2>3. SpendsTell(r, t)
    BY <2>2, Zenon DEF SpendsTell, NoSpend, OneSpend
  <2>. QED
    BY <2>1, <2>3
<1>. QED
  BY <1>1, <1>2, <1>3, StepIs

-----------------------------------------------------------------------------
\* The history.

\* The history of an address has rows of its transactions, and all of them if
\* no race took one.  While the top block is popped, those of it that are left
\* come first, in any order.
Upper(s, a, h) == {r \in TableRows(s, a) : r.height = h}
Below(s, a, h) == TableRows(s, a) \ Upper(s, a, h)
Whole(l, a, R, S) == R \subseteq S /\ (a \notin l => R = S)
PlainAt(g, s, l, a) ==
    /\ g[a] \in Seq(HistoryRow)
    /\ \E R : Whole(l, a, R, TableRows(s, a)) /\ Tells(g[a], 0, R)
WoundAt(g, s, l, a, h) ==
    /\ g[a] \in Seq(HistoryRow) /\ IsFiniteSet(Upper(s, a, h))
    /\ \E R, k : /\ Whole(l, a, R, Below(s, a, h)) /\ Tells(g[a], k, R)
                 /\ k <= Cardinality(Upper(s, a, h))
                 /\ a \notin l => k = Cardinality(Upper(s, a, h))
HistoryTells(g, s, l, winding, h) ==
    \A a \in Addresses : IF winding THEN WoundAt(g, s, l, a, h) ELSE PlainAt(g, s, l, a)
HistoryInv == Live => HistoryTells(history, slab, lossy, phase = "unwinding", Top)

\* A row tells its transaction, and the height of that.
LEMMA TableRowsAre ==
    ASSUME NEW s, IsTable(s), NEW a, NEW r \in TableRows(s, a)
    PROVE  /\ r.tx \in IndexedIn(s) /\ r.height = s[r.tx].height
           /\ r \in HistoryRows(r.tx, s[r.tx].height, a)
<1>1. PICK u : InRows(s, a, u, r)
  BY InTable
<1>2. u \in IndexedIn(s) /\ r \in HistoryRows(u, s[u].height, a)
  BY <1>1 DEF InRows
<1>3. u \in Txs /\ s[u].height \in Nat
  BY <1>2 DEF IndexedIn, ConfirmedIn, IsTable
<1>4. r.tx = u /\ r.height = s[u].height
  BY <1>2, <1>3, HistoryRowsAre
<1>. QED
  BY <1>2, <1>4

\* push_transactions adds the rows of a transaction before lower ones.
LEMMA ConfirmsHistory ==
    ASSUME LiveInv, NEW tx, NEW h, NEW i, Confirms(tx, h, i), Highest(tx, h),
           NEW a \in Addresses, PlainAt(history, slab, lossy, a)
    PROVE  PlainAt(history', slab', lossy', a)
<1>1. /\ IndexStart \in Nat /\ h \in Nat /\ AddsTo(slab, slab', tx, h) /\ Has(Line, h + 1, i, tx)
      /\ IsTable(slab)
  BY ChainAssumption DEF ChainAssumption, Confirms, LiveInv, Typed
<1>2. PICK s, t, g, k, l, n : /\ s = slab /\ t = slab' /\ g = history /\ k = history'
                              /\ l = lossy /\ n = lossy'
  OBVIOUS
<1>3. /\ tx \notin IndexedIn(s) /\ PlainAt(g, s, l, a) /\ IsTable(s)
      /\ h < IndexStart => TableRows(t, a) = TableRows(s, a)
      /\ h >= IndexStart => TableRows(t, a) = TableRows(s, a) \cup HistoryRows(tx, h, a)
  BY <1>1, <1>2, AddedRows
<1>4. CASE h < IndexStart
  <2>1. k = g /\ n = l
    BY <1>2, <1>4 DEF Confirms, AddsRows
  <2>2. PlainAt(k, t, n, a)
    BY <1>3, <1>4, <2>1, Zenon DEF PlainAt
  <2>. QED
    BY <1>2, <2>2
<1>5. CASE ~(h < IndexStart)
  <2>1. PICK lost : /\ k = AddRow(OutputRows(tx, h), lost, AddRow(InputRows(tx, h), lost, g))
                    /\ n = l \cup {r.address : r \in lost}
    BY <1>2, <1>5 DEF Confirms, AddsRows
  <2>2. TableRows(t, a) = TableRows(s, a) \cup HistoryRows(tx, h, a)
    BY <1>1, <1>3, <1>5
  <2>3. tx \in Txs
    <3>1. Line \in Seq(Blocks)
      BY LineIs DEF LiveInv, IsChain
    <3>. QED
      BY <1>1, <3>1, HasIs
  <2>4. g[a] \in Seq(HistoryRow) /\ \E R : Whole(l, a, R, TableRows(s, a)) /\ Tells(g[a], 0, R)
    BY <1>3, Zenon DEF PlainAt
  <2>5. PICK R : Whole(l, a, R, TableRows(s, a)) /\ Tells(g[a], 0, R)
    BY <2>4
  <2>6. ASSUME NEW r \in R
        PROVE  /\ r.tx # tx
               /\ HistoryRows(tx, h, a) # {} => r.height <= h
    <3>1. PICK u : u = r.tx
      OBVIOUS
    <3>2. u \in IndexedIn(s) /\ r.height = s[u].height /\ HistoryRows(u, s[u].height, a) # {}
      BY <1>3, <2>5, <3>1, TableRowsAre DEF Whole
    <3>3. u \in ConfirmedIn(slab)
      BY <1>2, <3>2 DEF IndexedIn
    <3>4. HistoryRows(tx, h, a) # {} => slab[u].height <= h
      BY <1>2, <3>2, <3>3, Zenon DEF Highest
    <3>. QED
      BY <1>2, <1>3, <3>1, <3>2, <3>4
  <2>7. PICK T : T = R \cup (HistoryRows(tx, h, a) \ lost)
    OBVIOUS
  <2>8. k[a] \in Seq(HistoryRow) /\ Tells(k[a], 0, T)
    BY <1>1, <2>1, <2>3, <2>4, <2>5, <2>6, <2>7, AddRowIs
  <2>9. T \subseteq TableRows(t, a)
    BY <2>2, <2>5, <2>7 DEF Whole
  <2>10. ASSUME a \notin n PROVE T = TableRows(t, a)
    <3>1. a \notin l /\ \A r \in lost : r.address # a
      BY <2>1, <2>10
    <3>2. \A r \in HistoryRows(tx, h, a) : r.address = a
      BY DEF HistoryRows
    <3>3. R = TableRows(s, a)
      BY <2>5, <3>1 DEF Whole
    <3>. QED
      BY <2>2, <2>7, <3>1, <3>2, <3>3
  <2>11. PlainAt(k, t, n, a)
    BY <2>8, <2>9, <2>10 DEF PlainAt, Whole
  <2>. QED
    BY <1>2, <2>11
<1>. QED
  BY <1>4, <1>5

\* pop deletes as many of the first rows as the transaction has.
LEMMA UnconfirmsHistory ==
    ASSUME LiveInv, NEW tx, NEW i, Unconfirms(tx, i),
           NEW a \in Addresses, WoundAt(history, slab, lossy, a, Top)
    PROVE  WoundAt(history', slab', lossy', a, Top)
<1>1. /\ IndexStart \in Nat /\ TakesFrom(slab, slab', tx) /\ IsTable(slab)
      /\ slab[tx].height = Top
  BY ChainAssumption DEF ChainAssumption, Unconfirms, LiveInv, Typed
<1>2. PICK s, t, g, k, l, h : /\ s = slab /\ t = slab' /\ g = history /\ k = history'
                              /\ l = lossy /\ l = lossy' /\ h = Top /\ h = s[tx].height
  BY <1>1 DEF Unconfirms, DropsRows
<1>3. tx \in ConfirmedIn(s) /\ IsTable(s) /\ WoundAt(g, s, l, a, h) /\ TakesFrom(s, t, tx)
  BY <1>1, <1>2 DEF TakesFrom
<1>4. tx \in Txs /\ h \in Nat
  BY <1>2, <1>3 DEF ConfirmedIn, IsTable
<1>5. /\ h < IndexStart => TableRows(t, a) = TableRows(s, a)
      /\ h >= IndexStart => TableRows(s, a) = TableRows(t, a) \cup HistoryRows(tx, h, a)
      /\ IndexedIn(t) = IndexedIn(s) \ {tx}
  BY <1>1, <1>2, <1>3, <1>4, TakenRows
<1>6. CASE h < IndexStart
  <2>1. k = g
    BY <1>2, <1>6 DEF Unconfirms, DropsRows
  <2>2. Upper(t, a, h) = Upper(s, a, h) /\ Below(t, a, h) = Below(s, a, h)
    BY <1>5, <1>6 DEF Upper, Below
  <2>3. WoundAt(k, t, l, a, h)
    BY <1>3, <2>1, <2>2, Zenon DEF WoundAt
  <2>. QED
    BY <1>2, <2>3
<1>7. CASE ~(h < IndexStart)
  <2>1. k = DropRows(InputRows(tx, h), DropRows(OutputRows(tx, h), g))
    BY <1>2, <1>7 DEF Unconfirms, DropsRows
  <2>2. PICK U, H, V, S, T :
          /\ S = TableRows(s, a) /\ T = TableRows(t, a) /\ U = Upper(s, a, h)
          /\ H = HistoryRows(tx, h, a) /\ V = U \ H
    OBVIOUS
  <2>3. S = T \cup H
    BY <1>1, <1>2, <1>4, <1>5, <1>7, <2>2
  <2>4. \A r \in H : r.tx = tx /\ r.height = h
    BY <1>4, <2>2, HistoryRowsAre
  <2>5. T \cap H = {}
    <3>1. ASSUME NEW r \in T PROVE r.tx # tx
      <4>1. PICK u : InRows(t, a, u, r)
        BY <2>2, <3>1, InTable
      <4>2. u \in IndexedIn(t) /\ r \in HistoryRows(u, t[u].height, a)
        BY <4>1 DEF InRows
      <4>3. u # tx /\ u \in ConfirmedIn(t) /\ u \in ConfirmedIn(s)
        BY <1>3, <1>5, <4>2 DEF TakesFrom, IndexedIn
      <4>4. u \in Txs /\ t[u].height \in Nat
        BY <1>3, <4>3 DEF TakesFrom, ConfirmedIn, IsTable
      <4>. QED
        BY <4>2, <4>3, <4>4, HistoryRowsAre
    <3>. QED
      BY <2>4, <3>1
  <2>6. \A r : r \in U <=> r \in S /\ r.height = h
    BY <2>2 DEF Upper
  <2>7. \A r : r \in Upper(t, a, h) <=> r \in T /\ r.height = h
    BY <2>2 DEF Upper
  <2>8. H \subseteq U
    BY <2>3, <2>4, <2>6
  <2>9. Upper(t, a, h) = V
    BY <2>2, <2>3, <2>4, <2>5, <2>6, <2>7
  <2>10. Below(t, a, h) = Below(s, a, h)
    BY <2>2, <2>3, <2>4, <2>5, <2>6, <2>9 DEF Below
  <2>11. /\ g[a] \in Seq(HistoryRow) /\ IsFiniteSet(U)
         /\ \E R, n : /\ Whole(l, a, R, Below(s, a, h)) /\ Tells(g[a], n, R)
                      /\ n <= Cardinality(U) /\ (a \notin l => n = Cardinality(U))
    BY <1>3, <2>2, Zenon DEF WoundAt
  <2>12. PICK R, n : /\ Whole(l, a, R, Below(s, a, h)) /\ Tells(g[a], n, R)
                     /\ n <= Cardinality(U) /\ (a \notin l => n = Cardinality(U))
    BY <2>11
  <2>13. Without(U, HistoryRows(tx, h, a), V)
    BY <2>2, <2>8 DEF Without
  <2>14. k[a] \in Seq(HistoryRow) /\ IsFiniteSet(V) /\ Dropped(k[a], U, V, n, R)
    BY <1>4, <2>1, <2>11, <2>12, <2>13, DropRowsIs
  <2>15. PICK Q \in SUBSET R, m \in Nat :
           /\ Tells(k[a], m, Q) /\ m <= Cardinality(V)
           /\ n = Cardinality(U) => m = Cardinality(V) /\ Q = R
    BY <2>14 DEF Dropped
  <2>16. /\ Whole(l, a, Q, Below(t, a, h)) /\ m <= Cardinality(V)
         /\ (a \notin l => m = Cardinality(V))
    BY <2>10, <2>12, <2>15 DEF Whole
  <2>17. WoundAt(k, t, l, a, h)
    BY <2>9, <2>14, <2>15, <2>16, Zenon DEF WoundAt
  <2>. QED
    BY <1>2, <2>17
<1>. QED
  BY <1>6, <1>7

\* A block has finitely many rows.
LEMMA BlockRowsFinite ==
    ASSUME NEW b \in Blocks, NEW h \in Nat, NEW a
    PROVE  IsFiniteSet(UNION {HistoryRows(tx, h, a) : tx \in TxSet(b)})
<1>1. PICK f, n, T : f = TxsOf[b] /\ n = Len(TxsOf[b]) /\ T = TxSet(b)
  OBVIOUS
<1>2. f \in Seq(Txs)
  BY <1>1, DataAssumption DEF DataAssumption
<1>3. n \in Nat /\ DOMAIN f = 1 .. n /\ T = {f[i] : i \in DOMAIN f} /\ T \subseteq Txs
  BY <1>1, BlockHas
<1>4. f \in Surjection(1 .. n, T)
  <2>1. f = [i \in 1 .. n |-> f[i]]
    BY <1>1, <1>2, LenProperties
  <2>2. f \in [1 .. n -> T]
    BY <1>3, <2>1
  <2>3. \A x \in T : \E i \in 1 .. n : f[i] = x
    BY <1>3
  <2>. QED
    BY <2>2, <2>3 DEF Surjection
<1>5. IsFiniteSet(T)
  BY <1>3, <1>4, FS_Interval, FS_Surjection
<1>6. PICK g, S : /\ g = [tx \in T |-> HistoryRows(tx, h, a)]
                  /\ S = {HistoryRows(tx, h, a) : tx \in T}
  OBVIOUS
<1>7. g \in Surjection(T, S)
  BY <1>6, Zenon DEF Surjection
<1>8. IsFiniteSet(S)
  BY <1>5, <1>7, FS_Surjection
<1>9. ASSUME NEW A \in S PROVE IsFiniteSet(A)
  <2>1. PICK tx \in T : A = HistoryRows(tx, h, a)
    BY <1>6
  <2>. QED
    BY <1>3, <2>1, HistoryRowsAre
<1>10. IsFiniteSet(UNION S)
  BY <1>8, <1>9, FS_UNION
<1>. QED
  BY <1>1, <1>6, <1>10

\* When pop has read the top block, its rows are the first.
LEMMA ReadHistory ==
    ASSUME LiveInv, ReadBlock, NEW a \in Addresses, PlainAt(history, slab, lossy, a)
    PROVE  WoundAt(history, slab, lossy, a, Top)
<1>1. Typed /\ FlowInv /\ BookInv /\ IsTable(slab) /\ index \in Seq(Blocks) /\ Top \in Nat
  BY DEF LiveInv, Typed, ReadBlock, Top
<1>2. Line = index /\ Len(index) \in Nat /\ Len(index) = Top + 1 /\ DOMAIN index = 1 .. Len(index)
  <2>1. Line = index
    BY <1>1, PlainIs DEF ReadBlock
  <2>. QED
    BY <1>1, <2>1, ElementsOf DEF Top
<1>3. PICK s, g, l, h, b : /\ s = slab /\ g = history /\ l = lossy /\ h = Top
                           /\ b = index[Len(index)]
  OBVIOUS
<1>4. ASSUME NEW r \in TableRows(s, a)
      PROVE  r.height <= h /\ (r.height = h => \E u \in TxSet(b) : r \in HistoryRows(u, h, a))
  <2>1. PICK u : u = r.tx
    OBVIOUS
  <2>2. /\ u \in ConfirmedIn(slab) /\ r.height = slab[u].height
        /\ r \in HistoryRows(u, slab[u].height, a)
    BY <1>1, <1>3, <1>4, <2>1, TableRowsAre DEF IndexedIn
  <2>3. PICK n, i \in Nat : Has(index, n, i, u) /\ slab[u].height = n - 1
    BY <1>2, <2>2, ConfirmedPlace
  <2>4. n \in 1 .. Len(index)
    BY <1>2, <2>3 DEF Has
  <2>5. r.height <= h
    <3>1. n - 1 <= Top
      BY <1>1, <1>2, <2>4
    <3>. QED
      BY <1>3, <2>2, <2>3, <3>1
  <2>6. ASSUME r.height = h PROVE \E v \in TxSet(b) : r \in HistoryRows(v, h, a)
    <3>1. n = Len(index)
      BY <1>2, <1>3, <2>2, <2>3, <2>6
    <3>2. u \in TxSet(b)
      BY <1>1, <1>3, <2>3, <3>1, HasIs
    <3>. QED
      BY <2>2, <2>6, <3>2
  <2>. QED
    BY <2>5, <2>6
<1>5. PICK U : U = Upper(s, a, h)
  OBVIOUS
<1>6. \A r : r \in U <=> r \in TableRows(s, a) /\ r.height = h
  BY <1>5 DEF Upper
<1>7. IsFiniteSet(U)
  <2>1. b \in Blocks /\ h \in Nat
    BY <1>1, <1>2, <1>3
  <2>2. IsFiniteSet(UNION {HistoryRows(tx, h, a) : tx \in TxSet(b)})
    BY <2>1, BlockRowsFinite
  <2>3. U \in SUBSET (UNION {HistoryRows(tx, h, a) : tx \in TxSet(b)})
    BY <1>4, <1>6
  <2>. QED
    BY <2>2, <2>3, FS_Subset
<1>8. g[a] \in Seq(HistoryRow) /\ \E R : Whole(l, a, R, TableRows(s, a)) /\ Tells(g[a], 0, R)
  BY <1>3, Zenon DEF PlainAt
<1>9. PICK R : Whole(l, a, R, TableRows(s, a)) /\ Tells(g[a], 0, R)
  BY <1>8
<1>10. PICK W : W = {r \in R : r.height = h}
  OBVIOUS
<1>11. \A r \in R : r.height <= h
  BY <1>4, <1>9 DEF Whole
<1>12. IsFiniteSet(W) /\ Tells(g[a], Cardinality(W), R \ W)
  BY <1>1, <1>3, <1>8, <1>9, <1>10, <1>11, SplitTells
<1>13. W \in SUBSET U /\ (a \notin l => W = U)
  BY <1>6, <1>9, <1>10 DEF Whole
<1>14. Cardinality(W) <= Cardinality(U)
  BY <1>7, <1>13, FS_Subset
<1>15. Whole(l, a, R \ W, Below(s, a, h))
  <2>1. \A r : r \in Below(s, a, h) <=> r \in TableRows(s, a) /\ r.height # h
    BY <1>5, <1>6 DEF Below
  <2>2. \A r : r \in R \ W <=> r \in R /\ r.height # h
    BY <1>10
  <2>. QED
    BY <1>9, <2>1, <2>2 DEF Whole
<1>16. WoundAt(g, s, l, a, h)
  <2>1. a \notin l => Cardinality(W) = Cardinality(U)
    BY <1>13
  <2>. QED
    BY <1>5, <1>7, <1>8, <1>12, <1>14, <1>15, <2>1, Zenon DEF WoundAt
<1>. QED
  BY <1>3, <1>16

\* When pop is done with the top block, no rows of it are left.
LEMMA PopHistory ==
    ASSUME ValidBlocks, LiveInv, PopBlock, NEW a \in Addresses,
           WoundAt(history, slab, lossy, a, Top)
    PROVE  PlainAt(history, slab, lossy, a)
<1>1. LiveInv' /\ IsTable(slab) /\ index \in Seq(Blocks) /\ slab' = slab
      /\ phase' = "popping" /\ index' = SubSeq(index, 1, Top)
  BY PopBlockKeeps DEF LiveInv, Typed, PopBlock, tableVars
<1>2. Top \in Nat /\ Top <= Len(index) /\ Len(index) \in Nat
  <2>1. phase = "unwinding" /\ fork \in Nat /\ fork < Top
    BY DEF PopBlock, LiveInv, Typed, FlowInv
  <2>. QED
    BY <1>1, <2>1 DEF Top
<1>3. PICK c, s, h, g, l : /\ c = index' /\ s = slab /\ s = slab' /\ h = Top
                           /\ g = history /\ l = lossy
  BY <1>1
<1>4. c \in Seq(Blocks) /\ Len(c) = h /\ h \in Nat
  BY <1>1, <1>2, <1>3
<1>5. Line' = c
  BY <1>1, <1>3, <1>4, PlainNext
<1>6. \A u \in ConfirmedIn(s) : PlacedAt(s, c, u)
  BY <1>1, <1>3, <1>5, Zenon DEF LiveInv, BookInv, Placed
<1>7. ASSUME NEW r \in Upper(s, a, h) PROVE FALSE
  <2>1. PICK u : u = r.tx
    OBVIOUS
  <2>2. r \in TableRows(s, a) /\ r.height = h
    BY DEF Upper
  <2>3. u \in ConfirmedIn(s) /\ s[u].height = h
    BY <1>1, <1>3, <2>1, <2>2, TableRowsAre DEF IndexedIn
  <2>4. PICK n, i \in Nat : Has(c, n, i, u) /\ s[u].height = n - 1
    BY <1>6, <2>3, Zenon DEF PlacedAt
  <2>5. n \in 1 .. h
    BY <1>4, <2>4, HasIs
  <2>. QED
    BY <1>4, <2>3, <2>4, <2>5
<1>8. Upper(s, a, h) = {} /\ Below(s, a, h) = TableRows(s, a)
  BY <1>7 DEF Below
<1>9. WoundAt(g, s, l, a, h)
  BY <1>3
<1>10. /\ g[a] \in Seq(HistoryRow)
       /\ \E R, k : Whole(l, a, R, TableRows(s, a)) /\ Tells(g[a], k, R) /\ k <= Cardinality({})
  BY <1>8, <1>9, Zenon DEF WoundAt
<1>11. PICK R, k : Whole(l, a, R, TableRows(s, a)) /\ Tells(g[a], k, R) /\ k <= Cardinality({})
  BY <1>10
<1>12. k = 0
  <2>1. Len(g[a]) \in Nat /\ Cardinality({}) = 0
    BY <1>10, FS_EmptySet, ElementsOf
  <2>. QED
    BY <1>11, <2>1 DEF Tells
<1>13. PlainAt(g, s, l, a)
  BY <1>10, <1>11, <1>12 DEF PlainAt
<1>. QED
  BY <1>3, <1>13

\* Every step keeps the history, if imports wait for the rows.
LEMMA HistoryNext ==
    ASSUME ValidBlocks, ChecksInputs, Imports \in {"none", "rows"}, LiveInv, Live,
           BucketInv, WaitInv, HistoryInv, [Next]_vars, Live'
    PROVE  HistoryInv'
<1>1. HistoryTells(history, slab, lossy, phase = "unwinding", Top)
  BY DEF HistoryInv
<1>2. SUFFICES HistoryTells(history', slab', lossy', phase' = "unwinding", Top')
  BY DEF HistoryInv
<1>3. ASSUME AnyConfirms PROVE HistoryTells(history', slab', lossy', phase' = "unwinding", Top')
  <2>1. PICK tx, h, i : Confirms(tx, h, i) /\ Highest(tx, h)
    BY <1>3 DEF AnyConfirms
  <2>2. phase # "unwinding" /\ phase' # "unwinding"
    BY <2>1 DEF Confirms
  <2>3. ASSUME NEW a \in Addresses PROVE PlainAt(history', slab', lossy', a)
    BY <1>1, <2>1, <2>2, ConfirmsHistory DEF HistoryTells
  <2>. QED
    BY <2>2, <2>3 DEF HistoryTells
<1>4. ASSUME AnyUnconfirms PROVE HistoryTells(history', slab', lossy', phase' = "unwinding", Top')
  <2>1. PICK tx, i : Unconfirms(tx, i)
    BY <1>4 DEF AnyUnconfirms
  <2>2. phase = "unwinding" /\ phase' = "unwinding" /\ Top' = Top
    BY <2>1 DEF Unconfirms
  <2>3. ASSUME NEW a \in Addresses PROVE WoundAt(history', slab', lossy', a, Top)
    BY <1>1, <2>1, <2>2, UnconfirmsHistory DEF HistoryTells
  <2>. QED
    BY <2>2, <2>3 DEF HistoryTells
<1>5. ASSUME Keeps, NEW a \in Addresses, NEW h
      PROVE  /\ PlainAt(history', slab', lossy', a) <=> PlainAt(history, slab, lossy, a)
             /\ WoundAt(history', slab', lossy', a, h) <=> WoundAt(history, slab, lossy, a, h)
  <2>1. PICK s, t, g, l : /\ s = slab /\ t = slab' /\ g = history /\ g = history'
                         /\ l = lossy /\ l = lossy' /\ SameBook(s, t)
    BY <1>5 DEF Keeps
  <2>2. TableRows(t, a) = TableRows(s, a)
    BY <2>1, SameRows
  <2>3. Upper(t, a, h) = Upper(s, a, h) /\ Below(t, a, h) = Below(s, a, h)
    BY <2>2 DEF Upper, Below
  <2>4. /\ PlainAt(g, t, l, a) <=> PlainAt(g, s, l, a)
        /\ WoundAt(g, t, l, a, h) <=> WoundAt(g, s, l, a, h)
    BY <2>2, <2>3, Zenon DEF PlainAt, WoundAt
  <2>. QED
    BY <2>1, <2>4
<1>6. ASSUME Keeps, Winds PROVE HistoryTells(history', slab', lossy', phase' = "unwinding", Top')
  <2>1. CASE phase = "unwinding"
    <3>1. phase' = "unwinding" /\ Top' = Top
      BY <1>6, <2>1 DEF Winds
    <3>2. \A a \in Addresses : WoundAt(history', slab', lossy', a, Top)
      BY <1>1, <1>5, <1>6, <2>1, Zenon DEF HistoryTells
    <3>. QED
      BY <3>1, <3>2 DEF HistoryTells
  <2>2. CASE phase # "unwinding"
    <3>1. phase' # "unwinding"
      BY <1>6, <2>2 DEF Winds
    <3>2. \A a \in Addresses : PlainAt(history', slab', lossy', a)
      BY <1>1, <1>5, <1>6, <2>2, Zenon DEF HistoryTells
    <3>. QED
      BY <3>1, <3>2 DEF HistoryTells
  <2>. QED
    BY <2>1, <2>2
<1>7. ASSUME Keeps, ReadBlock PROVE HistoryTells(history', slab', lossy', phase' = "unwinding", Top')
  <2>1. phase = "popping" /\ phase' = "unwinding" /\ Top' = Top
    BY <1>2, <1>7 DEF ReadBlock, Top, Live
  <2>2. ASSUME NEW a \in Addresses PROVE WoundAt(history', slab', lossy', a, Top)
    <3>1. PlainAt(history, slab, lossy, a)
      BY <1>1, <2>1 DEF HistoryTells
    <3>2. WoundAt(history, slab, lossy, a, Top)
      BY <1>7, <3>1, ReadHistory
    <3>. QED
      BY <1>5, <1>7, <3>2, Zenon
  <2>. QED
    BY <2>1, <2>2 DEF HistoryTells
<1>8. ASSUME Keeps, PopBlock PROVE HistoryTells(history', slab', lossy', phase' = "unwinding", Top')
  <2>1. phase = "unwinding" /\ phase' = "popping"
    BY <1>8 DEF PopBlock
  <2>2. ASSUME NEW a \in Addresses PROVE PlainAt(history', slab', lossy', a)
    <3>1. WoundAt(history, slab, lossy, a, Top)
      BY <1>1, <2>1 DEF HistoryTells
    <3>2. PlainAt(history, slab, lossy, a)
      BY <1>8, <3>1, PopHistory
    <3>. QED
      BY <1>5, <1>8, <3>2, Zenon
  <2>. QED
    BY <2>1, <2>2 DEF HistoryTells
<1>. QED
  BY <1>3, <1>4, <1>6, <1>7, <1>8, StepIs

-----------------------------------------------------------------------------
\* The rows between writes.

\* An empty store has no rows.
LEMMA RowsStart ==
    ASSUME Init
    PROVE  BucketInv /\ WaitInv /\ SpendsInv /\ HistoryInv
<1>1. phase = "idle" /\ slab = <<>> /\ spends = [p \in Points |-> <<>>]
      /\ history = [a \in Addresses |-> <<>>]
  BY DEF Init, TableInit
<1>2. ConfirmedIn(slab) = {} /\ IndexedIn(slab) = {}
  BY <1>1 DEF ConfirmedIn, IndexedIn
<1>3. BucketInv /\ WaitInv
  BY <1>1 DEF BucketInv, WaitInv
<1>4. SpendsInv
  BY <1>1, <1>2 DEF SpendsInv, SpendsTell, NoSpend
<1>5. ASSUME NEW a \in Addresses PROVE PlainAt(history, slab, lossy, a)
  <2>1. TableRows(slab, a) = {}
    BY <1>2 DEF TableRows
  <2>2. history[a] = <<>>
    BY <1>1
  <2>3. <<>> \in Seq(HistoryRow) /\ Tells(<<>>, 0, {})
    BY DEF Tells
  <2>. QED
    BY <2>1, <2>2, <2>3 DEF PlainAt, Whole
<1>6. HistoryInv
  BY <1>1, <1>5 DEF HistoryInv, HistoryTells
<1>. QED
  BY <1>3, <1>4, <1>6

\* Every step, of a write that fails too.
LEMMA RowsNext ==
    ASSUME ValidBlocks, ChecksInputs, Inv, BucketInv, WaitInv, [Next]_vars
    PROVE  /\ BucketInv' /\ WaitInv' /\ (SpendsInv => SpendsInv')
           /\ Imports \in {"none", "rows"} /\ HistoryInv => HistoryInv'
<1>1. CASE ~Live'
  BY <1>1 DEF BucketInv, WaitInv, SpendsInv, HistoryInv
<1>2. CASE Live'
  <2>1. Live
    <3>1. CASE UNCHANGED vars
      BY <1>2, <3>1 DEF vars, Live
    <3>. QED
      BY <1>2, <3>1, FailedStays
  <2>2. LiveInv
    BY <2>1 DEF Inv
  <2>3. BucketInv' /\ WaitInv'
    BY <1>2, <2>1, <2>2, BucketNext, WaitNext
  <2>4. ASSUME SpendsInv PROVE SpendsInv'
    <3>1. SpendsTell(spends, slab)
      BY <2>1, <2>4 DEF SpendsInv
    <3>2. SpendsTell(spends', slab')
      BY <1>2, <2>1, <2>2, <3>1, SpendsNext
    <3>. QED
      BY <3>2 DEF SpendsInv
  <2>5. ASSUME Imports \in {"none", "rows"}, HistoryInv PROVE HistoryInv'
    BY <1>2, <2>1, <2>2, <2>5, HistoryNext
  <2>. QED
    BY <2>3, <2>4, <2>5
<1>. QED
  BY <1>1, <1>2

\* What is indexed is what the chain has from the indexed height up.
LEMMA IndexedNow ==
    ASSUME ValidBlocks, Inv, phase = "idle"
    PROVE  /\ \A u \in IndexedIn(slab) :
                /\ slab[u].height \in Heights(index) /\ slab[u].height >= IndexStart
                /\ u \in TxSet(index[slab[u].height + 1])
           /\ \A h \in Heights(index) : h >= IndexStart =>
                \A u \in TxSet(index[h + 1]) : u \in IndexedIn(slab) /\ slab[u].height = h
<1>1. /\ IsChain(index) /\ index \in Seq(Blocks)
      /\ Placed(slab, index, ChainTxs(index), ChainTxs(index))
  BY QuietIs DEF IsChain
<1>2. ASSUME NEW u \in IndexedIn(slab)
      PROVE  /\ slab[u].height \in Heights(index) /\ slab[u].height >= IndexStart
             /\ u \in TxSet(index[slab[u].height + 1])
  <2>1. u \in ConfirmedIn(slab) /\ slab[u].height >= IndexStart
    BY DEF IndexedIn
  <2>2. PICK n, i \in Nat : Has(index, n, i, u) /\ slab[u].height = n - 1
    BY <1>1, <2>1, Zenon DEF Placed, PlacedAt
  <2>. QED
    BY <1>1, <2>1, <2>2, HasHeight
<1>3. ASSUME NEW h \in Heights(index), h >= IndexStart, NEW u \in TxSet(index[h + 1])
      PROVE  u \in IndexedIn(slab) /\ slab[u].height = h
  <2>1. PICK i \in Nat : Has(index, h + 1, i, u)
    BY <1>1, HeightHas
  <2>2. h \in Nat /\ h + 1 \in Nat
    BY <1>1, HeightHas
  <2>3. u \in ChainTxs(index)
    BY <1>1, <2>1, <2>2, ChainHas
  <2>4. u \in ConfirmedIn(slab)
    BY <1>1, <2>3 DEF Placed
  <2>5. PICK n, j \in Nat : Has(index, n, j, u) /\ slab[u].height = n - 1
    BY <1>1, <2>4, Zenon DEF Placed, PlacedAt
  <2>6. n = h + 1
    BY <1>1, <2>1, <2>5, OnePlace
  <2>7. slab[u].height = h
    BY <2>2, <2>5, <2>6
  <2>. QED
    BY <1>3, <2>4, <2>7 DEF IndexedIn
<1>. QED
  BY <1>2, <1>3

\* A chain spends a point from a height up when a transaction in it does.
LEMMA InSpends ==
    ASSUME NEW c, NEW p, NEW k, NEW x
    PROVE  x \in SpendsOf(c, p, k) <=>
             \E h \in Heights(c) : h >= k /\ \E u \in TxSet(c[h + 1]) : x \in InputsAt(u, p)
<1> DEFINE D(h) == UNION {InputsAt(u, p) : u \in TxSet(c[h + 1])}
           H == {h \in Heights(c) : h >= k}
<1>1. SpendsOf(c, p, k) = UNION {D(h) : h \in H}
  BY DEF SpendsOf
<1>2. \A h : x \in D(h) <=> \E u \in TxSet(c[h + 1]) : x \in InputsAt(u, p)
  OBVIOUS
<1>3. \A h : h \in H <=> h \in Heights(c) /\ h >= k
  OBVIOUS
<1>. HIDE DEF D, H
<1>4. x \in UNION {D(h) : h \in H} <=> \E h \in H : x \in D(h)
  OBVIOUS
<1>. QED
  BY <1>1, <1>2, <1>3, <1>4

\* A chain has a row from a height up when a transaction in it has.
LEMMA InHistory ==
    ASSUME NEW c, NEW a, NEW k, NEW r
    PROVE  r \in HistoryOf(c, a, k) <=>
             \E h \in Heights(c) : h >= k /\ \E u \in TxSet(c[h + 1]) : r \in HistoryRows(u, h, a)
<1> DEFINE D(h) == UNION {HistoryRows(u, h, a) : u \in TxSet(c[h + 1])}
           H == {h \in Heights(c) : h >= k}
<1>1. HistoryOf(c, a, k) = UNION {D(h) : h \in H}
  BY DEF HistoryOf
<1>2. \A h : r \in D(h) <=> \E u \in TxSet(c[h + 1]) : r \in HistoryRows(u, h, a)
  OBVIOUS
<1>3. \A h : h \in H <=> h \in Heights(c) /\ h >= k
  OBVIOUS
<1>. HIDE DEF D, H
<1>4. r \in UNION {D(h) : h \in H} <=> \E h \in H : r \in D(h)
  OBVIOUS
<1>. QED
  BY <1>1, <1>2, <1>3, <1>4

\* Between writes, the spends are those of the chain.
LEMMA SpendsNow ==
    ASSUME ValidBlocks, Inv, SpendsInv
    PROVE  SpendsAreChain
<1>1. SUFFICES ASSUME phase = "idle", NEW p \in Points
               PROVE  ToSet(spends[p]) = SpendsOf(index, p, IndexStart) /\ Len(spends[p]) <= 1
  BY Zenon DEF SpendsAreChain, Quiet
<1>2. LiveInv /\ (NoSpend(spends, slab, p) \/ OneSpend(spends, slab, p))
  BY <1>1 DEF Inv, Live, SpendsInv, SpendsTell
<1>3. ASSUME NEW x \in SpendsOf(index, p, IndexStart)
      PROVE  \E u \in IndexedIn(slab) : x \in InputsAt(u, p)
  <2>1. PICK h \in Heights(index) :
          h >= IndexStart /\ \E u \in TxSet(index[h + 1]) : x \in InputsAt(u, p)
    BY <1>3, InSpends
  <2>2. PICK u \in TxSet(index[h + 1]) : x \in InputsAt(u, p)
    BY <2>1
  <2>. QED
    BY <1>1, <2>1, <2>2, IndexedNow
<1>4. ASSUME NEW u, NEW x \in InputsAt(u, p)
      PROVE  p \in PointsOf(u) /\ \E i : IsSpend(u, i, p, <<x>>)
  <2>1. PICK i \in DOMAIN InputsOf[u] : InputsOf[u][i].point = p /\ x = [tx |-> u, index |-> i - 1]
    BY <1>4 DEF InputsAt
  <2>. QED
    BY <2>1 DEF IsSpend, PointsOf
<1>5. CASE NoSpend(spends, slab, p)
  <2>1. spends[p] = <<>> /\ \A u \in IndexedIn(slab) : p \notin PointsOf(u)
    BY <1>5 DEF NoSpend
  <2>2. SpendsOf(index, p, IndexStart) = {}
    BY <1>3, <1>4, <2>1
  <2>3. ToSet(spends[p]) = {} /\ Len(spends[p]) <= 1
    BY <2>1 DEF ToSet
  <2>. QED
    BY <2>2, <2>3
<1>6. CASE OneSpend(spends, slab, p)
  <2>1. PICK u \in IndexedIn(slab) : \E i : IsSpend(u, i, p, spends[p])
    BY <1>6, Zenon DEF OneSpend
  <2>2. PICK i : IsSpend(u, i, p, spends[p])
    BY <2>1
  <2>3. PICK x : x = [tx |-> u, index |-> i - 1]
    OBVIOUS
  <2>4. spends[p] = <<x>> /\ x \in InputsAt(u, p) /\ p \in PointsOf(u)
    BY <2>2, <2>3 DEF IsSpend, InputsAt, PointsOf
  <2>5. PICK h : h = slab[u].height /\ h \in Heights(index) /\ h >= IndexStart
                 /\ u \in TxSet(index[h + 1])
    BY <1>1, IndexedNow
  <2>6. x \in SpendsOf(index, p, IndexStart)
    BY <2>4, <2>5, InSpends
  <2>7. Line \in Seq(Blocks) /\ IsChain(Line)
    BY <1>2, LineIs DEF LiveInv, IsChain
  <2>8. ASSUME NEW y \in SpendsOf(index, p, IndexStart) PROVE y = x
    <3>1. PICK v \in IndexedIn(slab) : y \in InputsAt(v, p)
      BY <1>3, <2>8
    <3>2. p \in PointsOf(v) /\ v \in ConfirmedIn(slab)
      BY <1>4, <3>1 DEF IndexedIn
    <3>3. PICK n, j \in Nat : Has(Line, n, j, v)
      BY <1>2, <3>2, ConfirmedPlace
    <3>4. u = v
      BY <1>2, <2>4, <3>2, <3>3, OneIndexed
    <3>5. PICK b \in Blocks : u \in TxSet(b)
      BY <2>7, <3>3, <3>4, HasIs
    <3>6. PICK k \in DOMAIN InputsOf[u] :
            InputsOf[u][k].point = p /\ y = [tx |-> u, index |-> k - 1]
      BY <3>1, <3>4 DEF InputsAt
    <3>7. k = i
      BY <2>2, <3>5, <3>6 DEF IsSpend, ValidBlocks
    <3>. QED
      BY <2>3, <3>6, <3>7
  <2>9. ToSet(<<x>>) = {x} /\ Len(<<x>>) = 1
    BY DEF ToSet
  <2>. QED
    BY <2>4, <2>6, <2>8, <2>9
<1>. QED
  BY <1>2, <1>5, <1>6

\* Between writes, the history is that of the chain, but for what was lost.
LEMMA HistoryNow ==
    ASSUME ValidBlocks, Inv, HistoryInv
    PROVE  HistoryIsChain
<1>1. ASSUME phase = "idle", NEW a \in Addresses
      PROVE  /\ ToSet(history[a]) \subseteq HistoryOf(index, a, IndexStart)
             /\ a \notin lossy => ToSet(history[a]) = HistoryOf(index, a, IndexStart)
             /\ Len(history[a]) = Cardinality(ToSet(history[a]))
             /\ \A i, j \in DOMAIN history[a] :
                  i < j => history[a][i].height >= history[a][j].height
  <2>1. PICK s, S : s = history[a] /\ S = TableRows(slab, a)
    OBVIOUS
  <2>0. s \in Seq(HistoryRow) /\ \E R : Whole(lossy, a, R, S) /\ Tells(s, 0, R)
    BY <1>1, <2>1 DEF HistoryInv, Live, HistoryTells, PlainAt
  <2>2. PICK R : s \in Seq(HistoryRow) /\ Whole(lossy, a, R, S) /\ Tells(s, 0, R)
    BY <2>0
  <2>3. Len(s) \in Nat /\ DOMAIN s = 1 .. Len(s)
    BY <2>2, ElementsOf
  <2>4. \A i \in DOMAIN s : i > 0 /\ i \in Nat
    BY <2>3
  <2>5. /\ \A i \in DOMAIN s : s[i] \in R
        /\ \A r \in R : \E i \in DOMAIN s : s[i] = r
        /\ \A i, j \in DOMAIN s : i < j => s[i] # s[j] /\ s[i].height >= s[j].height
    BY <2>2, <2>4 DEF Tells
  <2>6. Once(s)
    <3>1. \A i, j \in DOMAIN s : i < j \/ j < i \/ i = j
      BY <2>4
    <3>. QED
      BY <2>5, <3>1 DEF Once
  <2>7. Lists(s, R)
    BY <2>5 DEF Lists
  <2>8. Cardinality(R) = Len(s)
    BY <2>2, <2>6, <2>7, ListCounts
  <2>9. ToSet(s) = R
    <3>1. ToSet(s) = {s[i] : i \in DOMAIN s}
      BY Zenon DEF ToSet
    <3>. QED
      BY <2>5, <3>1
  <2>10. ASSUME NEW r \in S PROVE r \in HistoryOf(index, a, IndexStart)
    <3>1. PICK u : InRows(slab, a, u, r)
      BY <2>1, InTable
    <3>2. PICK h : h = slab[u].height /\ u \in IndexedIn(slab) /\ r \in HistoryRows(u, h, a)
      BY <3>1 DEF InRows
    <3>3. h \in Heights(index) /\ h >= IndexStart /\ u \in TxSet(index[h + 1])
      BY <1>1, <3>2, IndexedNow
    <3>. QED
      BY <3>2, <3>3, InHistory
  <2>11. ASSUME NEW r \in HistoryOf(index, a, IndexStart) PROVE r \in S
    <3>1. PICK h \in Heights(index) :
            h >= IndexStart /\ \E u \in TxSet(index[h + 1]) : r \in HistoryRows(u, h, a)
      BY <2>11, InHistory
    <3>2. PICK u \in TxSet(index[h + 1]) : r \in HistoryRows(u, h, a)
      BY <3>1
    <3>3. u \in IndexedIn(slab) /\ slab[u].height = h
      BY <1>1, <3>1, <3>2, IndexedNow
    <3>4. InRows(slab, a, u, r)
      BY <3>2, <3>3 DEF InRows
    <3>. QED
      BY <2>1, <3>4, InTable
  <2>12. S = HistoryOf(index, a, IndexStart)
    BY <2>10, <2>11
  <2>13. R \subseteq S /\ (a \notin lossy => R = S)
    BY <2>2 DEF Whole
  <2>. QED
    BY <2>1, <2>5, <2>8, <2>9, <2>12, <2>13
<1>. QED
  BY <1>1 DEF HistoryIsChain, Quiet

\* The spend index follows pushes, imports and reorganizations: between writes
\* each point has the row of the input of the chain that spends it, and only it.
THEOREM SpendsAreChainHolds ==
    ASSUME ValidBlocks, ChecksInputs
    PROVE  Spec => []SpendsAreChain
<1>1. Init => BucketInv /\ WaitInv /\ SpendsInv
  BY RowsStart
<1>2. Inv /\ BucketInv /\ WaitInv /\ SpendsInv /\ [Next]_vars
        => BucketInv' /\ WaitInv' /\ SpendsInv'
  BY RowsNext
<1>3. Inv /\ SpendsInv => SpendsAreChain
  BY SpendsNow
<1>. QED
  BY <1>1, <1>2, <1>3, InvIsInvariant, PTL DEF Spec

\* When imports wait for lower blocks of the same addresses, the history of an
\* address has no row but those of the chain, none twice and higher blocks
\* first, whatever was popped and pushed again; pop deletes the newest rows and
\* relies on it.  It has each of them until two threads race for the address.
THEOREM HistoryIsChainHolds ==
    ASSUME ValidBlocks, ChecksInputs, Imports \in {"none", "rows"}
    PROVE  Spec => []HistoryIsChain
<1>1. Init => BucketInv /\ WaitInv /\ HistoryInv
  BY RowsStart
<1>2. Inv /\ BucketInv /\ WaitInv /\ HistoryInv /\ [Next]_vars
        => BucketInv' /\ WaitInv' /\ HistoryInv'
  BY RowsNext
<1>3. Inv /\ HistoryInv => HistoryIsChain
  BY HistoryNow
<1>. QED
  BY <1>1, <1>2, <1>3, InvIsInvariant, PTL DEF Spec
=============================================================================
