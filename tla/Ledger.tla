------------------------------- MODULE Ledger -------------------------------
(***************************************************************************)
(* What data_base promises to those who read between writes: one chain of  *)
(* linked blocks, and a memory pool of the transactions that were offered  *)
(* or reorganized out and are not in the chain.  A block is added, and a   *)
(* branch exchanged for another, in one step.                              *)
(***************************************************************************)
EXTENDS ChainData

VARIABLES chain, mempool

ledger == <<chain, mempool>>

Tip(c) == IF c = <<>> THEN NoBlock ELSE Last(c)

LedgerInit == chain = <<>> /\ mempool = {}

\* push(transaction)
AddTx(tx) ==
    /\ tx \notin ChainTxs(chain) \cup mempool
    /\ mempool' = mempool \cup {tx}
    /\ UNCHANGED chain

\* push(block)
AddBlock(b) ==
    /\ Parent[b] = Tip(chain)
    /\ chain' = Append(chain, b)
    /\ mempool' = mempool \ TxSet(b)

\* reorganize(fork_point, incoming_blocks, outgoing_blocks): the blocks of
\* height above h make place for a branch.
Exchange(h, branch) ==
    LET fork == SubSeq(chain, 1, h + 1)
    IN  /\ Linked(chain[h + 1], branch)
        /\ chain' = fork \o branch
        /\ mempool' = (mempool \cup ChainTxs(chain)) \ ChainTxs(chain')

Write ==
    \/ \E tx \in Txs : AddTx(tx)
    \/ \E b \in Blocks : AddBlock(b)
    \/ \E h \in Heights(chain) :
          /\ h < Len(chain') /\ SubSeq(chain', 1, h + 1) = SubSeq(chain, 1, h + 1)
          /\ Exchange(h, SubSeq(chain', h + 2, Len(chain')))

LedgerNext == ledger' # ledger /\ Write

LedgerSpec == LedgerInit /\ [][LedgerNext]_ledger
=============================================================================
