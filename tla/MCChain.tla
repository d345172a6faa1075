------------------------------ MODULE MCChain ------------------------------
(***************************************************************************)
(* TLC instances of Chain: a genesis block, and two branches over it.  t   *)
(* spends the coinbase of the genesis block, in the first block of one     *)
(* branch and in the second of the other.  u spends t in the same block    *)
(* a1, and v spends t in a later block.  c1 has a coinbase only and may be *)
(* imported beside c2.  t and u share the address q, and are in different  *)
(* buckets of a1.  The first output of t is a stealth key.                 *)
(***************************************************************************)
EXTENDS Chain, TLC

MCBlocks == {"g", "a1", "a2", "c1", "c2"}
MCParent == [g |-> NoBlock, a1 |-> "g", a2 |-> "a1", c1 |-> "g", c2 |-> "c1"]
MCTxs == {"cg", "ca1", "ca2", "cc1", "cc2", "t", "u", "v"}
MCTxsOf == [g |-> <<"cg">>,
            a1 |-> <<"ca1", "t", "u">>,
            a2 |-> <<"ca2", "v">>,
            c1 |-> <<"cc1">>,
            c2 |-> <<"cc2", "t">>]

In(tx, i, a) == [point |-> [tx |-> tx, index |-> i], address |-> a]
MCInputsOf ==
    [cg |-> <<>>, ca1 |-> <<>>, ca2 |-> <<>>, cc1 |-> <<>>, cc2 |-> <<>>,
     t |-> <<In("cg", 0, "p")>>,
     u |-> <<In("t", 0, NoAddress)>>,
     v |-> <<In("t", 1, "q")>>]
MCOutputsOf ==
    [cg |-> <<"p">>, ca1 |-> <<NoAddress>>, ca2 |-> <<NoAddress>>,
     cc1 |-> <<NoAddress>>, cc2 |-> <<NoAddress>>,
     t |-> <<"r", "q">>, u |-> <<"q">>, v |-> <<"q", "q">>]

ASSUME ValidAssumption == ValidBlocks

MCEphemeral == {[tx |-> "t", index |-> 0]}

MCMayStay == [tx \in MCTxs |-> IF tx = "t" THEN 1 ELSE 0]

\* The coinbase of c1 pays an address that t in c2 pays too.
MCSharedOutputsOf == [MCOutputsOf EXCEPT !["cc1"] = <<"q">>]
=============================================================================
