------------------------ MODULE MCBlockChainMaintenance ------------------------
(* Chains of up to three blocks, on one thread: b1 - b2 - b3 and b4, b1 - b5 - *)
(* b6.                                                                        *)
EXTENDS BlockChainMaintenance

CONSTANTS b1, b2, b3, b4, b5, b6, t1, t2, net

MCBlocks == {b1, b2, b3, b4, b5, b6}
MCTransactions == {t1, t2}
MCThreads == {net}
MCFrom == [t \in MCThreads |-> MCBlocks]

MCParent == [b \in MCBlocks |->
    CASE b = b1 -> Genesis
      [] b \in {b2, b5} -> b1
      [] b \in {b3, b4} -> b2
      [] b = b6 -> b5]

MCHeight == [h \in MCBlocks \cup {Genesis, NoHash} |->
    CASE h = b1 -> 1
      [] h \in {b2, b5} -> 2
      [] h \in {b3, b4, b6} -> 3
      [] OTHER -> 0]

MCTxs == [b \in MCBlocks |->
    CASE b = b1 -> {t1}
      [] b \in {b3, b4, b5} -> {t2}
      [] OTHER -> {}]

\* With FileSize = 3 the first two blocks fill the first file.
MCSize == [b \in MCBlocks |-> IF b = b5 THEN 3 ELSE 2]
=============================================================================
