---------------------------- MODULE MCBlockChainDB ----------------------------
(* A small tree of blocks for TLC:  g - b1 - b2 - b4,  b1 - b3, with b3 and  *)
(* b2 competing for the place after b1, and b5 competing with b1.            *)
EXTENDS BlockChainDB

CONSTANTS b1, b2, b3, b4, b5, t1, t2, t3, net, miner

MCBlocks == {b1, b2, b3, b4, b5}
MCTransactions == {t1, t2, t3}

MCParent == [b \in MCBlocks |->
    CASE b \in {b1, b5} -> Genesis
      [] b \in {b2, b3} -> b1
      [] b = b4 -> b2]

MCHeight == [h \in MCBlocks \cup {Genesis, NoHash} |->
    CASE h \in {b1, b5} -> 1
      [] h \in {b2, b3} -> 2
      [] h = b4 -> 3
      [] OTHER -> 0]

\* b2 and b3 contain the same transaction, b4 has none.
MCTxs == [b \in MCBlocks |->
    CASE b = b1 -> {t1, t2}
      [] b \in {b2, b3} -> {t3}
      [] b = b4 -> {}
      [] b = b5 -> {t2}]

\* With FileSize = 3 the second block of a chain is the last of its file.
MCSize == [b \in MCBlocks |-> IF b = b4 THEN 3 ELSE 2]

OneThread == {net}
TwoThreads == {net, miner}
FromNetwork == [t \in {net} |-> MCBlocks]
FromBoth == [t \in {net, miner} |-> IF t = net THEN {b1, b2, b4} ELSE {b3, b5}]

\* Both threads add blocks, but those that compete come from one thread.
FromOneChain == [t \in {net, miner} |-> IF t = net THEN {b1, b4, b5} ELSE {b2}]
=============================================================================
