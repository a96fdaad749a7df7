---------------------------- MODULE AcceptedChain ----------------------------
(***************************************************************************)
(* What BlockChainDB promises to the rest of the program: one chain that   *)
(* starts at the genesis block and only ever grows, by one block whose     *)
(* predecessor is the current tip.  As a block contains the hash of its    *)
(* predecessor, the tip determines the whole chain.                        *)
(***************************************************************************)
CONSTANTS
    Blocks,     \* the blocks, each standing for its hash
    Genesis,    \* Settings::HASH_GENESIS_BLOCK
    Parent      \* Parent[b] is header.hashPrevBlock of b

VARIABLE tip    \* the newest accepted block

Init == tip = Genesis

Accept(b) ==
    /\ Parent[b] = tip
    /\ tip' = b

Next == \E b \in Blocks : Accept(b)

Spec == Init /\ [][Next]_tip
=============================================================================
