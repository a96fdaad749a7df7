CONSTANTS
    b1 = b1  b2 = b2  b3 = b3  b4 = b4  b5 = b5
    t1 = t1  t2 = t2  t3 = t3
    net = net  miner = miner
    Genesis = Genesis
    NoHash = NoHash
    Blocks <- MCBlocks
    Transactions <- MCTransactions
    Parent <- MCParent
    Height <- MCHeight
    Txs <- MCTxs
    Size <- MCSize
    FileSize = 3
    Threads <- TwoThreads
    From <- FromBoth
    Crashes = FALSE
    DiskFaults = FALSE
SPECIFICATION Spec
INVARIANT AcceptedStays
CHECK_DEADLOCK FALSE
