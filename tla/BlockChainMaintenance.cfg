CONSTANTS
    b1 = b1  b2 = b2  b3 = b3  b4 = b4  b5 = b5  b6 = b6
    t1 = t1  t2 = t2
    net = net
    Genesis = Genesis
    NoHash = NoHash
    Blocks <- MCBlocks
    Transactions <- MCTransactions
    Parent <- MCParent
    Height <- MCHeight
    Txs <- MCTxs
    Size <- MCSize
    FileSize = 3
    Threads <- MCThreads
    From <- MCFrom
    Crashes = TRUE
    DiskFaults = FALSE
SPECIFICATION MaintenanceSpec
INVARIANTS AckedReadable EmptyIsFresh KeepInv
CHECK_DEADLOCK FALSE
