CONSTANTS
    vote1 = vote1  vote2 = vote2  tally = tally
    net = net  gui = gui
    w1 = w1  w2 = w2  w3 = w3
    a1 = a1  a2 = a2
    Nobody = Nobody
    Transactions <- VoteAndTally
    SameVoter <- NoKey
    Needs <- TallyNeedsVote
    Callers <- OneCaller
    Network = net
    Workers <- ThreeWorkers
    Addresses <- TwoAddresses
    Situations <- AbortsAndTally
    NonceSizes <- SmallSizes
SPECIFICATION FairSpec
INVARIANT MinerSearches
PROPERTY Settled
CHECK_DEADLOCK FALSE
