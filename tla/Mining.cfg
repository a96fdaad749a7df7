CONSTANTS
    vote1 = vote1  vote2 = vote2  tally = tally
    net = net  gui = gui
    w1 = w1  w2 = w2  w3 = w3
    a1 = a1  a2 = a2
    Nobody = Nobody
    Transactions <- TwoVotes
    SameVoter <- OneKey
    Needs <- NoNeeds
    Callers <- NetAndGui
    Network = net
    Workers <- ThreeWorkers
    Addresses <- TwoAddresses
    Situations <- ForeignBlock
    NonceSizes <- SmallSizes
SPECIFICATION Spec
INVARIANTS TypeOK QueueServed NoOrphans NoneForgotten VotesInOrder NoncesExhausted
CHECK_DEADLOCK FALSE
SYMMETRY Alike
VIEW Relevant
CONSTRAINT Defined
