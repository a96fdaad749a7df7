CONSTANTS
    nodeA = nodeA  nodeB = nodeB  nodeC = nodeC  election1 = election1
    question1 = question1  question2 = question2
    voterA = voterA  voterB = voterB  trusteeA = trusteeA  trusteeB = trusteeB
    Nodes <- ThreeNodes
    Elections <- OneElection
    Creator <- MCCreator
    Voters <- MCVoters
    Server <- MCServer
    Situations <- TrusteeOnB
    Questions <- OneQuestion
    VoteKeys <- MCVoteKeys
    TrusteeKeys <- MCTrusteeKeys
SPECIFICATION Spec
INVARIANT EveryNodeAccepts
CHECK_DEADLOCK FALSE
