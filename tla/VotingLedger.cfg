CONSTANTS
    nodeA = nodeA  nodeB = nodeB  nodeC = nodeC  election1 = election1
    question1 = question1  question2 = question2
    voterA = voterA  voterB = voterB  trusteeA = trusteeA  trusteeB = trusteeB
    Nodes <- TwoNodes
    Elections <- OneElection
    Creator <- MCCreator
    Voters <- MCVoters
    Server <- MCServer
    Situations <- AllSituations
    Questions <- OneQuestion
    VoteKeys <- MCVoteKeys
    TrusteeKeys <- MCTrusteeKeys
SPECIFICATION Spec
INVARIANTS TypeOK ResultsCount BlocksAcceptable MirrorsChain TrusteesAgree BackedByChain
PROPERTY EndedIsFinal
CHECK_DEADLOCK FALSE
