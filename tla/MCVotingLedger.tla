--------------------------- MODULE MCVotingLedger ---------------------------
(* One election created on nodeA, with voters and trustees on nodeA and      *)
(* nodeB.  nodeC has none of their keys.                                     *)
EXTENDS VotingLedger

CONSTANTS
    nodeA, nodeB, nodeC, election1, question1, question2,
    voterA, voterB, trusteeA, trusteeB

TwoNodes == {nodeA, nodeB}
ThreeNodes == {nodeA, nodeB, nodeC}
OneElection == {election1}

MCCreator == [x \in {election1} |-> nodeA]
MCVoters == [x \in {election1} |-> {voterA, voterB}]
MCServer == [k \in {trusteeA, trusteeB} |-> IF k = trusteeA THEN 1 ELSE 2]
MCVoteKeys == [n \in Nodes |->
    CASE n = nodeA -> {voterA} [] n = nodeB -> {voterB} [] OTHER -> {}]
MCTrusteeKeys == [n \in Nodes |->
    CASE n = nodeA -> {trusteeA} [] n = nodeB -> {trusteeB} [] OTHER -> {}]

BothTrustees == [x \in {election1} |-> {trusteeA, trusteeB}]
BothNeeded == [x \in {election1} |-> 2]
OneNeeded == [x \in {election1} |-> 1]
TrusteeOfB == [x \in {election1} |-> {trusteeB}]
TrusteeOfA == [x \in {election1} |-> {trusteeA}]

OneQuestion == [x \in {election1} |-> {question1}]
TwoQuestions == [x \in {election1} |-> {question1, question2}]

Yes == [x \in {question1} |-> 1]
No == [x \in {question1} |-> 0]
Abstention == [x \in {} |-> 0]
YesOrNo == {Yes, No}
JustYes == {Yes}
WithAbstention == {Yes, Abstention}

Once == [n \in Nodes |-> 1]
TwiceOnB == [n \in Nodes |-> IF n = nodeB THEN 2 ELSE 0]
OnceOnB == [n \in Nodes |-> IF n = nodeB THEN 1 ELSE 0]

Votes(a, b) == [k \in {voterA, voterB} |-> IF k = voterA THEN a ELSE b]

Situation(trustees, threshold, ballots, blocks_size, votes, tallies, perKey, crashes) ==
    [trustees |-> trustees, threshold |-> threshold, ballots |-> ballots,
     maxBlocks |-> blocks_size[1], blockSize |-> blocks_size[2],
     maxVotes |-> votes, maxTallies |-> tallies,
     maxImports |-> perKey, crashes |-> crashes]

\* A voter who votes again; two trustees, with votes before and after the tally,
\* with a block for each of their answers; and several transactions in one block.
OneAndTwoTrustees ==
    {Situation(TrusteeOfA, OneNeeded, YesOrNo, <<5, 1>>, Votes(0, 2), 1, Once, FALSE),
     Situation(BothTrustees, BothNeeded, JustYes, <<4, 1>>, Votes(1, 1), 1, Once, FALSE),
     Situation(BothTrustees, BothNeeded, JustYes, <<5, 1>>, Votes(0, 1), 1, Once, FALSE),
     Situation(BothTrustees, BothNeeded, JustYes, <<4, 2>>, Votes(0, 1), 1, Once, FALSE),
     Situation(TrusteeOfA, OneNeeded, JustYes, <<4, 2>>, Votes(1, 1), 1, Once, FALSE)}

\* trusteeA is away, and processes crash: a key that is imported twice; two tallies.
InterruptedTrustees ==
    {Situation(BothTrustees, BothNeeded, WithAbstention, <<4, 2>>, Votes(0, 1), 1, TwiceOnB, TRUE),
     Situation(BothTrustees, BothNeeded, JustYes, <<4, 2>>, Votes(0, 1), 2, OnceOnB, TRUE)}

AllSituations == OneAndTwoTrustees \cup InterruptedTrustees

TrusteeOnB == {Situation(TrusteeOfB, OneNeeded, JustYes, <<3, 2>>, Votes(1, 1), 1, Once, FALSE)}
Abstaining ==
    {Situation(TrusteeOfB, OneNeeded, WithAbstention, <<4, 1>>, Votes(1, 1), 1, Once, FALSE)}
=============================================================================
