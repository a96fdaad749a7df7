------------------------ MODULE VotingResultsProofs ------------------------
(* What the ElectionDB makes of the chain, for any nodes, elections, keys    *)
(* and thresholds: a result counts the newest vote of each voter and nothing *)
(* else, and while no process stops an entry says all that the chain says,   *)
(* so that a block one node has mined is taken by the others.                *)
EXTENDS VotingLedgerProofs, WellFoundedInduction

-----------------------------------------------------------------------------
(* What the checks of receiveBlock leave behind *)

\* A block is no longer than the bound, has one vote of each key and is on the
\* chain of the node that mined it.
BlockRules ==
    \A b \in DOMAIN blocks :
        /\ DOMAIN blocks[b].transactions \subseteq 1 .. BlockSize
        /\ OneVotePerKey(BlockTxs(b))
        /\ \E n \in Nodes : ContainsBlock(n, b)

\* Before block i of n's chain there are the election e
ElectionBefore(n, i, e) ==
    \E j \in DOMAIN chain[n] : j < i /\
        \E g \in BlockTxs(chain[n][j]) : g \in OfType("election") /\ published[g].election = e

VoteChecked(n, i, h) ==
    LET e == published[h].election
    IN  ElectionBefore(n, i, e) /\ DOMAIN published[h].ballots \subseteq Questions[e]

TallyChecked(n, i, h) ==
    LET e == published[h].election
        b == published[h].lastBlock
    IN  /\ ElectionBefore(n, i, e)
        /\ \E j \in DOMAIN chain[n] : j < i /\ chain[n][j] = b
        /\ VotesIn(b, e) # {}

TrusteeTallyChecked(n, i, t) ==
    LET h == published[t].tally
        e == published[h].election
    IN  /\ ElectionBefore(n, i, e)
        /\ \E j \in DOMAIN chain[n] : j < i /\ h \in BlockTxs(chain[n][j])
        /\ published[t].key \in Trustees[e]
        /\ DOMAIN published[t].partialDecryption = Questions[e]

\* What the verification of a transaction asks for is in earlier blocks.
CheckedInv ==
    \A n \in Nodes : \A i \in DOMAIN chain[n] : \A h \in BlockTxs(chain[n][i]) :
        /\ h \in OfType("vote") => VoteChecked(n, i, h)
        /\ h \in OfType("tally") => TallyChecked(n, i, h)
        /\ h \in OfType("trusteeTally") => TrusteeTallyChecked(n, i, h)

\* A result is what every node counts for its tally.
ResultsInv ==
    \A n \in Nodes : \A e \in DOMAIN elections[n] : \A h \in DOMAIN elections[n][e].results :
        LET counted == Product(Count(n, h), e)
        IN  DOMAIN counted = Questions[e] /\ elections[n][e].results[h] = counted

\* The transactions of the given type for e that n has processed
ProcessedOf(n, e, type) == OnChain(n, e, type) \ ToSet(pending[n])

\* An entry says that these votes, tallies and partial tallies were processed.
Says(n, em, votes, tallies, parts) ==
    /\ em.votesRegistered = {published[h].key : h \in votes}
    /\ DOMAIN em.myVotes = em.votesRegistered \cap VoteKeys[n]
    /\ em.ended <=> \E h \in tallies : published[h].endElection
    /\ ~em.ended => DOMAIN em.tallies = tallies
    /\ tallies # {} => DOMAIN em.tallies # {}
    /\ UNION {em.tallies[h] : h \in DOMAIN em.tallies} = parts

Mirrors(n, e, em) ==
    Says(n, em, ProcessedOf(n, e, "vote"), ProcessedOf(n, e, "tally"), ProcessedOf(n, e, "trusteeTally"))

\* What waits is of the newest block, every election that does not wait has an
\* entry where the node is involved, and every entry mirrors the chain.
MirrorsOK(n) ==
    /\ \A h \in ToSet(pending[n]) : \A i, j \in DOMAIN chain[n] :
         h \in BlockTxs(chain[n][i]) => j <= i
    /\ \A e \in Elections : \A h \in OfType("election") :
         /\ n \in Involved(e) /\ published[h].election = e
         /\ ContainsTransaction(n, h) /\ h \notin ToSet(pending[n])
         => e \in DOMAIN elections[n]
    /\ \A e \in DOMAIN elections[n] : Mirrors(n, e, elections[n][e])

MirrorsInv == ~situation.crashes => \A n \in Nodes \ aborted : MirrorsOK(n)

-----------------------------------------------------------------------------
(* The invariants are kept: blocks and what has been checked of them *)

\* Users change no blocks, chains and elections, and no queue unless a node aborts.
LEMMA UserKeeps ==
    ASSUME User
    PROVE  /\ UNCHANGED blocks /\ UNCHANGED chain /\ UNCHANGED elections
           /\ UNCHANGED <<pending, aborted>> \/ \E m \in Nodes : Abort(m)
  <1> DEFINE Kept == UNCHANGED blocks /\ UNCHANGED chain /\ UNCHANGED elections
             Same == UNCHANGED <<pending, aborted>>
  <1>1. ASSUME NEW m \in Nodes, NEW e \in Elections, NEW k, ImportKey(m, e, k)
        PROVE  Kept /\ (Same \/ Abort(m))
    <2>1. Kept
      BY <1>1 DEF ImportKey
    <2>2. Same \/ Abort(m)
      BY <1>1, ZenonT(60) DEF ImportKey
    <2>3. QED
      BY <2>1, <2>2
  <1>2. ASSUME NEW m \in Nodes, NEW e \in Elections, NEW k, NEW b, Vote(m, e, k, b)
        PROVE  Kept /\ Same
    BY <1>2 DEF Vote
  <1>3. ASSUME NEW e \in Elections, NEW b, NEW end, Tally(e, b, end) PROVE Kept /\ Same
    BY <1>3 DEF Tally
  <1>4. ASSUME NEW e \in Elections, CreateElection(e) PROVE Kept /\ Same
    BY <1>4 DEF CreateElection
  <1>5. ASSUME NEW m \in Nodes, SaveKey(m) PROVE Kept /\ Same
    BY <1>5 DEF SaveKey
  <1>6. QED
    <2> HIDE DEF Kept, Same
    <2>1. Kept /\ (Same \/ \E m \in Nodes : Abort(m))
      BY <1>1, <1>2, <1>3, <1>4, <1>5 DEF User
    <2>2. QED
      BY <2>1 DEF Kept, Same

\* Only mining makes a block.
LEMMA BlockKinds ==
    ASSUME [Next]_vars
    PROVE  UNCHANGED blocks \/ \E n \in Nodes : MineBlock(n)
  <1>1. CASE UNCHANGED vars
    BY <1>1 DEF vars
  <1>2. CASE Next
    <2>1. ASSUME User PROVE UNCHANGED blocks
      BY <2>1, UserKeeps
    <2>2. ASSUME NEW n \in Nodes, Receive(n) PROVE UNCHANGED blocks
      BY <2>2 DEF Receive, ReceiveBlock
    <2>3. ASSUME NEW n \in Nodes, Process(n) PROVE UNCHANGED blocks
      BY <2>3 DEF Process, ProcessTxElection, ProcessTxVote, IgnoreTxTally, RegisterTxTally,
         AnswerTxTally, ProcessTxTrusteeTally
    <2>4. ASSUME NEW n \in Nodes, Crash(n) PROVE UNCHANGED blocks
      BY <2>4 DEF Crash
    <2>5. QED
      BY <1>2, <2>1, <2>2, <2>3, <2>4 DEF Next
  <1>3. QED
    BY <1>1, <1>2

\* The block that n mines
LEMMA MineFacts ==
    ASSUME Inv, NEW n \in Nodes, MineBlock(n)
    PROVE  \E b, txs :
               /\ DOMAIN blocks' = DOMAIN blocks \cup {b} /\ blocks'[b].transactions = txs
               /\ DOMAIN txs \subseteq 1 .. BlockSize /\ OneVotePerKey(ToSet(txs))
               /\ chain'[n] = Append(chain[n], b)
               /\ UNCHANGED published
  <1>1. PICK txs \in Minable(n) : Mine(n, txs)
    BY DEF MineBlock
  <1>2. PICK S \in SUBSET Hashes : txs \in SetToSeqs(S) /\ Cardinality(S) \in 1 .. BlockSize
    BY <1>1 DEF Minable
  <1>3. DOMAIN txs \subseteq 1 .. BlockSize
    <2>1. DOMAIN txs = 1 .. Cardinality(S)
      BY <1>2 DEF SetToSeqs
    <2>2. BlockSize \in Nat
      BY LedgerAssumption DEF Inv, Shapes, BlockSize
    <2>3. QED
      BY <1>2, <2>1, <2>2
  <1>4. Sequence(blocks) /\ DOMAIN blocks = 1 .. Len(blocks) /\ Len(blocks) \in Nat
    BY SequenceFacts DEF Inv, Shapes
  <1>5. blocks' = Append(blocks, [previous |-> Tip(n), transactions |-> txs])
    BY <1>1 DEF Mine
  <1>6. /\ DOMAIN blocks' = 1 .. Len(blocks) + 1
        /\ \A b \in 1 .. Len(blocks) : blocks'[b] = blocks[b]
        /\ blocks'[Len(blocks) + 1] = [previous |-> Tip(n), transactions |-> txs]
    BY <1>4, <1>5, AppendFacts
  <1>7. DOMAIN blocks' = DOMAIN blocks \cup {Len(blocks) + 1}
    BY <1>4, <1>6
  <1>8. blocks'[Len(blocks) + 1].transactions = txs
    BY <1>6
  <1>9. chain'[n] = Append(chain[n], Len(blocks) + 1)
    BY <1>1 DEF Mine, Accept, Inv, Shapes, FunctionOn
  <1>10. OneVotePerKey(ToSet(txs)) /\ UNCHANGED published
    BY <1>1 DEF Mine
  <1>11. QED
    BY <1>3, <1>4, <1>6, <1>7, <1>8, <1>9, <1>10

\* Every block keeps to the rules of its miner.
LEMMA RulesStep ==
    ASSUME Inv, BlockRules, Grows, [Next]_vars
    PROVE  BlockRules'
  <1>1. ASSUME NEW b \in DOMAIN blocks
        PROVE  /\ DOMAIN blocks'[b].transactions \subseteq 1 .. BlockSize'
               /\ OneVotePerKey(BlockTxs(b))'
               /\ \E n \in Nodes : ContainsBlock(n, b)'
    <2>1. /\ blocks'[b] = blocks[b] /\ BlockSize' = BlockSize /\ BlockTxs(b)' = BlockTxs(b)
          /\ \A h \in BlockTxs(b) : published'[h] = published[h]
      BY GrowsFacts DEF Grows, Extends, BlockSize, Inv, BlocksInv
    <2>2. OneVotePerKey(BlockTxs(b))'
      BY <2>1 DEF BlockRules, OneVotePerKey
    <2>3. PICK n \in Nodes : ContainsBlock(n, b)
      BY DEF BlockRules
    <2>4. ContainsBlock(n, b)'
      BY <2>3 DEF ContainsBlock, Grows, Extends, ToSet
    <2>5. QED
      BY <2>1, <2>2, <2>4 DEF BlockRules
  <1>2. CASE UNCHANGED blocks
    BY <1>1, <1>2 DEF BlockRules
  <1>3. ASSUME NEW n \in Nodes, MineBlock(n) PROVE BlockRules'
    <2>1. PICK b, txs :
               /\ DOMAIN blocks' = DOMAIN blocks \cup {b} /\ blocks'[b].transactions = txs
               /\ DOMAIN txs \subseteq 1 .. BlockSize /\ OneVotePerKey(ToSet(txs))
               /\ chain'[n] = Append(chain[n], b)
               /\ UNCHANGED published
      BY <1>3, MineFacts
    <2>2. OneVotePerKey(BlockTxs(b))'
      BY <2>1 DEF OneVotePerKey, BlockTxs
    <2>3. BlockSize' = BlockSize
      BY DEF BlockSize, Grows
    <2>4. ContainsBlock(n, b)'
      <3>1. Sequence(chain[n])
        BY DEF Inv, Shapes
      <3>2. ToSet(Append(chain[n], b)) = ToSet(chain[n]) \cup {b}
        BY <3>1, AppendFacts
      <3>3. QED
        BY <2>1, <3>2 DEF ContainsBlock
    <2>5. QED
      BY <1>1, <2>1, <2>2, <2>3, <2>4 DEF BlockRules
  <1>4. QED
    BY <1>2, <1>3, BlockKinds

\* A block that is before another one of a chain stays so.
LEMMA BeforeKept ==
    ASSUME Inv, Grows, NEW n \in Nodes, NEW i
    PROVE  /\ \A e : ElectionBefore(n, i, e) => ElectionBefore(n, i, e)'
           /\ \A j \in DOMAIN chain[n] :
                /\ j \in DOMAIN chain'[n] /\ chain'[n][j] = chain[n][j]
                /\ BlockTxs(chain[n][j])' = BlockTxs(chain[n][j])
  <1>1. \A j \in DOMAIN chain[n] :
            /\ j \in DOMAIN chain'[n] /\ chain'[n][j] = chain[n][j]
            /\ chain[n][j] \in DOMAIN blocks
    BY DEF Grows, Extends, Inv, ChainOK, ToSet
  <1>2. \A j \in DOMAIN chain[n] : BlockTxs(chain[n][j])' = BlockTxs(chain[n][j])
    BY <1>1, GrowsFacts
  <1>3. ASSUME NEW e, ElectionBefore(n, i, e) PROVE ElectionBefore(n, i, e)'
    <2>1. PICK j \in DOMAIN chain[n] : j < i /\
            \E g \in BlockTxs(chain[n][j]) : g \in OfType("election") /\ published[g].election = e
      BY <1>3 DEF ElectionBefore
    <2>2. PICK g \in BlockTxs(chain[n][j]) : g \in OfType("election") /\ published[g].election = e
      BY <2>1
    <2>3. g \in OfType("election")' /\ published'[g].election = e
      BY <2>2, GrowsFacts DEF OfType
    <2>4. QED
      BY <1>1, <1>2, <2>1, <2>2, <2>3 DEF ElectionBefore
  <1>4. QED
    BY <1>1, <1>2, <1>3

\* What has been checked of a transaction stays true.
LEMMA CheckedKept ==
    ASSUME Inv, Grows, NEW n \in Nodes, NEW i, NEW h \in Hashes
    PROVE  /\ VoteChecked(n, i, h) => VoteChecked(n, i, h)'
           /\ h \in OfType("tally") /\ TallyChecked(n, i, h) => TallyChecked(n, i, h)'
           /\ h \in OfType("trusteeTally") /\ TrusteeTallyChecked(n, i, h) => TrusteeTallyChecked(n, i, h)'
  <1>1. published'[h] = published[h] /\ Trustees' = Trustees
    BY GrowsFacts DEF Grows, Trustees
  <1>2. VoteChecked(n, i, h) => VoteChecked(n, i, h)'
    BY <1>1, BeforeKept DEF VoteChecked
  <1>3. ASSUME h \in OfType("tally"), TallyChecked(n, i, h) PROVE TallyChecked(n, i, h)'
    <2>1. PICK e, b : e = published[h].election /\ b = published[h].lastBlock
      OBVIOUS
    <2>2. /\ ElectionBefore(n, i, e) /\ VotesIn(b, e) # {}
          /\ \E j \in DOMAIN chain[n] : j < i /\ chain[n][j] = b
      BY <1>3, <2>1 DEF TallyChecked
    <2>3. ElectionBefore(n, i, e)' /\ \E j \in DOMAIN chain'[n] : j < i /\ chain'[n][j] = b
      BY <2>2, BeforeKept
    <2>4. VotesIn(b, e)' # {}
      <3>1. b \in DOMAIN blocks
        BY <2>2 DEF Inv, ChainOK, ToSet
      <3>2. BlockTxs(b)' = BlockTxs(b) /\ BlockTxs(b) \subseteq Hashes
        BY <3>1, GrowsFacts DEF Inv, BlocksInv
      <3>3. \A g \in BlockTxs(b) : published'[g] = published[g]
        BY <3>2, GrowsFacts
      <3>4. QED
        BY <2>2, <3>2, <3>3 DEF VotesIn
    <2>5. QED
      BY <1>1, <2>1, <2>3, <2>4 DEF TallyChecked
  <1>4. ASSUME h \in OfType("trusteeTally"), TrusteeTallyChecked(n, i, h)
        PROVE  TrusteeTallyChecked(n, i, h)'
    <2>1. PICK g, e : g = published[h].tally /\ e = published[g].election
      OBVIOUS
    <2>2. g \in Hashes /\ published'[g] = published[g]
      BY <1>4, <2>1, GrowsFacts DEF Inv, PublishedInv, OfType
    <2>3. /\ ElectionBefore(n, i, e)
          /\ \E j \in DOMAIN chain[n] : j < i /\ g \in BlockTxs(chain[n][j])
          /\ published[h].key \in Trustees[e]
          /\ DOMAIN published[h].partialDecryption = Questions[e]
      BY <1>4, <2>1 DEF TrusteeTallyChecked
    <2>4. /\ ElectionBefore(n, i, e)'
          /\ (\E j \in DOMAIN chain[n] : j < i /\ g \in BlockTxs(chain[n][j]))'
      BY <2>3, BeforeKept
    <2>5. QED
      BY <1>1, <2>1, <2>2, <2>3, <2>4 DEF TrusteeTallyChecked
  <1>5. QED
    BY <1>2, <1>3, <1>4

\* What the verification of a transaction asks for is in the blocks there are.
LEMMA VerifiedChecked ==
    ASSUME Inv, NEW n \in Nodes, NEW h \in Hashes, Verify(n, h),
           NEW i, \A j \in DOMAIN chain[n] : j < i
    PROVE  /\ h \in OfType("vote") => VoteChecked(n, i, h)
           /\ h \in OfType("tally") => TallyChecked(n, i, h)
           /\ h \in OfType("trusteeTally") => TrusteeTallyChecked(n, i, h)
  <1>1. ASSUME NEW e, ContainsElection(n, e) PROVE ElectionBefore(n, i, e)
    <2>1. PICK g \in OfType("election") : published[g].election = e /\ ContainsTransaction(n, g)
      BY <1>1 DEF ContainsElection
    <2>2. PICK j \in DOMAIN chain[n] : g \in BlockTxs(chain[n][j])
      BY <2>1 DEF ContainsTransaction, ToSet
    <2>3. QED
      BY <2>1, <2>2 DEF ElectionBefore
  <1>2. ASSUME h \in OfType("vote") PROVE VoteChecked(n, i, h)
    <2>1. VerifyVote(n, published[h])
      BY <1>2 DEF Verify, OfType
    <2>2. QED
      BY <1>1, <2>1 DEF VerifyVote, VoteChecked
  <1>3. ASSUME h \in OfType("tally") PROVE TallyChecked(n, i, h)
    <2>1. VerifyTally(n, published[h])
      BY <1>3 DEF Verify, OfType
    <2>2. \E j \in DOMAIN chain[n] : j < i /\ chain[n][j] = published[h].lastBlock
      BY <2>1 DEF VerifyTally, ContainsBlock, ToSet
    <2>3. QED
      BY <1>1, <2>1, <2>2 DEF VerifyTally, TallyChecked
  <1>4. ASSUME h \in OfType("trusteeTally") PROVE TrusteeTallyChecked(n, i, h)
    <2>1. VerifyTrusteeTally(n, published[h])
      BY <1>4 DEF Verify, OfType
    <2>2. /\ ContainsTransaction(n, published[h].tally)
          /\ ContainsElection(n, published[published[h].tally].election)
          /\ published[h].key \in Trustees[published[published[h].tally].election]
          /\ DOMAIN published[h].partialDecryption = Questions[published[published[h].tally].election]
      BY <2>1 DEF VerifyTrusteeTally, VerifySigner
    <2>3. \E j \in DOMAIN chain[n] : j < i /\ published[h].tally \in BlockTxs(chain[n][j])
      BY <2>2 DEF ContainsTransaction, ToSet
    <2>4. QED
      BY <1>1, <2>2, <2>3 DEF TrusteeTallyChecked
  <1>5. QED
    BY <1>2, <1>3, <1>4

\* A transaction that was checked stays so in its place, whatever is published
\* and added.
LEMMA CheckedStays ==
    ASSUME Inv, Grows, NEW n \in Nodes, NEW i, NEW h \in Hashes,
           /\ h \in OfType("vote") => VoteChecked(n, i, h)
           /\ h \in OfType("tally") => TallyChecked(n, i, h)
           /\ h \in OfType("trusteeTally") => TrusteeTallyChecked(n, i, h)
    PROVE  /\ h \in OfType("vote")' => VoteChecked(n, i, h)'
           /\ h \in OfType("tally")' => TallyChecked(n, i, h)'
           /\ h \in OfType("trusteeTally")' => TrusteeTallyChecked(n, i, h)'
  <1>1. \A type : h \in OfType(type)' => h \in OfType(type)
    BY GrowsFacts
  <1>2. QED
    BY <1>1, CheckedKept

\* Every block was checked where it was added.
LEMMA CheckedStep ==
    ASSUME Inv, CheckedInv, Grows, UNCHANGED situation,
           PublishesAnswers \/ \E n \in Nodes : \E b : Adds(n, b)
    PROVE  CheckedInv'
  <1>1. ASSUME NEW n \in Nodes, NEW i \in DOMAIN chain[n], NEW h,
               (h \in BlockTxs(chain[n][i]))'
        PROVE  /\ h \in OfType("vote")' => VoteChecked(n, i, h)'
               /\ h \in OfType("tally")' => TallyChecked(n, i, h)'
               /\ h \in OfType("trusteeTally")' => TrusteeTallyChecked(n, i, h)'
    <2>1. h \in BlockTxs(chain[n][i])
      BY <1>1, BeforeKept
    <2>2. h \in Hashes
      BY <2>1 DEF Inv, ChainOK, BlocksInv, ToSet
    <2>3. QED
      BY <2>1, <2>2, CheckedStays DEF CheckedInv
  <1>2. CASE PublishesAnswers
    BY <1>1, <1>2 DEF PublishesAnswers, CheckedInv
  <1>3. ASSUME NEW m \in Nodes, NEW b, Adds(m, b) PROVE CheckedInv'
    <2>1. /\ DOMAIN chain[m] = 1 .. Len(chain[m]) /\ Len(chain[m]) \in Nat
          /\ DOMAIN chain'[m] = 1 .. Len(chain[m]) + 1
          /\ chain'[m][Len(chain[m]) + 1] = b
          /\ \A n \in Nodes \ {m} : chain'[n] = chain[n]
      BY <1>3, AddsFacts
    <2>2. ASSUME NEW h, (h \in BlockTxs(b))', NEW i, i = Len(chain[m]) + 1
          PROVE  /\ h \in OfType("vote")' => VoteChecked(m, i, h)'
                 /\ h \in OfType("tally")' => TallyChecked(m, i, h)'
                 /\ h \in OfType("trusteeTally")' => TrusteeTallyChecked(m, i, h)'
      <3>1. Verify(m, h)
        BY <1>3, <2>2 DEF Adds, Acceptable, BlockTxs
      <3>2. h \in Hashes \/ \A type : h \notin OfType(type)'
        BY <1>3 DEF Adds, OfType, Hashes
      <3>3. \A j \in DOMAIN chain[m] : j < i
        BY <2>1, <2>2
      <3>4. QED
        BY <3>1, <3>2, <3>3, VerifiedChecked, CheckedStays
    <2>3. PICK k : k = Len(chain[m]) + 1
      OBVIOUS
    <2>4. ASSUME NEW n \in Nodes, NEW i \in DOMAIN chain'[n]
          PROVE  i \in DOMAIN chain[n] \/ (n = m /\ i = k)
      <3>1. CASE n = m
        BY <2>1, <2>3, <3>1
      <3>2. CASE n # m
        BY <2>1, <3>2
      <3>3. QED
        BY <3>1, <3>2
    <2>5. QED
      BY <1>1, <2>1, <2>2, <2>3, <2>4 DEF CheckedInv
  <1>4. QED
    BY <1>2, <1>3

-----------------------------------------------------------------------------
(* What is counted *)

\* Every set of numbers that is not empty has a least member,
LEMMA LeastNumber ==
    ASSUME NEW S \in SUBSET Nat, S # {}
    PROVE  \E x \in S : \A y \in S : x <= y
  <1> DEFINE R == OpToRel(<, Nat)
  <1>1. IsWellFoundedOn(R, Nat)
    BY NatLessThanWellFounded
  <1>2. \E x \in S : \A y \in S : ~(<<y, x>> \in R)
    <2> HIDE DEF R
    <2> QED
      BY <1>1, WFMin
  <1>3. \A x, y \in Nat : x < y => <<x, y>> \in R
    BY DEF OpToRel
  <1>4. PICK x \in S : \A y \in S : ~(<<y, x>> \in R)
    BY <1>2
  <1>5. ASSUME NEW y \in S PROVE x <= y
    <2>1. ~(y < x)
      BY <1>3, <1>4
    <2>2. QED
      BY <2>1
  <1>6. QED
    BY <1>5

\* and of the numbers up to k also a greatest.
LEMMA GreatestNumber ==
    ASSUME NEW k \in Nat, NEW S \in SUBSET (1 .. k), S # {}
    PROVE  \E x \in S : \A y \in S : y <= x
  <1> DEFINE D == {k - x : x \in S}
  <1>1. D \in SUBSET Nat /\ D # {}
    <2>1. \A x \in S : k - x \in Nat
      OBVIOUS
    <2>2. QED
      BY <2>1
  <1>2. PICK d \in D : \A y \in D : d <= y
    <2> HIDE DEF D
    <2> QED
      BY <1>1, LeastNumber
  <1>3. PICK x \in S : d = k - x
    OBVIOUS
  <1>4. \A y \in S : k - x <= k - y
    BY <1>2, <1>3
  <1>5. \A y \in S : y <= x
    BY <1>4
  <1>6. QED
    BY <1>5

\* Block i of n's chain has a vote of the key for e.
HasVote(n, e, key, i) == \E h \in VotesIn(chain[n][i], e) : published[h].key = key

\* The votes of the newest block, up to block k, with a vote of their key
NewestVotes(n, e, k) ==
    {h \in Hashes : \E i \in 1 .. k :
        /\ h \in VotesIn(chain[n][i], e)
        /\ \A j \in 1 .. k : HasVote(n, e, published[h].key, j) => j <= i}

\* A vote in block i of n's chain is of a voter, after the block of the election,
\* at one position and the only one of its key in this block.
LEMMA VoteFacts ==
    ASSUME Inv, PathsInv, CheckedInv, BlockRules, NEW n \in Nodes, NEW e, NEW s, ElectionPlace(n, e, s),
           NEW i \in DOMAIN chain[n], NEW h \in VotesIn(chain[n][i], e)
    PROVE  /\ h \in Hashes /\ published[h].key \in Voters[e] /\ s < i
           /\ \E j \in 1 .. BlockSize : j \in DOMAIN blocks[chain[n][i]].transactions
                                        /\ blocks[chain[n][i]].transactions[j] = h
           /\ IsInjective(blocks[chain[n][i]].transactions)
           /\ \A g \in VotesIn(chain[n][i], e) : published[g].key = published[h].key => g = h
  <1>1. chain[n][i] \in DOMAIN blocks
    BY DEF Inv, ChainOK, ToSet
  <1>2. /\ h \in BlockTxs(chain[n][i]) /\ h \in OfType("vote") /\ published[h].election = e
        /\ h \in Hashes
    BY <1>1 DEF VotesIn, OfType, Inv, BlocksInv
  <1>3. published[h].key \in Voters[e]
    BY <1>2 DEF Inv, PublishedInv
  <1>4. s < i
    <2>1. ElectionBefore(n, i, e)
      BY <1>2 DEF CheckedInv, VoteChecked
    <2>2. PICK j \in DOMAIN chain[n] : j < i /\
            \E g \in BlockTxs(chain[n][j]) : g \in OfType("election") /\ published[g].election = e
      BY <2>1 DEF ElectionBefore
    <2>3. Opens(blocks, published, chain[n][j], e)
      BY <2>2 DEF PathsInv, ElectionsOK, Opens, BlockTxs
    <2>4. QED
      BY <2>2, <2>3 DEF ElectionPlace
  <1>5. \E j \in 1 .. BlockSize : j \in DOMAIN blocks[chain[n][i]].transactions
                                  /\ blocks[chain[n][i]].transactions[j] = h
    BY <1>1, <1>2 DEF BlockRules, BlockTxs, ToSet
  <1>6. IsInjective(blocks[chain[n][i]].transactions)
    BY <1>1 DEF Inv, BlocksInv
  <1>7. \A g \in VotesIn(chain[n][i], e) : published[g].key = published[h].key => g = h
    BY <1>1, <1>2 DEF BlockRules, OneVotePerKey, VotesIn
  <1>8. QED
    BY <1>2, <1>3, <1>4, <1>5, <1>6, <1>7

\* The newest votes are one of each key.
LEMMA OneNewest ==
    ASSUME Inv, PathsInv, CheckedInv, BlockRules, NEW n \in Nodes, NEW e, NEW s, ElectionPlace(n, e, s),
           NEW k \in DOMAIN chain[n], NEW g \in NewestVotes(n, e, k), NEW h \in NewestVotes(n, e, k),
           published[g].key = published[h].key
    PROVE  g = h
  <1>1. DOMAIN chain[n] = 1 .. Len(chain[n]) /\ Len(chain[n]) \in Nat
    BY SequenceFacts DEF Inv, Shapes
  <1>2. 1 .. k \subseteq DOMAIN chain[n]
    BY <1>1
  <1>3. PICK i \in 1 .. k :
          /\ h \in VotesIn(chain[n][i], e)
          /\ \A j \in 1 .. k : HasVote(n, e, published[h].key, j) => j <= i
    BY DEF NewestVotes
  <1>4. PICK m \in 1 .. k :
          /\ g \in VotesIn(chain[n][m], e)
          /\ \A j \in 1 .. k : HasVote(n, e, published[g].key, j) => j <= m
    BY DEF NewestVotes
  <1>5. m <= i /\ i <= m
    BY <1>3, <1>4 DEF HasVote
  <1>6. m = i
    BY <1>5
  <1>7. QED
    BY <1>2, <1>3, <1>4, <1>6, VoteFacts

\* LastVotes of the property are the newest votes.
LEMMA LastAreNewest ==
    ASSUME Inv, PathsInv, CheckedInv, BlockRules, NEW n \in Nodes, NEW e, NEW s, ElectionPlace(n, e, s),
           NEW b, NEW k, BlockPlace(n, b, k)
    PROVE  LastVotes(n, e, b) = NewestVotes(n, e, k)
  <1> DEFINE top == CHOOSE i \in DOMAIN chain[n] : chain[n][i] = b
             votes(key) == {i \in 1 .. top : HasVote(n, e, key, i)}
             last(key) == CHOOSE i \in votes(key) : \A j \in votes(key) : j <= i
             vote(key) == CHOOSE h \in VotesIn(chain[n][last(key)], e) : published[h].key = key
  <1>1. DOMAIN chain[n] = 1 .. Len(chain[n]) /\ Len(chain[n]) \in Nat
    BY SequenceFacts DEF Inv, Shapes
  <1>2. k \in DOMAIN chain[n] /\ k \in Nat /\ 1 .. k \subseteq DOMAIN chain[n]
    BY <1>1 DEF BlockPlace
  <1>3. top = k
    BY DEF BlockPlace
  <1>4. LastVotes(n, e, b) = {vote(key) : key \in {j \in Voters[e] : votes(j) # {}}}
    BY DEF LastVotes, HasVote
  <1> HIDE DEF top
  <1>5. ASSUME NEW key, votes(key) # {}
        PROVE  /\ last(key) \in 1 .. k /\ \A j \in 1 .. k : HasVote(n, e, key, j) => j <= last(key)
               /\ vote(key) \in VotesIn(chain[n][last(key)], e) /\ published[vote(key)].key = key
    <2>1. votes(key) \in SUBSET (1 .. k)
      BY <1>3
    <2>2. \E i \in votes(key) : \A j \in votes(key) : j <= i
      <3> HIDE DEF votes
      <3> QED
        BY <1>2, <1>5, <2>1, GreatestNumber
    <2>3. last(key) \in votes(key) /\ \A j \in votes(key) : j <= last(key)
      <3> HIDE DEF votes
      <3> QED
        BY <2>2
    <2>4. last(key) \in 1 .. k /\ HasVote(n, e, key, last(key))
      <3> HIDE DEF last
      <3> QED
        BY <1>3, <2>3
    <2>5. \A j \in 1 .. k : HasVote(n, e, key, j) => j <= last(key)
      <3> HIDE DEF last
      <3> QED
        BY <1>3, <2>3
    <2>6. vote(key) \in VotesIn(chain[n][last(key)], e) /\ published[vote(key)].key = key
      <3> HIDE DEF last
      <3> QED
        BY <2>4 DEF HasVote
    <2>7. QED
      BY <2>4, <2>5, <2>6
  <1> HIDE DEF votes, last, vote
  <1>6. ASSUME NEW key \in Voters[e], votes(key) # {} PROVE vote(key) \in NewestVotes(n, e, k)
    <2>1. /\ last(key) \in 1 .. k /\ \A j \in 1 .. k : HasVote(n, e, key, j) => j <= last(key)
          /\ vote(key) \in VotesIn(chain[n][last(key)], e) /\ published[vote(key)].key = key
      BY <1>5, <1>6
    <2>2. vote(key) \in Hashes
      BY <1>2, <2>1, VoteFacts
    <2>3. QED
      BY <2>1, <2>2 DEF NewestVotes
  <1>7. ASSUME NEW h \in NewestVotes(n, e, k)
        PROVE  published[h].key \in Voters[e] /\ votes(published[h].key) # {} /\ h = vote(published[h].key)
    <2>1. PICK i \in 1 .. k : h \in VotesIn(chain[n][i], e)
      BY DEF NewestVotes
    <2>2. published[h].key \in Voters[e]
      BY <1>2, <2>1, VoteFacts
    <2>3. i \in votes(published[h].key)
      BY <1>3, <2>1 DEF votes, HasVote
    <2>4. vote(published[h].key) \in NewestVotes(n, e, k) /\ published[vote(published[h].key)].key = published[h].key
      BY <1>5, <1>6, <2>2, <2>3
    <2>5. QED
      BY <1>2, <2>2, <2>3, <2>4, OneNewest
  <1>8. QED
    BY <1>4, <1>6, <1>7

\* CountedVotes, which walks backwards and skips the keys it has met, counts the
\* newest votes.
LEMMA CountedAreNewest ==
    ASSUME Inv, PathsInv, CheckedInv, BlockRules, NEW n \in Nodes, NEW e, NEW s, ElectionPlace(n, e, s),
           NEW b, NEW k, BlockPlace(n, b, k)
    PROVE  CountedVotes(n, e, b) = {published[h] : h \in NewestVotes(n, e, k)}
  <1> DEFINE P == VotePositions(n, e, b)
             hash(p) == blocks[chain[n][p[1]]].transactions[p[2]]
             before(p, r) == p[1] > r[1] \/ (p[1] = r[1] /\ p[2] < r[2])
             newest(r) == ~\E t \in P : published[hash(t)].key = published[hash(r)].key /\ before(t, r)
  <1>1. DOMAIN chain[n] = 1 .. Len(chain[n]) /\ Len(chain[n]) \in Nat
    BY SequenceFacts DEF Inv, Shapes
  <1>2. k \in DOMAIN chain[n] /\ k \in Nat /\ 1 .. k \subseteq DOMAIN chain[n] /\ s \in Nat /\ 1 <= s
    BY <1>1 DEF BlockPlace, ElectionPlace
  <1>3. CountedVotes(n, e, b) = {published[hash(p)] : p \in {r \in P : newest(r)}}
    BY DEF CountedVotes, VoteAt
  <1>4. \A p : p \in P <=>
          /\ p \in (s .. k) \X (1 .. BlockSize)
          /\ p[2] \in DOMAIN blocks[chain[n][p[1]]].transactions
          /\ hash(p) \in VotesIn(chain[n][p[1]], e)
    <2>1. (CHOOSE i \in DOMAIN chain[n] : chain[n][i] = b) = k
      BY DEF BlockPlace
    <2>2. (CHOOSE i \in DOMAIN chain[n] :
               TxElection(e) \in {published[h] : h \in ToSet(blocks[chain[n][i]].transactions)}) = s
      BY DEF ElectionPlace, Opens
    <2>3. P = {p \in (s .. k) \X (1 .. BlockSize) :
                 /\ p[2] \in DOMAIN blocks[chain[n][p[1]]].transactions
                 /\ hash(p) \in VotesIn(chain[n][p[1]], e)}
      BY <2>1, <2>2 DEF VotePositions
    <2> HIDE DEF P
    <2>4. QED
      BY <2>3
  <1> HIDE DEF P
  <1>5. \A p \in P : /\ p[1] \in 1 .. k /\ p[2] \in 1 .. BlockSize
                     /\ p[2] \in DOMAIN blocks[chain[n][p[1]]].transactions
                     /\ hash(p) \in VotesIn(chain[n][p[1]], e)
    BY <1>2, <1>4
  <1>6. ASSUME NEW i \in 1 .. k, NEW h \in VotesIn(chain[n][i], e)
        PROVE  \E p \in P : p[1] = i /\ hash(p) = h
    <2>1. s < i
      BY <1>2, VoteFacts
    <2>2. PICK j \in 1 .. BlockSize : j \in DOMAIN blocks[chain[n][i]].transactions
                                      /\ blocks[chain[n][i]].transactions[j] = h
      BY <1>2, VoteFacts
    <2>3. i \in s .. k
      BY <1>2, <2>1
    <2>4. <<i, j>> \in P
      BY <1>4, <2>2, <2>3
    <2>5. QED
      BY <2>2, <2>4
  <1>7. ASSUME NEW p \in P, newest(p)
        PROVE  hash(p) \in NewestVotes(n, e, k)
    <2>1. p[1] \in 1 .. k /\ hash(p) \in VotesIn(chain[n][p[1]], e)
      BY <1>5
    <2>2. hash(p) \in Hashes
      BY <1>2, <2>1, VoteFacts
    <2>3. ASSUME NEW j \in 1 .. k, HasVote(n, e, published[hash(p)].key, j) PROVE j <= p[1]
      <3>1. PICK g \in VotesIn(chain[n][j], e) : published[g].key = published[hash(p)].key
        BY <2>3 DEF HasVote
      <3>2. PICK r \in P : r[1] = j /\ hash(r) = g
        BY <1>6
      <3>3. ~before(r, p)
        BY <1>7, <3>1, <3>2
      <3>4. QED
        BY <2>1, <3>2, <3>3
    <2>4. QED
      BY <2>1, <2>2, <2>3 DEF NewestVotes
  <1>8. ASSUME NEW h \in NewestVotes(n, e, k)
        PROVE  \E p \in P : hash(p) = h /\ newest(p)
    <2>1. PICK i \in 1 .. k :
            /\ h \in VotesIn(chain[n][i], e)
            /\ \A j \in 1 .. k : HasVote(n, e, published[h].key, j) => j <= i
      BY DEF NewestVotes
    <2>2. PICK p \in P : p[1] = i /\ hash(p) = h
      BY <1>6, <2>1
    <2>3. ASSUME NEW t \in P, published[hash(t)].key = published[h].key, before(t, p) PROVE FALSE
      <3>1. /\ t[1] \in 1 .. k /\ t[2] \in 1 .. BlockSize
            /\ t[2] \in DOMAIN blocks[chain[n][t[1]]].transactions
            /\ hash(t) \in VotesIn(chain[n][t[1]], e)
        BY <1>5
      <3>2. HasVote(n, e, published[h].key, t[1])
        BY <2>3, <3>1 DEF HasVote
      <3>3. t[1] = p[1] /\ t[2] < p[2]
        BY <2>1, <2>2, <2>3, <3>1, <3>2
      <3>4. hash(t) = h
        <4>1. hash(t) \in VotesIn(chain[n][i], e) /\ published[hash(t)].key = published[h].key
          BY <2>2, <2>3, <3>1, <3>3
        <4>2. \A g \in VotesIn(chain[n][i], e) : published[g].key = published[h].key => g = h
          BY <1>2, <2>1, VoteFacts
        <4>3. QED
          BY <4>1, <4>2
      <3>5. IsInjective(blocks[chain[n][i]].transactions)
        BY <1>2, <2>1, VoteFacts
      <3>6. t[2] = p[2]
        BY <1>5, <2>2, <3>1, <3>3, <3>4, <3>5 DEF IsInjective
      <3>7. QED
        BY <1>5, <3>1, <3>3, <3>6
    <2>4. QED
      BY <2>2, <2>3
  <1>9. QED
    <2> HIDE DEF hash, newest
    <2>1. QED
      BY <1>3, <1>7, <1>8

\* So a product counts the voters whose newest vote says YES.
LEMMA ProductCounts ==
    ASSUME Inv, PathsInv, CheckedInv, BlockRules, NEW n \in Nodes, NEW e, NEW s, ElectionPlace(n, e, s),
           NEW b, NEW k, BlockPlace(n, b, k), NEW q \in DOMAIN Product(CountedVotes(n, e, b), e)
    PROVE  Product(CountedVotes(n, e, b), e)[q] =
             Cardinality({v \in LastVotes(n, e, b) :
                             /\ q \in DOMAIN published[v].ballots
                             /\ published[v].ballots[q] = 1})
  <1> DEFINE N == NewestVotes(n, e, k)
             yes(v) == q \in DOMAIN v.ballots /\ v.ballots[q] = 1
             Y == {h \in N : yes(published[h])}
             Z == {v \in CountedVotes(n, e, b) : yes(v)}
             f == [h \in Y |-> published[h]]
  <1>1. Product(CountedVotes(n, e, b), e)[q] = Cardinality(Z)
    <2>1. Product(CountedVotes(n, e, b), e)[q] =
            Cardinality({v \in {w \in CountedVotes(n, e, b) : q \in DOMAIN w.ballots} : v.ballots[q] = 1})
      BY DEF Product
    <2>2. {v \in {w \in CountedVotes(n, e, b) : q \in DOMAIN w.ballots} : v.ballots[q] = 1} = Z
      OBVIOUS
    <2>3. QED
      BY <2>1, <2>2
  <1>2. k \in DOMAIN chain[n]
    BY DEF BlockPlace
  <1>3. CountedVotes(n, e, b) = {published[h] : h \in N} /\ LastVotes(n, e, b) = N
    BY CountedAreNewest, LastAreNewest
  <1> HIDE DEF yes
  <1>4. f \in Bijection(Y, Z)
    <2>1. \A h \in Y : f[h] = published[h] /\ f[h] \in Z
      BY <1>3
    <2>2. \A v \in Z : \E h \in Y : f[h] = v
      BY <1>3
    <2>3. \A g, h \in Y : f[g] = f[h] => g = h
      <3> SUFFICES ASSUME NEW g \in Y, NEW h \in Y, f[g] = f[h] PROVE g = h
        OBVIOUS
      <3>1. published[g].key = published[h].key /\ g \in N /\ h \in N
        OBVIOUS
      <3>2. QED
        BY <1>2, <3>1, OneNewest
    <2>4. f \in [Y -> Z]
      BY <2>1
    <2> HIDE DEF Y, Z, f
    <2>5. f \in Injection(Y, Z)
      BY <2>3, <2>4 DEF Injection, IsInjective
    <2>6. f \in Surjection(Y, Z)
      BY <2>2, <2>4 DEF Surjection
    <2>7. QED
      BY <2>5, <2>6 DEF Bijection
  <1>5. IsFiniteSet(Y)
    <2>1. Y \subseteq Hashes
      BY DEF NewestVotes
    <2>2. QED
      BY <2>1, FiniteHashes, FS_Subset
  <1>6. Cardinality(Z) = Cardinality(Y)
    <2> HIDE DEF Y, Z, f
    <2>1. ExistsBijection(Y, Z)
      BY <1>4 DEF ExistsBijection
    <2>2. QED
      BY <1>5, <2>1, FS_Bijection
  <1>7. QED
    BY <1>1, <1>3, <1>6 DEF yes


-----------------------------------------------------------------------------
(* Results *)

\* What n combines when the next transaction is the partial tally that is missing
NewResult(n, e, h) ==
    \E t, old, S :
        /\ NextIs(n, "trusteeTally") /\ NextPart(n, t, h, e, old, S) /\ e \in DOMAIN elections[n]
        /\ Cardinality(S) >= Threshold[e]
        /\ elections'[n][e].results[h] = Combined(S, e)
        /\ UNCHANGED <<published, blocks, chain>>

OldResult(n, e, h) == e \in DOMAIN elections[n] /\ h \in DOMAIN elections[n][e].results

ResultsFrom ==
    \A n \in Nodes : \A e \in DOMAIN elections'[n] : \A h \in DOMAIN elections'[n][e].results :
        OldResult(n, e, h) \/ NewResult(n, e, h)

\* Saving an entry changes no other.
LEMMA SavedResults ==
    ASSUME Inv, NEW n \in Nodes, NEW e, NEW em, Save(n, e, em),
           \A h \in DOMAIN em.results : OldResult(n, e, h) \/ NewResult(n, e, h)
    PROVE  ResultsFrom
  <1> SUFFICES ASSUME NEW m \in Nodes, NEW f \in DOMAIN elections'[m],
                      NEW h \in DOMAIN elections'[m][f].results
               PROVE  OldResult(m, f, h) \/ NewResult(m, f, h)
    BY DEF ResultsFrom
  <1>1. CASE m = n /\ f = e
    BY <1>1, SaveFacts
  <1>2. CASE ~(m = n /\ f = e)
    <2>1. f \in DOMAIN elections[m] /\ elections'[m][f] = elections[m][f]
      BY <1>2, SaveFacts
    <2>2. QED
      BY <2>1 DEF OldResult
  <1>3. QED
    BY <1>1, <1>2

\* A vote adds no result,
LEMMA VoteResults ==
    ASSUME Inv, NEW n \in Nodes, ProcessTxVote(n)
    PROVE  ResultsFrom
  <1> SUFFICES ASSUME NEW h, h = Head(pending[n]), NEW e, e = published[h].election
               PROVE  ResultsFrom
    OBVIOUS
  <1>1. CASE UNCHANGED elections
    BY <1>1 DEF ResultsFrom, OldResult
  <1>2. ASSUME e \in DOMAIN elections[n], NEW old, old = elections[n][e],
               NEW em, em = VoteRegistered(n, old, h), Save(n, e, em)
        PROVE  ResultsFrom
    <2>1. Manager(old)
      BY <1>2 DEF Inv, EntriesOK, EntryInv
    <2>2. em = [old EXCEPT !.votesRegistered = @ \cup {published[h].key}, !.myVotes = MyVotes(n, old, h)]
      BY <1>2 DEF VoteRegistered
    <2>3. em.results = old.results
      BY <2>1, <2>2 DEF Manager
    <2>4. QED
      BY <1>2, <2>3, SavedResults DEF OldResult
  <1>3. QED
    BY <1>1, <1>2 DEF ProcessTxVote

\* nor does a tally.
LEMMA TallyResults ==
    ASSUME Inv, NEW n \in Nodes, RegisterTxTally(n)
    PROVE  ResultsFrom
  <1> SUFFICES ASSUME NEW h, h = Head(pending[n]), NEW e, e = published[h].election,
                      NEW old, old = elections[n][e]
               PROVE  ResultsFrom
    OBVIOUS
  <1>1. e \in DOMAIN elections[n] /\ Save(n, e, TallyRegistered(old, h))
    BY DEF RegisterTxTally, IgnoresTally
  <1>2. Manager(old)
    BY <1>1 DEF Inv, EntriesOK, EntryInv
  <1>3. PICK em : em = TallyRegistered(old, h)
    OBVIOUS
  <1>4. em.results = old.results
    <2>1. TallyChanges(old, h, em)
      BY <1>2, <1>3, TallyRegisteredFields
    <2>2. QED
      BY <2>1 DEF TallyChanges
  <1>5. QED
    BY <1>1, <1>3, <1>4, SavedResults DEF OldResult

\* A partial tally adds the result it completes.
LEMMA PartResults ==
    ASSUME Inv, NEW n \in Nodes, ProcessTxTrusteeTally(n)
    PROVE  ResultsFrom
  <1> SUFFICES ASSUME NEW t, NEW h, NEW e, NEW old, NEW S, NextPart(n, t, h, e, old, S)
               PROVE  ResultsFrom
    BY DEF NextPart
  <1>1. /\ NextIs(n, "trusteeTally") /\ UNCHANGED <<published, blocks, chain, paillier, imports>>
        /\ \/ UNCHANGED elections
           \/ /\ e \in DOMAIN elections[n]
              /\ Save(n, e, [old EXCEPT !.tallies = With(@, h, S)])
           \/ /\ e \in DOMAIN elections[n] /\ Cardinality(S) >= Threshold[e]
              /\ Save(n, e, [[old EXCEPT !.tallies = With(@, h, S)]
                               EXCEPT !.results = With(@, h, Combined(S, e))])
    BY DEF ProcessTxTrusteeTally, EnoughParts, NextPart
  <1>2. CASE UNCHANGED elections
    BY <1>2 DEF ResultsFrom, OldResult
  <1>3. ASSUME e \in DOMAIN elections[n], NEW results, NEW em, Save(n, e, em),
               em = [[old EXCEPT !.tallies = With(@, h, S)] EXCEPT !.results = results],
               \/ results = old.results
               \/ Cardinality(S) >= Threshold[e] /\ results = With(old.results, h, Combined(S, e))
        PROVE  ResultsFrom
    <2>1. Manager(old)
      BY <1>3 DEF Inv, EntriesOK, EntryInv, NextPart
    <2>2. em = [old EXCEPT !.tallies = With(@, h, S), !.results = results]
      BY <1>3, <2>1 DEF Manager
    <2>3. em.results = results
      <3>1. PartsChange(old, h, S, results, em)
        BY <2>1, <2>2, PartsFields
      <3>2. QED
        BY <3>1 DEF PartsChange
    <2>4. elections'[n][e].results = results
      <3>1. Save(n, e, em)
        BY <1>3
      <3>2. elections'[n][e] = em
        BY <3>1, SaveFacts
      <3>3. QED
        BY <2>3, <3>2
    <2>5. ASSUME NEW g \in DOMAIN results, g \notin DOMAIN old.results PROVE NewResult(n, e, g)
      <3>1. Cardinality(S) >= Threshold[e] /\ results = With(old.results, h, Combined(S, e))
        BY <1>3, <2>5
      <3>2. g = h /\ results[g] = Combined(S, e)
        BY <2>5, <3>1 DEF With
      <3>3. QED
        BY <1>1, <1>3, <2>4, <3>1, <3>2 DEF NewResult
    <2>6. \A g \in DOMAIN em.results : OldResult(n, e, g) \/ NewResult(n, e, g)
      BY <1>3, <2>3, <2>5 DEF OldResult, NextPart
    <2>7. QED
      BY <1>3, <2>6, SavedResults
  <1>4. CASE e \in DOMAIN elections[n] /\ Save(n, e, [old EXCEPT !.tallies = With(@, h, S)])
    <2>1. Manager(old)
      BY <1>4 DEF Inv, EntriesOK, EntryInv, NextPart
    <2>2. [old EXCEPT !.tallies = With(@, h, S)]
            = [[old EXCEPT !.tallies = With(@, h, S)] EXCEPT !.results = old.results]
      BY <2>1 DEF Manager
    <2>3. QED
      BY <1>3, <1>4, <2>2
  <1>5. CASE /\ e \in DOMAIN elections[n] /\ Cardinality(S) >= Threshold[e]
             /\ Save(n, e, [[old EXCEPT !.tallies = With(@, h, S)]
                              EXCEPT !.results = With(@, h, Combined(S, e))])
    <2>1. Manager(old)
      BY <1>5 DEF Inv, EntriesOK, EntryInv, NextPart
    <2>2. [[old EXCEPT !.tallies = With(@, h, S)] EXCEPT !.results = With(@, h, Combined(S, e))]
            = [[old EXCEPT !.tallies = With(@, h, S)]
                 EXCEPT !.results = With(old.results, h, Combined(S, e))]
      BY <2>1 DEF Manager
    <2>3. QED
      BY <1>3, <1>5, <2>2
  <1>6. QED
    BY <1>1, <1>2, <1>4, <1>5

\* So every result was there before or is what its node has just combined.
LEMMA ResultKinds ==
    ASSUME Inv, [Next]_vars
    PROVE  ResultsFrom
  <1>1. ASSUME UNCHANGED elections PROVE ResultsFrom
    BY <1>1 DEF ResultsFrom, OldResult
  <1>2. CASE UNCHANGED vars
    BY <1>1, <1>2 DEF vars
  <1>3. CASE Next
    <2>1. ASSUME User PROVE UNCHANGED elections
      BY <2>1, UserKeeps
    <2>2. ASSUME NEW n \in Nodes, MineBlock(n) \/ Receive(n) \/ Crash(n) PROVE UNCHANGED elections
      BY <2>2 DEF MineBlock, Mine, Receive, ReceiveBlock, Crash
    <2>3. ASSUME NEW n \in Nodes, ProcessTxElection(n) PROVE ResultsFrom
      <3>1. PICK e : Save(n, e, NewManager) \/ UNCHANGED elections
        BY <2>3 DEF ProcessTxElection
      <3>2. DOMAIN NewManager.results = {}
        BY DEF NewManager
      <3>3. QED
        BY <1>1, <3>1, <3>2, SavedResults
    <2>4. ASSUME NEW n \in Nodes, IgnoreTxTally(n) \/ \E h \in answering[n] : AnswerTxTally(n, h)
          PROVE  UNCHANGED elections
      BY <2>4 DEF IgnoreTxTally, AnswerTxTally
    <2>5. ASSUME NEW n \in Nodes, Process(n) PROVE ResultsFrom
      BY <1>1, <2>3, <2>4, <2>5, VoteResults, TallyResults, PartResults DEF Process
    <2>6. QED
      BY <1>1, <1>3, <2>1, <2>2, <2>5 DEF Next
  <1>4. QED
    BY <1>2, <1>3

\* The partial tallies for h on n's chain decrypt what n counts for h, for every
\* question, and are signed by trustees.
LEMMA PartsCount ==
    ASSUME Inv, SumsInv, CheckedInv, NEW n \in Nodes, NEW e, NEW h,
           NEW t \in OnChain(n, e, "trusteeTally"), published[t].tally = h
    PROVE  /\ published[t].partialDecryption = Product(Count(n, h), e)
           /\ DOMAIN published[t].partialDecryption = Questions[e]
           /\ published[t].key \in Trustees[e]
  <1>1. t \in OfType("trusteeTally") /\ ContainsTransaction(n, t) /\ published[h].election = e
    BY DEF OnChain, ElectionOf, OfType
  <1>2. ContainsTransaction(n, h)
    BY <1>1 DEF Inv, ChainOK
  <1>3. published[t].partialDecryption = Product(Count(n, h), published[h].election)
    BY <1>1, <1>2 DEF SumsInv
  <1>4. PICK i \in DOMAIN chain[n] : t \in BlockTxs(chain[n][i])
    BY <1>1 DEF ContainsTransaction, ToSet
  <1>5. TrusteeTallyChecked(n, i, t)
    BY <1>1, <1>4 DEF CheckedInv
  <1>6. QED
    BY <1>1, <1>3, <1>5 DEF TrusteeTallyChecked

\* ElectionManager::tally combines partial tallies of one count to that count: the
\* one of the trustee with the least index is among those it takes.
LEMMA CombinedCounts ==
    ASSUME NEW e, NEW S, S # {}, NEW counted, counted = [q \in Questions[e] |-> counted[q]],
           \A t \in S : published[t].partialDecryption = counted,
           \A t \in S : Server[published[t].key] \in Nat,
           Threshold[e] \in Nat \ {0}
    PROVE  Combined(S, e) = counted
  <1> DEFINE index(t) == Server[published[t].key]
             lower(t) == {v \in S : index(v) < index(t)}
             taken == {u \in S : Cardinality(lower(u)) < Threshold[e]}
             sums(q) == {published[t].partialDecryption[q] : t \in taken}
             value(q) == IF \E s \in sums(q) : sums(q) = {s} THEN CHOOSE s \in sums(q) : TRUE ELSE Garbage
  <1>1. Combined(S, e) = [q \in Questions[e] |-> value(q)]
    BY DEF Combined
  <1>2. \E t \in S : \A u \in S : index(t) <= index(u)
    <2>1. {index(t) : t \in S} \in SUBSET Nat /\ {index(t) : t \in S} # {}
      OBVIOUS
    <2>2. PICK x \in {index(t) : t \in S} : \A y \in {index(t) : t \in S} : x <= y
      BY <2>1, LeastNumber
    <2>3. QED
      BY <2>2
  <1>3. PICK t \in S : \A u \in S : index(t) <= index(u)
    BY <1>2
  <1>4. lower(t) = {}
    <2>1. \A u \in S : index(t) \in Nat /\ index(u) \in Nat /\ index(t) <= index(u)
      BY <1>3
    <2> HIDE DEF index
    <2>2. QED
      BY <2>1
  <1>5. t \in taken
    <2>1. Cardinality(lower(t)) < Threshold[e]
      <3>1. Cardinality({}) = 0
        BY FS_EmptySet
      <3> HIDE DEF lower
      <3>2. QED
        BY <1>4, <3>1
    <2> HIDE DEF lower
    <2>2. QED
      BY <1>3, <2>1
  <1>6. ASSUME NEW q \in Questions[e] PROVE value(q) = counted[q]
    <2>1. sums(q) = {counted[q]}
      <3> HIDE DEF taken
      <3>1. \A u \in taken : published[u].partialDecryption[q] = counted[q]
        BY DEF taken
      <3>2. QED
        BY <1>5, <3>1
    <2> HIDE DEF sums
    <2>2. QED
      BY <2>1
  <1> HIDE DEF value
  <1>7. QED
    BY <1>1, <1>6

\* Every step keeps ResultsInv: the parts that make a result are of one count, and
\* that does not change when the chain grows.
LEMMA ResultsStep ==
    ASSUME Inv, Inv', AnsweringOK, PathsInv, PlacesInv, PlacesInv', SumsInv, CheckedInv, ResultsInv,
           [Next]_vars
    PROVE  ResultsInv'
  <1>1. Finality /\ Grows
    BY InvStep
  <1> SUFFICES ASSUME NEW n \in Nodes, NEW e \in DOMAIN elections'[n],
                      NEW h \in DOMAIN elections'[n][e].results
               PROVE  /\ DOMAIN Product(Count(n, h)', e) = Questions[e]
                      /\ elections'[n][e].results[h] = Product(Count(n, h)', e)
    BY DEF ResultsInv, Product
  <1>2. ASSUME h \in OfType("tally"), ContainsTransaction(n, h),
               DOMAIN Product(Count(n, h), e) = Questions[e],
               elections'[n][e].results[h] = Product(Count(n, h), e)
        PROVE  /\ DOMAIN Product(Count(n, h)', e) = Questions[e]
               /\ elections'[n][e].results[h] = Product(Count(n, h)', e)
    <2>1. Count(n, h)' = Count(n, h)
      BY <1>1, <1>2, CountKept
    <2>2. QED
      BY <1>2, <2>1
  <1>3. CASE OldResult(n, e, h)
    <2>1. e \in DOMAIN elections[n] /\ h \in DOMAIN elections[n][e].results
      BY <1>3 DEF OldResult
    <2>2. elections'[n][e].results[h] = elections[n][e].results[h]
      BY <1>1, <2>1 DEF Finality
    <2>3. h \in OnChain(n, e, "tally")
      BY <2>1 DEF Inv, EntriesOK, EntryInv, ManagerOK, Backed
    <2>4. h \in OfType("tally") /\ ContainsTransaction(n, h)
      BY <2>3 DEF OnChain
    <2>5. /\ DOMAIN Product(Count(n, h), e) = Questions[e]
          /\ elections[n][e].results[h] = Product(Count(n, h), e)
      BY <2>1 DEF ResultsInv
    <2>6. QED
      BY <1>2, <2>2, <2>4, <2>5
  <1>4. CASE NewResult(n, e, h)
    <2>1. PICK t, old, S :
            /\ NextIs(n, "trusteeTally") /\ NextPart(n, t, h, e, old, S) /\ e \in DOMAIN elections[n]
            /\ Cardinality(S) >= Threshold[e]
            /\ elections'[n][e].results[h] = Combined(S, e)
      BY <1>4 DEF NewResult
    <2>2. t \in OfType("trusteeTally") /\ ContainsTransaction(n, t) /\ published[t].tally = h
      BY <2>1, NextTransaction DEF NextPart
    <2>3. t \in OnChain(n, e, "trusteeTally") /\ h \in OfType("tally") /\ ContainsTransaction(n, h)
      <3>1. h \in OfType("tally")
        BY <2>2 DEF Inv, PublishedInv
      <3>2. ContainsTransaction(n, h)
        BY <2>2 DEF Inv, ChainOK
      <3>3. e = ElectionOf(t)
        BY <2>1 DEF NextPart
      <3>4. QED
        BY <2>2, <3>1, <3>2, <3>3 DEF OnChain
    <2>4. EntryInv(n, e, old)
      BY <2>1 DEF Inv, EntriesOK, NextPart
    <2>5. S \subseteq {u \in OnChain(n, e, "trusteeTally") : published[u].tally = h} /\ t \in S
      <3>1. CASE h \in DOMAIN old.tallies
        <4>1. old.tallies[h] \subseteq {u \in OnChain(n, e, "trusteeTally") : published[u].tally = h}
          BY <2>4, <3>1, PartsOf
        <4>2. S = {t} \cup old.tallies[h]
          BY <2>1, <3>1 DEF NextPart
        <4>3. QED
          BY <2>2, <2>3, <4>1, <4>2
      <3>2. CASE h \notin DOMAIN old.tallies
        <4>1. S = {t}
          BY <2>1, <3>2 DEF NextPart
        <4>2. QED
          BY <2>2, <2>3, <4>1
      <3>3. QED
        BY <3>1, <3>2
    <2>6. \A u \in S : /\ published[u].partialDecryption = Product(Count(n, h), e)
                       /\ DOMAIN published[u].partialDecryption = Questions[e]
                       /\ published[u].key \in Trustees[e]
      BY <2>5, PartsCount
    <2>7. e \in Elections /\ situation \in Situations
      BY <2>4 DEF EntryInv, Inv, Shapes
    <2>8. Threshold[e] \in Nat \ {0}
      BY <2>7, LedgerAssumption DEF Threshold
    <2>9. \A u \in S : Server[published[u].key] \in Nat
      BY <2>6, <2>7, LedgerAssumption DEF Trustees
    <2>10. PICK counted : counted = Product(Count(n, h), e)
      OBVIOUS
    <2>11. DOMAIN counted = Questions[e] /\ \A u \in S : published[u].partialDecryption = counted
      BY <2>5, <2>6, <2>10
    <2>12. counted = [q \in Questions[e] |-> counted[q]]
      BY <2>10, <2>11 DEF Product
    <2>13. Combined(S, e) = counted
      BY <2>5, <2>8, <2>9, <2>11, <2>12, CombinedCounts
    <2>14. QED
      BY <1>2, <2>1, <2>3, <2>10, <2>11, <2>13
  <1>5. QED
    BY <1>3, <1>4, ResultKinds DEF ResultsFrom

\* Blocks keep the rules and were checked, in every state.
LEMMA RulesInvariance == Spec => [](BlockRules /\ CheckedInv)
  <1>1. Init => BlockRules /\ CheckedInv
    BY DEF Init, BlockRules, CheckedInv
  <1>2. Inv /\ AnsweringOK /\ BlockRules /\ CheckedInv /\ [Next]_vars => BlockRules' /\ CheckedInv'
    BY InvStep, StepKinds, RulesStep, CheckedStep DEF Grows
  <1>3. QED
    BY <1>1, <1>2, Invariance, PTL DEF Spec

\* A result of any node counts, for every voter with a vote up to the last block of
\* the tally, the newest vote and nobody twice, whichever trustees have answered
\* and in whichever order (ElectionManager::tally, getAllVotes).
THEOREM ResultsCounted == Spec => []ResultsCount
  <1>1. Init => ResultsInv
    BY DEF Init, ResultsInv
  <1>2. Inv /\ PathsInv => PlacesInv
    BY Places
  <1>3. /\ Inv /\ Inv' /\ AnsweringOK /\ PathsInv /\ PlacesInv /\ PlacesInv' /\ SumsInv /\ CheckedInv
        /\ ResultsInv /\ [Next]_vars
        => ResultsInv'
    BY ResultsStep
  <1>4. Inv /\ PathsInv /\ BlockRules /\ CheckedInv /\ ResultsInv => ResultsCount
    <2> SUFFICES ASSUME Inv, PathsInv, BlockRules, CheckedInv, ResultsInv,
                        NEW n \in Nodes, NEW e \in DOMAIN elections[n],
                        NEW h \in DOMAIN elections[n][e].results, NEW q \in Questions[e],
                        NEW b, b = published[h].lastBlock
                 PROVE  elections[n][e].results[h][q] =
                          Cardinality({v \in LastVotes(n, e, b) :
                                          /\ q \in DOMAIN published[v].ballots
                                          /\ published[v].ballots[q] = 1})
      BY DEF ResultsCount
    <2>1. h \in OnChain(n, e, "tally")
      BY DEF Inv, EntriesOK, EntryInv, ManagerOK, Backed
    <2>2. h \in OfType("tally") /\ ContainsTransaction(n, h) /\ published[h].election = e
      BY <2>1 DEF OnChain, ElectionOf, OfType
    <2>3. ContainsElection(n, e) /\ ContainsBlock(n, b)
      BY <2>2 DEF PathsInv, TalliesOK
    <2>4. PICK s, k : ElectionPlace(n, e, s) /\ BlockPlace(n, b, k)
      BY <2>3, Places DEF PlacesInv
    <2>5. Count(n, h) = CountedVotes(n, e, b)
      BY <2>2 DEF Count
    <2>6. /\ q \in DOMAIN Product(CountedVotes(n, e, b), e)
          /\ elections[n][e].results[h] = Product(CountedVotes(n, e, b), e)
      BY <2>5 DEF ResultsInv
    <2>7. QED
      BY <2>4, <2>6, ProductCounts
  <1>5. QED
    BY <1>1, <1>2, <1>3, <1>4, Invariance, PathsInvariance, SumsInvariance, RulesInvariance, PTL DEF Spec

-----------------------------------------------------------------------------
(* Entries mirror the chain *)

\* What a chain contains does not change when other things do.
LEMMA OnChainSame ==
    ASSUME Inv, Grows, NEW n \in Nodes, chain'[n] = chain[n]
    PROVE  /\ \A h : ContainsTransaction(n, h)' <=> ContainsTransaction(n, h)
           /\ \A e, type : OnChain(n, e, type)' = OnChain(n, e, type)
           /\ \A h : ContainsTransaction(n, h) => h \in Hashes /\ published'[h] = published[h]
           /\ \A i \in DOMAIN chain[n] : BlockTxs(chain[n][i])' = BlockTxs(chain[n][i])
  <1>1. \A b \in ToSet(chain[n]) : BlockTxs(b)' = BlockTxs(b) /\ BlockTxs(b) \subseteq Hashes
    BY GrowsFacts DEF Inv, ChainOK, BlocksInv
  <1>2. \A h : ContainsTransaction(n, h)' <=> ContainsTransaction(n, h)
    BY <1>1 DEF ContainsTransaction
  <1>3. \A h : ContainsTransaction(n, h) => h \in Hashes /\ published'[h] = published[h]
    BY <1>1, GrowsFacts DEF ContainsTransaction
  <1>4. ASSUME NEW e, NEW type, NEW h PROVE (h \in OnChain(n, e, type))' <=> h \in OnChain(n, e, type)
    <2>1. h \in Hashes => /\ ElectionOf(h)' = ElectionOf(h)
                          /\ (h \in OfType(type))' <=> h \in OfType(type)
      BY GrowsFacts DEF OfType
    <2>2. QED
      BY <1>2, <1>3, <2>1 DEF OnChain
  <1>5. \A e, type : OnChain(n, e, type)' = OnChain(n, e, type)
    BY <1>4
  <1>6. \A i \in DOMAIN chain[n] : BlockTxs(chain[n][i])' = BlockTxs(chain[n][i])
    BY <1>1 DEF ToSet
  <1>7. QED
    BY <1>2, <1>3, <1>5, <1>6

\* So does a node that does nothing.
LEMMA MirrorsKept ==
    ASSUME Inv, Grows, NEW n \in Nodes, MirrorsOK(n),
           chain'[n] = chain[n], pending'[n] = pending[n], elections'[n] = elections[n]
    PROVE  MirrorsOK(n)'
  <1>1. ASSUME NEW h \in ToSet(pending[n]), NEW i \in DOMAIN chain[n], NEW j \in DOMAIN chain[n],
               h \in BlockTxs(chain[n][i])'
        PROVE  j <= i
    BY <1>1, OnChainSame DEF MirrorsOK
  <1>2. ASSUME NEW e \in Elections, NEW h \in OfType("election")', (n \in Involved(e))',
               published'[h].election = e, ContainsTransaction(n, h)', h \notin ToSet(pending[n])
        PROVE  e \in DOMAIN elections[n]
    <2>1. ContainsTransaction(n, h) /\ h \in Hashes /\ published'[h] = published[h]
      BY <1>2, OnChainSame
    <2>2. h \in OfType("election")
      BY <2>1 DEF OfType
    <2>3. n \in Involved(e)
      BY <1>2 DEF Involved, Grows, Trustees
    <2>4. QED
      BY <1>2, <2>1, <2>2, <2>3 DEF MirrorsOK
  <1>3. ASSUME NEW e \in DOMAIN elections[n], NEW em, em = elections[n][e] PROVE Mirrors(n, e, em)'
    <2>1. \A type : ProcessedOf(n, e, type)' = ProcessedOf(n, e, type)
      BY OnChainSame DEF ProcessedOf
    <2>2. \A type : \A h \in ProcessedOf(n, e, type) : published'[h] = published[h]
      BY OnChainSame DEF ProcessedOf, OnChain
    <2>3. Mirrors(n, e, em)
      BY <1>3 DEF MirrorsOK
    <2>4. ASSUME NEW V, NEW T, NEW P, Says(n, em, V, T, P), \A h \in V \cup T : published'[h] = published[h]
          PROVE  Says(n, em, V, T, P)'
      <3>1. {published'[h].key : h \in V} = {published[h].key : h \in V}
        BY <2>4
      <3>2. (\E h \in T : published'[h].endElection) <=> \E h \in T : published[h].endElection
        BY <2>4
      <3>3. QED
        BY <2>4, <3>1, <3>2 DEF Says
    <2>5. QED
      BY <2>1, <2>2, <2>3, <2>4 DEF Mirrors
  <1>4. QED
    BY <1>1, <1>2, <1>3 DEF MirrorsOK

\* A node that adds a block has processed the others: what is processed stays, and
\* what is new waits.
LEMMA MirrorsAdded ==
    ASSUME Inv, Grows, NEW n \in Nodes, MirrorsOK(n), NEW b, Adds(n, b),
           pending[n] = <<>>, pending'[n] = blocks'[b].transactions, elections'[n] = elections[n]
    PROVE  MirrorsOK(n)'
  <1>1. /\ DOMAIN chain[n] = 1 .. Len(chain[n]) /\ Len(chain[n]) \in Nat
        /\ DOMAIN chain'[n] = 1 .. Len(chain[n]) + 1
        /\ \A i \in 1 .. Len(chain[n]) : chain'[n][i] = chain[n][i]
        /\ chain'[n][Len(chain[n]) + 1] = b
    BY AddsFacts
  <1>2. PICK k : k = Len(chain[n]) + 1
    OBVIOUS
  <1>3. /\ ToSet(pending[n]) = {} /\ ToSet(pending'[n]) = BlockTxs(b)'
        /\ published' = published
    BY DEF ToSet, BlockTxs, Adds
  <1>4. \A i \in DOMAIN chain[n] : BlockTxs(chain[n][i])' = BlockTxs(chain[n][i])
    BY BeforeKept
  <1>5. \A h : ContainsTransaction(n, h)' <=> ContainsTransaction(n, h) \/ h \in BlockTxs(b)'
    <2>1. \A h : ContainsTransaction(n, h) <=> \E i \in DOMAIN chain[n] : h \in BlockTxs(chain[n][i])
      BY DEF ContainsTransaction, ToSet
    <2>2. \A h : ContainsTransaction(n, h)' <=> \E i \in DOMAIN chain'[n] : (h \in BlockTxs(chain[n][i]))'
      BY DEF ContainsTransaction, ToSet
    <2>3. \A i : i \in DOMAIN chain'[n] <=> i \in DOMAIN chain[n] \/ i = k
      BY <1>1, <1>2
    <2>4. /\ \A h : \A i \in DOMAIN chain[n] : (h \in BlockTxs(chain[n][i]))' <=> h \in BlockTxs(chain[n][i])
          /\ \A h : (h \in BlockTxs(chain[n][k]))' <=> h \in BlockTxs(b)'
      BY <1>1, <1>2, <1>4
    <2>5. QED
      BY <2>1, <2>2, <2>3, <2>4
  <1>6. \A h \in BlockTxs(b)' : ~ContainsTransaction(n, h)
    BY DEF Adds, Acceptable, BlockTxs
  <1>7. \A e, type : ProcessedOf(n, e, type)' = ProcessedOf(n, e, type)
    <2>1. \A e, type : OnChain(n, e, type)' =
            {h \in OfType(type) : ElectionOf(h) = e /\ (ContainsTransaction(n, h) \/ h \in BlockTxs(b)')}
      BY <1>3, <1>5 DEF OnChain, OfType, Hashes, ElectionOf
    <2>2. ASSUME NEW e, NEW type, NEW h
          PROVE  (h \in ProcessedOf(n, e, type))' <=> h \in ProcessedOf(n, e, type)
      <3>1. (h \in OnChain(n, e, type))' <=>
              /\ h \in OfType(type) /\ ElectionOf(h) = e
              /\ ContainsTransaction(n, h) \/ h \in BlockTxs(b)'
        BY <2>1
      <3>2. (h \in ProcessedOf(n, e, type))' <=> (h \in OnChain(n, e, type))' /\ h \notin BlockTxs(b)'
        BY <1>3 DEF ProcessedOf
      <3>3. h \in ProcessedOf(n, e, type) <=>
              h \in OfType(type) /\ ElectionOf(h) = e /\ ContainsTransaction(n, h)
        BY <1>3 DEF ProcessedOf, OnChain
      <3>4. QED
        BY <1>6, <3>1, <3>2, <3>3
    <2>3. QED
      BY <2>2 DEF ProcessedOf
  <1>8. ASSUME NEW h \in ToSet(pending'[n]), NEW i \in DOMAIN chain'[n], NEW j \in DOMAIN chain'[n],
               (h \in BlockTxs(chain[n][i]))'
        PROVE  j <= i
    <2>1. ~ContainsTransaction(n, h)
      BY <1>3, <1>6
    <2>2. i \in DOMAIN chain[n] => h \notin BlockTxs(chain[n][i])
      BY <2>1 DEF ContainsTransaction, ToSet
    <2>3. i \notin DOMAIN chain[n]
      BY <1>1, <1>4, <1>8, <2>2
    <2>4. QED
      BY <1>1, <2>3
  <1>9. ASSUME NEW e \in Elections, NEW h \in OfType("election"), n \in Involved(e),
               published[h].election = e, ContainsTransaction(n, h)', h \notin ToSet(pending'[n])
        PROVE  e \in DOMAIN elections[n]
    BY <1>3, <1>5, <1>9 DEF MirrorsOK
  <1>10. \A e : Involved(e)' = Involved(e)
    BY DEF Involved, Trustees, Grows
  <1>11. ASSUME NEW e \in DOMAIN elections[n], NEW em, em = elections[n][e] PROVE Mirrors(n, e, em)'
    BY <1>3, <1>7, <1>11 DEF MirrorsOK, Mirrors, Says
  <1>12. OfType("election")' = OfType("election")
    BY <1>3 DEF OfType, Hashes
  <1>13. QED
    BY <1>3, <1>8, <1>9, <1>10, <1>11, <1>12 DEF MirrorsOK

\* n has processed h, the next transaction.
ProcessesNext(n, h) ==
    /\ pending[n] # <<>> /\ h = Head(pending[n]) /\ pending'[n] = Tail(pending[n])
    /\ UNCHANGED <<situation, published, blocks, chain>>

\* h is then one of those that n has processed.
LEMMA NextProcessed ==
    ASSUME Inv, NEW n \in Nodes, NEW h, ProcessesNext(n, h)
    PROVE  /\ ToSet(pending'[n]) = ToSet(pending[n]) \ {h} /\ h \in ToSet(pending[n])
           /\ h \in Hashes /\ ContainsTransaction(n, h)
           /\ \A e, type : ProcessedOf(n, e, type)' =
                ProcessedOf(n, e, type) \cup ({h} \cap OnChain(n, e, type))
  <1>1. PICK s : s = pending[n]
    OBVIOUS
  <1>2. /\ Sequence(s) /\ IsInjective(s) /\ s # <<>> /\ h = Head(s)
        /\ \A g \in ToSet(s) : g \in Hashes /\ ContainsTransaction(n, g)
    BY <1>1 DEF Inv, Shapes, PendingOK, ProcessesNext
  <1>3. /\ Len(s) \in Nat /\ DOMAIN s = 1 .. Len(s) /\ h = s[1] /\ Len(s) >= 1
        /\ ToSet(s) = {s[i] : i \in 1 .. Len(s)}
    BY <1>2, SequenceFacts
  <1>4. /\ Sequence(Tail(s)) /\ Len(Tail(s)) = Len(s) - 1
        /\ \A i \in 1 .. Len(s) - 1 : Tail(s)[i] = s[i + 1]
    BY <1>2, TailFacts
  <1>5. ToSet(Tail(s)) = {Tail(s)[i] : i \in 1 .. Len(s) - 1}
    BY <1>4, SequenceFacts
  <1>6. ToSet(Tail(s)) = ToSet(s) \ {h}
    <2>1. ASSUME NEW g \in ToSet(Tail(s)) PROVE g \in ToSet(s) /\ g # h
      <3>1. PICK i \in 1 .. Len(s) - 1 : g = s[i + 1]
        BY <1>4, <1>5, <2>1
      <3>2. i + 1 \in 1 .. Len(s) /\ 1 \in 1 .. Len(s) /\ i + 1 # 1
        BY <1>3
      <3>3. QED
        BY <1>2, <1>3, <3>1, <3>2 DEF IsInjective
    <2>2. ASSUME NEW g \in ToSet(s), g # h PROVE g \in ToSet(Tail(s))
      <3>1. PICK i \in 1 .. Len(s) : g = s[i]
        BY <1>3
      <3>2. i # 1
        BY <1>3, <2>2, <3>1
      <3>3. i - 1 \in 1 .. Len(s) - 1 /\ (i - 1) + 1 = i
        BY <1>3, <3>2
      <3>4. QED
        BY <1>4, <1>5, <3>1, <3>3
    <2>3. QED
      BY <2>1, <2>2
  <1>7. ToSet(pending'[n]) = ToSet(pending[n]) \ {h} /\ h \in ToSet(pending[n])
    BY <1>1, <1>3, <1>6 DEF ProcessesNext
  <1>8. \A e, type : OnChain(n, e, type)' = OnChain(n, e, type)
    BY DEF OnChain, OfType, Hashes, ElectionOf, ContainsTransaction, BlockTxs, ProcessesNext
  <1>9. QED
    BY <1>1, <1>2, <1>7, <1>8 DEF ProcessedOf

\* Then the entries mirror the chain if those do that h says something about.
LEMMA NextMirrors ==
    ASSUME Inv, NEW n \in Nodes, NEW h, ProcessesNext(n, h), MirrorsOK(n),
           DOMAIN elections[n] \subseteq DOMAIN elections'[n],
           \A e \in Elections : h \in OfType("election") /\ published[h].election = e
             /\ n \in Involved(e) => e \in DOMAIN elections'[n],
           \A e \in DOMAIN elections'[n] : Mirrors(n, e, elections[n][e])'
    PROVE  MirrorsOK(n)'
  <1>1. ToSet(pending'[n]) = ToSet(pending[n]) \ {h}
    BY NextProcessed
  <1>2. UNCHANGED <<situation, published, blocks, chain>>
    BY DEF ProcessesNext
  <1>3. ASSUME NEW g \in ToSet(pending'[n]), NEW i \in DOMAIN chain'[n], NEW j \in DOMAIN chain'[n],
               (g \in BlockTxs(chain[n][i]))'
        PROVE  j <= i
    BY <1>1, <1>2, <1>3 DEF MirrorsOK, BlockTxs
  <1>4. ASSUME NEW e \in Elections, NEW g \in OfType("election")', (n \in Involved(e))',
               published'[g].election = e, ContainsTransaction(n, g)', g \notin ToSet(pending'[n])
        PROVE  e \in DOMAIN elections'[n]
    <2>1. g \in OfType("election") /\ published[g].election = e
      BY <1>2, <1>4 DEF OfType, Hashes
    <2>2. ContainsTransaction(n, g) /\ n \in Involved(e)
      BY <1>2, <1>4 DEF ContainsTransaction, BlockTxs, Involved, Trustees
    <2>3. CASE g = h
      BY <2>1, <2>2, <2>3
    <2>4. CASE g # h
      BY <1>1, <1>4, <2>1, <2>2, <2>4 DEF MirrorsOK
    <2>5. QED
      BY <2>3, <2>4
  <1>5. QED
    BY <1>3, <1>4 DEF MirrorsOK

\* An entry h says nothing about stays what it is.
LEMMA OtherMirrors ==
    ASSUME Inv, NEW n \in Nodes, NEW h, ProcessesNext(n, h), NEW e, NEW em, Mirrors(n, e, em),
           \A type \in {"vote", "tally", "trusteeTally"} : h \notin OnChain(n, e, type)
    PROVE  Mirrors(n, e, em)'
  <1>1. ASSUME NEW type \in {"vote", "tally", "trusteeTally"}
        PROVE  ProcessedOf(n, e, type)' = ProcessedOf(n, e, type)
    <2>1. {h} \cap OnChain(n, e, type) = {}
      OBVIOUS
    <2>2. ProcessedOf(n, e, type)' = ProcessedOf(n, e, type) \cup ({h} \cap OnChain(n, e, type))
      BY NextProcessed
    <2>3. QED
      BY <2>1, <2>2
  <1>2. published' = published
    BY DEF ProcessesNext
  <1>3. QED
    BY <1>1, <1>2 DEF Mirrors, Says

-----------------------------------------------------------------------------
(* What each transaction changes in an entry *)

\* A vote is registered,
LEMMA SaysVote ==
    ASSUME NEW n, NEW old, NEW V, NEW T, NEW P, Says(n, old, V, T, P), NEW h, NEW em,
           em.votesRegistered = old.votesRegistered \cup {published[h].key},
           em.myVotes = MyVotes(n, old, h), em.ended = old.ended, em.tallies = old.tallies
    PROVE  Says(n, em, V \cup {h}, T, P)
  <1>1. em.votesRegistered = {published[g].key : g \in V \cup {h}}
    BY DEF Says
  <1>2. DOMAIN em.myVotes = em.votesRegistered \cap VoteKeys[n]
    <2>1. CASE published[h].key \in VoteKeys[n]
      <3>1. DOMAIN em.myVotes = DOMAIN old.myVotes \cup {published[h].key}
        BY <2>1 DEF MyVotes, With
      <3>2. QED
        BY <2>1, <3>1 DEF Says
    <2>2. CASE published[h].key \notin VoteKeys[n]
      <3>1. em.myVotes = old.myVotes
        BY <2>2 DEF MyVotes
      <3>2. QED
        BY <2>2, <3>1 DEF Says
    <2>3. QED
      BY <2>1, <2>2
  <1>3. QED
    BY <1>1, <1>2 DEF Says

\* a tally as long as the election has not ended,
LEMMA SaysTally ==
    ASSUME NEW n, NEW old, NEW V, NEW T, NEW P, Says(n, old, V, T, P), ~old.ended,
           NEW h, published[h].endElection \in BOOLEAN, NEW em, TallyChanges(old, h, em)
    PROVE  Says(n, em, V, T \cup {h}, P)
  <1>1. /\ em.ended = published[h].endElection
        /\ em.votesRegistered = old.votesRegistered /\ em.myVotes = old.myVotes
        /\ DOMAIN em.tallies = DOMAIN old.tallies \cup {h}
        /\ \A g \in DOMAIN old.tallies : em.tallies[g] = old.tallies[g]
        /\ h \notin DOMAIN old.tallies => em.tallies[h] = {}
    BY DEF TallyChanges
  <1>2. em.ended <=> \E g \in T \cup {h} : published[g].endElection
    <2>1. ~\E g \in T : published[g].endElection
      BY DEF Says
    <2>2. QED
      BY <1>1, <2>1
  <1>3. DOMAIN em.tallies = T \cup {h} /\ DOMAIN em.tallies # {}
    BY <1>1 DEF Says
  <1>4. UNION {em.tallies[g] : g \in DOMAIN em.tallies} = UNION {old.tallies[g] : g \in DOMAIN old.tallies}
    <2>1. ASSUME NEW g \in DOMAIN em.tallies
          PROVE  em.tallies[g] = {} \/ (g \in DOMAIN old.tallies /\ em.tallies[g] = old.tallies[g])
      BY <1>1
    <2>2. ASSUME NEW t
          PROVE  (\E g \in DOMAIN em.tallies : t \in em.tallies[g])
                   <=> \E g \in DOMAIN old.tallies : t \in old.tallies[g]
      BY <1>1, <2>1
    <2>3. QED
      BY <2>2
  <1>5. QED
    BY <1>1, <1>2, <1>3, <1>4 DEF Says

\* and ignored after that;
LEMMA SaysIgnored ==
    ASSUME NEW n, NEW old, NEW V, NEW T, NEW P, Says(n, old, V, T, P), old.ended, NEW h
    PROVE  Says(n, old, V, T \cup {h}, P)
  BY DEF Says

\* and so is a partial tally for a tally there is.
LEMMA SaysPart ==
    ASSUME NEW n, NEW old, NEW V, NEW T, NEW P, Says(n, old, V, T, P), NEW h \in T, NEW t,
           NEW S, S = {t} \cup IF h \in DOMAIN old.tallies THEN old.tallies[h] ELSE {},
           NEW results, NEW em, PartsChange(old, h, S, results, em)
    PROVE  Says(n, em, V, T, P \cup {t})
  <1>1. /\ em.ended = old.ended
        /\ em.votesRegistered = old.votesRegistered /\ em.myVotes = old.myVotes
        /\ DOMAIN em.tallies = DOMAIN old.tallies \cup {h}
        /\ \A g \in DOMAIN old.tallies \ {h} : em.tallies[g] = old.tallies[g]
        /\ em.tallies[h] = S
    BY DEF PartsChange
  <1>2. ~em.ended => DOMAIN em.tallies = T
    BY <1>1 DEF Says
  <1>3. UNION {em.tallies[g] : g \in DOMAIN em.tallies} =
          {t} \cup UNION {old.tallies[g] : g \in DOMAIN old.tallies}
    <2>1. CASE h \in DOMAIN old.tallies
      <3>1. em.tallies[h] = {t} \cup old.tallies[h] /\ DOMAIN em.tallies = DOMAIN old.tallies
        BY <1>1, <2>1
      <3>2. QED
        BY <1>1, <2>1, <3>1
    <2>2. CASE h \notin DOMAIN old.tallies
      <3>1. em.tallies[h] = {t} /\ DOMAIN old.tallies \ {h} = DOMAIN old.tallies
        BY <1>1, <2>2
      <3>2. QED
        BY <1>1, <3>1
    <2>3. QED
      BY <2>1, <2>2
  <1>4. QED
    BY <1>1, <1>2, <1>3 DEF Says

-----------------------------------------------------------------------------
(* Processing keeps the mirror *)

\* The transaction of type kind that n processes is one more of its election, and
\* entries of other elections mirror what they did.
LEMMA NextOfKind ==
    ASSUME Inv, NEW n \in Nodes, NEW h, ProcessesNext(n, h),
           NEW kind, h \in OfType(kind), NEW e, ElectionOf(h) = e
    PROVE  /\ ProcessedOf(n, e, kind)' = ProcessedOf(n, e, kind) \cup {h}
           /\ \A type : type # kind => ProcessedOf(n, e, type)' = ProcessedOf(n, e, type)
           /\ \A f, em : f # e /\ Mirrors(n, f, em) => Mirrors(n, f, em)'
           /\ \A em, V, T, P : Says(n, em, V, T, P) => Says(n, em, V, T, P)'
  <1>1. ContainsTransaction(n, h)
    BY NextProcessed
  <1>2. \A f, type : h \in OnChain(n, f, type) <=> f = e /\ type = kind
    BY <1>1 DEF OnChain, OfType
  <1>3. \A f, type : ProcessedOf(n, f, type)' =
          ProcessedOf(n, f, type) \cup ({h} \cap OnChain(n, f, type))
    BY NextProcessed
  <1>4. {h} \cap OnChain(n, e, kind) = {h} /\ \A type : type # kind => {h} \cap OnChain(n, e, type) = {}
    BY <1>2
  <1>5. ProcessedOf(n, e, kind)' = ProcessedOf(n, e, kind) \cup {h}
    BY <1>3, <1>4
  <1>6. ASSUME NEW type, type # kind PROVE ProcessedOf(n, e, type)' = ProcessedOf(n, e, type)
    <2>1. ProcessedOf(n, e, type)' = ProcessedOf(n, e, type) \cup {}
      BY <1>3, <1>4, <1>6
    <2>2. QED
      BY <2>1
  <1>7. ASSUME NEW f, NEW em, f # e, Mirrors(n, f, em) PROVE Mirrors(n, f, em)'
    BY <1>2, <1>7, OtherMirrors
  <1>8. \A em, V, T, P : Says(n, em, V, T, P) => Says(n, em, V, T, P)'
    BY DEF Says, ProcessesNext
  <1>9. QED
    BY <1>5, <1>6, <1>7, <1>8

\* What a step with Done does to n's queue.
LEMMA DoneNext ==
    ASSUME Inv, NEW n \in Nodes, NEW h, h = Head(pending[n]), NEW kind, NextIs(n, kind), Done(n),
           UNCHANGED <<situation, published, blocks, chain>>
    PROVE  ProcessesNext(n, h) /\ h \in OfType(kind) /\ ContainsTransaction(n, h)
  <1>1. h \in OfType(kind) /\ ContainsTransaction(n, h)
    BY NextTransaction
  <1>2. pending'[n] = Tail(pending[n])
    BY DEF Done, Inv, Shapes, FunctionOn
  <1>3. QED
    BY <1>1, <1>2 DEF ProcessesNext, NextIs

\* Nothing of an election is on the chain when its transaction is processed.
LEMMA NothingBefore ==
    ASSUME Inv, CheckedInv, NEW n \in Nodes, MirrorsOK(n),
           NEW h \in ToSet(pending[n]), h \in OfType("election"), NEW e, e = published[h].election,
           NEW type \in {"vote", "tally", "trusteeTally"}
    PROVE  OnChain(n, e, type) = {}
  <1> SUFFICES ASSUME NEW g \in OnChain(n, e, type) PROVE FALSE
    OBVIOUS
  <1>1. g \in OfType(type) /\ ElectionOf(g) = e /\ ContainsTransaction(n, g)
    BY DEF OnChain
  <1>2. PICK i \in DOMAIN chain[n] : g \in BlockTxs(chain[n][i])
    BY <1>1 DEF ContainsTransaction, ToSet
  <1>3. ElectionBefore(n, i, e)
    <2>1. CASE type = "vote"
      BY <1>1, <1>2, <2>1 DEF CheckedInv, VoteChecked, ElectionOf, OfType
    <2>2. CASE type = "tally"
      BY <1>1, <1>2, <2>2 DEF CheckedInv, TallyChecked, ElectionOf, OfType
    <2>3. CASE type = "trusteeTally"
      BY <1>1, <1>2, <2>3 DEF CheckedInv, TrusteeTallyChecked, ElectionOf, OfType
    <2>4. QED
      BY <2>1, <2>2, <2>3
  <1>4. PICK j \in DOMAIN chain[n] : j < i /\
          \E k \in BlockTxs(chain[n][j]) : k \in OfType("election") /\ published[k].election = e
    BY <1>3 DEF ElectionBefore
  <1>5. h \in BlockTxs(chain[n][j])
    BY <1>4 DEF Inv, PublishedInv
  <1>6. i <= j /\ i \in Nat /\ j \in Nat
    BY <1>2, <1>4, <1>5, SequenceFacts DEF MirrorsOK, Inv, Shapes
  <1>7. QED
    BY <1>4, <1>6

\* A new entry says nothing, and there is nothing to say.
LEMMA ElectionMirrors ==
    ASSUME Inv, CheckedInv, UNCHANGED situation, NEW n \in Nodes, MirrorsOK(n), ProcessTxElection(n)
    PROVE  MirrorsOK(n)'
  <1> SUFFICES ASSUME NEW h, h = Head(pending[n]), NEW e, e = published[h].election,
                      NEW em, em = NewManager
               PROVE  MirrorsOK(n)'
    OBVIOUS
  <1>1. /\ NextIs(n, "election") /\ Done(n) /\ UNCHANGED <<published, blocks, chain>>
        /\ IF n \in Involved(e) THEN Save(n, e, em) ELSE UNCHANGED elections
    BY DEF ProcessTxElection, Involved, AmIInvolved, AmICreator, AmIVoter, AmITrustee
  <1>2. ProcessesNext(n, h) /\ h \in OfType("election")
    BY <1>1, DoneNext
  <1>3. ElectionOf(h) = e /\ h \in ToSet(pending[n])
    BY <1>2, NextProcessed DEF ElectionOf, OfType
  <1>4. e \notin DOMAIN elections[n]
    BY <1>2, <1>3 DEF Inv, PendingOK
  <1>5. ASSUME NEW f \in DOMAIN elections[n], NEW old, old = elections[n][f] PROVE Mirrors(n, f, old)'
    BY <1>2, <1>3, <1>4, <1>5, NextOfKind DEF MirrorsOK
  <1>6. Mirrors(n, e, em)'
    <2>1. ASSUME NEW type \in {"vote", "tally", "trusteeTally"} PROVE ProcessedOf(n, e, type)' = {}
      <3>1. ProcessedOf(n, e, type) = {}
        BY <1>2, <1>3, NothingBefore DEF ProcessedOf
      <3>2. QED
        BY <1>2, <1>3, <3>1, NextOfKind
    <2>2. Says(n, em, {}, {}, {})
      BY DEF Says, NewManager
    <2>3. Says(n, em, {}, {}, {})'
      BY <1>2, <1>3, <2>2, NextOfKind
    <2>4. QED
      BY <2>1, <2>3 DEF Mirrors
  <1>7. CASE n \in Involved(e)
    <2>1. /\ DOMAIN elections'[n] = DOMAIN elections[n] \cup {e} /\ elections'[n][e] = em
          /\ \A f \in DOMAIN elections[n] : elections'[n][f] = elections[n][f]
      BY <1>1, <1>4, <1>7, SaveFacts
    <2>2. ASSUME NEW f \in DOMAIN elections'[n] PROVE Mirrors(n, f, elections[n][f])'
      BY <1>5, <1>6, <2>1
    <2>3. QED
      BY <1>2, <2>1, <2>2, NextMirrors
  <1>8. CASE n \notin Involved(e)
    <2>1. elections' = elections
      BY <1>1, <1>8
    <2>2. ASSUME NEW f \in DOMAIN elections'[n] PROVE Mirrors(n, f, elections[n][f])'
      BY <1>5, <2>1
    <2>3. QED
      BY <1>2, <1>8, <2>1, <2>2, NextMirrors
  <1>9. QED
    BY <1>7, <1>8

\* A transaction of another type changes the entry of its election if there is one.
LEMMA SavedMirrors ==
    ASSUME Inv, NEW n \in Nodes, MirrorsOK(n), NEW h, ProcessesNext(n, h),
           NEW kind \in {"vote", "tally", "trusteeTally"}, h \in OfType(kind),
           NEW e, ElectionOf(h) = e,
           \/ e \notin DOMAIN elections[n] /\ UNCHANGED elections
           \/ e \in DOMAIN elections[n] /\ UNCHANGED elections /\ Mirrors(n, e, elections[n][e])'
           \/ e \in DOMAIN elections[n] /\ \E em : Save(n, e, em) /\ Mirrors(n, e, em)'
    PROVE  MirrorsOK(n)'
  <1>1. h \notin OfType("election")
    BY DEF OfType
  <1>2. ASSUME NEW f \in DOMAIN elections[n], NEW old, old = elections[n][f], f # e
        PROVE  Mirrors(n, f, old)'
    BY <1>2, NextOfKind DEF MirrorsOK
  <1>3. CASE e \notin DOMAIN elections[n] /\ UNCHANGED elections
    <2>1. ASSUME NEW f \in DOMAIN elections'[n] PROVE Mirrors(n, f, elections[n][f])'
      BY <1>2, <1>3
    <2>2. QED
      BY <1>1, <1>3, <2>1, NextMirrors
  <1>4. CASE e \in DOMAIN elections[n] /\ UNCHANGED elections /\ Mirrors(n, e, elections[n][e])'
    <2>1. ASSUME NEW f \in DOMAIN elections'[n] PROVE Mirrors(n, f, elections[n][f])'
      BY <1>2, <1>4
    <2>2. QED
      BY <1>1, <1>4, <2>1, NextMirrors
  <1>5. ASSUME e \in DOMAIN elections[n], NEW em, Save(n, e, em), Mirrors(n, e, em)'
        PROVE  MirrorsOK(n)'
    <2>1. /\ DOMAIN elections'[n] = DOMAIN elections[n] /\ elections'[n][e] = em
          /\ \A f \in DOMAIN elections[n] \ {e} : elections'[n][f] = elections[n][f]
      BY SMTT(30), <1>5, SaveFacts
    <2>2. ASSUME NEW f \in DOMAIN elections'[n] PROVE Mirrors(n, f, elections[n][f])'
      BY <1>2, <1>5, <2>1
    <2>3. QED
      BY <1>1, <2>1, <2>2, NextMirrors
  <1>6. QED
    BY <1>3, <1>4, <1>5

\* A vote that is processed is registered.
LEMMA VoteMirrors ==
    ASSUME Inv, UNCHANGED situation, NEW n \in Nodes, MirrorsOK(n), ProcessTxVote(n)
    PROVE  MirrorsOK(n)'
  <1> SUFFICES ASSUME NEW h, h = Head(pending[n]), NEW e, e = published[h].election
               PROVE  MirrorsOK(n)'
    OBVIOUS
  <1>1. /\ NextIs(n, "vote") /\ Done(n) /\ UNCHANGED <<published, blocks, chain>>
        /\ IF e \in DOMAIN elections[n]
           THEN Save(n, e, VoteRegistered(n, elections[n][e], h))
           ELSE UNCHANGED elections
    BY DEF ProcessTxVote
  <1>2. ProcessesNext(n, h) /\ h \in OfType("vote")
    BY <1>1, DoneNext
  <1>3. ElectionOf(h) = e
    BY <1>2 DEF ElectionOf, OfType
  <1>4. ASSUME e \in DOMAIN elections[n], NEW old, old = elections[n][e],
               NEW em, em = VoteRegistered(n, old, h)
        PROVE  Mirrors(n, e, em)'
    <2>1. Manager(old) /\ Mirrors(n, e, old)
      BY <1>4 DEF Inv, EntriesOK, EntryInv, MirrorsOK
    <2>2. em = [old EXCEPT !.votesRegistered = @ \cup {published[h].key}, !.myVotes = MyVotes(n, old, h)]
      BY <1>4 DEF VoteRegistered
    <2>3. /\ em.votesRegistered = old.votesRegistered \cup {published[h].key}
          /\ em.myVotes = MyVotes(n, old, h) /\ em.ended = old.ended /\ em.tallies = old.tallies
      BY <2>1, <2>2 DEF Manager
    <2>4. PICK V, T, P : /\ V = ProcessedOf(n, e, "vote") /\ T = ProcessedOf(n, e, "tally")
                         /\ P = ProcessedOf(n, e, "trusteeTally")
      OBVIOUS
    <2>5. Says(n, em, V \cup {h}, T, P)
      BY <2>1, <2>3, <2>4, SaysVote DEF Mirrors
    <2>6. Says(n, em, V \cup {h}, T, P)'
      BY <1>2, <1>3, <2>5, NextOfKind
    <2>7. /\ ProcessedOf(n, e, "vote")' = V \cup {h} /\ ProcessedOf(n, e, "tally")' = T
          /\ ProcessedOf(n, e, "trusteeTally")' = P
      BY <1>2, <1>3, <2>4, NextOfKind
    <2>8. QED
      BY <2>6, <2>7 DEF Mirrors
  <1>5. CASE e \notin DOMAIN elections[n]
    BY <1>1, <1>2, <1>3, <1>5, SavedMirrors
  <1>6. CASE e \in DOMAIN elections[n]
    <2>1. PICK em : em = VoteRegistered(n, elections[n][e], h)
      OBVIOUS
    <2>2. Save(n, e, em) /\ Mirrors(n, e, em)'
      BY <1>1, <1>4, <1>6, <2>1
    <2>3. QED
      BY <1>2, <1>3, <1>6, <2>2, SavedMirrors
  <1>7. QED
    BY <1>5, <1>6

\* A tally is registered, or ignored by those who have no entry or whose entry
\* says that the election has ended.
LEMMA TallyMirrors ==
    ASSUME Inv, UNCHANGED situation, NEW n \in Nodes, MirrorsOK(n), IgnoreTxTally(n) \/ RegisterTxTally(n)
    PROVE  MirrorsOK(n)'
  <1> SUFFICES ASSUME NEW h, h = Head(pending[n]), NEW e, e = published[h].election
               PROVE  MirrorsOK(n)'
    OBVIOUS
  <1>1. /\ NextIs(n, "tally") /\ Done(n) /\ UNCHANGED <<published, blocks, chain>>
        /\ \/ e \notin DOMAIN elections[n] /\ UNCHANGED elections
           \/ e \in DOMAIN elections[n] /\ elections[n][e].ended /\ UNCHANGED elections
           \/ /\ e \in DOMAIN elections[n] /\ ~elections[n][e].ended
              /\ Save(n, e, TallyRegistered(elections[n][e], h))
    BY DEF IgnoreTxTally, RegisterTxTally, IgnoresTally
  <1>2. ProcessesNext(n, h) /\ h \in OfType("tally")
    BY <1>1, DoneNext
  <1>3. ElectionOf(h) = e /\ published[h].endElection \in BOOLEAN
    BY <1>2 DEF ElectionOf, OfType, Inv, PublishedInv
  <1>4. CASE e \notin DOMAIN elections[n] /\ UNCHANGED elections
    BY <1>2, <1>3, <1>4, SavedMirrors
  <1>5. ASSUME e \in DOMAIN elections[n], NEW V, NEW T, NEW P, NEW em,
               Says(n, em, V, T \cup {h}, P),
               V = ProcessedOf(n, e, "vote"), T = ProcessedOf(n, e, "tally"),
               P = ProcessedOf(n, e, "trusteeTally")
        PROVE  Mirrors(n, e, em)'
    <2>1. Says(n, em, V, T \cup {h}, P)'
      BY <1>2, <1>3, <1>5, NextOfKind
    <2>2. /\ ProcessedOf(n, e, "vote")' = V /\ ProcessedOf(n, e, "tally")' = T \cup {h}
          /\ ProcessedOf(n, e, "trusteeTally")' = P
      BY <1>2, <1>3, <1>5, NextOfKind
    <2>3. QED
      BY <2>1, <2>2 DEF Mirrors
  <1>6. ASSUME e \in DOMAIN elections[n], NEW old, old = elections[n][e] PROVE Mirrors(n, e, old)
    BY <1>6 DEF MirrorsOK
  <1>7. CASE e \in DOMAIN elections[n] /\ elections[n][e].ended /\ UNCHANGED elections
    <2>1. PICK old, V, T, P :
            /\ old = elections[n][e]
            /\ V = ProcessedOf(n, e, "vote") /\ T = ProcessedOf(n, e, "tally")
            /\ P = ProcessedOf(n, e, "trusteeTally")
      OBVIOUS
    <2>2. Says(n, old, V, T \cup {h}, P)
      BY <1>6, <1>7, <2>1, SaysIgnored DEF Mirrors
    <2>3. Mirrors(n, e, old)'
      BY <1>5, <1>7, <2>1, <2>2
    <2>4. Mirrors(n, e, elections[n][e])'
      BY <1>7, <2>1, <2>3
    <2>5. QED
      BY <1>2, <1>3, <1>7, <2>4, SavedMirrors
  <1>8. CASE /\ e \in DOMAIN elections[n] /\ ~elections[n][e].ended
             /\ Save(n, e, TallyRegistered(elections[n][e], h))
    <2>1. PICK old, em, V, T, P :
            /\ old = elections[n][e] /\ em = TallyRegistered(old, h)
            /\ V = ProcessedOf(n, e, "vote") /\ T = ProcessedOf(n, e, "tally")
            /\ P = ProcessedOf(n, e, "trusteeTally")
      OBVIOUS
    <2>2. Manager(old)
      BY <1>8, <2>1 DEF Inv, EntriesOK, EntryInv
    <2>3. TallyChanges(old, h, em)
      BY <2>1, <2>2, TallyRegisteredFields
    <2>4. Says(n, old, V, T, P) /\ ~old.ended
      BY <1>6, <1>8, <2>1 DEF Mirrors
    <2>5. Says(n, em, V, T \cup {h}, P)
      BY <1>3, <2>3, <2>4, SaysTally
    <2>6. Mirrors(n, e, em)'
      BY <1>5, <1>8, <2>1, <2>5
    <2>7. Save(n, e, em)
      BY <1>8, <2>1
    <2>8. QED
      BY <1>2, <1>3, <1>8, <2>6, <2>7, SavedMirrors
  <1>9. QED
    BY <1>1, <1>4, <1>7, <1>8

\* The tally of a partial tally has been processed when that is, for it is in an
\* earlier block.
LEMMA TallyProcessed ==
    ASSUME Inv, CheckedInv, NEW n \in Nodes, MirrorsOK(n), NEW e,
           NEW t \in OnChain(n, e, "trusteeTally"), NEW h, h = published[t].tally
    PROVE  h \in ProcessedOf(n, e, "tally")
  <1>1. t \in OfType("trusteeTally") /\ ElectionOf(t) = e /\ ContainsTransaction(n, t)
    BY DEF OnChain
  <1>2. h \in OfType("tally") /\ ContainsTransaction(n, h)
    BY <1>1 DEF Inv, PublishedInv, ChainOK
  <1>3. ElectionOf(h) = e
    BY <1>1, <1>2 DEF ElectionOf, OfType
  <1>4. PICK i \in DOMAIN chain[n] : t \in BlockTxs(chain[n][i])
    BY <1>1 DEF ContainsTransaction, ToSet
  <1>5. PICK j \in DOMAIN chain[n] : j < i /\ h \in BlockTxs(chain[n][j])
    BY <1>1, <1>4 DEF CheckedInv, TrusteeTallyChecked
  <1>6. i \in Nat /\ j \in Nat
    BY SequenceFacts DEF Inv, Shapes
  <1>7. h \notin ToSet(pending[n])
    BY <1>5, <1>6 DEF MirrorsOK
  <1>8. QED
    BY <1>2, <1>3, <1>7 DEF ProcessedOf, OnChain

\* A partial tally is registered, unless the process dies of it.
LEMMA PartMirrors ==
    ASSUME Inv, CheckedInv, UNCHANGED situation, NEW n \in Nodes, MirrorsOK(n), ProcessTxTrusteeTally(n),
           n \notin aborted'
    PROVE  MirrorsOK(n)'
  <1> SUFFICES ASSUME NEW t, NEW h, NEW e, NEW old, NEW S, NextPart(n, t, h, e, old, S)
               PROVE  MirrorsOK(n)'
    BY DEF NextPart
  <1>1. /\ NextIs(n, "trusteeTally") /\ Done(n) /\ UNCHANGED <<published, blocks, chain>>
        /\ \/ e \notin DOMAIN elections[n] /\ UNCHANGED elections
           \/ /\ e \in DOMAIN elections[n]
              /\ Save(n, e, [old EXCEPT !.tallies = With(@, h, S)])
           \/ /\ e \in DOMAIN elections[n]
              /\ Save(n, e, [[old EXCEPT !.tallies = With(@, h, S)]
                               EXCEPT !.results = With(@, h, Combined(S, e))])
    BY DEF ProcessTxTrusteeTally, EnoughParts, NextPart, Abort
  <1>2. /\ t = Head(pending[n]) /\ h = published[t].tally /\ e = ElectionOf(t)
        /\ S = {t} \cup IF h \in DOMAIN old.tallies THEN old.tallies[h] ELSE {}
    BY DEF NextPart
  <1>3. ProcessesNext(n, t) /\ t \in OfType("trusteeTally") /\ ContainsTransaction(n, t)
    BY <1>1, <1>2, DoneNext
  <1>4. t \in OnChain(n, e, "trusteeTally")
    BY <1>2, <1>3 DEF OnChain
  <1>5. ElectionOf(t) = e
    BY <1>2
  <1>6. CASE e \notin DOMAIN elections[n] /\ UNCHANGED elections
    BY <1>2, <1>3, <1>6, SavedMirrors
  <1>7. ASSUME e \in DOMAIN elections[n], NEW results, NEW em, Save(n, e, em),
               em = [[old EXCEPT !.tallies = With(@, h, S)] EXCEPT !.results = results]
        PROVE  MirrorsOK(n)'
    <2>1. Manager(old) /\ Mirrors(n, e, old)
      BY <1>7 DEF Inv, EntriesOK, EntryInv, NextPart, MirrorsOK
    <2>2. em = [old EXCEPT !.tallies = With(@, h, S), !.results = results]
      BY <1>7, <2>1 DEF Manager
    <2>3. PartsChange(old, h, S, results, em)
      BY <2>1, <2>2, PartsFields
    <2>4. PICK V, T, P : /\ V = ProcessedOf(n, e, "vote") /\ T = ProcessedOf(n, e, "tally")
                         /\ P = ProcessedOf(n, e, "trusteeTally")
      OBVIOUS
    <2>5. h \in T
      BY <1>2, <1>4, <2>4, TallyProcessed
    <2>6. Says(n, old, V, T, P)
      BY <2>1, <2>4 DEF Mirrors
    <2>7. Says(n, em, V, T, P \cup {t})
      BY <1>2, <2>3, <2>5, <2>6, SaysPart
    <2>8. Says(n, em, V, T, P \cup {t})'
      <3>1. \A em2, V2, T2, P2 : Says(n, em2, V2, T2, P2) => Says(n, em2, V2, T2, P2)'
        BY <1>3, <1>5, NextOfKind, SMTT(30)
      <3>2. QED
        BY <2>7, <3>1
    <2>9. /\ ProcessedOf(n, e, "vote")' = V /\ ProcessedOf(n, e, "tally")' = T
          /\ ProcessedOf(n, e, "trusteeTally")' = P \cup {t}
      <3>1. ProcessedOf(n, e, "trusteeTally")' = ProcessedOf(n, e, "trusteeTally") \cup {t}
        BY <1>3, <1>5, NextOfKind, SMTT(30)
      <3>2. \A type : type # "trusteeTally" => ProcessedOf(n, e, type)' = ProcessedOf(n, e, type)
        BY <1>3, <1>5, NextOfKind, SMTT(30)
      <3>3. QED
        BY <2>4, <3>1, <3>2
    <2>10. Mirrors(n, e, em)'
      BY <2>8, <2>9 DEF Mirrors
    <2>11. Save(n, e, em)
      BY <1>7
    <2>12. QED
      BY <1>2, <1>3, <1>7, <2>10, <2>11, SavedMirrors
  <1>8. CASE e \in DOMAIN elections[n] /\ Save(n, e, [old EXCEPT !.tallies = With(@, h, S)])
    <2>1. Manager(old)
      BY <1>8 DEF Inv, EntriesOK, EntryInv, NextPart
    <2>2. [old EXCEPT !.tallies = With(@, h, S)]
            = [[old EXCEPT !.tallies = With(@, h, S)] EXCEPT !.results = old.results]
      BY <2>1 DEF Manager
    <2>3. QED
      BY <1>7, <1>8, <2>2
  <1>9. CASE /\ e \in DOMAIN elections[n]
             /\ Save(n, e, [[old EXCEPT !.tallies = With(@, h, S)]
                              EXCEPT !.results = With(@, h, Combined(S, e))])
    <2>1. Manager(old)
      BY <1>9 DEF Inv, EntriesOK, EntryInv, NextPart
    <2>2. [[old EXCEPT !.tallies = With(@, h, S)] EXCEPT !.results = With(@, h, Combined(S, e))]
            = [[old EXCEPT !.tallies = With(@, h, S)]
                 EXCEPT !.results = With(old.results, h, Combined(S, e))]
      BY <2>1 DEF Manager
    <2>3. QED
      BY <1>7, <1>9, <2>2
  <1>10. QED
    BY <1>1, <1>6, <1>8, <1>9

\* What a step leaves alone of the nodes that have no part in it
Leaves(n) == chain'[n] = chain[n] /\ pending'[n] = pending[n] /\ elections'[n] = elections[n]

\* A process that dies is that of one node.
LEMMA StoppedLeaves ==
    ASSUME Inv, NEW m \in Nodes, Stopped(m), UNCHANGED <<chain, elections>>, NEW n \in Nodes, n # m
    PROVE  Leaves(n)
  BY DEF Inv, Shapes, FunctionOn, Stopped, Leaves

\* A node that processes a transaction leaves the others alone,
LEMMA ProcessLeaves ==
    ASSUME Inv, NEW m \in Nodes, Process(m), NEW n \in Nodes, n # m
    PROVE  Leaves(n) /\ aborted \subseteq aborted'
  <1>1. ASSUME NEW e, NEW em, Save(m, e, em) PROVE elections'[n] = elections[n]
    BY <1>1, SaveFacts
  <1>2. ASSUME Done(m) PROVE pending'[n] = pending[n]
    BY <1>2 DEF Done, Inv, Shapes, FunctionOn
  <1>3. CASE ProcessTxElection(m)
    BY <1>1, <1>2, <1>3 DEF ProcessTxElection, Leaves
  <1>4. CASE ProcessTxVote(m)
    BY <1>1, <1>2, <1>4 DEF ProcessTxVote, Leaves
  <1>5. CASE IgnoreTxTally(m)
    BY <1>2, <1>5 DEF IgnoreTxTally, Leaves
  <1>6. CASE RegisterTxTally(m)
    BY <1>1, <1>2, <1>6 DEF RegisterTxTally, Leaves
  <1>7. ASSUME NEW h \in answering[m], AnswerTxTally(m, h) PROVE Leaves(n) /\ aborted \subseteq aborted'
    <2>1. UNCHANGED <<chain, elections>> /\ (Abort(m) \/ UNCHANGED <<pending, aborted>>)
      BY <1>7 DEF AnswerTxTally
    <2>2. QED
      BY <2>1, StoppedLeaves DEF Abort, Leaves
  <1>8. CASE ProcessTxTrusteeTally(m)
    <2>1. /\ UNCHANGED chain
          /\ \/ Done(m) /\ UNCHANGED <<elections, aborted>>
             \/ Done(m) /\ UNCHANGED aborted /\ \E e, em : Save(m, e, em)
             \/ UNCHANGED elections /\ Abort(m)
      BY <1>8 DEF ProcessTxTrusteeTally
    <2>2. QED
      BY <1>1, <1>2, <2>1, StoppedLeaves DEF Abort, Leaves
  <1>9. QED
    BY <1>3, <1>4, <1>5, <1>6, <1>7, <1>8 DEF Process

\* and so do users, who answer no tally of a block.
LEMMA UserLeaves ==
    ASSUME Inv, User, NEW n \in Nodes, n \notin aborted'
    PROVE  Leaves(n) /\ aborted \subseteq aborted'
  <1>1. UNCHANGED chain /\ UNCHANGED elections
    BY UserKeeps
  <1>2. UNCHANGED <<pending, aborted>> \/ \E m \in Nodes : Abort(m)
    BY UserKeeps
  <1>3. ASSUME NEW m \in Nodes, Abort(m) PROVE Leaves(n) /\ aborted \subseteq aborted'
    BY <1>1, <1>3, StoppedLeaves DEF Abort
  <1>4. QED
    BY <1>1, <1>2, <1>3 DEF Leaves

\* A process that has not died keeps the mirror when it processes a transaction.
LEMMA ProcessMirrors ==
    ASSUME Inv, CheckedInv, Grows, NEW n \in Nodes, MirrorsOK(n), Process(n), n \notin aborted'
    PROVE  MirrorsOK(n)'
  <1>1. UNCHANGED situation
    BY DEF Grows
  <1>2. ASSUME NEW h \in answering[n], AnswerTxTally(n, h) PROVE MirrorsOK(n)'
    <2>1. UNCHANGED <<chain, elections, pending>>
      BY <1>2 DEF AnswerTxTally, Abort
    <2>2. QED
      BY <2>1, MirrorsKept
  <1>3. QED
    BY <1>1, <1>2, ElectionMirrors, VoteMirrors, TallyMirrors, PartMirrors DEF Process

\* Adding a block changes one node, which has processed the blocks it has.
LEMMA AcceptMirrors ==
    ASSUME Inv, Grows, NEW n \in Nodes, MirrorsOK(n), NEW m \in Nodes, MineBlock(m) \/ Receive(m)
    PROVE  MirrorsOK(n)' /\ UNCHANGED aborted
  <1>1. \E b : Adds(m, b) /\ Processed(m) /\ pending' = [pending EXCEPT ![m] = blocks'[b].transactions]
    <2>1. CASE MineBlock(m)
      <3>1. PICK txs \in Minable(m) : Mine(m, txs)
        BY <2>1 DEF MineBlock
      <3>2. Sequence(blocks) /\ DOMAIN blocks = 1 .. Len(blocks) /\ Len(blocks) \in Nat
        BY SequenceFacts DEF Inv, Shapes
      <3>3. blocks' = Append(blocks, [previous |-> Tip(m), transactions |-> txs])
        BY <3>1 DEF Mine
      <3>4. PICK b : b = Len(blocks) + 1
        OBVIOUS
      <3>5. /\ b \in DOMAIN blocks' /\ b \notin DOMAIN blocks
            /\ blocks'[b] = [previous |-> Tip(m), transactions |-> txs]
        BY <3>2, <3>3, <3>4, AppendFacts
      <3>6. blocks'[b].previous = Tip(m) /\ blocks'[b].transactions = txs
        BY <3>5
      <3>7. /\ chain' = [chain EXCEPT ![m] = Append(@, b)] /\ pending' = [pending EXCEPT ![m] = txs]
            /\ Acceptable(m, ToSet(txs)) /\ Processed(m) /\ UNCHANGED published
        BY <3>1, <3>4 DEF Mine, Accept
      <3>8. QED
        BY <3>5, <3>6, <3>7 DEF Adds, Grows
    <2>2. CASE Receive(m)
      <3>1. PICK b \in DOMAIN blocks : ReceiveBlock(m, b)
        BY <2>2 DEF Receive
      <3>2. QED
        BY <3>1 DEF ReceiveBlock, Accept, Adds, BlockTxs, Grows
    <2>3. QED
      BY <2>1, <2>2
  <1>2. UNCHANGED <<elections, aborted>>
    BY DEF MineBlock, Mine, Receive, ReceiveBlock
  <1>3. PICK b : Adds(m, b) /\ Processed(m) /\ pending' = [pending EXCEPT ![m] = blocks'[b].transactions]
    BY <1>1
  <1>4. pending = [k \in Nodes |-> pending[k]] /\ chain = [k \in Nodes |-> chain[k]]
    BY DEF Inv, Shapes, FunctionOn
  <1>5. CASE n = m
    BY <1>2, <1>3, <1>4, <1>5, MirrorsAdded DEF Processed
  <1>6. CASE n # m
    <2>1. chain'[n] = chain[n] /\ pending'[n] = pending[n]
      BY <1>3, <1>4, <1>6 DEF Adds
    <2>2. QED
      BY <1>2, <2>1, MirrorsKept
  <1>7. QED
    BY <1>2, <1>5, <1>6

\* Every step keeps MirrorsInv.
LEMMA MirrorsStep ==
    ASSUME Inv, Grows, CheckedInv, MirrorsInv, [Next]_vars
    PROVE  MirrorsInv'
  <1> SUFFICES ASSUME ~situation'.crashes, NEW n \in Nodes, n \notin aborted'
               PROVE  MirrorsOK(n)'
    BY DEF MirrorsInv
  <1>1. ~situation.crashes
    BY DEF Grows
  <1>2. n \notin aborted => MirrorsOK(n)
    BY <1>1 DEF MirrorsInv
  <1>3. CASE UNCHANGED vars
    BY <1>2, <1>3, MirrorsKept DEF vars
  <1>4. ASSUME Leaves(n), aborted \subseteq aborted' PROVE MirrorsOK(n)'
    BY <1>2, <1>4, MirrorsKept DEF Leaves
  <1>5. CASE Next
    <2>1. CASE User
      BY <1>4, <2>1, UserLeaves
    <2>2. ASSUME NEW m \in Nodes, MineBlock(m) \/ Receive(m) PROVE MirrorsOK(n)'
      <3>1. UNCHANGED aborted
        BY <2>2 DEF MineBlock, Mine, Receive, ReceiveBlock
      <3>2. QED
        BY <1>2, <2>2, <3>1, AcceptMirrors
    <2>3. ASSUME NEW m \in Nodes, Process(m) PROVE MirrorsOK(n)'
      <3>1. CASE n # m
        BY <1>4, <2>3, <3>1, ProcessLeaves
      <3>2. CASE n = m
        <4>1. aborted \subseteq aborted'
          BY <2>3 DEF Process, ProcessTxElection, ProcessTxVote, IgnoreTxTally, RegisterTxTally,
             AnswerTxTally, ProcessTxTrusteeTally, Abort
        <4>2. QED
          BY <1>2, <2>3, <3>2, <4>1, ProcessMirrors
      <3>3. QED
        BY <3>1, <3>2
    <2>4. \A m \in Nodes : ~Crash(m)
      BY <1>1 DEF Crash
    <2>5. QED
      BY <1>5, <2>1, <2>2, <2>3, <2>4 DEF Next
  <1>6. QED
    BY <1>3, <1>5

\* MirrorsInv holds in every state.
LEMMA MirrorsInvariance == Spec => []MirrorsInv
  <1>1. Init => MirrorsInv
    <2> SUFFICES ASSUME Init, NEW n \in Nodes PROVE MirrorsOK(n)
      BY DEF MirrorsInv
    <2>1. /\ OfType("election") = {} /\ DOMAIN elections[n] = {} /\ DOMAIN chain[n] = {}
      BY DEF Init, OfType, Hashes
    <2>2. QED
      BY <2>1 DEF MirrorsOK
  <1>2. Inv /\ AnsweringOK /\ CheckedInv /\ MirrorsInv /\ [Next]_vars => MirrorsInv'
    BY InvStep, MirrorsStep
  <1>3. QED
    BY <1>1, <1>2, Invariance, RulesInvariance, PTL DEF Spec

\* An entry em of election e that says what the chain of n says.
Mirrored(n, e, em) ==
    LET tallies == OnChain(n, e, "tally")
    IN  /\ em.votesRegistered = {published[h].key : h \in OnChain(n, e, "vote")}
        /\ DOMAIN em.myVotes = em.votesRegistered \cap VoteKeys[n]
        /\ em.ended <=> \E h \in tallies : published[h].endElection
        /\ ~em.ended => DOMAIN em.tallies = tallies
        /\ tallies # {} => DOMAIN em.tallies # {}
        /\ UNION {em.tallies[h] : h \in DOMAIN em.tallies} = OnChain(n, e, "trusteeTally")

\* Where no process stops, the entries of an involved node say what its chain says
\* (ElectionDB, Controller::receiveBlock).
THEOREM EntriesMirror == Spec => []MirrorsChain
  <1>1. Inv /\ MirrorsInv => MirrorsChain
    <2> SUFFICES ASSUME Inv, MirrorsInv, ~situation.crashes, NEW n \in Nodes, NEW e \in Elections,
                        Processed(n), n \in Involved(e) \ aborted, ContainsElection(n, e)
                 PROVE  Mirrored(n, e, elections[n][e])
      BY DEF MirrorsChain, Mirrored
    <2> DEFINE em == elections[n][e]
    <2>1. MirrorsOK(n) /\ ToSet(pending[n]) = {}
      BY DEF MirrorsInv, Processed, ToSet
    <2>2. e \in DOMAIN elections[n]
      BY <2>1 DEF MirrorsOK, ContainsElection
    <2>3. \A type : ProcessedOf(n, e, type) = OnChain(n, e, type)
      BY <2>1 DEF ProcessedOf
    <2>4. Says(n, em, OnChain(n, e, "vote"), OnChain(n, e, "tally"), OnChain(n, e, "trusteeTally"))
      BY <2>1, <2>2, <2>3 DEF MirrorsOK, Mirrors
    <2> HIDE DEF em
    <2>5. Mirrored(n, e, em)
      BY <2>4 DEF Says, Mirrored
    <2>6. QED
      BY <2>5 DEF em
  <1>2. QED
    BY <1>1, Invariance, MirrorsInvariance, PTL

\* Where no process stops, a block that one node has mined passes the checks of every
\* other with the same newest block that is involved in its elections, whatever the
\* order in which they have learnt of its transactions (Transaction::verify).
THEOREM MinedAccepted == Spec => []BlocksAcceptable
  <1>1. Inv /\ PathsInv /\ BlockRules /\ CheckedInv /\ MirrorsInv => BlocksAcceptable
    <2> SUFFICES ASSUME Inv, PathsInv, BlockRules, CheckedInv, MirrorsInv, ~situation.crashes,
                        NEW b \in DOMAIN blocks, NEW n \in Nodes \ aborted,
                        Processed(n), Tip(n) = blocks[b].previous, NEW h \in BlockTxs(b),
                        n \in Involved(ElectionOf(h))
                 PROVE  ~ContainsTransaction(n, h) /\ Verify(n, h)
      BY DEF BlocksAcceptable, Acceptable
    <2>1. PICK m \in Nodes : ContainsBlock(m, b)
      BY DEF BlockRules
    <2>2. PICK j \in DOMAIN chain[m] : chain[m][j] = b
      BY <2>1 DEF ContainsBlock, ToSet
    <2>3. j = Len(chain[n]) + 1 /\ \A i \in 1 .. Len(chain[n]) : chain[n][i] = chain[m][i]
      BY <2>2, PreviousFacts
    <2>4. /\ DOMAIN chain[n] = 1 .. Len(chain[n]) /\ Len(chain[n]) \in Nat
          /\ DOMAIN chain[m] = 1 .. Len(chain[m]) /\ Len(chain[m]) \in Nat
      BY SequenceFacts DEF Inv, Shapes
    <2>5. \A i \in DOMAIN chain[m] : i < j => i \in DOMAIN chain[n] /\ chain[n][i] = chain[m][i]
      BY <2>3, <2>4
    <2>6. ~ContainsTransaction(n, h)
      <3>1. ASSUME NEW i \in DOMAIN chain[n], h \in BlockTxs(chain[n][i]) PROVE FALSE
        <4>1. i \in DOMAIN chain[m] /\ i # j /\ h \in BlockTxs(chain[m][i])
          BY <2>3, <2>4, <3>1
        <4>2. QED
          BY <2>2, <4>1 DEF PathsInv, Once
      <3>2. QED
        BY <3>1 DEF ContainsTransaction, ToSet
    <2>7. ASSUME NEW e, ElectionBefore(m, j, e) PROVE ContainsElection(n, e)
      <3>1. PICK i \in DOMAIN chain[m] : i < j /\
              \E g \in BlockTxs(chain[m][i]) : g \in OfType("election") /\ published[g].election = e
        BY <2>7 DEF ElectionBefore
      <3>2. i \in DOMAIN chain[n] /\ chain[n][i] = chain[m][i]
        BY <2>5, <3>1
      <3>3. QED
        BY <3>1, <3>2 DEF ContainsElection, ContainsTransaction, ToSet
    <2>8. ASSUME NEW e \in Elections, ContainsElection(n, e), n \in Involved(e)
          PROVE  e \in DOMAIN elections[n]
      <3>1. MirrorsOK(n) /\ ToSet(pending[n]) = {}
        BY DEF MirrorsInv, Processed, ToSet
      <3>2. QED
        BY <2>8, <3>1 DEF MirrorsOK, ContainsElection
    <2>9. h \in Hashes /\ published[h].type \in {"election", "vote", "tally", "trusteeTally"}
      BY DEF Inv, BlocksInv, PublishedInv
    <2>10. CASE h \in OfType("election")
      BY <2>6, <2>10 DEF Verify, OfType
    <2>11. CASE h \in OfType("vote")
      <3>1. PICK e : e = published[h].election
        OBVIOUS
      <3>2. ElectionOf(h) = e /\ e \in Elections /\ published[h].key \in Voters[e]
        BY <2>11, <3>1 DEF ElectionOf, OfType, Inv, PublishedInv
      <3>3. ElectionBefore(m, j, e) /\ DOMAIN published[h].ballots \subseteq Questions[e]
        BY <2>2, <2>11, <3>1 DEF CheckedInv, VoteChecked
      <3>4. ContainsElection(n, e) /\ e \in DOMAIN elections[n]
        BY <2>7, <2>8, <3>2, <3>3
      <3>5. VerifyVote(n, published[h])
        BY <3>1, <3>2, <3>3, <3>4 DEF VerifyVote
      <3>6. QED
        BY <2>6, <2>11, <3>5 DEF Verify, OfType
    <2>12. CASE h \in OfType("tally")
      <3>1. PICK e, last : e = published[h].election /\ last = published[h].lastBlock
        OBVIOUS
      <3>2. /\ ElectionBefore(m, j, e) /\ VotesIn(last, e) # {}
            /\ \E i \in DOMAIN chain[m] : i < j /\ chain[m][i] = last
        BY <2>2, <2>12, <3>1 DEF CheckedInv, TallyChecked
      <3>3. ContainsBlock(n, last)
        BY <2>5, <3>2 DEF ContainsBlock, ToSet
      <3>4. ContainsElection(n, e)
        BY <2>7, <3>2
      <3>5. VerifyTally(n, published[h])
        BY <3>1, <3>2, <3>3, <3>4 DEF VerifyTally
      <3>6. QED
        BY <2>6, <2>12, <3>5 DEF Verify, OfType
    <2>13. CASE h \in OfType("trusteeTally")
      <3>1. PICK g, e : g = published[h].tally /\ e = published[g].election
        OBVIOUS
      <3>2. ElectionOf(h) = e /\ e \in Elections
        BY <2>13, <3>1 DEF ElectionOf, OfType, Inv, PublishedInv
      <3>3. /\ ElectionBefore(m, j, e)
            /\ \E i \in DOMAIN chain[m] : i < j /\ g \in BlockTxs(chain[m][i])
            /\ published[h].key \in Trustees[e]
            /\ DOMAIN published[h].partialDecryption = Questions[e]
        BY <2>2, <2>13, <3>1 DEF CheckedInv, TrusteeTallyChecked
      <3>4. ContainsTransaction(n, g)
        BY <2>5, <3>3 DEF ContainsTransaction, ToSet
      <3>5. ContainsElection(n, e) /\ e \in DOMAIN elections[n]
        BY <2>7, <2>8, <3>2, <3>3
      <3>6. VerifyTrusteeTally(n, published[h])
        BY <3>1, <3>3, <3>4, <3>5 DEF VerifyTrusteeTally, VerifySigner
      <3>7. QED
        BY <2>6, <2>13, <3>6 DEF Verify, OfType
    <2>14. QED
      BY <2>9, <2>10, <2>11, <2>12, <2>13 DEF OfType
  <1>2. QED
    BY <1>1, Invariance, PathsInvariance, RulesInvariance, MirrorsInvariance, PTL
=============================================================================
