---------------------------- MODULE VotingLedger ----------------------------
(***************************************************************************)
(* The course of elections: what the clients of the GUI publish, how each  *)
(* node verifies the transactions of a block (transactions/*.cpp), and     *)
(* what Controller::receiveBlock does with them after the block was added: *)
(* the ElectionManager entries of ElectionDB, the trustees' partial        *)
(* tallies and the combined results.                                       *)
(*                                                                         *)
(* Every node has its own chain.  A block names its predecessor, and a     *)
(* node only takes one that follows its newest block: there is no choice   *)
(* between branches.  A transaction that was published may be mined by any *)
(* node at any later time or never, which covers the delays and losses of  *)
(* flooding; Mining is about the queues in between.                        *)
(*                                                                         *)
(* A transaction's hash is its index in published, a block's hash its      *)
(* index in blocks.  The transactions of a block are in the order of their *)
(* hashes, which is arbitrary.  Cryptography is what it guarantees:        *)
(* signatures and zero-knowledge proofs of honest clients are valid, the   *)
(* product of ciphertexts decrypts to the number of YES ballots in them.   *)
(***************************************************************************)
EXTENDS Integers, FiniteSets, Sequences, SequencesExt

CONSTANTS
    Nodes,
    Elections,
    Creator,        \* Creator[e]: the node with the key that signs e and its tallies
    Voters,         \* Voters[e]: keys of the eligible voters
    Server,         \* Server[k]: index of trustee k's part of the private key
    Questions,      \* Questions[e]
    VoteKeys,       \* VoteKeys[n]: keys with the role KEY_VOTE on n
    TrusteeKeys,    \* TrusteeKeys[n]: keys with the role KEY_TRUSTEE on n
    Situations      \* records with
                    \*   trustees[e]: keys of the trustees
                    \*   threshold[e]: parts needed to decrypt
                    \*   ballots: votes users cast, 0 or 1 for each question not
                    \*            abstained from
                    \*   maxBlocks: bound, blocks mined
                    \*   blockSize: bound, transactions of a block
                    \*   maxVotes[k], maxTallies: bounds, votes of key k and tallies
                    \*   maxImports[n]: bound, imports of each Paillier key on n
                    \*   crashes: TRUE iff a process may stop in the middle of a block

VARIABLES
    situation,      \* the one this behaviour is about
    published,      \* transactions in the order of their publication
    blocks,         \* blocks in the order in which they were mined
    chain,          \* chain[n]: BlockChainDB of n, oldest block first
    pending,        \* pending[n]: transactions of the newest block not processed yet
    elections,      \* elections[n]: ElectionDB of n, by election
    paillier,       \* paillier[n]: PaillierDB of n
    importing,      \* importing[n]: keys between onNewPaillierKey and PaillierDB::Save
    answering,      \* answering[n]: tallies between ElectionDB::Save and PaillierDB::Get
    imports,        \* history: how often each key was imported
    aborted         \* history: nodes whose process died of an error of its own

vars == <<situation, published, blocks, chain, pending, elections, paillier,
          importing, answering, imports, aborted>>

ASSUME LedgerAssumption ==
    /\ Creator \in [Elections -> Nodes]
    /\ \A s \in Situations :
         /\ s.threshold \in [Elections -> Nat \ {0}]
         /\ {s.maxBlocks, s.blockSize, s.maxTallies} \subseteq Nat
         /\ s.maxVotes \in [UNION {Voters[e] : e \in Elections} -> Nat]
         /\ s.maxImports \in [Nodes -> Nat]
         /\ s.crashes \in BOOLEAN
         /\ \A e \in Elections : \A k \in s.trustees[e] : Server[k] \in Nat

Trustees == situation.trustees
Threshold == situation.threshold
BlockSize == situation.blockSize

-----------------------------------------------------------------------------
(* Transactions and blocks *)

Genesis == 0
Hashes == DOMAIN published

TxElection(e) == [type |-> "election", election |-> e]
TxVote(e, k, b) == [type |-> "vote", election |-> e, key |-> k, ballots |-> b]
TxTally(e, last, end) ==
    [type |-> "tally", election |-> e, lastBlock |-> last, endElection |-> end]
TxTrusteeTally(h, k, sums) ==
    [type |-> "trusteeTally", tally |-> h, key |-> k, partialDecryption |-> sums]

OfType(type) == {h \in Hashes : published[h].type = type}
ElectionOf(h) ==
    IF published[h].type = "trusteeTally"
    THEN published[published[h].tally].election
    ELSE published[h].election

Tip(n) == IF chain[n] = <<>> THEN Genesis ELSE Last(chain[n])
BlockTxs(b) == ToSet(blocks[b].transactions)
ContainsBlock(n, b) == b \in ToSet(chain[n])
ContainsTransaction(n, h) == \E b \in ToSet(chain[n]) : h \in BlockTxs(b)
ContainsElection(n, e) ==
    \E h \in OfType("election") : published[h].election = e /\ ContainsTransaction(n, h)

\* The votes for e in block b
VotesIn(b, e) == {h \in BlockTxs(b) : published[h].type = "vote" /\ published[h].election = e}

-----------------------------------------------------------------------------
(* Counting *)

\* getAllVotes: the positions <<i, j>> of the votes for e in n's chain, from
\* the block of the election to lastBlock
VotePositions(n, e, lastBlock) ==
    LET last == CHOOSE i \in DOMAIN chain[n] : chain[n][i] = lastBlock
        txs(i) == blocks[chain[n][i]].transactions
        start == CHOOSE i \in DOMAIN chain[n] : TxElection(e) \in {published[h] : h \in ToSet(txs(i))}
    IN  {p \in (start .. last) \X (1 .. BlockSize) :
            p[2] \in DOMAIN txs(p[1]) /\ txs(p[1])[p[2]] \in VotesIn(chain[n][p[1]], e)}

VoteAt(n, p) == published[blocks[chain[n][p[1]]].transactions[p[2]]]

\* Mutant of CountedVotes: does not skip old votes
AllVotes(n, e, lastBlock) == {VoteAt(n, p) : p \in VotePositions(n, e, lastBlock)}

\* ... and of these, of each key the one it meets first: it walks from the
\* newest block to the oldest and through each block in the order of the hashes
CountedVotes(n, e, lastBlock) ==
    LET positions == VotePositions(n, e, lastBlock)
        before(p, r) == p[1] > r[1] \/ (p[1] = r[1] /\ p[2] < r[2])
    IN  {VoteAt(n, p) : p \in {r \in positions :
            ~\E s \in positions : VoteAt(n, s).key = VoteAt(n, r).key /\ before(s, r)}}

\* For each question with a ballot, what the product of its ballots decrypts to
Product(votes, e) ==
    LET of(q) == {v \in votes : q \in DOMAIN v.ballots}
    IN  [q \in {r \in Questions[e] : of(r) # {}} |->
            Cardinality({v \in of(q) : v.ballots[q] = 1})]

\* Mutant of Sums: counts up to the newest block
SumsUpToTip(n, e, lastBlock) == Product(CountedVotes(n, e, Tip(n)), e)

\* createTrusteeTally; empty when there is no ballot at all
Sums(n, e, lastBlock) == Product(CountedVotes(n, e, lastBlock), e)

TrusteeTally(n, h, k) ==
    TxTrusteeTally(h, k, Sums(n, ElectionOf(h), published[h].lastBlock))

\* createTrusteeTally returns false and leaves NULL behind
NoTrusteeTally(n, h) == DOMAIN Sums(n, ElectionOf(h), published[h].lastBlock) = {}

\* tally: the partial decryptions are sorted by server, and the first
\* Threshold ones are combined, which divides by the difference of any two
\* of their servers.
SameServerCombined(S, e) ==
    \E t, u \in S :
        /\ t # u
        /\ Server[published[t].key] = Server[published[u].key]
        /\ Cardinality({v \in S : Server[published[v].key] < Server[published[t].key]}) + 2
             <= Threshold[e]

\* What comes out when the parts are parts of different sums
Garbage == -1
Combined(S, e) ==
    [q \in Questions[e] |->
        LET lower(t) == {v \in S : Server[published[v].key] < Server[published[t].key]}
            sums == {published[t].partialDecryption[q] :
                        t \in {u \in S : Cardinality(lower(u)) < Threshold[e]}}
        IN  IF \E s \in sums : sums = {s} THEN CHOOSE s \in sums : TRUE ELSE Garbage]

-----------------------------------------------------------------------------
(* Verification of a transaction by node n *)

VerifyVote(n, tx) ==
    /\ ContainsElection(n, tx.election)
    /\ DOMAIN tx.ballots \subseteq Questions[tx.election]
    /\ tx.election \in DOMAIN elections[n]
    /\ tx.key \in Voters[tx.election]

\* Only the creator's node has the key that signs a tally of its election.
VerifyTally(n, tx) ==
    /\ ContainsElection(n, tx.election)
    /\ ContainsBlock(n, tx.lastBlock)
    /\ VotesIn(tx.lastBlock, tx.election) # {}

VerifySigner(n, tx) ==
    LET e == published[tx.tally].election
    IN  /\ ContainsElection(n, e)
        /\ e \in DOMAIN elections[n]
        /\ tx.key \in Trustees[e]

\* Mutant of VerifyTrusteeTally: does not look for the tally on the chain
VerifyWithoutTally(n, tx) ==
    VerifySigner(n, tx) /\ DOMAIN tx.partialDecryption = Questions[published[tx.tally].election]

VerifyTrusteeTally(n, tx) ==
    /\ ContainsTransaction(n, tx.tally)
    /\ VerifySigner(n, tx)
    /\ DOMAIN tx.partialDecryption = Questions[published[tx.tally].election]

Verify(n, h) ==
    LET tx == published[h]
    IN  \/ tx.type = "election"
        \/ tx.type = "vote" /\ VerifyVote(n, tx)
        \/ tx.type = "tally" /\ VerifyTally(n, tx)
        \/ tx.type = "trusteeTally" /\ VerifyTrusteeTally(n, tx)

\* The checks of receiveBlock on the transactions of a block
Acceptable(n, txs) == \A h \in txs : ~ContainsTransaction(n, h) /\ Verify(n, h)

-----------------------------------------------------------------------------
(* What users publish.  Publish signs a transaction, floods it and hands it  *)
(* to the own miner.                                                         *)

Init ==
    /\ situation \in Situations
    /\ published = <<>> /\ blocks = <<>>
    /\ chain = [n \in Nodes |-> <<>>]
    /\ pending = [n \in Nodes |-> <<>>]
    /\ elections = [n \in Nodes |-> [e \in {} |-> {}]]
    /\ paillier = [n \in Nodes |-> <<>>]
    /\ importing = [n \in Nodes |-> {}]
    /\ answering = [n \in Nodes |-> {}]
    /\ imports = [n \in Nodes |-> <<>>]
    /\ aborted = {}

Publish(tx) == published' = Append(published, tx)

CreateElection(e) ==
    /\ \A h \in OfType("election") : published[h].election # e
    /\ Publish(TxElection(e))
    /\ UNCHANGED <<blocks, chain, pending, elections, paillier, importing, answering, imports, aborted>>

\* on_btnVote_clicked and onVote.  The window may show an older entry of the
\* ElectionDB than the current one, and the user may take time to answer: to
\* the others this is a vote published earlier and mined later.
Vote(n, e, k, ballots) ==
    /\ e \in DOMAIN elections[n]
    /\ ~elections[n][e].ended
    /\ k \in VoteKeys[n] \cap Voters[e]
    /\ Cardinality({h \in OfType("vote") : published[h].key = k}) < situation.maxVotes[k]
    /\ DOMAIN ballots \subseteq Questions[e]
    /\ Publish(TxVote(e, k, ballots))
    /\ UNCHANGED <<blocks, chain, pending, elections, paillier, importing, answering, imports, aborted>>

\* on_btnTally_clicked goes back from the newest block to the one after the
\* last block of the newest tally it meets, and offers the first five blocks
\* with votes.
TalliesAt(n, e, i) ==
    LET txs == blocks[chain[n][i]].transactions
    IN  {j \in DOMAIN txs : published[txs[j]].type = "tally" /\ published[txs[j]].election = e}

PreviousLastBlock(n, e) ==
    LET with == {i \in DOMAIN chain[n] : TalliesAt(n, e, i) # {}}
        i == CHOOSE i \in with : \A j \in with : j <= i
        j == CHOOSE j \in TalliesAt(n, e, i) : \A k \in TalliesAt(n, e, i) : j <= k
    IN  IF with = {} THEN Genesis ELSE published[blocks[chain[n][i]].transactions[j]].lastBlock

OfferedBlocks(n, e) ==
    LET last == PreviousLastBlock(n, e)
        from == IF last = Genesis THEN 1 ELSE 1 + CHOOSE i \in DOMAIN chain[n] : chain[n][i] = last
        voted == {i \in from .. Len(chain[n]) : VotesIn(chain[n][i], e) # {}}
    IN  {chain[n][i] : i \in {j \in voted : Cardinality({k \in voted : k > j}) < 5}}

\* on_btnTally_clicked and onTally
Tally(e, lastBlock, end) ==
    LET n == Creator[e]
    IN  /\ Cardinality(OfType("tally")) < situation.maxTallies
        /\ e \in DOMAIN elections[n]
        /\ ~elections[n][e].ended
        /\ elections[n][e].votesRegistered # {}
        /\ lastBlock \in OfferedBlocks(n, e)
        /\ Publish(TxTally(e, lastBlock, end))
        /\ UNCHANGED <<blocks, chain, pending, elections, paillier, importing, answering, imports, aborted>>

\* The process of n dies; what was in memory only is gone.
Stopped(n) ==
    /\ pending' = [pending EXCEPT ![n] = <<>>]
    /\ importing' = [importing EXCEPT ![n] = {}]
    /\ answering' = [answering EXCEPT ![n] = {}]

\* ... because of an error of its own
Abort(n) == Stopped(n) /\ aborted' = aborted \cup {n}

\* A partial tally for each tally and key in order
PublishTrusteeTallies(n, signing) ==
    published' = published \o
        [i \in DOMAIN signing |-> TrusteeTally(n, signing[i].tally, signing[i].key)]

\* onNewPaillierKey: a partial tally for each tally this key has not yet signed
\* one for; Publish does not check for NULL.
ImportKey(n, e, k) ==
    LET em == elections[n][e]
        unsigned == {h \in DOMAIN em.tallies : ~\E t \in em.tallies[h] : published[t].key = k}
        signing(S) == [i \in DOMAIN SetToSeq(S) |-> [tally |-> SetToSeq(S)[i], key |-> k]]
    IN  /\ Cardinality({i \in DOMAIN imports[n] : imports[n][i] = k}) < situation.maxImports[n]
        /\ importing[n] = {}
        /\ e \in DOMAIN elections[n]
        /\ k \in TrusteeKeys[n] \cap Trustees[e]
        /\ imports' = [imports EXCEPT ![n] = Append(@, k)]
        /\ \/ /\ \A h \in unsigned : ~NoTrusteeTally(n, h)
              /\ PublishTrusteeTallies(n, signing(unsigned))
              /\ importing' = [importing EXCEPT ![n] = {[election |-> e, key |-> k]}]
              /\ UNCHANGED <<pending, answering, aborted>>
           \/ /\ \E S \in SUBSET {h \in unsigned : ~NoTrusteeTally(n, h)} :
                   PublishTrusteeTallies(n, signing(S))
              /\ \E h \in unsigned : NoTrusteeTally(n, h)
              /\ Abort(n)
        /\ UNCHANGED <<blocks, chain, elections, paillier>>

\* PaillierDB::Save, which on_btnImport_clicked calls after onNewPaillierKey
SaveKey(n) ==
    \E epk \in importing[n] :
        /\ paillier' = [paillier EXCEPT ![n] = Append(@, epk)]
        /\ importing' = [importing EXCEPT ![n] = {}]
        /\ UNCHANGED <<published, blocks, chain, pending, elections, answering, imports, aborted>>

-----------------------------------------------------------------------------
(* Blocks *)

\* getTransactionsForBlock puts at most one vote of each key into a block.
OneVotePerKey(txs) ==
    \A g, h \in txs :
        published[g].type = "vote" /\ published[h].type = "vote"
        /\ published[g].election = published[h].election
        /\ published[g].key = published[h].key => g = h

\* n has processed the blocks of its chain.
Processed(n) == pending[n] = <<>> /\ answering[n] = {}

Accept(n, b, transactions) ==
    /\ chain' = [chain EXCEPT ![n] = Append(@, b)]
    /\ pending' = [pending EXCEPT ![n] = transactions]

\* A miner of n finds a block, floods it and, through the loopback, adds it to
\* its own chain.  A block that its own node rejects changes nothing here.
Mine(n, transactions) ==
    /\ Len(blocks) < situation.maxBlocks
    /\ Processed(n)
    /\ OneVotePerKey(ToSet(transactions))
    /\ Acceptable(n, ToSet(transactions))
    /\ blocks' = Append(blocks, [previous |-> Tip(n), transactions |-> transactions])
    /\ Accept(n, Len(blocks) + 1, transactions)
    /\ UNCHANGED <<published, elections, paillier, importing, answering, imports, aborted>>

\* receiveBlock of a block from the network
ReceiveBlock(n, b) ==
    /\ Processed(n)
    /\ blocks[b].previous = Tip(n)
    /\ Acceptable(n, BlockTxs(b))
    /\ Accept(n, b, blocks[b].transactions)
    /\ UNCHANGED <<published, blocks, elections, paillier, importing, answering, imports, aborted>>

-----------------------------------------------------------------------------
(* Processing of the transactions of an added block *)

AmICreator(n, e) == n = Creator[e]
AmIVoter(n, e) == VoteKeys[n] \cap Voters[e] # {}
AmITrustee(n, e) == TrusteeKeys[n] \cap Trustees[e] # {}

\* Mutant of AmIInvolved: forgets the voters
AmIOfficial(n, e) == AmICreator(n, e) \/ AmITrustee(n, e)

AmIInvolved(n, e) == AmICreator(n, e) \/ AmIVoter(n, e) \/ AmITrustee(n, e)

NewManager ==
    [ended |-> FALSE, votesRegistered |-> {}, myVotes |-> [k \in {} |-> 0],
     tallies |-> [h \in {} |-> {}], results |-> [h \in {} |-> [q \in {} |-> 0]]]

With(f, x, v) == [y \in DOMAIN f \cup {x} |-> IF y = x THEN v ELSE f[y]]

\* ElectionDB::Save
Save(n, e, em) == elections' = [elections EXCEPT ![n] = With(@, e, em)]

\* The next transaction n processes is one of the given type
NextIs(n, type) ==
    pending[n] # <<>> /\ answering[n] = {} /\ published[Head(pending[n])].type = type

\* Mutant of Done: only the first transaction of a block is processed
DoneWithBlock(n) == pending' = [pending EXCEPT ![n] = <<>>]

Done(n) == pending' = [pending EXCEPT ![n] = Tail(@)]

ProcessTxElection(n) ==
    LET e == published[Head(pending[n])].election
    IN  /\ NextIs(n, "election")
        /\ IF AmIInvolved(n, e) THEN Save(n, e, NewManager) ELSE UNCHANGED elections
        /\ Done(n)
        /\ UNCHANGED <<published, blocks, chain, paillier, importing, answering, imports, aborted>>

MyVotes(n, em, h) ==
    LET k == published[h].key
    IN  IF k \in VoteKeys[n] THEN With(em.myVotes, k, h) ELSE em.myVotes

\* Mutant of VoteRegistered: notes only whose vote it is
VoteNoted(n, em, h) == [em EXCEPT !.myVotes = MyVotes(n, em, h)]

VoteRegistered(n, em, h) ==
    [em EXCEPT !.votesRegistered = @ \cup {published[h].key}, !.myVotes = MyVotes(n, em, h)]

ProcessTxVote(n) ==
    LET h == Head(pending[n])
        e == published[h].election
    IN  /\ NextIs(n, "vote")
        /\ IF e \in DOMAIN elections[n]
           THEN Save(n, e, VoteRegistered(n, elections[n][e], h))
           ELSE UNCHANGED elections
        /\ Done(n)
        /\ UNCHANGED <<published, blocks, chain, paillier, importing, answering, imports, aborted>>

\* Mutant of IgnoresTally: takes the tallies after the end as well
IgnoresTallyOfOthers(n, e) == e \notin DOMAIN elections[n]

\* A node that is not involved, or whose entry says that the election has
\* ended, ignores the tally.
IgnoresTally(n, e) == e \notin DOMAIN elections[n] \/ elections[n][e].ended

IgnoreTxTally(n) ==
    LET e == published[Head(pending[n])].election
    IN  /\ NextIs(n, "tally")
        /\ IgnoresTally(n, e)
        /\ Done(n)
        /\ UNCHANGED <<published, blocks, chain, elections, paillier, importing, answering, imports, aborted>>

TallyRegistered(em, h) ==
    [em EXCEPT !.ended = published[h].endElection,
               !.tallies = IF h \in DOMAIN @ THEN @ ELSE With(@, h, {})]

\* The others register it,
RegisterTxTally(n) ==
    LET h == Head(pending[n])
        e == published[h].election
    IN  /\ NextIs(n, "tally")
        /\ ~IgnoresTally(n, e)
        /\ Save(n, e, TallyRegistered(elections[n][e], h))
        /\ Done(n)
        /\ answering' = [answering EXCEPT ![n] = IF AmITrustee(n, e) THEN {h} ELSE {}]
        /\ UNCHANGED <<published, blocks, chain, paillier, importing, imports, aborted>>

\* and a trustee then publishes a partial tally for every Paillier key it has
\* saved.  Publish does not check for NULL.
AnswerTxTally(n, h) ==
    LET e == published[h].election
        saved == {i \in DOMAIN paillier[n] :
                    paillier[n][i].election = e /\ paillier[n][i].key \in TrusteeKeys[n] \cap Trustees[e]}
        order == SetToSeq(saved)
    IN  /\ \/ /\ saved # {} /\ NoTrusteeTally(n, h)
              /\ Abort(n) /\ UNCHANGED published
           \/ /\ saved = {} \/ ~NoTrusteeTally(n, h)
              /\ PublishTrusteeTallies(n,
                   [i \in DOMAIN order |-> [tally |-> h, key |-> paillier[n][order[i]].key]])
              /\ answering' = [answering EXCEPT ![n] = {}]
              /\ UNCHANGED <<pending, importing, aborted>>
        /\ UNCHANGED <<blocks, chain, elections, paillier, imports>>

EnoughParts(em, h, S, e) ==
    h \notin DOMAIN em.results /\ Cardinality(S) >= Threshold[e]

\* processTxTrusteeTally registers the partial tally, and as soon as there are
\* Threshold of them, ElectionManager::tally combines the results.
ProcessTxTrusteeTally(n) ==
    LET t == Head(pending[n])
        h == published[t].tally
        e == ElectionOf(t)
        em == elections[n][e]
        S == {t} \cup IF h \in DOMAIN em.tallies THEN em.tallies[h] ELSE {}
        registered == [em EXCEPT !.tallies = With(@, h, S)]
        enough == EnoughParts(em, h, S, e)
    IN  /\ NextIs(n, "trusteeTally")
        /\ IF e \notin DOMAIN elections[n]
           THEN Done(n) /\ UNCHANGED <<elections, importing, answering, aborted>>
           ELSE \/ /\ ~enough
                   /\ Save(n, e, registered)
                   /\ UNCHANGED <<importing, answering, aborted>> /\ Done(n)
                \/ /\ enough /\ ~SameServerCombined(S, e)
                   /\ Save(n, e, [registered EXCEPT !.results = With(@, h, Combined(S, e))])
                   /\ UNCHANGED <<importing, answering, aborted>> /\ Done(n)
                \/ /\ enough /\ SameServerCombined(S, e)
                   /\ UNCHANGED elections /\ Abort(n)
        /\ UNCHANGED <<published, blocks, chain, paillier, imports>>

-----------------------------------------------------------------------------
(* The system *)

\* The process of n stops while it processes a block or imports a key.
Crash(n) ==
    /\ situation.crashes
    /\ ~Processed(n) \/ importing[n] # {}
    /\ Stopped(n)
    /\ UNCHANGED <<published, blocks, chain, elections, paillier, imports, aborted>>

User ==
    \/ \E e \in Elections : CreateElection(e)
    \/ \E n \in Nodes, e \in Elections, k \in UNION {VoteKeys[m] : m \in Nodes}, b \in situation.ballots :
         Vote(n, e, k, b)
    \/ \E e \in Elections, b \in DOMAIN blocks, end \in BOOLEAN : Tally(e, b, end)
    \/ \E n \in Nodes, e \in Elections, k \in UNION {TrusteeKeys[m] : m \in Nodes} :
         ImportKey(n, e, k)
    \/ \E n \in Nodes : SaveKey(n)

\* The blocks n can mine now, their transactions in any order
Minable(n) ==
    UNION {SetToSeqs(S) :
        S \in {T \in SUBSET {h \in Hashes : Acceptable(n, {h})} :
                 Cardinality(T) \in 1 .. BlockSize}}

MineBlock(n) == \E transactions \in Minable(n) : Mine(n, transactions)
Receive(n) == \E b \in DOMAIN blocks : ReceiveBlock(n, b)

Process(n) ==
    \/ ProcessTxElection(n)
    \/ ProcessTxVote(n)
    \/ IgnoreTxTally(n)
    \/ RegisterTxTally(n)
    \/ \E h \in answering[n] : AnswerTxTally(n, h)
    \/ ProcessTxTrusteeTally(n)

Next ==
    /\ User \/ \E n \in Nodes : MineBlock(n) \/ Receive(n) \/ Process(n) \/ Crash(n)
    /\ UNCHANGED situation

Spec == Init /\ [][Next]_vars

-----------------------------------------------------------------------------
(* Properties *)

Involved(e) ==
    {n \in Nodes : \/ n = Creator[e]
                   \/ VoteKeys[n] \cap Voters[e] # {} \/ TrusteeKeys[n] \cap Trustees[e] # {}}

ManagerOK(em, e) ==
    /\ em.ended \in BOOLEAN
    /\ em.votesRegistered \subseteq Voters[e]
    /\ DOMAIN em.myVotes \subseteq em.votesRegistered
    /\ DOMAIN em.tallies \subseteq OfType("tally")
    /\ \A h \in DOMAIN em.tallies : em.tallies[h] \subseteq OfType("trusteeTally")
    /\ DOMAIN em.results \subseteq DOMAIN em.tallies

\* The type invariant: transactions, blocks and chains refer only to what
\* exists, and an ElectionDB entry only holds transactions of the right type.
TypeOK ==
    /\ \A h \in Hashes : published[h].type \in {"election", "vote", "tally", "trusteeTally"}
    /\ \A b \in DOMAIN blocks :
         blocks[b].previous \in 0 .. b - 1 /\ BlockTxs(b) \subseteq Hashes
    /\ \A n \in Nodes :
         /\ ToSet(chain[n]) \subseteq DOMAIN blocks
         /\ ToSet(pending[n]) \subseteq Hashes /\ answering[n] \subseteq OfType("tally")
         /\ DOMAIN elections[n] \subseteq Elections
         /\ \A e \in DOMAIN elections[n] : ManagerOK(elections[n][e], e)
         /\ importing[n] \cup ToSet(paillier[n]) \subseteq
              [election : Elections, key : UNION {Trustees[e] : e \in Elections}]
    /\ aborted \subseteq Nodes

\* The transactions of the given type for e in n's chain
OnChain(n, e, type) ==
    {h \in OfType(type) : ElectionOf(h) = e /\ ContainsTransaction(n, h)}

\* Without crashes and aborts the ElectionDB entry of an involved node says what
\* its chain says: who has voted, which tallies there are, up to the one that ends
\* the election, and which partial tallies they have.
MirrorsChain ==
    ~situation.crashes => \A n \in Nodes, e \in Elections :
        Processed(n) /\ n \in Involved(e) \ aborted /\ ContainsElection(n, e) =>
            LET em == elections[n][e]
                tallies == OnChain(n, e, "tally")
            IN  /\ em.votesRegistered = {published[h].key : h \in OnChain(n, e, "vote")}
                /\ DOMAIN em.myVotes = em.votesRegistered \cap VoteKeys[n]
                /\ em.ended <=> \E h \in tallies : published[h].endElection
                /\ ~em.ended => DOMAIN em.tallies = tallies
                /\ tallies # {} => DOMAIN em.tallies # {}
                /\ UNION {em.tallies[h] : h \in DOMAIN em.tallies} = OnChain(n, e, "trusteeTally")

\* Whatever a crash loses, the ElectionDB never claims what the chain does not
\* say: a vote, the end of an election, a tally, a partial tally or a result
\* with fewer partial tallies than the threshold.
BackedByChain ==
    \A n \in Nodes : \A e \in DOMAIN elections[n] :
        LET em == elections[n][e]
        IN  /\ em.votesRegistered \subseteq {published[h].key : h \in OnChain(n, e, "vote")}
            /\ em.ended => \E h \in OnChain(n, e, "tally") : published[h].endElection
            /\ DOMAIN em.tallies \subseteq OnChain(n, e, "tally")
            /\ \A h \in DOMAIN em.tallies :
                 em.tallies[h] \subseteq {t \in OnChain(n, e, "trusteeTally") : published[t].tally = h}
            /\ \A h \in DOMAIN em.results : Cardinality(em.tallies[h]) >= Threshold[e]

\* Trustees that answer to one tally decrypt the same sums, on whatever branch
\* and whenever each of them counts (createTrusteeTally, getAllVotes).
TrusteesAgree ==
    \A t, u \in OfType("trusteeTally") :
        published[t].tally = published[u].tally =>
            published[t].partialDecryption = published[u].partialDecryption

\* The last vote of each voter in the blocks up to b
LastVotes(n, e, b) ==
    LET upTo == 1 .. CHOOSE i \in DOMAIN chain[n] : chain[n][i] = b
        votes(k) == {i \in upTo : \E h \in VotesIn(chain[n][i], e) : published[h].key = k}
        last(k) == CHOOSE i \in votes(k) : \A j \in votes(k) : j <= i
    IN  {CHOOSE h \in VotesIn(chain[n][last(k)], e) : published[h].key = k :
            k \in {j \in Voters[e] : votes(j) # {}}}

\* A result counts, for every voter with a vote up to the tally's last block,
\* the vote of the newest block, and nobody twice.
ResultsCount ==
    \A n \in Nodes : \A e \in DOMAIN elections[n] : \A h \in DOMAIN elections[n][e].results :
        \A q \in Questions[e] :
            elections[n][e].results[h][q] =
                Cardinality({v \in LastVotes(n, e, published[h].lastBlock) :
                                /\ q \in DOMAIN published[v].ballots
                                /\ published[v].ballots[q] = 1})

\* Without crashes and aborts a block that a node has mined is accepted by every
\* node with the same newest block that is involved in all elections of its
\* transactions.
BlocksAcceptable ==
    ~situation.crashes => \A b \in DOMAIN blocks, n \in Nodes \ aborted :
        /\ Processed(n) /\ Tip(n) = blocks[b].previous
        /\ \A h \in BlockTxs(b) : n \in Involved(ElectionOf(h))
        => Acceptable(n, BlockTxs(b))

\* Once an election has ended on a node it stays so, and a result stays what it
\* is, whichever tallies and partial tallies come later.
EndedIsFinal ==
    [][\A n \in Nodes : \A e \in DOMAIN elections[n] :
          /\ e \in DOMAIN elections'[n]
          /\ elections[n][e].ended => elections'[n][e].ended
          /\ \A h \in DOMAIN elections[n][e].results :
               /\ h \in DOMAIN elections'[n][e].results
               /\ elections'[n][e].results[h] = elections[n][e].results[h]]_vars

-----------------------------------------------------------------------------
(* What the documentation, the comments and the GUI say, and the code does   *)
(* not do                                                                    *)

\* "All participants check the block and append it": also the nodes that are
\* not involved in the elections of its transactions.
EveryNodeAccepts ==
    \A b \in DOMAIN blocks, n \in Nodes :
        Processed(n) /\ Tip(n) = blocks[b].previous => Acceptable(n, BlockTxs(b))

\* "A trustee tally is later used to count": every partial tally an honest
\* trustee publishes answers every question of its election.
TalliesUsable ==
    \A t \in OfType("trusteeTally") :
        DOMAIN published[t].partialDecryption = Questions[ElectionOf(t)]

\* "Check if there is already a trustee tally signed with the corresponding key":
\* a trustee that imports its key once publishes one partial tally for each tally
\* (onNewPaillierKey, processTxTally).
OnePartialTally ==
    \A t, u \in OfType("trusteeTally") :
        published[t].tally = published[u].tally /\ published[t].key = published[u].key => t = u
=============================================================================
