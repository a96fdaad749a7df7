-------------------------- MODULE VotingLedgerProofs --------------------------
(* For any nodes, elections, keys, thresholds and number of blocks, with and *)
(* without crashes: what an ElectionDB entry says its chain says as well,    *)
(* and nothing that an entry has once said of the end or of a result changes.*)
EXTENDS VotingLedger, FiniteSetTheorems, SequenceTheorems, TLAPS

-----------------------------------------------------------------------------
(* Sequences of anything *)

Sequence(s) == s \in Seq(ToSet(s))

\* A sequence has a length and is its elements at 1 .. Len.
LEMMA SequenceFacts ==
    ASSUME NEW s, Sequence(s)
    PROVE  /\ Len(s) \in Nat /\ DOMAIN s = 1 .. Len(s)
           /\ s = <<>> <=> Len(s) = 0
           /\ s # <<>> => Head(s) = s[1] /\ Len(s) >= 1
           /\ ToSet(s) = {s[i] : i \in 1 .. Len(s)}
  BY DEF Sequence, ToSet

\* What Append adds to a sequence, and what it leaves.
LEMMA AppendFacts ==
    ASSUME NEW s, Sequence(s), NEW x
    PROVE  /\ Sequence(Append(s, x))
           /\ Len(Append(s, x)) = Len(s) + 1
           /\ DOMAIN Append(s, x) = 1 .. Len(s) + 1
           /\ \A i \in 1 .. Len(s) : Append(s, x)[i] = s[i]
           /\ Append(s, x)[Len(s) + 1] = x
           /\ ToSet(Append(s, x)) = ToSet(s) \cup {x}
  <1> DEFINE S == ToSet(s) \cup {x}
  <1>1. s \in Seq(S)
    BY SeqMonotonic DEF Sequence
  <1>2. /\ Append(s, x) \in Seq(S)
        /\ Len(Append(s, x)) = Len(s) + 1
        /\ \A i \in 1 .. Len(s) : Append(s, x)[i] = s[i]
        /\ Append(s, x)[Len(s) + 1] = x
    BY <1>1, AppendProperties
  <1> HIDE DEF S
  <1>3. DOMAIN Append(s, x) = 1 .. Len(s) + 1 /\ Len(s) \in Nat /\ DOMAIN s = 1 .. Len(s)
    BY <1>1, <1>2, LenProperties
  <1>4. ToSet(Append(s, x)) = ToSet(s) \cup {x}
    BY <1>2, <1>3 DEF ToSet
  <1>5. QED
    BY <1>2, <1>3, <1>4 DEF Sequence, S

\* The elements of a concatenation are those of its two parts, in order.
LEMMA ConcatFacts ==
    ASSUME NEW s, Sequence(s), NEW t, Sequence(t)
    PROVE  /\ Sequence(s \o t)
           /\ Len(s \o t) = Len(s) + Len(t)
           /\ DOMAIN (s \o t) = 1 .. Len(s) + Len(t)
           /\ \A i \in 1 .. Len(s) : (s \o t)[i] = s[i]
           /\ \A i \in 1 .. Len(s) + Len(t) : i > Len(s) => (s \o t)[i] = t[i - Len(s)]
           /\ ToSet(s \o t) = ToSet(s) \cup ToSet(t)
  <1> DEFINE S == ToSet(s) \cup ToSet(t)
  <1>1. s \in Seq(S) /\ t \in Seq(S)
    BY SeqMonotonic DEF Sequence
  <1> HIDE DEF S
  <1>2. /\ s \o t \in Seq(S)
        /\ Len(s \o t) = Len(s) + Len(t)
        /\ \A i \in 1 .. Len(s) + Len(t) : (s \o t)[i] = IF i <= Len(s) THEN s[i] ELSE t[i - Len(s)]
    BY <1>1, ConcatProperties
  <1>3. /\ DOMAIN (s \o t) = 1 .. Len(s) + Len(t)
        /\ Len(s) \in Nat /\ DOMAIN s = 1 .. Len(s)
        /\ Len(t) \in Nat /\ DOMAIN t = 1 .. Len(t)
    BY <1>1, <1>2, LenProperties
  <1>4. ToSet(s \o t) = ToSet(s) \cup ToSet(t)
    <2>1. ToSet(s \o t) \subseteq ToSet(s) \cup ToSet(t)
      BY <1>2, <1>3 DEF ToSet
    <2>2. \A i \in 1 .. Len(s) : s[i] \in ToSet(s \o t)
      BY <1>2, <1>3 DEF ToSet
    <2>3. \A i \in 1 .. Len(t) : t[i] = (s \o t)[Len(s) + i] /\ Len(s) + i \in 1 .. Len(s) + Len(t)
      BY <1>2, <1>3
    <2>4. \A i \in 1 .. Len(t) : t[i] \in ToSet(s \o t)
      BY <2>3, <1>3 DEF ToSet
    <2>5. QED
      BY <2>1, <2>2, <2>4, <1>3 DEF ToSet
  <1>5. QED
    BY <1>2, <1>3, <1>4 DEF Sequence, S

\* Tail drops the first element and keeps the others.
LEMMA TailFacts ==
    ASSUME NEW s, Sequence(s), s # <<>>
    PROVE  /\ Sequence(Tail(s)) /\ Len(Tail(s)) = Len(s) - 1
           /\ \A i \in 1 .. Len(s) - 1 : Tail(s)[i] = s[i + 1]
           /\ ToSet(Tail(s)) \subseteq ToSet(s)
           /\ Head(s) \in ToSet(s)
  <1> DEFINE S == ToSet(s)
  <1>0. s \in Seq(S)
    BY DEF Sequence
  <1> HIDE DEF S
  <1>1. /\ Head(s) \in S
        /\ Tail(s) \in Seq(S)
        /\ Len(Tail(s)) = Len(s)-1
        /\ \A i \in 1 .. Len(Tail(s)) : Tail(s)[i] = s[i+1]
    BY <1>0, HeadTailProperties
  <1>2. Len(Tail(s)) \in Nat /\ DOMAIN Tail(s) = 1 .. Len(Tail(s)) /\ Tail(s) \in [1 .. Len(Tail(s)) -> S]
    BY <1>1, LenProperties
  <1>3. Sequence(Tail(s))
    <2> DEFINE t == Tail(s)
    <2> HIDE DEF t
    <2>1. t \in [1 .. Len(t) -> S] /\ Len(t) \in Nat
      BY <1>2 DEF t
    <2>2. t \in [1 .. Len(t) -> ToSet(t)]
      BY <2>1 DEF ToSet
    <2>3. QED
      BY <2>1, <2>2, SeqDef DEF Sequence, t
  <1>4. ToSet(Tail(s)) \subseteq ToSet(s)
    BY <1>2 DEF ToSet, S
  <1>5. QED
    BY <1>1, <1>3, <1>4 DEF S

\* A function on 1 .. k is a sequence of length k.
LEMMA FunctionSequence ==
    ASSUME NEW f, NEW k \in Nat, f = [i \in 1 .. k |-> f[i]]
    PROVE  Sequence(f) /\ Len(f) = k
  <1>1. f \in [1 .. k -> ToSet(f)]
    BY DEF ToSet
  <1>2. QED
    BY <1>1, SeqDef, LenProperties DEF Sequence

\* SetToSeq lists every element of a finite set once.
LEMMA OrderFacts ==
    ASSUME NEW S, IsFiniteSet(S)
    PROVE  /\ Cardinality(S) \in Nat
           /\ SetToSeq(S) \in [1 .. Cardinality(S) -> S]
           /\ IsInjective(SetToSeq(S))
           /\ Sequence(SetToSeq(S)) /\ Len(SetToSeq(S)) = Cardinality(S)
  <1>1. Cardinality(S) \in Nat /\ ExistsBijection(1 .. Cardinality(S), S)
    BY FS_CardinalityType
  <1>2. PICK f \in [1 .. Cardinality(S) -> S] : IsInjective(f)
    BY <1>1 DEF ExistsBijection, Bijection, Injection, IsInjective
  <1>3. SetToSeq(S) \in [1 .. Cardinality(S) -> S] /\ IsInjective(SetToSeq(S))
    BY <1>2 DEF SetToSeq
  <1>4. QED
    BY <1>1, <1>3, FunctionSequence

-----------------------------------------------------------------------------
(* The invariant *)

FunctionOn(f, S) == f = [x \in S |-> f[x]]

Shapes ==
    /\ situation \in Situations
    /\ Sequence(published) /\ Sequence(blocks)
    /\ FunctionOn(chain, Nodes) /\ FunctionOn(pending, Nodes)
    /\ FunctionOn(elections, Nodes) /\ FunctionOn(paillier, Nodes) /\ FunctionOn(importing, Nodes)
    /\ \A n \in Nodes : Sequence(chain[n]) /\ Sequence(pending[n]) /\ Sequence(paillier[n])
    /\ aborted \subseteq Nodes

\* Every transaction is of one type and names an election or a tally there is.
PublishedInv ==
    /\ \A h \in Hashes : published[h].type \in {"election", "vote", "tally", "trusteeTally"}
    /\ \A h \in OfType("election") \cup OfType("vote") \cup OfType("tally") :
         published[h].election \in Elections
    /\ \A h \in OfType("vote") : published[h].key \in Voters[published[h].election]
    /\ \A h \in OfType("tally") : published[h].endElection \in BOOLEAN
    /\ \A t \in OfType("trusteeTally") : published[t].tally \in OfType("tally")
    /\ \A g, h \in OfType("election") : published[g].election = published[h].election => g = h

BlocksInv ==
    \A b \in DOMAIN blocks :
        /\ blocks[b].previous \in 0 .. b - 1
        /\ BlockTxs(b) \subseteq Hashes
        /\ Sequence(blocks[b].transactions) /\ IsInjective(blocks[b].transactions)

ChainOK(n) ==
    /\ ToSet(chain[n]) \subseteq DOMAIN blocks
    /\ \A t \in OfType("trusteeTally") :
         ContainsTransaction(n, t) => ContainsTransaction(n, published[t].tally)

\* What is still to be processed is on the chain, each transaction once, and no
\* election among it has an entry already.
PendingOK(n) ==
    /\ IsInjective(pending[n])
    /\ \A h \in ToSet(pending[n]) : h \in Hashes /\ ContainsTransaction(n, h)
    /\ \A h \in ToSet(pending[n]) \cap OfType("election") :
         published[h].election \notin DOMAIN elections[n]

Manager(em) ==
    em = [ended |-> em.ended, votesRegistered |-> em.votesRegistered, myVotes |-> em.myVotes,
          tallies |-> em.tallies, results |-> em.results]

\* An entry says what the chain of its node says.
Backed(n, e, em) ==
    /\ em.votesRegistered \subseteq {published[h].key : h \in OnChain(n, e, "vote")}
    /\ em.ended => \E h \in OnChain(n, e, "tally") : published[h].endElection
    /\ DOMAIN em.tallies \subseteq OnChain(n, e, "tally")
    /\ \A h \in DOMAIN em.tallies :
         em.tallies[h] \subseteq {t \in OnChain(n, e, "trusteeTally") : published[t].tally = h}
    /\ \A h \in DOMAIN em.results : Cardinality(em.tallies[h]) >= Threshold[e]

EntryInv(n, e, em) ==
    e \in Elections /\ ContainsElection(n, e) /\ Manager(em) /\ ManagerOK(em, e) /\ Backed(n, e, em)

EntriesOK(n) == \A e \in DOMAIN elections[n] : EntryInv(n, e, elections[n][e])

KeysInv ==
    \A n \in Nodes :
        importing[n] \cup ToSet(paillier[n]) \subseteq
            [election : Elections, key : UNION {Trustees[e] : e \in Elections}]

Inv ==
    /\ Shapes /\ PublishedInv /\ BlocksInv /\ KeysInv
    /\ \A n \in Nodes : ChainOK(n) /\ PendingOK(n) /\ EntriesOK(n)

\* The invariant holds initially.
LEMMA InvInit == Init => Inv
  <1> SUFFICES ASSUME Init PROVE Inv
    OBVIOUS
  <1> USE DEF Init
  <1>1. Sequence(<<>>) /\ ToSet(<<>>) = {} /\ IsInjective(<<>>) /\ DOMAIN <<>> = {}
    BY DEF Sequence, ToSet, IsInjective
  <1>2. Hashes = {} /\ DOMAIN blocks = {}
    BY <1>1 DEF Hashes
  <1>3. Shapes
    BY <1>1 DEF Shapes, FunctionOn
  <1>4. PublishedInv /\ BlocksInv /\ KeysInv
    BY <1>1, <1>2 DEF PublishedInv, BlocksInv, KeysInv, OfType
  <1>5. \A n \in Nodes : ChainOK(n) /\ PendingOK(n) /\ EntriesOK(n)
    BY <1>1, <1>2 DEF ChainOK, PendingOK, EntriesOK, OfType
  <1>6. QED
    BY <1>3, <1>4, <1>5 DEF Inv

-----------------------------------------------------------------------------
(* Nothing that is published, mined or on a chain goes away *)

Extends(f, g) == DOMAIN f \subseteq DOMAIN g /\ \A x \in DOMAIN f : g[x] = f[x]

Grows ==
    /\ Extends(published, published') /\ Extends(blocks, blocks')
    /\ \A n \in Nodes : Extends(chain[n], chain'[n])
    /\ UNCHANGED situation

\* What is published, mined or on a chain is so after a step, and says the same.
LEMMA GrowsFacts ==
    ASSUME Inv, Grows
    PROVE  /\ \A h \in Hashes : h \in Hashes' /\ published'[h] = published[h]
           /\ \A type : OfType(type) \subseteq OfType(type)'
           /\ \A type : OfType(type)' \cap Hashes \subseteq OfType(type)
           /\ \A h \in Hashes : ElectionOf(h)' = ElectionOf(h)
           /\ \A b \in DOMAIN blocks : b \in DOMAIN blocks' /\ BlockTxs(b)' = BlockTxs(b)
           /\ \A n \in Nodes : \A h : ContainsTransaction(n, h) => ContainsTransaction(n, h)'
           /\ \A n \in Nodes : \A e : ContainsElection(n, e) => ContainsElection(n, e)'
           /\ \A n \in Nodes : \A e, type : OnChain(n, e, type) \subseteq OnChain(n, e, type)'
  <1>1. \A h \in Hashes : h \in Hashes' /\ published'[h] = published[h]
    BY DEF Grows, Extends, Hashes
  <1>2. \A type : OfType(type) \subseteq OfType(type)' /\ OfType(type)' \cap Hashes \subseteq OfType(type)
    BY <1>1 DEF OfType
  <1>3. \A h \in Hashes : ElectionOf(h)' = ElectionOf(h)
    BY <1>1 DEF ElectionOf, Inv, PublishedInv, OfType
  <1>4. \A b \in DOMAIN blocks : b \in DOMAIN blocks' /\ BlockTxs(b)' = BlockTxs(b)
    BY DEF Grows, Extends, BlockTxs
  <1>5. \A n \in Nodes : ToSet(chain[n]) \subseteq ToSet(chain[n])' /\ ToSet(chain[n]) \subseteq DOMAIN blocks
    BY DEF Grows, Extends, ToSet, Inv, ChainOK
  <1>6. \A n \in Nodes : \A h : ContainsTransaction(n, h) => ContainsTransaction(n, h)'
    BY <1>4, <1>5 DEF ContainsTransaction
  <1>7. \A n \in Nodes : \A e : ContainsElection(n, e) => ContainsElection(n, e)'
    BY <1>1, <1>2, <1>6 DEF ContainsElection, OfType
  <1>8. \A n \in Nodes : \A e, type : OnChain(n, e, type) \subseteq OnChain(n, e, type)'
    BY <1>2, <1>3, <1>6 DEF OnChain, OfType
  <1>9. QED
    BY <1>1, <1>2, <1>3, <1>4, <1>6, <1>7, <1>8

\* What an entry says stays true.
LEMMA EntryKept ==
    ASSUME Inv, Grows, NEW n \in Nodes, NEW e, NEW em, EntryInv(n, e, em)
    PROVE  EntryInv(n, e, em)'
  <1> USE GrowsFacts DEF EntryInv
  <1>1. ContainsElection(n, e)'
    OBVIOUS
  <1>2. ManagerOK(em, e)'
    BY DEF ManagerOK
  <1>3. Backed(n, e, em)'
    <2> USE DEF Backed
    <2>1. OnChain(n, e, "vote") \subseteq Hashes /\ OnChain(n, e, "tally") \subseteq Hashes
          /\ OnChain(n, e, "trusteeTally") \subseteq Hashes
      BY DEF OnChain, OfType
    <2>2. {published[h].key : h \in OnChain(n, e, "vote")} \subseteq {published[h].key : h \in OnChain(n, e, "vote")}'
      BY <2>1
    <2>3. \A h : {t \in OnChain(n, e, "trusteeTally") : published[t].tally = h}
                   \subseteq {t \in OnChain(n, e, "trusteeTally") : published[t].tally = h}'
      BY <2>1
    <2>4. Threshold' = Threshold
      BY DEF Threshold, Grows
    <2>5. QED
      BY <2>1, <2>2, <2>3, <2>4
  <1>4. QED
    BY <1>1, <1>2, <1>3 DEF Manager

\* What is to be processed stays on the chain.
LEMMA PendingKept ==
    ASSUME Inv, Grows, NEW n \in Nodes,
           \/ pending'[n] = pending[n] \/ pending'[n] = <<>>
           \/ pending[n] # <<>> /\ pending'[n] = Tail(pending[n]),
           \A h \in ToSet(pending'[n]) \cap OfType("election") :
             published[h].election \notin DOMAIN elections'[n]
    PROVE  PendingOK(n)' /\ Sequence(pending[n])'
  <1>0. Sequence(pending[n]) /\ PendingOK(n)
    BY DEF Inv, Shapes
  <1>1. Sequence(<<>>) /\ ToSet(<<>>) = {} /\ IsInjective(<<>>)
    BY DEF Sequence, ToSet, IsInjective
  <1>2. pending[n] # <<>> => Sequence(Tail(pending[n])) /\ ToSet(Tail(pending[n])) \subseteq ToSet(pending[n])
    BY <1>0, TailFacts
  <1>3. pending[n] # <<>> => IsInjective(Tail(pending[n]))
    <2> SUFFICES ASSUME pending[n] # <<>> PROVE IsInjective(Tail(pending[n]))
      OBVIOUS
    <2> DEFINE s == pending[n]  t == Tail(s)
    <2>1. Sequence(s) /\ s # <<>> /\ IsInjective(s)
      BY <1>0 DEF PendingOK
    <2> HIDE DEF s
    <2>2. /\ \A i \in 1 .. Len(s) - 1 : t[i] = s[i + 1]
          /\ Len(s) \in Nat /\ DOMAIN s = 1 .. Len(s) /\ DOMAIN t = 1 .. Len(s) - 1
      BY <2>1, TailFacts, SequenceFacts
    <2>3. QED
      BY SMTT(30), <2>1, <2>2 DEF IsInjective, s
  <1>4. Sequence(pending'[n]) /\ IsInjective(pending'[n]) /\ ToSet(pending'[n]) \subseteq ToSet(pending[n])
    BY <1>0, <1>1, <1>2, <1>3 DEF PendingOK
  <1>5. \A h \in ToSet(pending'[n]) : h \in Hashes' /\ ContainsTransaction(n, h)'
    BY <1>0, <1>4, GrowsFacts DEF PendingOK
  <1>6. \A h \in ToSet(pending'[n]) \cap OfType("election")' : h \in OfType("election") /\ published'[h] = published[h]
    BY <1>0, <1>4, GrowsFacts DEF PendingOK
  <1>7. QED
    BY <1>4, <1>5, <1>6 DEF PendingOK

\* A chain that does not change stays in order.
LEMMA ChainKept ==
    ASSUME Inv, Grows, NEW n \in Nodes, chain'[n] = chain[n]
    PROVE  ChainOK(n)' /\ Sequence(chain[n])'
  <1> USE GrowsFacts
  <1>1. ChainOK(n) /\ Sequence(chain[n]) /\ BlocksInv
    BY DEF Inv, Shapes
  <1>2. \A b \in ToSet(chain[n]) : b \in DOMAIN blocks /\ BlockTxs(b)' = BlockTxs(b) /\ BlockTxs(b) \subseteq Hashes
    BY <1>1 DEF ChainOK, BlocksInv
  <1>3. \A t \in OfType("trusteeTally")' : ContainsTransaction(n, t)' => ContainsTransaction(n, published[t].tally)'
    <2> SUFFICES ASSUME NEW t \in OfType("trusteeTally")', ContainsTransaction(n, t)'
                 PROVE  ContainsTransaction(n, published[t].tally)'
      OBVIOUS
    <2>1. ContainsTransaction(n, t) /\ t \in Hashes
      BY <1>2 DEF ContainsTransaction
    <2>2. t \in OfType("trusteeTally") /\ published'[t] = published[t]
      BY <2>1
    <2>3. QED
      BY <1>1, <2>1, <2>2 DEF ChainOK
  <1>4. QED
    BY <1>1, <1>2, <1>3 DEF ChainOK

\* Blocks that are there stay in order.
LEMMA BlocksKept ==
    ASSUME Inv, Grows, blocks' = blocks
    PROVE  BlocksInv' /\ Sequence(blocks)'
  BY GrowsFacts DEF Inv, Shapes, BlocksInv, BlockTxs

-----------------------------------------------------------------------------
(* Publishing *)

\* A transaction users or trustees may publish
Publishable(tx) ==
    \/ \E e \in Elections : tx = TxElection(e) /\ \A h \in OfType("election") : published[h].election # e
    \/ \E e \in Elections : \E k \in Voters[e] : \E b : tx = TxVote(e, k, b)
    \/ \E e \in Elections, end \in BOOLEAN : \E last : tx = TxTally(e, last, end)
    \/ \E h \in OfType("tally") : \E k, sums : tx = TxTrusteeTally(h, k, sums)

\* A transaction that may be published is well formed.
LEMMA PublishableFacts ==
    ASSUME NEW tx, Publishable(tx)
    PROVE  /\ tx.type \in {"election", "vote", "tally", "trusteeTally"}
           /\ tx.type \in {"election", "vote", "tally"} => tx.election \in Elections
           /\ tx.type = "vote" => tx.key \in Voters[tx.election]
           /\ tx.type = "tally" => tx.endElection \in BOOLEAN
           /\ tx.type = "trusteeTally" => tx.tally \in OfType("tally")
           /\ tx.type = "election" => \A h \in OfType("election") : published[h].election # tx.election
  <1>1. CASE \E e \in Elections : tx = TxElection(e) /\ \A h \in OfType("election") : published[h].election # e
    BY <1>1 DEF TxElection
  <1>2. CASE \E e \in Elections : \E k \in Voters[e] : \E b : tx = TxVote(e, k, b)
    <2>1. PICK e \in Elections : \E k \in Voters[e] : \E b : tx = TxVote(e, k, b)
      BY <1>2
    <2>2. PICK k \in Voters[e] : \E b : tx = TxVote(e, k, b)
      BY <2>1
    <2>3. QED
      BY <2>2 DEF TxVote
  <1>3. CASE \E e \in Elections, end \in BOOLEAN : \E last : tx = TxTally(e, last, end)
    <2>1. PICK e \in Elections, end \in BOOLEAN : \E last : tx = TxTally(e, last, end)
      BY <1>3
    <2>2. QED
      BY <2>1 DEF TxTally
  <1>4. CASE \E h \in OfType("tally") : \E k, sums : tx = TxTrusteeTally(h, k, sums)
    <2>1. PICK h \in OfType("tally") : \E k, sums : tx = TxTrusteeTally(h, k, sums)
      BY <1>4
    <2>2. QED
      BY <2>1 DEF TxTrusteeTally
  <1>5. QED
    BY <1>1, <1>2, <1>3, <1>4 DEF Publishable

\* What is published are such transactions, one election at a time.
Publishes ==
    /\ Sequence(published') /\ Extends(published, published')
    /\ \A h \in Hashes' \ Hashes : Publishable(published'[h])
    /\ \A g, h \in Hashes' \ Hashes : published'[g].type = "election" => g = h

\* Publishing well-formed transactions keeps PublishedInv.
LEMMA PublishesInv ==
    ASSUME Inv, Publishes
    PROVE  PublishedInv' /\ Sequence(published)'
  <1> DEFINE Fresh == Hashes' \ Hashes
  <1>1. PublishedInv
    BY DEF Inv
  <1>2. \A h \in Hashes : h \in Hashes' /\ published'[h] = published[h]
    BY DEF Publishes, Extends, Hashes
  <1>3. \A h \in Hashes' : h \in Hashes \/ Publishable(published'[h])
    BY DEF Publishes
  <1>4. \A type : OfType(type)' \cap Hashes = OfType(type)
    BY <1>2 DEF OfType
  <1> USE PublishableFacts
  <1>5. \A h \in Hashes' : published'[h].type \in {"election", "vote", "tally", "trusteeTally"}
    BY <1>1, <1>2, <1>3 DEF PublishedInv
  <1>6. \A h \in OfType("election")' \cup OfType("vote")' \cup OfType("tally")' :
          published'[h].election \in Elections
    <2> SUFFICES ASSUME NEW h \in Hashes', published'[h].type \in {"election", "vote", "tally"}
                 PROVE  published'[h].election \in Elections
      BY DEF OfType
    <2>1. CASE h \in Hashes
      BY <2>1, <1>1, <1>2 DEF PublishedInv, OfType
    <2>2. CASE h \notin Hashes
      BY <2>2, <1>3
    <2>3. QED
      BY <2>1, <2>2
  <1>7. \A h \in OfType("vote")' : published'[h].key \in Voters[published'[h].election]
    <2> SUFFICES ASSUME NEW h \in Hashes', published'[h].type = "vote"
                 PROVE  published'[h].key \in Voters[published'[h].election]
      BY DEF OfType
    <2>1. CASE h \in Hashes
      BY <2>1, <1>1, <1>2 DEF PublishedInv, OfType
    <2>2. CASE h \notin Hashes
      BY <2>2, <1>3
    <2>3. QED
      BY <2>1, <2>2
  <1>8. \A h \in OfType("tally")' : published'[h].endElection \in BOOLEAN
    <2> SUFFICES ASSUME NEW h \in Hashes', published'[h].type = "tally"
                 PROVE  published'[h].endElection \in BOOLEAN
      BY DEF OfType
    <2>1. CASE h \in Hashes
      BY <2>1, <1>1, <1>2 DEF PublishedInv, OfType
    <2>2. CASE h \notin Hashes
      BY <2>2, <1>3
    <2>3. QED
      BY <2>1, <2>2
  <1>9. \A t \in OfType("trusteeTally")' : published'[t].tally \in OfType("tally")'
    <2> SUFFICES ASSUME NEW t \in Hashes', published'[t].type = "trusteeTally"
                 PROVE  published'[t].tally \in OfType("tally")
      BY <1>4 DEF OfType
    <2>1. CASE t \in Hashes
      BY <2>1, <1>1, <1>2 DEF PublishedInv, OfType
    <2>2. CASE t \notin Hashes
      BY <2>2, <1>3
    <2>3. QED
      BY <2>1, <2>2
  <1>10. \A g, h \in OfType("election")' : published'[g].election = published'[h].election => g = h
    <2> SUFFICES ASSUME NEW g \in Hashes', NEW h \in Hashes',
                        published'[g].type = "election", published'[h].type = "election",
                        published'[g].election = published'[h].election
                 PROVE  g = h
      BY DEF OfType
    <2>1. \A x \in Hashes', y \in Hashes :
            x \notin Hashes /\ published'[x].type = "election" /\ published[y].type = "election"
              => published'[x].election # published[y].election
      BY <1>3 DEF OfType
    <2>2. CASE g \in Hashes /\ h \in Hashes
      BY <2>2, <1>1, <1>2 DEF PublishedInv, OfType
    <2>3. CASE g \notin Hashes /\ h \notin Hashes
      BY <2>3 DEF Publishes
    <2>4. CASE g \in Hashes /\ h \notin Hashes
      BY <2>1, <2>4, <1>2
    <2>5. CASE g \notin Hashes /\ h \in Hashes
      BY <2>1, <2>5, <1>2
    <2>6. QED
      BY <2>2, <2>3, <2>4, <2>5
  <1>11. QED
    BY <1>5, <1>6, <1>7, <1>8, <1>9, <1>10 DEF PublishedInv, Publishes

\* One transaction is published.
LEMMA PublishOne ==
    ASSUME Inv, NEW tx, Publishable(tx), Publish(tx)
    PROVE  Publishes
  <1>1. Sequence(published)
    BY DEF Inv, Shapes
  <1>2. /\ Sequence(published')
        /\ DOMAIN published = 1 .. Len(published) /\ Len(published) \in Nat
        /\ DOMAIN published' = 1 .. Len(published) + 1
        /\ \A i \in 1 .. Len(published) : published'[i] = published[i]
        /\ published'[Len(published) + 1] = tx
    BY <1>1, AppendFacts, SequenceFacts DEF Publish
  <1>3. \A h \in Hashes' \ Hashes : h = Len(published) + 1
    BY <1>2 DEF Hashes
  <1>4. QED
    BY <1>2, <1>3 DEF Publishes, Extends, Hashes

\* Partial tallies are published for tallies there are.
LEMMA PublishTallies ==
    ASSUME Inv, NEW n, NEW signing, PublishTrusteeTallies(n, signing),
           NEW k \in Nat, DOMAIN signing = 1 .. k,
           \A i \in DOMAIN signing : signing[i].tally \in OfType("tally")
    PROVE  Publishes
  <1> DEFINE new == [i \in DOMAIN signing |-> TrusteeTally(n, signing[i].tally, signing[i].key)]
  <1>1. Sequence(published)
    BY DEF Inv, Shapes
  <1>2. Sequence(new) /\ Len(new) = k /\ DOMAIN new = 1 .. k
    <2>1. new = [i \in 1 .. k |-> new[i]]
      OBVIOUS
    <2> HIDE DEF new
    <2>2. Sequence(new) /\ Len(new) = k
      BY <2>1, FunctionSequence
    <2>3. QED
      BY <2>1, <2>2
  <1>3. \A i \in 1 .. k : Publishable(new[i]) /\ new[i].type = "trusteeTally"
    BY DEF Publishable, TrusteeTally, TxTrusteeTally
  <1>4. published' = published \o new
    BY DEF PublishTrusteeTallies
  <1> HIDE DEF new
  <1>5. /\ Sequence(published')
        /\ DOMAIN published = 1 .. Len(published) /\ Len(published) \in Nat
        /\ DOMAIN published' = 1 .. Len(published) + k
        /\ \A i \in 1 .. Len(published) : published'[i] = published[i]
        /\ \A i \in 1 .. Len(published) + k : i > Len(published) => published'[i] = new[i - Len(published)]
    BY ZenonT(60), <1>1, <1>2, <1>4, ConcatFacts, SequenceFacts
  <1>6. \A h \in Hashes' \ Hashes : h - Len(published) \in 1 .. k /\ published'[h] = new[h - Len(published)]
    BY <1>5 DEF Hashes
  <1>7. \A h \in Hashes' \ Hashes : Publishable(published'[h]) /\ published'[h].type = "trusteeTally"
    BY <1>3, <1>6
  <1>8. Extends(published, published')
    BY <1>5 DEF Extends
  <1>9. QED
    BY <1>5, <1>7, <1>8 DEF Publishes

\* Nothing is published.
LEMMA PublishNothing ==
    ASSUME Inv, UNCHANGED published
    PROVE  Publishes
  BY DEF Publishes, Extends, Hashes, Inv, Shapes

-----------------------------------------------------------------------------
(* What users publish, and crashes *)

\* An entry and what a result says, once there, stay (EndedIsFinal).
Finality ==
    \A n \in Nodes : \A e \in DOMAIN elections[n] :
        /\ e \in DOMAIN elections'[n]
        /\ elections[n][e].ended => elections'[n][e].ended
        /\ \A h \in DOMAIN elections[n][e].results :
             /\ h \in DOMAIN elections'[n][e].results
             /\ elections'[n][e].results[h] = elections[n][e].results[h]

\* Steps that leave blocks, chains and entries alone.
LEMMA QuietStep ==
    ASSUME Inv, Publishes, KeysInv', aborted' \subseteq Nodes,
           UNCHANGED <<situation, blocks, chain, elections>>,
           FunctionOn(pending, Nodes)', FunctionOn(paillier, Nodes)', FunctionOn(importing, Nodes)',
           \A n \in Nodes : pending'[n] = pending[n] \/ pending'[n] = <<>>,
           \A n \in Nodes : Sequence(paillier[n])'
    PROVE  Inv' /\ Finality /\ Grows
  <1>1. Grows
    BY DEF Grows, Publishes, Extends
  <1>2. PublishedInv' /\ Sequence(published)' /\ BlocksInv' /\ Sequence(blocks)'
    BY <1>1, PublishesInv, BlocksKept
  <1>3. \A n \in Nodes : ChainOK(n)' /\ Sequence(chain[n])'
    BY <1>1, ChainKept
  <1>4. \A n \in Nodes : PendingOK(n)' /\ Sequence(pending[n])'
    <2> SUFFICES ASSUME NEW n \in Nodes PROVE PendingOK(n)' /\ Sequence(pending[n])'
      OBVIOUS
    <2>1. \A h \in ToSet(pending'[n]) \cap OfType("election") :
            published[h].election \notin DOMAIN elections'[n]
      BY DEF Inv, PendingOK, ToSet
    <2>2. QED
      BY <1>1, <2>1, PendingKept
  <1>5. \A n \in Nodes : EntriesOK(n)'
    BY <1>1, EntryKept DEF Inv, EntriesOK
  <1>6. Shapes'
    BY <1>2, <1>3, <1>4 DEF Shapes, Inv, FunctionOn
  <1>7. Finality
    BY DEF Finality
  <1>8. QED
    BY <1>1, <1>2, <1>3, <1>4, <1>5, <1>6, <1>7 DEF Inv

\* The other actions leave these alone.
LEMMA Unchanged ==
    ASSUME Inv, UNCHANGED <<situation, paillier, importing>>
    PROVE  /\ KeysInv' /\ FunctionOn(paillier, Nodes)' /\ FunctionOn(importing, Nodes)'
           /\ \A n \in Nodes : Sequence(paillier[n])'
  BY DEF Inv, Shapes, KeysInv, FunctionOn, Trustees

\* A new election keeps the invariant; no entry changes.
LEMMA CreateElectionInv ==
    ASSUME Inv, UNCHANGED situation, NEW e \in Elections, CreateElection(e)
    PROVE  Inv' /\ Finality /\ Grows
  <1> USE DEF CreateElection
  <1>1. Publishes
    BY PublishOne DEF Publishable
  <1>2. FunctionOn(pending, Nodes)' /\ aborted' \subseteq Nodes
    BY DEF Inv, Shapes, FunctionOn
  <1>3. QED
    BY <1>1, <1>2, QuietStep, Unchanged

\* So does a vote,
LEMMA VoteInv ==
    ASSUME Inv, UNCHANGED situation, NEW n \in Nodes, NEW e \in Elections, NEW k, NEW b, Vote(n, e, k, b)
    PROVE  Inv' /\ Finality /\ Grows
  <1> USE DEF Vote
  <1>1. Publishes
    BY PublishOne DEF Publishable
  <1>2. FunctionOn(pending, Nodes)' /\ aborted' \subseteq Nodes
    BY DEF Inv, Shapes, FunctionOn
  <1>3. QED
    BY <1>1, <1>2, QuietStep, Unchanged

\* a tally,
LEMMA TallyInv ==
    ASSUME Inv, UNCHANGED situation, NEW e \in Elections, NEW b, NEW end \in BOOLEAN, Tally(e, b, end)
    PROVE  Inv' /\ Finality /\ Grows
  <1>1. /\ Publish(TxTally(e, b, end))
        /\ UNCHANGED <<blocks, chain, pending, elections, paillier, importing, answering, imports, aborted>>
    BY DEF Tally
  <1>2. Publishable(TxTally(e, b, end))
    BY DEF Publishable
  <1>3. Publishes
    BY <1>1, <1>2, PublishOne
  <1>4. FunctionOn(pending, Nodes)' /\ aborted' \subseteq Nodes
    BY <1>1 DEF Inv, Shapes, FunctionOn
  <1>5. QED
    BY <1>1, <1>3, <1>4, QuietStep, Unchanged

\* The tallies of a node are finitely many, and so are the partial tallies.
LEMMA FiniteHashes == ASSUME Inv PROVE IsFiniteSet(Hashes)
  <1>1. Hashes = 1 .. Len(published) /\ Len(published) \in Nat
    BY SequenceFacts DEF Inv, Shapes, Hashes
  <1>2. QED
    BY <1>1, FS_Interval

\* A process that dies loses what is in memory.
LEMMA StoppedFacts ==
    ASSUME Inv, NEW n \in Nodes, Stopped(n)
    PROVE  /\ FunctionOn(pending, Nodes)' /\ FunctionOn(importing, Nodes)'
           /\ \A m \in Nodes : pending'[m] = pending[m] \/ pending'[m] = <<>>
           /\ \A m \in Nodes : importing'[m] \subseteq importing[m]
  <1>1. /\ pending = [m \in Nodes |-> pending[m]] /\ importing = [m \in Nodes |-> importing[m]]
        /\ pending' = [pending EXCEPT ![n] = <<>>]
        /\ importing' = [importing EXCEPT ![n] = {}]
    BY DEF Inv, Shapes, FunctionOn, Stopped
  <1>2. QED
    BY <1>1 DEF FunctionOn

\* the import of a Paillier key, whose partial tallies answer tallies there are,
LEMMA ImportKeyInv ==
    ASSUME Inv, UNCHANGED situation, NEW n \in Nodes, NEW e \in Elections, NEW k, ImportKey(n, e, k)
    PROVE  Inv' /\ Finality /\ Grows
  <1> DEFINE em == elections[n][e]
             unsigned == {h \in DOMAIN em.tallies : ~\E t \in em.tallies[h] : published[t].key = k}
             signing(S) == [i \in DOMAIN SetToSeq(S) |-> [tally |-> SetToSeq(S)[i], key |-> k]]
  <1>1. /\ e \in DOMAIN elections[n] /\ k \in TrusteeKeys[n] \cap Trustees[e]
        /\ UNCHANGED <<blocks, chain, elections, paillier>>
    BY DEF ImportKey
  <1>2. unsigned \subseteq OfType("tally")
    BY <1>1 DEF Inv, EntriesOK, EntryInv, ManagerOK
  <1>3. \A S \in SUBSET unsigned : PublishTrusteeTallies(n, signing(S)) => Publishes
    <2> SUFFICES ASSUME NEW S \in SUBSET unsigned, PublishTrusteeTallies(n, signing(S)) PROVE Publishes
      OBVIOUS
    <2> DEFINE q == SetToSeq(S)
    <2>1. IsFiniteSet(S)
      BY <1>2, FiniteHashes, FS_Subset DEF OfType
    <2>2. Cardinality(S) \in Nat /\ q \in [1 .. Cardinality(S) -> S]
      BY <2>1, OrderFacts
    <2>3. /\ DOMAIN signing(S) = 1 .. Cardinality(S)
          /\ \A i \in DOMAIN signing(S) : signing(S)[i].tally = q[i]
      BY <2>2
    <2> HIDE DEF q, signing, unsigned
    <2>4. QED
      BY <1>2, <2>2, <2>3, PublishTallies
  <1>4. /\ Publishes /\ aborted' \subseteq Nodes
        /\ FunctionOn(pending, Nodes)' /\ FunctionOn(importing, Nodes)'
        /\ \A m \in Nodes : pending'[m] = pending[m] \/ pending'[m] = <<>>
        /\ \A m \in Nodes : importing'[m] \subseteq importing[m] \cup {[election |-> e, key |-> k]}
    <2>1. CASE /\ PublishTrusteeTallies(n, signing(unsigned))
               /\ importing' = [importing EXCEPT ![n] = {[election |-> e, key |-> k]}]
               /\ UNCHANGED <<pending, answering, aborted>>
      <3>1. Publishes
        BY <1>3, <2>1
      <3>2. importing = [m \in Nodes |-> importing[m]] /\ FunctionOn(pending, Nodes) /\ aborted \subseteq Nodes
        BY DEF Inv, Shapes, FunctionOn
      <3>3. QED
        BY <2>1, <3>1, <3>2 DEF FunctionOn
    <2>2. CASE /\ \E S \in SUBSET unsigned : PublishTrusteeTallies(n, signing(S))
               /\ Abort(n)
      <3>1. Publishes
        BY <1>3, <2>2
      <3>2. Stopped(n) /\ aborted' \subseteq Nodes
        BY <2>2 DEF Abort, Inv, Shapes
      <3>3. QED
        BY <3>1, <3>2, StoppedFacts
    <2>3. QED
      BY <2>1, <2>2 DEF ImportKey
  <1>5. KeysInv' /\ FunctionOn(paillier, Nodes)' /\ \A m \in Nodes : Sequence(paillier[m])'
    BY <1>1, <1>4 DEF Inv, Shapes, KeysInv, FunctionOn, Trustees
  <1>6. QED
    BY <1>1, <1>4, <1>5, QuietStep

\* the saving of the key,
LEMMA SaveKeyInv ==
    ASSUME Inv, UNCHANGED situation, NEW n \in Nodes, SaveKey(n)
    PROVE  Inv' /\ Finality /\ Grows
  <1>1. PICK epk \in importing[n] :
          /\ paillier' = [paillier EXCEPT ![n] = Append(@, epk)]
          /\ importing' = [importing EXCEPT ![n] = {}]
          /\ UNCHANGED <<published, blocks, chain, pending, elections, answering, imports, aborted>>
    BY DEF SaveKey
  <1>2. /\ paillier = [m \in Nodes |-> paillier[m]] /\ importing = [m \in Nodes |-> importing[m]]
        /\ \A m \in Nodes : Sequence(paillier[m])
    BY DEF Inv, Shapes, FunctionOn
  <1>3. /\ FunctionOn(paillier, Nodes)' /\ FunctionOn(importing, Nodes)'
        /\ paillier'[n] = Append(paillier[n], epk) /\ importing'[n] = {}
        /\ \A m \in Nodes \ {n} : paillier'[m] = paillier[m] /\ importing'[m] = importing[m]
    BY <1>1, <1>2 DEF FunctionOn
  <1>4. Sequence(paillier'[n]) /\ ToSet(paillier'[n]) = ToSet(paillier[n]) \cup {epk}
    BY <1>2, <1>3, AppendFacts
  <1>5. KeysInv' /\ \A m \in Nodes : Sequence(paillier[m])'
    <2>1. \A m \in Nodes : importing'[m] \cup ToSet(paillier'[m]) \subseteq importing[m] \cup ToSet(paillier[m])
      BY <1>3, <1>4
    <2>2. Trustees' = Trustees
      BY DEF Trustees
    <2>3. KeysInv'
      BY <2>1, <2>2 DEF Inv, KeysInv
    <2>4. QED
      BY <1>2, <1>3, <1>4, <2>3
  <1>6. Publishes /\ FunctionOn(pending, Nodes)' /\ aborted' \subseteq Nodes
    BY <1>1, PublishNothing DEF Inv, Shapes, FunctionOn
  <1>7. QED
    BY <1>1, <1>3, <1>5, <1>6, QuietStep

\* and a crash.
LEMMA CrashInv ==
    ASSUME Inv, UNCHANGED situation, NEW n \in Nodes, Crash(n)
    PROVE  Inv' /\ Finality /\ Grows
  <1>1. Stopped(n) /\ UNCHANGED <<published, blocks, chain, elections, paillier, imports, aborted>>
    BY DEF Crash
  <1>2. Publishes /\ aborted' \subseteq Nodes
    BY <1>1, PublishNothing DEF Inv, Shapes
  <1>3. KeysInv' /\ FunctionOn(paillier, Nodes)' /\ \A m \in Nodes : Sequence(paillier[m])'
    BY <1>1, StoppedFacts DEF Inv, Shapes, KeysInv, FunctionOn, Trustees
  <1>4. QED
    BY <1>1, <1>2, <1>3, StoppedFacts, QuietStep

-----------------------------------------------------------------------------
(* Processing a transaction *)

\* The next transaction is on the chain, and not among those after it.
LEMMA NextTransaction ==
    ASSUME Inv, NEW n \in Nodes, NEW type, NextIs(n, type), NEW h, h = Head(pending[n])
    PROVE  /\ h \in OfType(type) /\ ContainsTransaction(n, h)
           /\ h \in ToSet(pending[n]) /\ h \notin ToSet(Tail(pending[n]))
           /\ ToSet(Tail(pending[n])) \subseteq ToSet(pending[n])
  <1> DEFINE s == pending[n]
  <1>1. Sequence(s) /\ s # <<>> /\ IsInjective(s)
    BY DEF Inv, Shapes, PendingOK, NextIs
  <1>2. /\ h \in ToSet(s) /\ ToSet(Tail(s)) \subseteq ToSet(s)
        /\ Sequence(Tail(s)) /\ Len(Tail(s)) = Len(s) - 1
        /\ \A i \in 1 .. Len(s) - 1 : Tail(s)[i] = s[i + 1]
        /\ h = s[1] /\ Len(s) \in Nat /\ Len(s) >= 1 /\ DOMAIN s = 1 .. Len(s)
    BY <1>1, TailFacts, SequenceFacts
  <1>3. h \notin ToSet(Tail(s))
    <2> DEFINE r == Tail(s)
    <2> HIDE DEF r, s
    <2>1. DOMAIN r = 1 .. Len(s) - 1
      BY <1>2, SequenceFacts DEF r
    <2>2. \A i \in DOMAIN r : r[i] # h
      BY <1>1, <1>2, <2>1 DEF IsInjective, r
    <2>3. QED
      BY <2>2 DEF ToSet, r
  <1>4. h \in Hashes /\ ContainsTransaction(n, h)
    BY <1>2 DEF Inv, PendingOK
  <1>5. QED
    BY <1>2, <1>3, <1>4 DEF OfType, NextIs

\* What saving an entry leaves alone.
LEMMA SaveFacts ==
    ASSUME Inv, NEW n \in Nodes, NEW e, NEW em, Save(n, e, em)
    PROVE  /\ FunctionOn(elections, Nodes)'
           /\ \A m \in Nodes \ {n} : elections'[m] = elections[m]
           /\ DOMAIN elections'[n] = DOMAIN elections[n] \cup {e}
           /\ \A f \in DOMAIN elections[n] \ {e} : elections'[n][f] = elections[n][f]
           /\ elections'[n][e] = em
  <1>1. elections = [m \in Nodes |-> elections[m]]
    BY DEF Inv, Shapes, FunctionOn
  <1>2. elections' = [elections EXCEPT ![n] = With(elections[n], e, em)]
    BY DEF Save
  <1>3. /\ elections' = [m \in Nodes |-> elections'[m]]
        /\ elections'[n] = With(elections[n], e, em)
        /\ \A m \in Nodes \ {n} : elections'[m] = elections[m]
    BY <1>1, <1>2
  <1>4. QED
    BY <1>3 DEF With, FunctionOn

\* The transaction is taken out of the pending ones.
LEMMA DoneFacts ==
    ASSUME Inv, NEW n \in Nodes, Done(n), UNCHANGED <<importing, aborted>>
    PROVE  /\ FunctionOn(pending, Nodes)' /\ FunctionOn(importing, Nodes)' /\ aborted' \subseteq Nodes
           /\ \A m \in Nodes \ {n} : pending'[m] = pending[m]
           /\ pending'[n] = Tail(pending[n])
           /\ \A m \in Nodes : importing'[m] = importing[m]
  <1>1. pending = [m \in Nodes |-> pending[m]] /\ FunctionOn(importing, Nodes) /\ aborted \subseteq Nodes
    BY DEF Inv, Shapes, FunctionOn
  <1>2. QED
    BY <1>1 DEF Done, FunctionOn

\* A step that processes the next transaction of n and may change the entry of e.
LEMMA ProcessStep ==
    ASSUME Inv, Publishes, UNCHANGED <<situation, blocks, chain, paillier>>, NEW n \in Nodes, NEW e,
           FunctionOn(importing, Nodes)', \A m \in Nodes : importing'[m] \subseteq importing[m],
           FunctionOn(pending, Nodes)', aborted' \subseteq Nodes,
           \A m \in Nodes \ {n} : pending'[m] = pending[m],
           pending[n] # <<>>, pending'[n] = Tail(pending[n]) \/ pending'[n] = <<>>,
           FunctionOn(elections, Nodes)', \A m \in Nodes \ {n} : elections'[m] = elections[m],
           DOMAIN elections[n] \subseteq DOMAIN elections'[n],
           DOMAIN elections'[n] \subseteq DOMAIN elections[n] \cup {e},
           \A f \in DOMAIN elections[n] \ {e} : elections'[n][f] = elections[n][f],
           e \in DOMAIN elections'[n] => EntryInv(n, e, elections[n][e])',
           e \in DOMAIN elections[n] =>
             /\ elections[n][e].ended => elections'[n][e].ended
             /\ \A h \in DOMAIN elections[n][e].results :
                  /\ h \in DOMAIN elections'[n][e].results
                  /\ elections'[n][e].results[h] = elections[n][e].results[h],
           e \in DOMAIN elections'[n] \ DOMAIN elections[n] =>
             \A h \in ToSet(Tail(pending[n])) \cap OfType("election") : published[h].election # e
    PROVE  Inv' /\ Finality /\ Grows
  <1>1. Grows
    BY DEF Grows, Publishes, Extends
  <1>2. PublishedInv' /\ Sequence(published)' /\ BlocksInv' /\ Sequence(blocks)'
    BY <1>1, PublishesInv, BlocksKept
  <1>3. \A m \in Nodes : ChainOK(m)' /\ Sequence(chain[m])'
    BY <1>1, ChainKept
  <1>4. \A m \in Nodes : PendingOK(m)' /\ Sequence(pending[m])'
    <2>1. ASSUME NEW m \in Nodes \ {n} PROVE PendingOK(m)' /\ Sequence(pending[m])'
      <3>1. \A h \in ToSet(pending'[m]) \cap OfType("election") :
              published[h].election \notin DOMAIN elections'[m]
        BY DEF Inv, PendingOK
      <3>2. QED
        BY <1>1, <3>1, PendingKept
    <2>2. PendingOK(n)' /\ Sequence(pending[n])'
      <3>1. Sequence(pending[n]) /\ PendingOK(n)
        BY DEF Inv, Shapes
      <3>2. ToSet(Tail(pending[n])) \subseteq ToSet(pending[n])
        BY <3>1, TailFacts
      <3>3. ToSet(<<>>) = {}
        BY DEF ToSet
      <3>4. \A h \in ToSet(pending'[n]) \cap OfType("election") :
              published[h].election \notin DOMAIN elections'[n]
        BY <3>1, <3>2, <3>3 DEF PendingOK
      <3>5. QED
        BY <1>1, <3>4, PendingKept
    <2>3. QED
      BY <2>1, <2>2
  <1>5. \A m \in Nodes : EntriesOK(m)'
    <2>1. ASSUME NEW m \in Nodes, NEW f \in DOMAIN elections'[m], m # n \/ f # e
          PROVE  EntryInv(m, f, elections[m][f])'
      <3>1. f \in DOMAIN elections[m] /\ elections'[m][f] = elections[m][f]
        BY <2>1
      <3>2. EntryInv(m, f, elections[m][f])
        BY <3>1 DEF Inv, EntriesOK
      <3>3. QED
        BY <1>1, <3>1, <3>2, EntryKept
    <2>2. QED
      BY <2>1 DEF EntriesOK
  <1>6. Shapes'
    BY <1>2, <1>3, <1>4 DEF Shapes, Inv, FunctionOn
  <1>7. Finality
    BY DEF Finality
  <1>8. KeysInv'
    BY DEF Inv, KeysInv, Trustees
  <1>9. QED
    BY <1>1, <1>2, <1>3, <1>4, <1>5, <1>6, <1>7, <1>8 DEF Inv

\* No other transaction creates the election of the next one.
LEMMA ProcessTxElectionInv ==
    ASSUME Inv, UNCHANGED situation, NEW n \in Nodes, ProcessTxElection(n)
    PROVE  Inv' /\ Finality /\ Grows
  <1> SUFFICES ASSUME NEW h, h = Head(pending[n]), NEW e, e = published[h].election,
                      NEW em, em = NewManager
               PROVE  Inv' /\ Finality /\ Grows
    OBVIOUS
  <1>1. /\ NextIs(n, "election") /\ Done(n)
        /\ UNCHANGED <<published, blocks, chain, paillier, importing, answering, imports, aborted>>
        /\ Save(n, e, em) \/ UNCHANGED elections
    BY DEF ProcessTxElection
  <1>2. /\ h \in OfType("election") /\ ContainsTransaction(n, h)
        /\ h \in ToSet(pending[n]) /\ h \notin ToSet(Tail(pending[n]))
        /\ ToSet(Tail(pending[n])) \subseteq ToSet(pending[n])
    BY <1>1, NextTransaction
  <1>3. \A g \in ToSet(Tail(pending[n])) \cap OfType("election") : published[g].election # e
    BY <1>2 DEF Inv, PublishedInv
  <1>4. Publishes
    BY <1>1, PublishNothing
  <1>5. Grows
    BY <1>1, <1>4 DEF Grows, Publishes, Extends
  <1>6. e \in Elections /\ e \notin DOMAIN elections[n]
    BY <1>2 DEF Inv, PublishedInv, PendingOK
  <1>7. EntryInv(n, e, em)'
    <2>1. ContainsElection(n, e)
      BY <1>2 DEF ContainsElection
    <2>2. ContainsElection(n, e)'
      BY <2>1, <1>5, GrowsFacts
    <2>3. Manager(em) /\ ManagerOK(em, e)'
      BY DEF Manager, ManagerOK, NewManager
    <2>4. Backed(n, e, em)'
      BY DEF Backed, NewManager
    <2>5. QED
      BY <1>6, <2>2, <2>3, <2>4 DEF EntryInv, Manager
  <1>8. pending[n] # <<>>
    BY <1>1 DEF NextIs
  <1>9. CASE Save(n, e, em)
    <2>1. EntryInv(n, e, elections[n][e])'
      BY <1>7, <1>9, SaveFacts
    <2>2. /\ FunctionOn(elections, Nodes)' /\ \A m \in Nodes \ {n} : elections'[m] = elections[m]
          /\ DOMAIN elections'[n] = DOMAIN elections[n] \cup {e}
          /\ \A f \in DOMAIN elections[n] \ {e} : elections'[n][f] = elections[n][f]
      BY <1>9, SaveFacts
    <2>3. /\ FunctionOn(pending, Nodes)' /\ FunctionOn(importing, Nodes)' /\ aborted' \subseteq Nodes
          /\ \A m \in Nodes \ {n} : pending'[m] = pending[m]
          /\ pending'[n] = Tail(pending[n])
          /\ \A m \in Nodes : importing'[m] \subseteq importing[m]
      BY <1>1, DoneFacts
    <2>4. QED
      BY SMTT(90), <1>1, <1>3, <1>4, <1>6, <1>8, <2>1, <2>2, <2>3, ProcessStep
  <1>10. CASE UNCHANGED elections
    <2>1. FunctionOn(elections, Nodes)'
      BY <1>10 DEF Inv, Shapes, FunctionOn
    <2>2. QED
      BY <1>1, <1>3, <1>4, <1>6, <1>8, <1>10, <2>1, DoneFacts, ProcessStep
  <1>11. QED
    BY <1>1, <1>9, <1>10

\* An entry that changes, after the next transaction was processed.
LEMMA SavedEntryInv ==
    ASSUME Inv, Publishes, UNCHANGED <<situation, blocks, chain, paillier>>,
           NEW n \in Nodes, pending[n] # <<>>,
           FunctionOn(importing, Nodes)', \A m \in Nodes : importing'[m] \subseteq importing[m],
           FunctionOn(pending, Nodes)', aborted' \subseteq Nodes,
           \A m \in Nodes \ {n} : pending'[m] = pending[m],
           pending'[n] = Tail(pending[n]) \/ pending'[n] = <<>>,
           NEW e \in DOMAIN elections[n], NEW em, Save(n, e, em), EntryInv(n, e, em)',
           elections[n][e].ended => em.ended,
           \A h \in DOMAIN elections[n][e].results :
             h \in DOMAIN em.results /\ em.results[h] = elections[n][e].results[h]
    PROVE  Inv' /\ Finality /\ Grows
  <1>1. EntryInv(n, e, elections[n][e])'
    BY SaveFacts
  <1>2. QED
    BY <1>1, SaveFacts, ProcessStep

\* ... or does not change.
LEMMA NoEntryInv ==
    ASSUME Inv, Publishes, UNCHANGED <<situation, blocks, chain, paillier, elections>>,
           NEW n \in Nodes, pending[n] # <<>>,
           FunctionOn(importing, Nodes)', \A m \in Nodes : importing'[m] \subseteq importing[m],
           FunctionOn(pending, Nodes)', aborted' \subseteq Nodes,
           \A m \in Nodes \ {n} : pending'[m] = pending[m],
           pending'[n] = Tail(pending[n]) \/ pending'[n] = <<>>
    PROVE  Inv' /\ Finality /\ Grows
  <1>1. Grows
    BY DEF Grows, Publishes, Extends
  <1>2. PICK e : TRUE
    OBVIOUS
  <1>3. FunctionOn(elections, Nodes)'
    BY DEF Inv, Shapes, FunctionOn
  <1>4. e \in DOMAIN elections[n] => EntryInv(n, e, elections[n][e])'
    BY <1>1, EntryKept DEF Inv, EntriesOK
  <1>5. QED
    BY <1>3, <1>4, ProcessStep

\* A vote that is processed is one of the chain: registering it keeps the entry true.
LEMMA ProcessTxVoteInv ==
    ASSUME Inv, UNCHANGED situation, NEW n \in Nodes, ProcessTxVote(n)
    PROVE  Inv' /\ Finality /\ Grows
  <1> SUFFICES ASSUME NEW h, h = Head(pending[n]), NEW e, e = published[h].election
               PROVE  Inv' /\ Finality /\ Grows
    OBVIOUS
  <1>1. /\ NextIs(n, "vote") /\ Done(n)
        /\ UNCHANGED <<published, blocks, chain, paillier, importing, answering, imports, aborted>>
        /\ IF e \in DOMAIN elections[n]
           THEN Save(n, e, VoteRegistered(n, elections[n][e], h))
           ELSE UNCHANGED elections
    BY DEF ProcessTxVote
  <1>2. pending[n] # <<>> /\ Publishes
    BY <1>1, PublishNothing DEF NextIs
  <1>3. CASE e \notin DOMAIN elections[n]
    BY <1>1, <1>2, <1>3, DoneFacts, NoEntryInv
  <1>4. ASSUME e \in DOMAIN elections[n], NEW old, old = elections[n][e],
               NEW em, em = VoteRegistered(n, old, h)
        PROVE  Inv' /\ Finality /\ Grows
    <2>1. Grows
      BY <1>1, <1>2 DEF Grows, Publishes, Extends
    <2>2. h \in OfType("vote") /\ ContainsTransaction(n, h) /\ published[h].key \in Voters[e]
      BY <1>1, NextTransaction DEF Inv, PublishedInv
    <2>3. EntryInv(n, e, old)
      BY <1>4 DEF Inv, EntriesOK
    <2>4. em = [old EXCEPT !.votesRegistered = @ \cup {published[h].key}, !.myVotes = MyVotes(n, old, h)]
      BY <1>4 DEF VoteRegistered
    <2>5. /\ em = [ended |-> old.ended, votesRegistered |-> old.votesRegistered \cup {published[h].key},
                   myVotes |-> MyVotes(n, old, h), tallies |-> old.tallies, results |-> old.results]
      BY <2>3, <2>4 DEF EntryInv, Manager
    <2>6. DOMAIN em.myVotes \subseteq em.votesRegistered
      BY <2>3, <2>5 DEF MyVotes, With, EntryInv, ManagerOK
    <2>7. h \in OnChain(n, e, "vote")
      BY <2>2 DEF OnChain, ElectionOf, OfType
    <2>8. EntryInv(n, e, em)
      <3>1. Manager(em)
        BY <2>5 DEF Manager
      <3>2. ManagerOK(em, e)
        BY <2>2, <2>3, <2>5, <2>6 DEF EntryInv, ManagerOK
      <3>3. Backed(n, e, em)
        BY <2>3, <2>5, <2>7 DEF EntryInv, Backed
      <3>4. QED
        BY <2>3, <3>1, <3>2, <3>3 DEF EntryInv
    <2>9. EntryInv(n, e, em)'
      BY <2>1, <2>8, EntryKept
    <2>10. Save(n, e, em)
      BY <1>1, <1>4
    <2>11. em.ended = old.ended /\ em.results = old.results
      BY <2>5
    <2>12. QED
      BY <1>1, <1>2, <1>4, <2>9, <2>10, <2>11, DoneFacts, SavedEntryInv
  <1>5. QED
    BY <1>3, <1>4

\* A tally that is ignored changes no entry.
LEMMA IgnoreTxTallyInv ==
    ASSUME Inv, UNCHANGED situation, NEW n \in Nodes, IgnoreTxTally(n)
    PROVE  Inv' /\ Finality /\ Grows
  <1>1. /\ NextIs(n, "tally") /\ Done(n)
        /\ UNCHANGED <<published, blocks, chain, elections, paillier, importing, answering, imports, aborted>>
    BY DEF IgnoreTxTally
  <1>2. pending[n] # <<>> /\ Publishes
    BY <1>1, PublishNothing DEF NextIs
  <1>3. QED
    BY <1>1, <1>2, DoneFacts, NoEntryInv

\* What registering a tally changes in an entry.
TallyChanges(old, h, em) ==
    /\ Manager(em) /\ em.ended = published[h].endElection
    /\ em.votesRegistered = old.votesRegistered
    /\ em.myVotes = old.myVotes /\ em.results = old.results
    /\ DOMAIN em.tallies = DOMAIN old.tallies \cup {h}
    /\ \A g \in DOMAIN old.tallies : em.tallies[g] = old.tallies[g]
    /\ h \notin DOMAIN old.tallies => em.tallies[h] = {}

\* TallyRegistered changes these fields and no others.
LEMMA TallyRegisteredFields ==
    ASSUME NEW old, Manager(old), NEW h
    PROVE  TallyChanges(old, h, TallyRegistered(old, h))
  <1> SUFFICES ASSUME NEW em, em = TallyRegistered(old, h), NEW end, end = published[h].endElection,
                      NEW tallies,
                      tallies = IF h \in DOMAIN old.tallies THEN old.tallies ELSE With(old.tallies, h, {})
               PROVE  TallyChanges(old, h, em)
    OBVIOUS
  <1>1. em = [old EXCEPT !.ended = end, !.tallies = tallies]
    BY DEF TallyRegistered
  <1>2. em = [ended |-> end, votesRegistered |-> old.votesRegistered, myVotes |-> old.myVotes,
              tallies |-> tallies, results |-> old.results]
    BY <1>1 DEF Manager
  <1>3. /\ DOMAIN tallies = DOMAIN old.tallies \cup {h}
        /\ \A g \in DOMAIN old.tallies : tallies[g] = old.tallies[g]
        /\ h \notin DOMAIN old.tallies => tallies[h] = {}
    BY DEF With
  <1>4. QED
    BY <1>2, <1>3 DEF Manager, TallyChanges

\* Tally h of the chain of n, for an entry of election e.
TallyTaken(n, e, old, h) ==
    EntryInv(n, e, old) /\ h \in OnChain(n, e, "tally") /\ published[h].endElection \in BOOLEAN

\* What may become of an entry that gets no result.
EntryStays(n, e, old, em) == EntryInv(n, e, em) /\ em.results = old.results

\* An entry stays true when a tally of the chain is registered.
LEMMA TallyEntry ==
    ASSUME NEW n, NEW e, NEW old, NEW h, TallyTaken(n, e, old, h)
    PROVE  EntryStays(n, e, old, TallyRegistered(old, h))
  <1> SUFFICES ASSUME NEW em, em = TallyRegistered(old, h)
               PROVE  EntryStays(n, e, old, em)
    OBVIOUS
  <1>0. EntryInv(n, e, old) /\ h \in OnChain(n, e, "tally") /\ published[h].endElection \in BOOLEAN
    BY DEF TallyTaken
  <1>1. /\ e \in Elections /\ ContainsElection(n, e) /\ Manager(old)
        /\ ManagerOK(old, e) /\ Backed(n, e, old)
    BY <1>0 DEF EntryInv
  <1>2. /\ Manager(em) /\ em.ended = published[h].endElection
        /\ em.votesRegistered = old.votesRegistered
        /\ em.myVotes = old.myVotes /\ em.results = old.results
        /\ DOMAIN em.tallies = DOMAIN old.tallies \cup {h}
        /\ \A g \in DOMAIN old.tallies : em.tallies[g] = old.tallies[g]
        /\ h \notin DOMAIN old.tallies => em.tallies[h] = {}
    <2>1. TallyChanges(old, h, em)
      BY <1>0, <1>1, TallyRegisteredFields
    <2>2. QED
      BY <2>1 DEF TallyChanges
  <1>3. /\ old.votesRegistered \subseteq Voters[e] /\ DOMAIN old.myVotes \subseteq old.votesRegistered
        /\ DOMAIN old.tallies \subseteq OfType("tally")
        /\ \A g \in DOMAIN old.tallies : old.tallies[g] \subseteq OfType("trusteeTally")
        /\ DOMAIN old.results \subseteq DOMAIN old.tallies
    BY <1>1 DEF ManagerOK
  <1>4. /\ old.votesRegistered \subseteq {published[g].key : g \in OnChain(n, e, "vote")}
        /\ DOMAIN old.tallies \subseteq OnChain(n, e, "tally")
        /\ \A g \in DOMAIN old.tallies :
             old.tallies[g] \subseteq {t \in OnChain(n, e, "trusteeTally") : published[t].tally = g}
        /\ \A g \in DOMAIN old.results : Cardinality(old.tallies[g]) >= Threshold[e]
    BY <1>1 DEF Backed
  <1>5. h \in OfType("tally")
    BY <1>0 DEF OnChain
  <1>6. \A g \in DOMAIN em.tallies :
          \/ g \in DOMAIN old.tallies /\ em.tallies[g] = old.tallies[g]
          \/ em.tallies[g] = {}
    BY <1>2
  <1>7. ManagerOK(em, e)
    BY <1>0, <1>2, <1>3, <1>5, <1>6 DEF ManagerOK
  <1>8. Backed(n, e, em)
    <2>1. \A g \in DOMAIN em.tallies :
            em.tallies[g] \subseteq {t \in OnChain(n, e, "trusteeTally") : published[t].tally = g}
      BY <1>4, <1>6
    <2>2. \A g \in DOMAIN em.results : em.tallies[g] = old.tallies[g] /\ g \in DOMAIN old.results
      BY <1>2, <1>3
    <2>3. \A g \in DOMAIN em.results : Cardinality(em.tallies[g]) >= Threshold[e]
      BY <1>4, <2>2
    <2>4. em.ended => \E g \in OnChain(n, e, "tally") : published[g].endElection
      BY <1>0, <1>2
    <2>5. QED
      BY <1>0, <1>2, <1>4, <2>1, <2>3, <2>4 DEF Backed
  <1>9. QED
    BY <1>1, <1>2, <1>7, <1>8 DEF EntryInv, EntryStays

\* A tally that is registered is one of the chain, and an entry that takes one has
\* not ended yet.
LEMMA RegisterTxTallyInv ==
    ASSUME Inv, UNCHANGED situation, NEW n \in Nodes, RegisterTxTally(n)
    PROVE  Inv' /\ Finality /\ Grows
  <1> SUFFICES ASSUME NEW h, h = Head(pending[n]), NEW e, e = published[h].election,
                      NEW old, old = elections[n][e]
               PROVE  Inv' /\ Finality /\ Grows
    OBVIOUS
  <1>1. /\ NextIs(n, "tally") /\ e \in DOMAIN elections[n] /\ ~old.ended
        /\ Save(n, e, TallyRegistered(old, h)) /\ Done(n)
        /\ UNCHANGED <<published, blocks, chain, paillier, importing, imports, aborted>>
    BY DEF RegisterTxTally, IgnoresTally
  <1>2. h \in OfType("tally") /\ ContainsTransaction(n, h) /\ published[h].endElection \in BOOLEAN
    BY <1>1, NextTransaction DEF Inv, PublishedInv
  <1>3. pending[n] # <<>> /\ Publishes
    BY <1>1, PublishNothing DEF NextIs
  <1>4. Grows
    BY <1>1, <1>3 DEF Grows, Publishes, Extends
  <1>5. EntryInv(n, e, old)
    BY <1>1 DEF Inv, EntriesOK
  <1>6. h \in OnChain(n, e, "tally")
    <2>1. ElectionOf(h) = e
      BY <1>2 DEF ElectionOf, OfType
    <2>2. QED
      BY <1>2, <2>1 DEF OnChain
  <1>7. PICK em : EntryInv(n, e, em) /\ em.results = old.results /\ Save(n, e, em)
    <2>1. published[h].endElection \in BOOLEAN
      BY <1>2
    <2>2. EntryStays(n, e, old, TallyRegistered(old, h))
      <3>1. TallyTaken(n, e, old, h)
        BY <1>5, <1>6, <2>1 DEF TallyTaken
      <3>2. QED
        BY <3>1, TallyEntry
    <2>3. QED
      BY <1>1, <2>2 DEF EntryStays
  <1>8. EntryInv(n, e, em)'
    BY <1>4, <1>7, EntryKept
  <1>9. QED
    BY <1>1, <1>3, <1>7, <1>8, DoneFacts, SavedEntryInv

\* The tallies that are registered and not answered are on the chain.
AnsweringOK ==
    /\ FunctionOn(answering, Nodes)
    /\ \A n \in Nodes : \A h \in answering[n] : h \in OfType("tally") /\ ContainsTransaction(n, h)

\* The partial tallies published then answer a tally there is; no entry changes.
LEMMA AnswerTxTallyInv ==
    ASSUME Inv, AnsweringOK, UNCHANGED situation, NEW n \in Nodes, NEW h \in answering[n],
           AnswerTxTally(n, h)
    PROVE  Inv' /\ Finality /\ Grows
  <1> SUFFICES ASSUME NEW e, e = published[h].election PROVE Inv' /\ Finality /\ Grows
    OBVIOUS
  <1> DEFINE saved == {i \in DOMAIN paillier[n] :
                         paillier[n][i].election = e /\ paillier[n][i].key \in TrusteeKeys[n] \cap Trustees[e]}
             order == SetToSeq(saved)
             signing == [i \in DOMAIN order |-> [tally |-> h, key |-> paillier[n][order[i]].key]]
  <1>1. /\ \/ Abort(n) /\ UNCHANGED published
           \/ PublishTrusteeTallies(n, signing) /\ UNCHANGED <<pending, importing, aborted>>
        /\ UNCHANGED <<blocks, chain, elections, paillier, imports>>
    BY DEF AnswerTxTally
  <1>2. Publishes
    <2>1. IsFiniteSet(saved)
      <3>1. Sequence(paillier[n])
        BY DEF Inv, Shapes
      <3>2. DOMAIN paillier[n] = 1 .. Len(paillier[n]) /\ Len(paillier[n]) \in Nat
        BY <3>1, SequenceFacts
      <3>3. IsFiniteSet(DOMAIN paillier[n])
        BY <3>2, FS_Interval
      <3>4. QED
        BY <3>3, FS_Subset
    <2>2. Cardinality(saved) \in Nat /\ DOMAIN order = 1 .. Cardinality(saved)
      BY <2>1, OrderFacts
    <2>3. /\ DOMAIN signing = 1 .. Cardinality(saved)
          /\ \A i \in DOMAIN signing : signing[i].tally = h
      BY <2>2
    <2>4. h \in OfType("tally")
      BY DEF AnsweringOK
    <2> HIDE DEF signing, order, saved
    <2>5. PublishTrusteeTallies(n, signing) => Publishes
      BY <2>2, <2>3, <2>4, PublishTallies
    <2>6. QED
      BY <1>1, <2>5, PublishNothing
  <1> HIDE DEF signing, order, saved
  <1>3. KeysInv' /\ FunctionOn(paillier, Nodes)' /\ \A m \in Nodes : Sequence(paillier[m])'
    BY <1>1, StoppedFacts DEF Abort, Inv, Shapes, KeysInv, FunctionOn, Trustees
  <1>4. /\ FunctionOn(importing, Nodes)' /\ FunctionOn(pending, Nodes)' /\ aborted' \subseteq Nodes
        /\ \A m \in Nodes : pending'[m] = pending[m] \/ pending'[m] = <<>>
    <2>1. CASE Abort(n)
      <3>1. Stopped(n) /\ aborted' \subseteq Nodes
        BY <2>1 DEF Abort, Inv, Shapes
      <3>2. QED
        BY <3>1, StoppedFacts
    <2>2. CASE UNCHANGED <<pending, importing, aborted>>
      BY <2>2 DEF Inv, Shapes, FunctionOn
    <2>3. QED
      BY <1>1, <2>1, <2>2
  <1>5. QED
    BY <1>1, <1>2, <1>3, <1>4, QuietStep

\* What registering the partial tallies S and the results changes in an entry.
PartsChange(old, h, S, results, em) ==
    /\ Manager(em) /\ em.ended = old.ended
    /\ em.votesRegistered = old.votesRegistered
    /\ em.myVotes = old.myVotes /\ em.results = results
    /\ DOMAIN em.tallies = DOMAIN old.tallies \cup {h}
    /\ \A g \in DOMAIN old.tallies \ {h} : em.tallies[g] = old.tallies[g]
    /\ em.tallies[h] = S

\* Saving partial tallies and results changes these fields and no others.
LEMMA PartsFields ==
    ASSUME NEW old, Manager(old), NEW h, NEW S, NEW results
    PROVE  PartsChange(old, h, S, results,
                       [old EXCEPT !.tallies = With(@, h, S), !.results = results])
  <1> SUFFICES ASSUME NEW em, em = [old EXCEPT !.tallies = With(@, h, S), !.results = results],
                      NEW tallies, tallies = With(old.tallies, h, S)
               PROVE  PartsChange(old, h, S, results, em)
    OBVIOUS
  <1>1. em = [ended |-> old.ended, votesRegistered |-> old.votesRegistered, myVotes |-> old.myVotes,
              tallies |-> tallies, results |-> results]
    BY DEF Manager
  <1>2. /\ DOMAIN tallies = DOMAIN old.tallies \cup {h}
        /\ \A g \in DOMAIN old.tallies \ {h} : tallies[g] = old.tallies[g]
        /\ tallies[h] = S
    BY DEF With
  <1>3. QED
    BY <1>1, <1>2 DEF Manager, PartsChange

\* An entry stays true when partial tallies of the chain are registered, and a
\* result when there are enough of them.
LEMMA PartsEntry ==
    ASSUME NEW n, NEW e, NEW old, EntryInv(n, e, old), NEW h, h \in OnChain(n, e, "tally"),
           NEW S, S \subseteq {u \in OnChain(n, e, "trusteeTally") : published[u].tally = h},
           NEW results, DOMAIN results \subseteq DOMAIN old.results \cup {h},
           h \in DOMAIN results => Cardinality(S) >= Threshold[e],
           NEW em, PartsChange(old, h, S, results, em)
    PROVE  EntryInv(n, e, em)
  <1>1. /\ e \in Elections /\ ContainsElection(n, e) /\ Manager(old)
        /\ ManagerOK(old, e) /\ Backed(n, e, old)
    BY DEF EntryInv
  <1>2. /\ Manager(em) /\ em.ended = old.ended
        /\ em.votesRegistered = old.votesRegistered
        /\ em.myVotes = old.myVotes /\ em.results = results
        /\ DOMAIN em.tallies = DOMAIN old.tallies \cup {h}
        /\ \A g \in DOMAIN old.tallies \ {h} : em.tallies[g] = old.tallies[g]
        /\ em.tallies[h] = S
    BY DEF PartsChange
  <1>3. /\ old.ended \in BOOLEAN
        /\ old.votesRegistered \subseteq Voters[e] /\ DOMAIN old.myVotes \subseteq old.votesRegistered
        /\ DOMAIN old.tallies \subseteq OfType("tally")
        /\ \A g \in DOMAIN old.tallies : old.tallies[g] \subseteq OfType("trusteeTally")
        /\ DOMAIN old.results \subseteq DOMAIN old.tallies
    BY <1>1 DEF ManagerOK
  <1>4. /\ old.votesRegistered \subseteq {published[g].key : g \in OnChain(n, e, "vote")}
        /\ old.ended => \E g \in OnChain(n, e, "tally") : published[g].endElection
        /\ DOMAIN old.tallies \subseteq OnChain(n, e, "tally")
        /\ \A g \in DOMAIN old.tallies :
             old.tallies[g] \subseteq {t \in OnChain(n, e, "trusteeTally") : published[t].tally = g}
        /\ \A g \in DOMAIN old.results : Cardinality(old.tallies[g]) >= Threshold[e]
    BY <1>1 DEF Backed
  <1>5. h \in OfType("tally") /\ S \subseteq OfType("trusteeTally")
    BY DEF OnChain
  <1>6. \A g \in DOMAIN em.tallies :
          \/ g = h /\ em.tallies[g] = S
          \/ g \in DOMAIN old.tallies /\ em.tallies[g] = old.tallies[g]
    BY <1>2
  <1>7. ManagerOK(em, e)
    <2>1. \A g \in DOMAIN em.tallies : em.tallies[g] \subseteq OfType("trusteeTally")
      BY <1>3, <1>5, <1>6
    <2>2. DOMAIN em.results \subseteq DOMAIN em.tallies /\ DOMAIN em.tallies \subseteq OfType("tally")
      BY <1>2, <1>3, <1>5
    <2>3. QED
      BY <1>2, <1>3, <2>1, <2>2 DEF ManagerOK
  <1>8. Backed(n, e, em)
    <2>1. \A g \in DOMAIN em.tallies :
            em.tallies[g] \subseteq {t \in OnChain(n, e, "trusteeTally") : published[t].tally = g}
      <3>1. ASSUME NEW g \in DOMAIN em.tallies
            PROVE  em.tallies[g] \subseteq {t \in OnChain(n, e, "trusteeTally") : published[t].tally = g}
        BY <1>4, <1>6
      <3>2. QED
        BY <3>1
    <2>2. \A g \in DOMAIN em.results : Cardinality(em.tallies[g]) >= Threshold[e]
      <3>1. ASSUME NEW g \in DOMAIN em.results PROVE Cardinality(em.tallies[g]) >= Threshold[e]
        <4>1. CASE g = h
          BY <1>2, <4>1
        <4>2. CASE g # h
          BY <1>2, <1>3, <1>4, <4>2
        <4>3. QED
          BY <4>1, <4>2
      <3>2. QED
        BY <3>1
    <2>3. DOMAIN em.tallies \subseteq OnChain(n, e, "tally")
      BY <1>2, <1>4
    <2>4. QED
      BY <1>2, <1>4, <2>1, <2>2, <2>3 DEF Backed
  <1>9. QED
    BY <1>1, <1>2, <1>7, <1>8 DEF EntryInv

\* The partial tallies an entry has for a tally, and whether they were enough.
LEMMA PartsOf ==
    ASSUME NEW n, NEW e, NEW old, EntryInv(n, e, old), NEW h \in DOMAIN old.tallies
    PROVE  /\ old.tallies[h] \subseteq {u \in OnChain(n, e, "trusteeTally") : published[u].tally = h}
           /\ h \in DOMAIN old.results => Cardinality(old.tallies[h]) >= Threshold[e]
  <1>1. Backed(n, e, old)
    BY DEF EntryInv
  <1>2. QED
    BY <1>1 DEF Backed

\* The next transaction t of n, its tally h, the election e, its entry and the
\* partial tallies S there are then
NextPart(n, t, h, e, old, S) ==
    /\ t = Head(pending[n]) /\ h = published[t].tally /\ e = ElectionOf(t)
    /\ old = elections[n][e]
    /\ S = {t} \cup IF h \in DOMAIN old.tallies THEN old.tallies[h] ELSE {}

\* A partial tally that is processed is one of the chain, as is its tally; a result
\* is stored once, when the threshold is reached, and never replaced.
LEMMA ProcessTxTrusteeTallyInv ==
    ASSUME Inv, UNCHANGED situation, NEW n \in Nodes, ProcessTxTrusteeTally(n)
    PROVE  Inv' /\ Finality /\ Grows
  <1> SUFFICES ASSUME NEW t, NEW h, NEW e, NEW old, NEW S, NextPart(n, t, h, e, old, S)
               PROVE  Inv' /\ Finality /\ Grows
    BY DEF NextPart
  <1>1. /\ NextIs(n, "trusteeTally") /\ UNCHANGED <<published, blocks, chain, paillier, imports>>
        /\ IF e \notin DOMAIN elections[n]
           THEN Done(n) /\ UNCHANGED <<elections, importing, answering, aborted>>
           ELSE \/ /\ Save(n, e, [old EXCEPT !.tallies = With(@, h, S)])
                   /\ UNCHANGED <<importing, answering, aborted>> /\ Done(n)
                \/ /\ h \notin DOMAIN old.results /\ Cardinality(S) >= Threshold[e]
                   /\ Save(n, e, [[old EXCEPT !.tallies = With(@, h, S)]
                                    EXCEPT !.results = With(@, h, Combined(S, e))])
                   /\ UNCHANGED <<importing, answering, aborted>> /\ Done(n)
                \/ UNCHANGED elections /\ Abort(n)
    BY DEF ProcessTxTrusteeTally, EnoughParts, NextPart
  <1>2. pending[n] # <<>> /\ Publishes
    BY <1>1, PublishNothing DEF NextIs
  <1>3. Grows
    BY <1>1, <1>2 DEF Grows, Publishes, Extends
  <1>4. CASE Done(n) /\ UNCHANGED <<elections, importing, answering, aborted>>
    BY <1>1, <1>2, <1>4, DoneFacts, NoEntryInv
  <1>5. CASE UNCHANGED elections /\ Abort(n)
    <2>1. Stopped(n) /\ aborted' \subseteq Nodes
      BY <1>5 DEF Abort, Inv, Shapes
    <2>2. pending = [m \in Nodes |-> pending[m]] /\ pending' = [pending EXCEPT ![n] = <<>>]
      BY <2>1 DEF Stopped, Inv, Shapes, FunctionOn
    <2>3. QED
      BY <1>1, <1>2, <1>5, <2>1, <2>2, StoppedFacts, NoEntryInv
  <1>6. ASSUME e \in DOMAIN elections[n], UNCHANGED <<importing, answering, aborted>>, Done(n),
               NEW results, NEW em, Save(n, e, em),
               em = [[old EXCEPT !.tallies = With(@, h, S)] EXCEPT !.results = results],
               \/ results = old.results
               \/ /\ h \notin DOMAIN old.results /\ Cardinality(S) >= Threshold[e]
                  /\ results = With(old.results, h, Combined(S, e))
        PROVE  Inv' /\ Finality /\ Grows
    <2>1. EntryInv(n, e, old)
      BY <1>6 DEF Inv, EntriesOK, NextPart
    <2>2. Manager(old) /\ DOMAIN old.results \subseteq DOMAIN old.tallies
      BY <2>1 DEF EntryInv, ManagerOK
    <2>3. em = [old EXCEPT !.tallies = With(@, h, S), !.results = results]
      BY <1>6, <2>2 DEF Manager
    <2>4. PartsChange(old, h, S, results, em)
      BY <2>2, <2>3, PartsFields
    <2>5. em.ended = old.ended /\ em.results = results
      BY <2>4 DEF PartsChange
    <2>6. /\ DOMAIN results \subseteq DOMAIN old.results \cup {h}
          /\ \A g \in DOMAIN old.results : g \in DOMAIN results /\ results[g] = old.results[g]
          /\ h \in DOMAIN results => h \in DOMAIN old.results \/ Cardinality(S) >= Threshold[e]
      BY <1>6 DEF With
    <2>7. h \in OnChain(n, e, "tally") /\ t \in OnChain(n, e, "trusteeTally") /\ published[t].tally = h
      <3>1. t \in OfType("trusteeTally") /\ ContainsTransaction(n, t)
        BY <1>1, NextTransaction DEF NextPart
      <3>2. h \in OfType("tally") /\ ContainsTransaction(n, h)
        BY <3>1 DEF Inv, PublishedInv, ChainOK, NextPart
      <3>3. ElectionOf(h) = e /\ ElectionOf(t) = e /\ published[t].tally = h
        BY <3>1, <3>2 DEF ElectionOf, OfType, NextPart
      <3>4. QED
        BY <3>1, <3>2, <3>3 DEF OnChain
    <2>8. S \subseteq {u \in OnChain(n, e, "trusteeTally") : published[u].tally = h}
      <3>1. CASE h \in DOMAIN old.tallies
        <4>1. old.tallies[h] \subseteq {u \in OnChain(n, e, "trusteeTally") : published[u].tally = h}
          BY <2>1, <3>1, PartsOf
        <4>2. S = {t} \cup old.tallies[h]
          BY <3>1 DEF NextPart
        <4>3. QED
          BY <2>7, <4>1, <4>2
      <3>2. CASE h \notin DOMAIN old.tallies
        <4>1. S = {t}
          BY <3>2 DEF NextPart
        <4>2. QED
          BY <2>7, <4>1
      <3>3. QED
        BY <3>1, <3>2
    <2>9. h \in DOMAIN results => Cardinality(S) >= Threshold[e]
      <3>1. ASSUME h \in DOMAIN old.results PROVE Cardinality(S) >= Threshold[e]
        <4>1. Cardinality(old.tallies[h]) >= Threshold[e] /\ old.tallies[h] \subseteq S
          BY ZenonT(60), <2>1, <2>2, <3>1, PartsOf DEF NextPart
        <4>2. IsFiniteSet(S)
          <5>1. S \subseteq Hashes
            BY <2>8 DEF OnChain, OfType
          <5>2. QED
            BY <5>1, FiniteHashes, FS_Subset
        <4>3. /\ Cardinality(S) \in Nat /\ Cardinality(old.tallies[h]) \in Nat
              /\ Cardinality(old.tallies[h]) <= Cardinality(S)
          BY <4>1, <4>2, FS_Subset, FS_CardinalityType
        <4>4. Threshold[e] \in Nat
          <5>1. e \in Elections /\ situation \in Situations
            BY <2>1 DEF EntryInv, Inv, Shapes
          <5>2. QED
            BY <5>1, LedgerAssumption DEF Threshold
        <4>5. \A a, b, c \in Nat : a >= c /\ a <= b => b >= c
          OBVIOUS
        <4>6. QED
          BY <4>1, <4>3, <4>4, <4>5
      <3>2. QED
        BY <2>6, <3>1
    <2>10. EntryInv(n, e, em)
      BY <2>1, <2>4, <2>6, <2>7, <2>8, <2>9, PartsEntry
    <2>11. EntryInv(n, e, em)'
      BY <1>3, <2>10, EntryKept
    <2>12. \A g \in DOMAIN old.results : g \in DOMAIN em.results /\ em.results[g] = old.results[g]
      BY <2>5, <2>6
    <2>13. QED
      <3>1. /\ FunctionOn(pending, Nodes)' /\ FunctionOn(importing, Nodes)' /\ aborted' \subseteq Nodes
            /\ \A m \in Nodes \ {n} : pending'[m] = pending[m]
            /\ pending'[n] = Tail(pending[n])
            /\ \A m \in Nodes : importing'[m] \subseteq importing[m]
        BY <1>6, DoneFacts
      <3>2. UNCHANGED <<situation, blocks, chain, paillier>>
        BY <1>1
      <3>3. e \in DOMAIN elections[n] /\ Save(n, e, em)
        BY <1>6
      <3>4. /\ elections[n][e].ended => em.ended
            /\ \A g \in DOMAIN elections[n][e].results :
                 g \in DOMAIN em.results /\ em.results[g] = elections[n][e].results[g]
        BY <2>5, <2>12 DEF NextPart
      <3>5. QED
        BY <1>2, <2>11, <3>1, <3>2, <3>3, <3>4, SavedEntryInv
  <1>7. CASE /\ e \in DOMAIN elections[n] /\ Save(n, e, [old EXCEPT !.tallies = With(@, h, S)])
             /\ UNCHANGED <<importing, answering, aborted>> /\ Done(n)
    <2>1. Manager(old)
      BY <1>7 DEF Inv, EntriesOK, EntryInv, NextPart
    <2>2. [old EXCEPT !.tallies = With(@, h, S)]
            = [[old EXCEPT !.tallies = With(@, h, S)] EXCEPT !.results = old.results]
      BY <2>1 DEF Manager
    <2>3. QED
      BY <1>6, <1>7, <2>2
  <1>8. CASE /\ e \in DOMAIN elections[n] /\ h \notin DOMAIN old.results /\ Cardinality(S) >= Threshold[e]
             /\ Save(n, e, [[old EXCEPT !.tallies = With(@, h, S)]
                              EXCEPT !.results = With(@, h, Combined(S, e))])
             /\ UNCHANGED <<importing, answering, aborted>> /\ Done(n)
    <2>1. Manager(old)
      BY <1>8 DEF Inv, EntriesOK, EntryInv, NextPart
    <2>2. [[old EXCEPT !.tallies = With(@, h, S)] EXCEPT !.results = With(@, h, Combined(S, e))]
            = [[old EXCEPT !.tallies = With(@, h, S)]
                 EXCEPT !.results = With(old.results, h, Combined(S, e))]
      BY <2>1 DEF Manager
    <2>3. QED
      BY <1>6, <1>8, <2>2
  <1>9. QED
    BY <1>1, <1>4, <1>5, <1>7, <1>8

-----------------------------------------------------------------------------
(* Adding a block *)

\* A node that accepts a block whose transactions it has checked: what its chain
\* contains grows by them, the tally of each partial tally is there already
\* (VerifyTrusteeTally), and so is no election of the block.
LEMMA AcceptInv ==
    ASSUME Inv, UNCHANGED <<situation, published, elections, paillier, importing, aborted>>,
           BlocksInv', Sequence(blocks)', Extends(blocks, blocks'),
           NEW n \in Nodes, NEW b \in DOMAIN blocks', NEW txs, txs = blocks'[b].transactions,
           Acceptable(n, ToSet(txs)), Accept(n, b, txs)
    PROVE  Inv' /\ Finality /\ Grows
  <1>1. /\ Sequence(chain[n]) /\ ChainOK(n)
        /\ chain = [m \in Nodes |-> chain[m]] /\ pending = [m \in Nodes |-> pending[m]]
    BY DEF Inv, Shapes, FunctionOn
  <1>2. /\ FunctionOn(chain, Nodes)' /\ FunctionOn(pending, Nodes)'
        /\ chain'[n] = Append(chain[n], b) /\ pending'[n] = txs
        /\ \A m \in Nodes \ {n} : chain'[m] = chain[m] /\ pending'[m] = pending[m]
    BY <1>1 DEF Accept, FunctionOn
  <1>3. Sequence(chain'[n]) /\ Extends(chain[n], chain'[n]) /\ ToSet(chain'[n]) = ToSet(chain[n]) \cup {b}
    <2>1. /\ Sequence(Append(chain[n], b)) /\ ToSet(Append(chain[n], b)) = ToSet(chain[n]) \cup {b}
          /\ DOMAIN Append(chain[n], b) = 1 .. Len(chain[n]) + 1
          /\ \A i \in 1 .. Len(chain[n]) : Append(chain[n], b)[i] = chain[n][i]
      BY <1>1, AppendFacts
    <2>2. DOMAIN chain[n] = 1 .. Len(chain[n]) /\ Len(chain[n]) \in Nat
      BY <1>1, SequenceFacts
    <2>3. QED
      BY <1>2, <2>1, <2>2 DEF Extends
  <1>4. Grows
    <2>1. \A m \in Nodes : Extends(chain[m], chain'[m])
      BY <1>2, <1>3 DEF Extends
    <2>2. QED
      BY <2>1 DEF Grows, Extends
  <1>5. /\ Sequence(txs) /\ IsInjective(txs) /\ ToSet(txs) \subseteq Hashes
        /\ BlockTxs(b)' = ToSet(txs)
    <2>1. BlockTxs(b)' = ToSet(txs)
      BY DEF BlockTxs
    <2>2. BlockTxs(b)' \subseteq Hashes'
      BY DEF BlocksInv
    <2>3. Sequence(blocks'[b].transactions) /\ IsInjective(blocks'[b].transactions)
      BY DEF BlocksInv
    <2>4. QED
      BY <2>1, <2>2, <2>3 DEF Hashes
  <1>6. \A h : ContainsTransaction(n, h)' <=> ContainsTransaction(n, h) \/ h \in ToSet(txs)
    <2>1. \A c \in ToSet(chain[n]) : BlockTxs(c)' = BlockTxs(c)
      BY <1>1, <1>4, GrowsFacts DEF ChainOK
    <2>2. \A h : ContainsTransaction(n, h)' <=> \E c \in ToSet(chain'[n]) : h \in BlockTxs(c)'
      BY DEF ContainsTransaction
    <2>3. QED
      BY <1>3, <1>5, <2>1, <2>2 DEF ContainsTransaction
  <1>7. ChainOK(n)'
    <2>1. ToSet(chain'[n]) \subseteq DOMAIN blocks'
      BY <1>1, <1>3 DEF ChainOK, Extends
    <2>2. ASSUME NEW t \in OfType("trusteeTally"), ContainsTransaction(n, t)'
          PROVE  ContainsTransaction(n, published[t].tally)
      <3>1. CASE ContainsTransaction(n, t)
        BY <1>1, <3>1 DEF ChainOK
      <3>2. CASE t \in ToSet(txs)
        BY <3>2 DEF Acceptable, Verify, VerifyTrusteeTally, OfType
      <3>3. QED
        BY <1>6, <2>2, <3>1, <3>2
    <2>3. OfType("trusteeTally")' = OfType("trusteeTally")
      BY DEF OfType, Hashes
    <2>4. ASSUME NEW t \in OfType("trusteeTally"), ContainsTransaction(n, t)'
          PROVE  ContainsTransaction(n, published[t].tally)'
      <3>1. ContainsTransaction(n, published[t].tally)
        BY <2>2, <2>4
      <3>2. published'[t].tally = published[t].tally
        OBVIOUS
      <3>3. QED
        BY <1>6, <3>1, <3>2
    <2>5. QED
      BY <2>1, <2>3, <2>4 DEF ChainOK
  <1>8. PendingOK(n)'
    <2>1. \A h \in ToSet(txs) : h \in Hashes /\ ContainsTransaction(n, h)'
      BY <1>5, <1>6
    <2>2. ASSUME NEW h \in ToSet(txs) \cap OfType("election"),
                 published[h].election \in DOMAIN elections[n]
          PROVE  FALSE
      <3>1. ContainsElection(n, published[h].election)
        BY <2>2 DEF Inv, EntriesOK, EntryInv
      <3>2. PICK g \in OfType("election") :
              published[g].election = published[h].election /\ ContainsTransaction(n, g)
        BY <3>1 DEF ContainsElection
      <3>3. g = h
        BY <3>2 DEF Inv, PublishedInv
      <3>4. ~ContainsTransaction(n, h)
        BY DEF Acceptable
      <3>5. QED
        BY <3>2, <3>3, <3>4
    <2>3. OfType("election")' = OfType("election") /\ Hashes' = Hashes
      BY DEF OfType, Hashes
    <2>4. QED
      BY <1>2, <1>5, <2>1, <2>2, <2>3 DEF PendingOK
  <1>9. \A m \in Nodes \ {n} : ChainOK(m)' /\ Sequence(chain[m])'
    BY <1>2, <1>4, ChainKept
  <1>10. \A m \in Nodes \ {n} : PendingOK(m)' /\ Sequence(pending[m])'
    <2>1. ASSUME NEW m \in Nodes \ {n} PROVE PendingOK(m)' /\ Sequence(pending[m])'
      <3>1. \A h \in ToSet(pending'[m]) \cap OfType("election") :
              published[h].election \notin DOMAIN elections'[m]
        BY <1>2 DEF Inv, PendingOK
      <3>2. QED
        BY <1>2, <1>4, <3>1, PendingKept
    <2>2. QED
      BY <2>1
  <1>11. \A m \in Nodes : EntriesOK(m)'
    <2>1. ASSUME NEW m \in Nodes, NEW e \in DOMAIN elections[m]
          PROVE  EntryInv(m, e, elections[m][e])'
      <3>1. EntryInv(m, e, elections[m][e])
        BY DEF Inv, EntriesOK
      <3>2. QED
        BY <1>4, <3>1, EntryKept
    <2>2. QED
      BY <2>1 DEF EntriesOK
  <1>12. PublishedInv' /\ Sequence(published)'
    BY PublishNothing, PublishesInv
  <1>13. KeysInv' /\ FunctionOn(paillier, Nodes)' /\ FunctionOn(importing, Nodes)'
         /\ \A m \in Nodes : Sequence(paillier[m])'
    BY Unchanged
  <1>14. Finality
    BY DEF Finality
  <1>15. Shapes'
    <2>1. /\ situation' \in Situations /\ FunctionOn(elections, Nodes)' /\ aborted' \subseteq Nodes
      BY DEF Inv, Shapes, FunctionOn
    <2>2. \A m \in Nodes : Sequence(chain[m])' /\ Sequence(pending[m])'
      BY <1>2, <1>3, <1>5, <1>9, <1>10
    <2>3. QED
      BY <1>2, <1>12, <1>13, <2>1, <2>2 DEF Shapes
  <1>16. \A m \in Nodes : ChainOK(m)' /\ PendingOK(m)' /\ EntriesOK(m)'
    BY <1>7, <1>8, <1>9, <1>10, <1>11
  <1>17. QED
    BY <1>4, <1>12, <1>13, <1>14, <1>15, <1>16 DEF Inv

\* The newest block of a node is one there is, or the genesis block.
LEMMA TipFacts ==
    ASSUME Inv, NEW n \in Nodes
    PROVE  Tip(n) \in 0 .. Len(blocks)
  <1>1. /\ Sequence(chain[n]) /\ Sequence(blocks) /\ ToSet(chain[n]) \subseteq DOMAIN blocks
    BY DEF Inv, Shapes, ChainOK
  <1>2. Len(blocks) \in Nat /\ DOMAIN blocks = 1 .. Len(blocks)
    BY <1>1, SequenceFacts
  <1>3. CASE chain[n] = <<>>
    BY <1>2, <1>3 DEF Tip, Genesis
  <1>4. CASE chain[n] # <<>>
    <2>1. /\ Len(chain[n]) \in Nat /\ Len(chain[n]) # 0
          /\ ToSet(chain[n]) = {chain[n][i] : i \in 1 .. Len(chain[n])}
      BY <1>1, <1>4, SequenceFacts
    <2>2. Tip(n) = chain[n][Len(chain[n])]
      BY <1>4 DEF Tip, Last
    <2>3. Tip(n) \in ToSet(chain[n])
      BY <2>1, <2>2
    <2>4. QED
      BY <1>1, <1>2, <2>3
  <1>5. QED
    BY <1>3, <1>4

\* A block one mines has checked transactions of which each occurs once.
LEMMA MineInv ==
    ASSUME Inv, UNCHANGED situation, NEW n \in Nodes, MineBlock(n)
    PROVE  Inv' /\ Finality /\ Grows
  <1>1. PICK txs \in Minable(n) : Mine(n, txs)
    BY DEF MineBlock
  <1>2. PICK S \in SUBSET Hashes : txs \in SetToSeqs(S)
    BY <1>1 DEF Minable
  <1>3. IsFiniteSet(S) /\ Cardinality(S) \in Nat
    BY FiniteHashes, FS_Subset, FS_CardinalityType
  <1>4. txs \in [1 .. Cardinality(S) -> S] /\ IsInjective(txs)
    BY <1>2 DEF SetToSeqs, IsInjective
  <1>5. Sequence(txs) /\ ToSet(txs) \subseteq Hashes
    <2>1. txs = [i \in 1 .. Cardinality(S) |-> txs[i]]
      BY <1>4
    <2>2. QED
      BY <1>3, <1>4, <2>1, FunctionSequence DEF ToSet
  <1>6. /\ Acceptable(n, ToSet(txs)) /\ Accept(n, Len(blocks) + 1, txs)
        /\ blocks' = Append(blocks, [previous |-> Tip(n), transactions |-> txs])
        /\ UNCHANGED <<published, elections, paillier, importing, answering, imports, aborted>>
    BY <1>1 DEF Mine
  <1>7. Sequence(blocks) /\ DOMAIN blocks = 1 .. Len(blocks) /\ Len(blocks) \in Nat
    BY SequenceFacts DEF Inv, Shapes
  <1>8. /\ Sequence(blocks') /\ DOMAIN blocks' = 1 .. Len(blocks) + 1
        /\ \A b \in 1 .. Len(blocks) : blocks'[b] = blocks[b]
        /\ blocks'[Len(blocks) + 1] = [previous |-> Tip(n), transactions |-> txs]
    BY <1>6, <1>7, AppendFacts
  <1>9. Extends(blocks, blocks')
    BY <1>7, <1>8 DEF Extends
  <1>10. BlocksInv'
    <2>1. ASSUME NEW b \in DOMAIN blocks'
          PROVE  /\ blocks'[b].previous \in 0 .. b - 1
                 /\ ToSet(blocks'[b].transactions) \subseteq Hashes
                 /\ Sequence(blocks'[b].transactions) /\ IsInjective(blocks'[b].transactions)
      <3>1. CASE b \in DOMAIN blocks
        <4>1. blocks'[b] = blocks[b]
          BY <1>7, <1>8, <3>1
        <4>2. QED
          BY <3>1, <4>1 DEF Inv, BlocksInv, BlockTxs
      <3>2. CASE b = Len(blocks) + 1
        <4>1. blocks'[b].previous = Tip(n) /\ blocks'[b].transactions = txs
          BY <1>8, <3>2
        <4>2. Tip(n) \in 0 .. b - 1
          BY <1>7, <3>2, TipFacts
        <4>3. QED
          BY <1>4, <1>5, <4>1, <4>2
      <3>3. QED
        BY <1>7, <1>8, <3>1, <3>2
    <2>2. QED
      BY <1>6, <2>1 DEF BlocksInv, BlockTxs, Hashes
  <1>11. Len(blocks) + 1 \in DOMAIN blocks' /\ txs = blocks'[Len(blocks) + 1].transactions
    BY <1>7, <1>8
  <1>12. PICK b : b = Len(blocks) + 1
    OBVIOUS
  <1>13. QED
    BY <1>6, <1>8, <1>9, <1>10, <1>11, <1>12, AcceptInv

\* The transactions of a block from the network are checked as well.
LEMMA ReceiveInv ==
    ASSUME Inv, UNCHANGED situation, NEW n \in Nodes, Receive(n)
    PROVE  Inv' /\ Finality /\ Grows
  <1>1. PICK b \in DOMAIN blocks : ReceiveBlock(n, b)
    BY DEF Receive
  <1>2. PICK txs : txs = blocks[b].transactions
    OBVIOUS
  <1>3. /\ Acceptable(n, ToSet(txs)) /\ Accept(n, b, txs)
        /\ UNCHANGED <<published, blocks, elections, paillier, importing, answering, imports, aborted>>
    BY <1>1, <1>2 DEF ReceiveBlock, BlockTxs
  <1>4. BlocksInv' /\ Sequence(blocks)' /\ Extends(blocks, blocks')
    BY <1>3 DEF Inv, Shapes, BlocksInv, BlockTxs, Extends, Hashes
  <1>5. QED
    BY <1>2, <1>3, <1>4, AcceptInv

-----------------------------------------------------------------------------
(* The invariant and the theorems *)

\* A step that changes nothing keeps the invariant.
LEMMA StutterInv == ASSUME Inv, UNCHANGED vars PROVE Inv' /\ Finality /\ Grows
  <1>1. Publishes /\ KeysInv' /\ aborted' \subseteq Nodes
    BY PublishNothing, Unchanged DEF vars, Inv, Shapes
  <1>2. FunctionOn(pending, Nodes)'
    BY DEF vars, Inv, Shapes, FunctionOn
  <1>3. QED
    BY <1>1, <1>2, QuietStep, Unchanged DEF vars

\* Every step keeps the invariant, and what EndedIsFinal says of it.
LEMMA InvStep == ASSUME Inv, AnsweringOK, [Next]_vars PROVE Inv' /\ Finality /\ Grows
  <1>1. CASE UNCHANGED vars
    BY <1>1, StutterInv
  <1>2. CASE Next
    <2>1. UNCHANGED situation
      BY <1>2 DEF Next
    <2>2. CASE User
      <3>1. CASE \E e \in Elections : CreateElection(e)
        BY <2>1, <3>1, CreateElectionInv
      <3>2. ASSUME NEW n \in Nodes, NEW e \in Elections, NEW k, NEW b, Vote(n, e, k, b)
            PROVE  Inv' /\ Finality /\ Grows
        BY <2>1, <3>2, VoteInv
      <3>3. ASSUME NEW e \in Elections, NEW b, NEW end \in BOOLEAN, Tally(e, b, end)
            PROVE  Inv' /\ Finality /\ Grows
        BY <2>1, <3>3, TallyInv
      <3>4. ASSUME NEW n \in Nodes, NEW e \in Elections, NEW k, ImportKey(n, e, k)
            PROVE  Inv' /\ Finality /\ Grows
        BY <2>1, <3>4, ImportKeyInv
      <3>5. CASE \E n \in Nodes : SaveKey(n)
        BY <2>1, <3>5, SaveKeyInv
      <3>6. QED
        BY <2>2, <3>1, <3>2, <3>3, <3>4, <3>5 DEF User
    <2>3. ASSUME NEW n \in Nodes, Process(n) PROVE Inv' /\ Finality /\ Grows
      BY <2>1, <2>3, ProcessTxElectionInv, ProcessTxVoteInv, IgnoreTxTallyInv,
         RegisterTxTallyInv, AnswerTxTallyInv, ProcessTxTrusteeTallyInv DEF Process
    <2>4. ASSUME NEW n \in Nodes, MineBlock(n) \/ Receive(n) \/ Crash(n) PROVE Inv' /\ Finality /\ Grows
      BY <2>1, <2>4, MineInv, ReceiveInv, CrashInv
    <2>5. QED
      BY <1>2, <2>2, <2>3, <2>4 DEF Next
  <1>3. QED
    BY <1>1, <1>2

\* What is answered stays on the chain, and only a tally that was registered is added.
LEMMA AnsweringKept ==
    ASSUME Inv, AnsweringOK, Grows, FunctionOn(answering, Nodes)',
           \A n \in Nodes : \A h \in answering'[n] \ answering[n] :
             h \in OfType("tally") /\ ContainsTransaction(n, h)
    PROVE  AnsweringOK'
  BY GrowsFacts DEF AnsweringOK

\* Every step keeps AnsweringOK.
LEMMA AnsweringStep == ASSUME Inv, AnsweringOK, [Next]_vars PROVE AnsweringOK'
  <1>1. Grows
    BY InvStep
  <1>2. answering = [m \in Nodes |-> answering[m]]
    BY DEF AnsweringOK, FunctionOn
  <1>3. CASE UNCHANGED answering
    BY <1>1, <1>3, AnsweringKept DEF AnsweringOK, FunctionOn
  <1>4. ASSUME NEW n \in Nodes, answering' = [answering EXCEPT ![n] = {}]
        PROVE  AnsweringOK'
    <2>1. FunctionOn(answering, Nodes)' /\ \A m \in Nodes : answering'[m] \subseteq answering[m]
      BY <1>2, <1>4 DEF FunctionOn
    <2>2. QED
      BY <1>1, <2>1, AnsweringKept
  <1>5. ASSUME NEW n \in Nodes, RegisterTxTally(n) PROVE AnsweringOK'
    <2>1. /\ NextIs(n, "tally")
          /\ \/ answering' = [answering EXCEPT ![n] = {}]
             \/ answering' = [answering EXCEPT ![n] = {Head(pending[n])}]
      BY <1>5 DEF RegisterTxTally
    <2>2. Head(pending[n]) \in OfType("tally") /\ ContainsTransaction(n, Head(pending[n]))
      BY <2>1, NextTransaction
    <2>3. /\ FunctionOn(answering, Nodes)'
          /\ \A m \in Nodes : answering'[m] \subseteq answering[m] \/ (m = n /\ answering'[m] = {Head(pending[n])})
      BY <1>2, <2>1 DEF FunctionOn
    <2>4. QED
      BY <1>1, <2>2, <2>3, AnsweringKept
  <1>6. CASE Next
    <2>1. CASE User
      <3>1. CASE UNCHANGED answering
        BY <1>3, <3>1
      <3>2. CASE \E n \in Nodes, e \in Elections : \E k : ImportKey(n, e, k)
        <4>1. PICK n \in Nodes, e \in Elections : \E k : ImportKey(n, e, k)
          BY <3>2
        <4>2. UNCHANGED answering \/ answering' = [answering EXCEPT ![n] = {}]
          BY <4>1 DEF ImportKey, Abort, Stopped
        <4>3. QED
          BY <1>3, <1>4, <4>2
      <3>3. QED
        BY <2>1, <3>1, <3>2 DEF User, CreateElection, Vote, Tally, SaveKey
    <2>2. ASSUME NEW n \in Nodes, Process(n) PROVE AnsweringOK'
      BY <1>3, <1>4, <1>5, <2>2
      DEF Process, ProcessTxElection, ProcessTxVote, IgnoreTxTally, AnswerTxTally,
          ProcessTxTrusteeTally, Abort, Stopped
    <2>3. ASSUME NEW n \in Nodes, MineBlock(n) \/ Receive(n) \/ Crash(n) PROVE AnsweringOK'
      BY <1>3, <1>4, <2>3 DEF MineBlock, Mine, Receive, ReceiveBlock, Crash, Stopped
    <2>4. QED
      BY <1>6, <2>1, <2>2, <2>3 DEF Next
  <1>7. QED
    BY <1>3, <1>6 DEF vars

\* The invariant holds in every state.
LEMMA Invariance == Spec => [](Inv /\ AnsweringOK)
  <1>1. Init => AnsweringOK
    BY DEF Init, AnsweringOK, FunctionOn
  <1>2. Inv /\ AnsweringOK /\ [Next]_vars => Inv' /\ AnsweringOK'
    BY InvStep, AnsweringStep
  <1>3. QED
    BY <1>1, <1>2, InvInit, PTL DEF Spec

\* Transactions, blocks and chains refer only to what there is, and the
\* ElectionDB holds only transactions of the right type, whatever is published,
\* mined, received in whichever order, and whenever a process stops.
THEOREM LedgerTypes == Spec => []TypeOK
  <1>1. Inv /\ AnsweringOK => TypeOK
    <2> SUFFICES ASSUME Inv, AnsweringOK PROVE TypeOK
      OBVIOUS
    <2>1. \A h \in Hashes : published[h].type \in {"election", "vote", "tally", "trusteeTally"}
      BY DEF Inv, PublishedInv
    <2>2. \A b \in DOMAIN blocks : blocks[b].previous \in 0 .. b - 1 /\ BlockTxs(b) \subseteq Hashes
      BY DEF Inv, BlocksInv
    <2>3. ASSUME NEW n \in Nodes
          PROVE  /\ ToSet(chain[n]) \subseteq DOMAIN blocks
                 /\ ToSet(pending[n]) \subseteq Hashes /\ answering[n] \subseteq OfType("tally")
                 /\ DOMAIN elections[n] \subseteq Elections
                 /\ \A e \in DOMAIN elections[n] : ManagerOK(elections[n][e], e)
      BY DEF Inv, ChainOK, PendingOK, EntriesOK, EntryInv, AnsweringOK
    <2>4. KeysInv /\ aborted \subseteq Nodes
      BY DEF Inv, Shapes
    <2>5. QED
      BY <2>1, <2>2, <2>3, <2>4 DEF TypeOK, KeysInv
  <1>2. QED
    BY <1>1, Invariance, PTL

\* What a node's ElectionDB says of an election, its chain says as well: a crash
\* while a block is processed (controller.cpp:210) can only make it say less.
THEOREM EntriesBacked == Spec => []BackedByChain
  <1>1. Inv => BackedByChain
    BY DEF Inv, EntriesOK, EntryInv, Backed, BackedByChain
  <1>2. QED
    BY <1>1, Invariance, PTL

\* No later tally or partial tally reopens an election or changes a result
\* (processTxTally, processTxTrusteeTally).
THEOREM EndStays == Spec => EndedIsFinal
  <1>1. Inv /\ AnsweringOK /\ [Next]_vars =>
          [\A n \in Nodes : \A e \in DOMAIN elections[n] :
              /\ e \in DOMAIN elections'[n]
              /\ elections[n][e].ended => elections'[n][e].ended
              /\ \A h \in DOMAIN elections[n][e].results :
                   /\ h \in DOMAIN elections'[n][e].results
                   /\ elections'[n][e].results[h] = elections[n][e].results[h]]_vars
    BY InvStep DEF Finality
  <1>2. QED
    BY <1>1, Invariance, PTL DEF Spec, EndedIsFinal

-----------------------------------------------------------------------------
(* Trustees that answer to one tally count the same votes, for any nodes,    *)
(* chains, branches and crashes: what is counted depends on the blocks up to *)
(* the tally's last block only, and these are the same on every chain that   *)
(* contains it.                                                              *)

-----------------------------------------------------------------------------
(* What is counted, from a chain, the blocks and the transactions            *)

\* Block b has the transaction of election e.
Opens(bl, pub, b, e) == TxElection(e) \in {pub[h] : h \in ToSet(bl[b].transactions)}

VotesOf(bl, pub, b, e) ==
    {h \in ToSet(bl[b].transactions) : pub[h].type = "vote" /\ pub[h].election = e}

Positions(c, bl, pub, size, e, last) ==
    {p \in ((CHOOSE i \in DOMAIN c : Opens(bl, pub, c[i], e)) ..
            (CHOOSE i \in DOMAIN c : c[i] = last)) \X (1 .. size) :
        /\ p[2] \in DOMAIN bl[c[p[1]]].transactions
        /\ bl[c[p[1]]].transactions[p[2]] \in VotesOf(bl, pub, c[p[1]], e)}

At(c, bl, pub, p) == pub[bl[c[p[1]]].transactions[p[2]]]

Before(p, r) == p[1] > r[1] \/ (p[1] = r[1] /\ p[2] < r[2])

Counted(c, bl, pub, size, e, last) ==
    {At(c, bl, pub, p) : p \in {r \in Positions(c, bl, pub, size, e, last) :
        ~\E s \in Positions(c, bl, pub, size, e, last) :
            At(c, bl, pub, s).key = At(c, bl, pub, r).key /\ Before(s, r)}}

\* CountedVotes is this of the chain of the node.
LEMMA CountedIs ==
    ASSUME NEW n \in Nodes, NEW e, NEW last
    PROVE  CountedVotes(n, e, last) = Counted(chain[n], blocks, published, BlockSize, e, last)
  BY DEF CountedVotes, VotePositions, VoteAt, VotesIn, BlockTxs, Counted, Positions, At, Before,
         Opens, VotesOf

\* last is block k of chain c and nowhere else, and so is e with block s.
Place(c, bl, pub, e, last, k, s) ==
    /\ \E l \in Nat : DOMAIN c = 1 .. l
    /\ k \in DOMAIN c /\ \A i \in DOMAIN c : c[i] = last <=> i = k
    /\ s \in DOMAIN c /\ \A i \in DOMAIN c : Opens(bl, pub, c[i], e) <=> i = s

\* Two chains have the same blocks and transactions up to height k.
SameUpTo(c, d, bl, cl, pub, qub, k) ==
    /\ \A i \in 1 .. k : c[i] = d[i] /\ bl[c[i]] = cl[c[i]]
    /\ \A i \in 1 .. k : \A h \in ToSet(bl[c[i]].transactions) : pub[h] = qub[h]

\* Two chains that are the same up to last count the same.
LEMMA SameCount ==
    ASSUME NEW c, NEW d, NEW bl, NEW cl, NEW pub, NEW qub, NEW size, NEW e, NEW last, NEW k, NEW s, NEW r,
           Place(c, bl, pub, e, last, k, s), Place(d, cl, qub, e, last, k, r),
           SameUpTo(c, d, bl, cl, pub, qub, k)
    PROVE  Counted(c, bl, pub, size, e, last) = Counted(d, cl, qub, size, e, last)
  <1> SUFFICES ASSUME NEW lc \in Nat, DOMAIN c = 1 .. lc, NEW ld \in Nat, DOMAIN d = 1 .. ld,
                      k \in 1 .. lc, k \in 1 .. ld,
                      c[k] = last, \A i \in DOMAIN c : c[i] = last => i = k,
                      d[k] = last, \A i \in DOMAIN d : d[i] = last => i = k,
                      \A i \in 1 .. k : c[i] = d[i] /\ bl[c[i]] = cl[c[i]],
                      \A i \in 1 .. k : \A h \in ToSet(bl[c[i]].transactions) : pub[h] = qub[h],
                      s \in DOMAIN c, Opens(bl, pub, c[s], e),
                      \A i \in DOMAIN c : Opens(bl, pub, c[i], e) => i = s,
                      r \in DOMAIN d, Opens(cl, qub, d[r], e),
                      \A i \in DOMAIN d : Opens(cl, qub, d[i], e) => i = r
               PROVE  Counted(c, bl, pub, size, e, last) = Counted(d, cl, qub, size, e, last)
    BY DEF Place, SameUpTo
  <1>1. (CHOOSE i \in DOMAIN c : c[i] = last) = k /\ (CHOOSE i \in DOMAIN d : d[i] = last) = k
    OBVIOUS
  <1>2. /\ (CHOOSE i \in DOMAIN c : Opens(bl, pub, c[i], e)) = s
        /\ (CHOOSE i \in DOMAIN d : Opens(cl, qub, d[i], e)) = r
    OBVIOUS
  <1>3. \A i \in 1 .. k : Opens(bl, pub, c[i], e) <=> Opens(cl, qub, d[i], e)
    BY DEF Opens
  <1>4. \A i : i \in s .. k <=> i \in r .. k
    <2>1. s \in Nat /\ r \in Nat /\ k \in Nat /\ 1 <= s /\ 1 <= r
      OBVIOUS
    <2>2. s <= k => s = r
      BY <1>3, <2>1
    <2>3. r <= k => s = r
      BY <1>3, <2>1
    <2>4. QED
      BY <2>1, <2>2, <2>3
  <1>5. s .. k \subseteq 1 .. k
    OBVIOUS
  <1>6. \A i \in 1 .. k : VotesOf(bl, pub, c[i], e) = VotesOf(cl, qub, d[i], e)
    BY DEF VotesOf
  <1>7. \A i \in 1 .. k : bl[c[i]].transactions = cl[d[i]].transactions
    OBVIOUS
  <1>8. Positions(c, bl, pub, size, e, last) = Positions(d, cl, qub, size, e, last)
    <2>1. Positions(c, bl, pub, size, e, last) =
            {p \in (s .. k) \X (1 .. size) :
                /\ p[2] \in DOMAIN bl[c[p[1]]].transactions
                /\ bl[c[p[1]]].transactions[p[2]] \in VotesOf(bl, pub, c[p[1]], e)}
      BY <1>1, <1>2 DEF Positions
    <2>2. Positions(d, cl, qub, size, e, last) =
            {p \in (r .. k) \X (1 .. size) :
                /\ p[2] \in DOMAIN cl[d[p[1]]].transactions
                /\ cl[d[p[1]]].transactions[p[2]] \in VotesOf(cl, qub, d[p[1]], e)}
      BY <1>1, <1>2 DEF Positions
    <2>3. (s .. k) \X (1 .. size) = (r .. k) \X (1 .. size)
      BY <1>4
    <2>4. \A p \in (s .. k) \X (1 .. size) : p[1] \in 1 .. k
      BY <1>5
    <2>5. QED
      BY <1>6, <1>7, <2>1, <2>2, <2>3, <2>4
  <1>9. \A p \in Positions(c, bl, pub, size, e, last) : At(c, bl, pub, p) = At(d, cl, qub, p)
    <2> SUFFICES ASSUME NEW p \in Positions(c, bl, pub, size, e, last)
                 PROVE  At(c, bl, pub, p) = At(d, cl, qub, p)
      OBVIOUS
    <2>1. p[1] \in 1 .. k /\ bl[c[p[1]]].transactions[p[2]] \in ToSet(bl[c[p[1]]].transactions)
      BY <1>1, <1>2, <1>5 DEF Positions, VotesOf
    <2>2. QED
      BY <1>7, <2>1 DEF At
  <1>10. QED
    <2> DEFINE P == Positions(c, bl, pub, size, e, last)
               f(p) == At(c, bl, pub, p)
               g(p) == At(d, cl, qub, p)
    <2>1. /\ Counted(c, bl, pub, size, e, last) =
               {f(p) : p \in {q \in P : ~\E t \in P : f(t).key = f(q).key /\ Before(t, q)}}
          /\ Counted(d, cl, qub, size, e, last) =
               {g(p) : p \in {q \in P : ~\E t \in P : g(t).key = g(q).key /\ Before(t, q)}}
      BY <1>8 DEF Counted
    <2>2. \A p \in P : f(p) = g(p)
      BY <1>9
    <2> HIDE DEF P, f, g
    <2>3. {q \in P : ~\E t \in P : f(t).key = f(q).key /\ Before(t, q)}
            = {q \in P : ~\E t \in P : g(t).key = g(q).key /\ Before(t, q)}
      BY <2>2
    <2>4. QED
      BY <2>1, <2>2, <2>3

-----------------------------------------------------------------------------
(* Chains *)

\* Each block of a chain is linked to the one before it,
Linked(n) ==
    \A i \in DOMAIN chain[n] :
        blocks[chain[n][i]].previous = IF i = 1 THEN Genesis ELSE chain[n][i - 1]

\* two chains with a block in common are the same up to it,
SamePrefix(n, m) ==
    \A i \in DOMAIN chain[n], j \in DOMAIN chain[m] :
        chain[n][i] = chain[m][j] => i = j /\ \A k \in 1 .. i : chain[n][k] = chain[m][k]

\* a transaction is in one block of a chain,
Once(n) ==
    \A i, j \in DOMAIN chain[n] : \A h :
        h \in BlockTxs(chain[n][i]) /\ h \in BlockTxs(chain[n][j]) => i = j

\* a tally is on no chain without its election and its last block,
TalliesOK(n) ==
    \A h \in OfType("tally") : ContainsTransaction(n, h) =>
        ContainsElection(n, published[h].election) /\ ContainsBlock(n, published[h].lastBlock)

\* and the transaction of an election is that and nothing else.
ElectionsOK == \A h \in OfType("election") : published[h] = TxElection(published[h].election)

PathsInv ==
    /\ ElectionsOK
    /\ \A n \in Nodes : Linked(n) /\ Once(n) /\ TalliesOK(n)
    /\ \A n, m \in Nodes : SamePrefix(n, m)

\* A partial tally of node n for a tally of its chain
Answer(tx) ==
    \E n \in Nodes : \E h \in OfType("tally") :
        ContainsTransaction(n, h) /\ \E k : tx = TrusteeTally(n, h, k)

\* A step that publishes, and of partial tallies only answers
PublishesAnswers ==
    /\ Extends(published, published') /\ UNCHANGED <<blocks, chain>>
    /\ \A h \in Hashes' \ Hashes :
         \/ \E e : published'[h] = TxElection(e)
         \/ published'[h].type \in {"vote", "tally"}
         \/ Answer(published'[h])

\* A step that adds block b to the chain of n
Adds(n, b) ==
    /\ chain' = [chain EXCEPT ![n] = Append(@, b)]
    /\ b \in DOMAIN blocks' /\ blocks'[b].previous = Tip(n)
    /\ Acceptable(n, ToSet(blocks'[b].transactions))
    /\ blocks' = blocks \/ b \notin DOMAIN blocks
    /\ Extends(blocks, blocks')
    /\ UNCHANGED published

\* An answer is a partial tally.
LEMMA AnswerType == ASSUME NEW tx, Answer(tx) PROVE tx.type = "trusteeTally"
  <1>1. PICK n \in Nodes : \E h \in OfType("tally") : \E k : tx = TrusteeTally(n, h, k)
    BY DEF Answer
  <1>2. PICK h \in OfType("tally") : \E k : tx = TrusteeTally(n, h, k)
    BY <1>1
  <1>3. PICK k : tx = TrusteeTally(n, h, k)
    BY <1>2
  <1>4. QED
    BY <1>3 DEF TrusteeTally, TxTrusteeTally

\* Partial tallies for tallies of the chain are answers.
LEMMA TalliesAnswer ==
    ASSUME Inv, NEW n \in Nodes, NEW signing, PublishTrusteeTallies(n, signing),
           NEW k \in Nat, DOMAIN signing = 1 .. k,
           \A i \in DOMAIN signing :
             signing[i].tally \in OfType("tally") /\ ContainsTransaction(n, signing[i].tally),
           UNCHANGED <<blocks, chain>>
    PROVE  PublishesAnswers
  <1> DEFINE new == [i \in DOMAIN signing |-> TrusteeTally(n, signing[i].tally, signing[i].key)]
  <1>1. Sequence(published)
    BY DEF Inv, Shapes
  <1>2. Sequence(new) /\ Len(new) = k /\ DOMAIN new = 1 .. k
    <2>1. new = [i \in 1 .. k |-> new[i]]
      OBVIOUS
    <2> HIDE DEF new
    <2>2. Sequence(new) /\ Len(new) = k
      BY <2>1, FunctionSequence
    <2>3. QED
      BY <2>1, <2>2
  <1>3. \A i \in 1 .. k : Answer(new[i])
    BY DEF Answer
  <1>4. published' = published \o new
    BY DEF PublishTrusteeTallies
  <1> HIDE DEF new
  <1>5. /\ DOMAIN published = 1 .. Len(published) /\ Len(published) \in Nat
        /\ DOMAIN published' = 1 .. Len(published) + k
        /\ \A i \in 1 .. Len(published) : published'[i] = published[i]
        /\ \A i \in 1 .. Len(published) + k : i > Len(published) => published'[i] = new[i - Len(published)]
    BY ZenonT(60), <1>1, <1>2, <1>4, ConcatFacts, SequenceFacts
  <1>6. \A h \in Hashes' \ Hashes : h - Len(published) \in 1 .. k /\ published'[h] = new[h - Len(published)]
    BY <1>5 DEF Hashes
  <1>7. \A h \in Hashes' \ Hashes : Answer(published'[h])
    BY <1>3, <1>6
  <1>8. Extends(published, published')
    BY <1>5 DEF Extends
  <1>9. QED
    BY <1>7, <1>8 DEF PublishesAnswers

\* One transaction that is an election, a vote or a tally
LEMMA OneAnswers ==
    ASSUME Inv, NEW tx, Publish(tx), (\E e : tx = TxElection(e)) \/ tx.type \in {"vote", "tally"},
           UNCHANGED <<blocks, chain>>
    PROVE  PublishesAnswers
  <1>1. Sequence(published)
    BY DEF Inv, Shapes
  <1>2. /\ DOMAIN published = 1 .. Len(published) /\ Len(published) \in Nat
        /\ DOMAIN published' = 1 .. Len(published) + 1
        /\ \A i \in 1 .. Len(published) : published'[i] = published[i]
        /\ published'[Len(published) + 1] = tx
    BY <1>1, AppendFacts, SequenceFacts DEF Publish
  <1>3. \A h \in Hashes' \ Hashes : h = Len(published) + 1
    BY <1>2 DEF Hashes
  <1>4. QED
    BY <1>2, <1>3 DEF PublishesAnswers, Extends, Hashes

\* A step that publishes nothing
LEMMA NoneAnswers ==
    ASSUME UNCHANGED <<published, blocks, chain>>
    PROVE  PublishesAnswers
  BY DEF PublishesAnswers, Extends, Hashes

\* The import of a key answers tallies of the entry, which are on the chain.
LEMMA ImportKeyAnswers ==
    ASSUME Inv, NEW n \in Nodes, NEW e \in Elections, NEW k, ImportKey(n, e, k)
    PROVE  PublishesAnswers
  <1> DEFINE em == elections[n][e]
             unsigned == {h \in DOMAIN em.tallies : ~\E t \in em.tallies[h] : published[t].key = k}
             signing(S) == [i \in DOMAIN SetToSeq(S) |-> [tally |-> SetToSeq(S)[i], key |-> k]]
  <1>1. e \in DOMAIN elections[n] /\ UNCHANGED <<blocks, chain>>
    BY DEF ImportKey
  <1>2. \A h \in unsigned : h \in OfType("tally") /\ ContainsTransaction(n, h)
    BY <1>1 DEF Inv, EntriesOK, EntryInv, Backed, OnChain
  <1>3. \A S \in SUBSET unsigned : PublishTrusteeTallies(n, signing(S)) => PublishesAnswers
    <2> SUFFICES ASSUME NEW S \in SUBSET unsigned, PublishTrusteeTallies(n, signing(S))
                 PROVE  PublishesAnswers
      OBVIOUS
    <2> DEFINE q == SetToSeq(S)
    <2>1. IsFiniteSet(S)
      BY <1>2, FiniteHashes, FS_Subset DEF OfType
    <2>2. Cardinality(S) \in Nat /\ q \in [1 .. Cardinality(S) -> S]
      BY <2>1, OrderFacts
    <2>3. /\ DOMAIN signing(S) = 1 .. Cardinality(S)
          /\ \A i \in DOMAIN signing(S) : signing(S)[i].tally = q[i]
      BY <2>2
    <2> HIDE DEF q, signing, unsigned
    <2>4. QED
      BY <1>1, <1>2, <2>2, <2>3, TalliesAnswer
  <1>4. \E S \in SUBSET unsigned : PublishTrusteeTallies(n, signing(S))
    BY DEF ImportKey
  <1>5. QED
    BY <1>3, <1>4

\* So does a trustee for a tally it has registered.
LEMMA AnswerTxTallyAnswers ==
    ASSUME Inv, AnsweringOK, NEW n \in Nodes, NEW h \in answering[n], AnswerTxTally(n, h)
    PROVE  PublishesAnswers
  <1> SUFFICES ASSUME NEW e, e = published[h].election PROVE PublishesAnswers
    OBVIOUS
  <1> DEFINE saved == {i \in DOMAIN paillier[n] :
                         paillier[n][i].election = e /\ paillier[n][i].key \in TrusteeKeys[n] \cap Trustees[e]}
             order == SetToSeq(saved)
             signing == [i \in DOMAIN order |-> [tally |-> h, key |-> paillier[n][order[i]].key]]
  <1>1. /\ UNCHANGED <<blocks, chain>>
        /\ UNCHANGED published \/ PublishTrusteeTallies(n, signing)
    BY DEF AnswerTxTally
  <1>2. h \in OfType("tally") /\ ContainsTransaction(n, h)
    BY DEF AnsweringOK
  <1>3. IsFiniteSet(saved)
    <2>1. DOMAIN paillier[n] = 1 .. Len(paillier[n]) /\ Len(paillier[n]) \in Nat
      BY SequenceFacts DEF Inv, Shapes
    <2>2. IsFiniteSet(DOMAIN paillier[n])
      BY <2>1, FS_Interval
    <2>3. QED
      BY <2>2, FS_Subset
  <1>4. Cardinality(saved) \in Nat /\ DOMAIN order = 1 .. Cardinality(saved)
    BY <1>3, OrderFacts
  <1>5. DOMAIN signing = 1 .. Cardinality(saved) /\ \A i \in DOMAIN signing : signing[i].tally = h
    BY <1>4
  <1> HIDE DEF signing, order, saved
  <1>6. PublishTrusteeTallies(n, signing) => PublishesAnswers
    BY <1>1, <1>2, <1>4, <1>5, TalliesAnswer
  <1>7. QED
    BY <1>1, <1>6, NoneAnswers

\* Every step publishes answers, or adds a block to one chain.
LEMMA StepKinds ==
    ASSUME Inv, AnsweringOK, [Next]_vars
    PROVE  /\ UNCHANGED situation
           /\ PublishesAnswers \/ \E n \in Nodes : \E b : Adds(n, b)
  <1>1. CASE UNCHANGED vars
    BY <1>1, NoneAnswers DEF vars
  <1>2. CASE Next
    <2>1. UNCHANGED situation
      BY <1>2 DEF Next
    <2>2. ASSUME NEW e \in Elections, CreateElection(e) PROVE PublishesAnswers
      BY <2>2, OneAnswers DEF CreateElection
    <2>3. ASSUME NEW n \in Nodes, NEW e \in Elections, NEW k, NEW b, Vote(n, e, k, b)
          PROVE  PublishesAnswers
      <3>1. TxVote(e, k, b).type = "vote"
        BY DEF TxVote
      <3>2. QED
        BY <2>3, <3>1, OneAnswers DEF Vote
    <2>4. ASSUME NEW e \in Elections, NEW b, NEW end \in BOOLEAN, Tally(e, b, end)
          PROVE  PublishesAnswers
      <3>1. TxTally(e, b, end).type = "tally"
        BY DEF TxTally
      <3>2. QED
        BY <2>4, <3>1, OneAnswers DEF Tally
    <2>5. ASSUME NEW n \in Nodes, SaveKey(n) \/ Crash(n) PROVE PublishesAnswers
      BY <2>5, NoneAnswers DEF SaveKey, Crash
    <2>6. ASSUME NEW n \in Nodes, Process(n) PROVE PublishesAnswers
      BY <2>6, NoneAnswers, AnswerTxTallyAnswers
         DEF Process, ProcessTxElection, ProcessTxVote, IgnoreTxTally, RegisterTxTally,
             ProcessTxTrusteeTally
    <2>7. ASSUME NEW n \in Nodes, MineBlock(n) PROVE \E b : Adds(n, b)
      <3>1. PICK txs \in Minable(n) : Mine(n, txs)
        BY <2>7 DEF MineBlock
      <3>2. Sequence(blocks) /\ DOMAIN blocks = 1 .. Len(blocks) /\ Len(blocks) \in Nat
        BY SequenceFacts DEF Inv, Shapes
      <3>3. blocks' = Append(blocks, [previous |-> Tip(n), transactions |-> txs])
        BY <3>1 DEF Mine
      <3>4. /\ DOMAIN blocks' = 1 .. Len(blocks) + 1
            /\ \A b \in 1 .. Len(blocks) : blocks'[b] = blocks[b]
            /\ blocks'[Len(blocks) + 1] = [previous |-> Tip(n), transactions |-> txs]
        BY <3>2, <3>3, AppendFacts
      <3>5. Adds(n, Len(blocks) + 1)
        <4>1. Len(blocks) + 1 \in DOMAIN blocks' /\ Len(blocks) + 1 \notin DOMAIN blocks
          BY <3>2, <3>4
        <4>2. /\ blocks'[Len(blocks) + 1].previous = Tip(n)
              /\ blocks'[Len(blocks) + 1].transactions = txs
          BY <3>4
        <4>3. Extends(blocks, blocks')
          BY <3>2, <3>4 DEF Extends
        <4>4. /\ chain' = [chain EXCEPT ![n] = Append(@, Len(blocks) + 1)] /\ UNCHANGED published
              /\ Acceptable(n, ToSet(txs))
          BY <3>1 DEF Mine, Accept
        <4>5. QED
          BY <4>1, <4>2, <4>3, <4>4 DEF Adds
      <3>6. QED
        BY <3>5
    <2>8. ASSUME NEW n \in Nodes, Receive(n) PROVE \E b : Adds(n, b)
      <3>1. PICK b \in DOMAIN blocks : ReceiveBlock(n, b)
        BY <2>8 DEF Receive
      <3>2. Adds(n, b)
        BY <3>1 DEF ReceiveBlock, Accept, Adds, Extends, BlockTxs
      <3>3. QED
        BY <3>2
    <2>9. ASSUME User PROVE PublishesAnswers
      BY <2>2, <2>3, <2>4, <2>5, <2>9, ImportKeyAnswers DEF User
    <2>10. QED
      BY <1>2, <2>1, <2>5, <2>6, <2>7, <2>8, <2>9 DEF Next
  <1>3. QED
    BY <1>1, <1>2

-----------------------------------------------------------------------------
(* The chains stay as PathsInv says *)

\* Nothing goes away when transactions are published,
LEMMA AnswersGrow == ASSUME Inv, UNCHANGED situation, PublishesAnswers PROVE Grows
  BY DEF PublishesAnswers, Grows, Extends

\* What a block adds to the chain of its node
LEMMA AddsFacts ==
    ASSUME Inv, NEW n \in Nodes, NEW b, Adds(n, b)
    PROVE  /\ Sequence(chain[n]) /\ DOMAIN chain[n] = 1 .. Len(chain[n]) /\ Len(chain[n]) \in Nat
           /\ DOMAIN chain'[n] = 1 .. Len(chain[n]) + 1
           /\ \A i \in 1 .. Len(chain[n]) : chain'[n][i] = chain[n][i]
           /\ chain'[n][Len(chain[n]) + 1] = b
           /\ \A m \in Nodes \ {n} : chain'[m] = chain[m]
           /\ \A m \in Nodes : \A i \in DOMAIN chain[m] : chain[m][i] \in DOMAIN blocks
  <1>1. chain = [m \in Nodes |-> chain[m]] /\ Sequence(chain[n])
    BY DEF Inv, Shapes, FunctionOn
  <1>2. chain'[n] = Append(chain[n], b) /\ \A m \in Nodes \ {n} : chain'[m] = chain[m]
    BY <1>1 DEF Adds
  <1>3. DOMAIN chain[n] = 1 .. Len(chain[n]) /\ Len(chain[n]) \in Nat
    BY <1>1, SequenceFacts
  <1>4. /\ DOMAIN Append(chain[n], b) = 1 .. Len(chain[n]) + 1
        /\ \A i \in 1 .. Len(chain[n]) : Append(chain[n], b)[i] = chain[n][i]
        /\ Append(chain[n], b)[Len(chain[n]) + 1] = b
    BY <1>1, AppendFacts
  <1>5. \A m \in Nodes : \A i \in DOMAIN chain[m] : chain[m][i] \in DOMAIN blocks
    BY DEF Inv, ChainOK, ToSet
  <1>6. QED
    BY <1>1, <1>2, <1>3, <1>4, <1>5

\* nor when a block is added.
LEMMA AddsGrow == ASSUME Inv, UNCHANGED situation, NEW n \in Nodes, NEW b, Adds(n, b) PROVE Grows
  <1>1. \A m \in Nodes : Extends(chain[m], chain'[m])
    BY AddsFacts DEF Extends
  <1>2. QED
    BY <1>1 DEF Grows, Adds, Extends

\* PathsInv holds of empty chains.
LEMMA PathsInit == Init => PathsInv
  BY DEF Init, PathsInv, ElectionsOK, Linked, Once, TalliesOK, SamePrefix, OfType, Hashes

\* Publishing changes no chain.
LEMMA PathsPublish ==
    ASSUME Inv, Inv', PathsInv, UNCHANGED situation, PublishesAnswers
    PROVE  PathsInv'
  <1>1. Grows /\ UNCHANGED <<blocks, chain>>
    BY AnswersGrow DEF PublishesAnswers
  <1>2. \A n \in Nodes : Linked(n)' /\ Once(n)'
    BY <1>1 DEF PathsInv, Linked, Once, BlockTxs
  <1>3. \A n, m \in Nodes : SamePrefix(n, m)'
    BY <1>1 DEF PathsInv, SamePrefix
  <1>4. \A n \in Nodes : TalliesOK(n)'
    <2> SUFFICES ASSUME NEW n \in Nodes, NEW h \in OfType("tally")', ContainsTransaction(n, h)'
                 PROVE  (ContainsElection(n, published[h].election) /\ ContainsBlock(n, published[h].lastBlock))'
      BY DEF TalliesOK
    <2>1. ContainsTransaction(n, h) /\ h \in Hashes
      BY <1>1 DEF ContainsTransaction, BlockTxs, Inv, ChainOK, BlocksInv
    <2>2. h \in OfType("tally") /\ published'[h] = published[h]
      BY <1>1, <2>1, GrowsFacts
    <2>3. ContainsElection(n, published[h].election) /\ ContainsBlock(n, published[h].lastBlock)
      BY <2>1, <2>2 DEF PathsInv, TalliesOK
    <2>4. /\ \A e : ContainsElection(n, e) => ContainsElection(n, e)'
          /\ \A b : ContainsBlock(n, b) => ContainsBlock(n, b)'
      BY <1>1, GrowsFacts DEF ContainsBlock
    <2>5. QED
      BY <2>2, <2>3, <2>4
  <1>5. ElectionsOK'
    <2> SUFFICES ASSUME NEW h \in OfType("election")'
                 PROVE  published'[h] = TxElection(published'[h].election)
      BY DEF ElectionsOK
    <2>1. CASE h \in Hashes
      BY <1>1, <2>1, GrowsFacts DEF PathsInv, ElectionsOK
    <2>2. CASE h \notin Hashes
      <3>1. h \in Hashes' \ Hashes /\ published'[h].type = "election"
        BY <2>2 DEF OfType
      <3>2. ~Answer(published'[h])
        BY <3>1, AnswerType
      <3>3. \E e : published'[h] = TxElection(e)
        BY <3>1, <3>2 DEF PublishesAnswers
      <3>4. QED
        BY <3>3 DEF TxElection
    <2>3. QED
      BY <2>1, <2>2
  <1>6. QED
    BY <1>2, <1>3, <1>4, <1>5 DEF PathsInv

\* The position of a block in a chain, and that of the one before it
LEMMA PreviousFacts ==
    ASSUME Inv, PathsInv, NEW n \in Nodes, NEW m \in Nodes, NEW j \in DOMAIN chain[m],
           blocks[chain[m][j]].previous = Tip(n)
    PROVE  /\ j = Len(chain[n]) + 1
           /\ \A i \in 1 .. Len(chain[n]) : chain[n][i] = chain[m][i]
  <1>1. /\ Sequence(chain[n]) /\ Sequence(chain[m]) /\ Sequence(blocks)
        /\ \A i \in DOMAIN chain[n] : chain[n][i] \in DOMAIN blocks
        /\ \A i \in DOMAIN chain[m] : chain[m][i] \in DOMAIN blocks
    BY DEF Inv, Shapes, ChainOK, ToSet
  <1>2. /\ DOMAIN chain[n] = 1 .. Len(chain[n]) /\ Len(chain[n]) \in Nat
        /\ chain[n] = <<>> <=> Len(chain[n]) = 0
        /\ DOMAIN chain[m] = 1 .. Len(chain[m]) /\ Len(chain[m]) \in Nat
        /\ DOMAIN blocks = 1 .. Len(blocks)
    BY <1>1, SequenceFacts
  <1>3. blocks[chain[m][j]].previous = IF j = 1 THEN 0 ELSE chain[m][j - 1]
    BY DEF PathsInv, Linked, Genesis
  <1>4. CASE Len(chain[n]) = 0
    <2>1. Tip(n) = 0
      BY <1>2, <1>4 DEF Tip, Genesis
    <2>2. j = 1
      <3>1. j # 1 => j - 1 \in DOMAIN chain[m]
        BY <1>2
      <3>2. \A i \in DOMAIN chain[m] : chain[m][i] # 0
        BY <1>1, <1>2
      <3>3. QED
        BY <1>3, <2>1, <3>1, <3>2
    <2>3. QED
      BY <1>4, <2>2
  <1>5. CASE Len(chain[n]) # 0
    <2>1. Len(chain[n]) \in DOMAIN chain[n]
      BY <1>2, <1>5
    <2>2. Tip(n) = chain[n][Len(chain[n])]
      BY <1>2, <1>5 DEF Tip, Last
    <2>3. Tip(n) # 0
      BY <1>1, <1>2, <2>1, <2>2
    <2>4. j # 1 /\ chain[m][j - 1] = chain[n][Len(chain[n])] /\ j - 1 \in DOMAIN chain[m]
      <3>1. j # 1 /\ chain[m][j - 1] = Tip(n)
        BY <1>3, <2>3
      <3>2. j \in 1 .. Len(chain[m]) /\ Len(chain[m]) \in Nat
        BY <1>2
      <3>3. j - 1 \in 1 .. Len(chain[m])
        BY <3>1, <3>2
      <3>4. QED
        BY <1>2, <2>2, <3>1, <3>3
    <2>5. Len(chain[n]) = j - 1 /\ \A k \in 1 .. Len(chain[n]) : chain[n][k] = chain[m][k]
      BY <2>1, <2>4 DEF PathsInv, SamePrefix
    <2>6. QED
      BY <1>2, <2>5
  <1>6. QED
    BY <1>4, <1>5

\* A block that is added is in another chain at the same height, on the same
\* blocks, and not yet in its own chain.
LEMMA AddedPlace ==
    ASSUME Inv, PathsInv, NEW n \in Nodes, NEW b, Adds(n, b), NEW m \in Nodes,
           NEW j \in DOMAIN chain[m], chain[m][j] = b
    PROVE  /\ m # n /\ j = Len(chain[n]) + 1
           /\ \A i \in 1 .. Len(chain[n]) : chain[n][i] = chain[m][i]
  <1>1. b \in DOMAIN blocks
    BY AddsFacts
  <1>2. blocks[chain[m][j]].previous = Tip(n)
    BY <1>1 DEF Adds
  <1>3. /\ j = Len(chain[n]) + 1
        /\ \A i \in 1 .. Len(chain[n]) : chain[n][i] = chain[m][i]
    BY <1>2, PreviousFacts
  <1>4. m # n
    <2>1. DOMAIN chain[n] = 1 .. Len(chain[n]) /\ Len(chain[n]) \in Nat
      BY AddsFacts
    <2>2. QED
      BY <1>3, <2>1
  <1>5. QED
    BY <1>3, <1>4

\* Adding a block keeps the chains linked and equal up to common blocks.
LEMMA PathsAdd ==
    ASSUME Inv, Inv', PathsInv, UNCHANGED situation, NEW n \in Nodes, NEW b, Adds(n, b)
    PROVE  PathsInv'
  <1> DEFINE k == Len(chain[n])
  <1>1. Grows
    BY AddsGrow
  <1>2. /\ DOMAIN chain[n] = 1 .. k /\ k \in Nat
        /\ DOMAIN chain'[n] = 1 .. k + 1
        /\ \A i \in 1 .. k : chain'[n][i] = chain[n][i]
        /\ chain'[n][k + 1] = b
        /\ \A m \in Nodes \ {n} : chain'[m] = chain[m]
        /\ \A m \in Nodes : \A i \in DOMAIN chain[m] : chain[m][i] \in DOMAIN blocks
    BY AddsFacts
  <1>3. /\ b \in DOMAIN blocks' /\ blocks'[b].previous = Tip(n)
        /\ \A c \in DOMAIN blocks : blocks'[c] = blocks[c] /\ BlockTxs(c)' = BlockTxs(c)
        /\ UNCHANGED published
        /\ \A h \in BlockTxs(b)' : ~ContainsTransaction(n, h) /\ Verify(n, h)
    BY DEF Adds, Extends, BlockTxs, Acceptable
  <1>4. \A m \in Nodes : \A j \in DOMAIN chain[m] : chain[m][j] = b =>
          m # n /\ j = k + 1 /\ \A i \in 1 .. k : chain[n][i] = chain[m][i]
    BY AddedPlace
  <1>5. Tip(n) = IF k = 0 THEN Genesis ELSE chain[n][k]
    <2>1. chain[n] = <<>> <=> k = 0
      BY AddsFacts, SequenceFacts
    <2>2. QED
      BY <2>1 DEF Tip, Last
  <1> HIDE DEF k
  <1>6. \A m \in Nodes : Linked(m)'
    <2> SUFFICES ASSUME NEW m \in Nodes, NEW i \in DOMAIN chain'[m]
                 PROVE  blocks'[chain'[m][i]].previous = IF i = 1 THEN Genesis ELSE chain'[m][i - 1]
      BY DEF Linked
    <2>1. CASE m # n
      BY <1>2, <1>3, <2>1 DEF PathsInv, Linked
    <2>2. CASE m = n /\ i \in 1 .. k
      <3>1. i # 1 => i - 1 \in 1 .. k
        BY <1>2, <2>2
      <3>2. QED
        BY SMTT(30), <1>2, <1>3, <2>2, <3>1 DEF PathsInv, Linked
    <2>3. CASE m = n /\ i = k + 1
      <3>1. chain'[n][i] = b /\ (i = 1 <=> k = 0) /\ (i # 1 => i - 1 \in 1 .. k /\ i - 1 = k)
        BY <1>2, <2>3
      <3>2. QED
        BY <1>2, <1>3, <1>5, <2>3, <3>1
    <2>4. QED
      BY <1>2, <2>1, <2>2, <2>3
  <1>7. \A m \in Nodes : Once(m)'
    <2> SUFFICES ASSUME NEW m \in Nodes, NEW i \in DOMAIN chain'[m], NEW j \in DOMAIN chain'[m], NEW h,
                        h \in BlockTxs(chain[m][i])', h \in BlockTxs(chain[m][j])'
                 PROVE  i = j
      BY DEF Once
    <2>1. CASE m # n
      <3>1. chain'[m] = chain[m] /\ chain[m][i] \in DOMAIN blocks /\ chain[m][j] \in DOMAIN blocks
        BY <1>2, <2>1
      <3>2. h \in BlockTxs(chain[m][i]) /\ h \in BlockTxs(chain[m][j])
        BY <1>3, <3>1 DEF BlockTxs
      <3>3. i \in DOMAIN chain[m] /\ j \in DOMAIN chain[m] /\ Once(m)
        BY <3>1 DEF PathsInv
      <3>4. QED
        BY <3>2, <3>3 DEF Once
    <2>2. CASE m = n
      <3>1. ASSUME NEW l \in 1 .. k, h \in BlockTxs(chain[n][l])' PROVE ContainsTransaction(n, h)
        <4>1. chain'[n][l] = chain[n][l] /\ chain[n][l] \in DOMAIN blocks /\ chain[n][l] \in ToSet(chain[n])
          BY <1>2 DEF ToSet
        <4>2. h \in BlockTxs(chain[n][l])
          BY <1>3, <3>1, <4>1 DEF BlockTxs
        <4>3. QED
          BY <4>1, <4>2 DEF ContainsTransaction
      <3>2. h \in BlockTxs(b)' => ~ContainsTransaction(n, h)
        BY <1>3
      <3>3. CASE i \in 1 .. k /\ j \in 1 .. k
        <4>1. h \in BlockTxs(chain[n][i]) /\ h \in BlockTxs(chain[n][j])
          BY <1>2, <1>3, <2>2, <3>3 DEF BlockTxs
        <4>2. QED
          BY <1>2, <3>3, <4>1 DEF PathsInv, Once
      <3>4. CASE i = k + 1 /\ j \in 1 .. k
        BY <1>2, <2>2, <3>1, <3>2, <3>4 DEF BlockTxs
      <3>5. CASE j = k + 1 /\ i \in 1 .. k
        BY <1>2, <2>2, <3>1, <3>2, <3>5 DEF BlockTxs
      <3>6. QED
        BY <1>2, <2>2, <3>3, <3>4, <3>5
    <2>3. QED
      BY <2>1, <2>2
  <1>8. \A m \in Nodes : TalliesOK(m)'
    <2> SUFFICES ASSUME NEW m \in Nodes, NEW h \in OfType("tally"), ContainsTransaction(m, h)'
                 PROVE  ContainsElection(m, published[h].election)' /\ ContainsBlock(m, published[h].lastBlock)'
      BY <1>3 DEF TalliesOK, OfType, Hashes
    <2>1. \A c : ContainsBlock(m, c) => ContainsBlock(m, c)'
      BY <1>2 DEF ContainsBlock, ToSet
    <2>2. \A e : ContainsElection(m, e) => ContainsElection(m, e)'
      BY <1>1, GrowsFacts
    <2>3. CASE ContainsTransaction(m, h)
      <3>1. ContainsElection(m, published[h].election) /\ ContainsBlock(m, published[h].lastBlock)
        BY <2>3 DEF PathsInv, TalliesOK
      <3>2. QED
        BY <1>3, <2>1, <2>2, <3>1
    <2>4. CASE ~ContainsTransaction(m, h)
      <3>1. m = n /\ h \in BlockTxs(b)'
        <4>1. PICK i \in DOMAIN chain'[m] : h \in ToSet(blocks'[chain'[m][i]].transactions)
          BY DEF ContainsTransaction, BlockTxs, ToSet
        <4>2. ASSUME i \in DOMAIN chain[m], chain'[m][i] = chain[m][i] PROVE FALSE
          <5>1. chain[m][i] \in DOMAIN blocks /\ chain[m][i] \in ToSet(chain[m])
            BY <1>2, <4>2 DEF ToSet
          <5>2. h \in BlockTxs(chain[m][i])
            BY <1>3, <4>1, <4>2, <5>1 DEF BlockTxs
          <5>3. QED
            BY <2>4, <5>1, <5>2 DEF ContainsTransaction
        <4>3. m = n /\ i = k + 1
          <5>1. CASE m # n
            BY <1>2, <4>2, <5>1
          <5>2. CASE m = n
            BY <1>2, <4>2, <5>2
          <5>3. QED
            BY <5>1, <5>2
        <4>4. QED
          BY <1>2, <4>1, <4>3 DEF BlockTxs
      <3>2. VerifyTally(n, published[h])
        BY <1>3, <3>1 DEF Verify, OfType
      <3>3. ContainsElection(m, published[h].election) /\ ContainsBlock(m, published[h].lastBlock)
        BY <3>1, <3>2 DEF VerifyTally
      <3>4. QED
        BY <1>3, <2>1, <2>2, <3>3
    <2>5. QED
      BY <2>3, <2>4
  <1>9. \A m, l \in Nodes : SamePrefix(m, l)'
    <2> SUFFICES ASSUME NEW m \in Nodes, NEW l \in Nodes,
                        NEW i \in DOMAIN chain'[m], NEW j \in DOMAIN chain'[l],
                        chain'[m][i] = chain'[l][j]
                 PROVE  i = j /\ \A q \in 1 .. i : chain'[m][q] = chain'[l][q]
      BY DEF SamePrefix
    <2>1. \A o \in Nodes : \A q \in DOMAIN chain[o] : q \in DOMAIN chain'[o] /\ chain'[o][q] = chain[o][q]
      BY <1>2
    <2>2. \A o \in Nodes : \A q \in DOMAIN chain'[o] : q \in DOMAIN chain[o] \/ (o = n /\ q = k + 1)
      <3>1. \A q : q \in 1 .. k + 1 => q \in 1 .. k \/ q = k + 1
        BY <1>2
      <3>2. \A q \in DOMAIN chain'[n] : q \in DOMAIN chain[n] \/ q = k + 1
        BY <1>2, <3>1
      <3>3. \A o \in Nodes \ {n} : DOMAIN chain'[o] = DOMAIN chain[o]
        BY <1>2
      <3>4. QED
        BY <3>2, <3>3
    <2>3. \A o \in Nodes : \A q \in DOMAIN chain[o] : \A p \in 1 .. q : p \in DOMAIN chain[o]
      <3>1. \A o \in Nodes : DOMAIN chain[o] = 1 .. Len(chain[o]) /\ Len(chain[o]) \in Nat
        BY SequenceFacts DEF Inv, Shapes
      <3>2. QED
        BY <3>1
    <2>4. CASE i \in DOMAIN chain[m] /\ j \in DOMAIN chain[l]
      <3>1. chain[m][i] = chain[l][j]
        BY <2>1, <2>4
      <3>2. i = j /\ \A q \in 1 .. i : chain[m][q] = chain[l][q]
        BY <2>4, <3>1 DEF PathsInv, SamePrefix
      <3>3. QED
        BY <2>1, <2>3, <2>4, <3>2
    <2>5. ASSUME NEW o \in Nodes, NEW q \in DOMAIN chain[o], chain[o][q] = b
          PROVE  q = k + 1 /\ \A p \in 1 .. k + 1 : chain'[n][p] = chain'[o][p]
      <3>1. o # n /\ q = k + 1 /\ \A p \in 1 .. k : chain[n][p] = chain[o][p]
        BY <1>4, <2>5
      <3>2. \A p \in 1 .. k + 1 : p \in 1 .. k \/ p = k + 1
        BY <1>2
      <3>3. QED
        BY <1>2, <2>5, <3>1, <3>2
    <2>6. CASE i \notin DOMAIN chain[m] /\ j \in DOMAIN chain[l]
      BY <1>2, <2>1, <2>2, <2>5, <2>6
    <2>7. CASE i \in DOMAIN chain[m] /\ j \notin DOMAIN chain[l]
      BY <1>2, <2>1, <2>2, <2>5, <2>7
    <2>8. CASE i \notin DOMAIN chain[m] /\ j \notin DOMAIN chain[l]
      BY <2>2, <2>8
    <2>9. QED
      BY <2>4, <2>6, <2>7, <2>8
  <1>10. ElectionsOK'
    BY <1>3 DEF PathsInv, ElectionsOK, OfType, Hashes
  <1>11. QED
    BY <1>6, <1>7, <1>8, <1>9, <1>10 DEF PathsInv

\* PathsInv holds in every state.
LEMMA PathsInvariance == Spec => []PathsInv
  <1>1. Inv /\ AnsweringOK /\ Inv' /\ PathsInv /\ [Next]_vars => PathsInv'
    BY StepKinds, PathsPublish, PathsAdd
  <1>2. QED
    BY <1>1, Invariance, PathsInit, PTL DEF Spec

-----------------------------------------------------------------------------
(* One count for each tally *)

\* A block and the transaction of an election have one place in a chain.
BlockPlace(n, b, k) == k \in DOMAIN chain[n] /\ \A i \in DOMAIN chain[n] : chain[n][i] = b <=> i = k

ElectionPlace(n, e, s) ==
    s \in DOMAIN chain[n] /\ \A i \in DOMAIN chain[n] : Opens(blocks, published, chain[n][i], e) <=> i = s

PlacesInv ==
    \A n \in Nodes :
        /\ \A b : ContainsBlock(n, b) => \E k : BlockPlace(n, b, k)
        /\ \A e : ContainsElection(n, e) => \E s : ElectionPlace(n, e, s)

\* A block of a chain has one place in it (two chains with a block in common are
\* the same up to it), and so has an election (its transaction is in one block).
LEMMA Places == ASSUME Inv, PathsInv PROVE PlacesInv
  <1> SUFFICES ASSUME NEW n \in Nodes
               PROVE  /\ \A b : ContainsBlock(n, b) => \E k : BlockPlace(n, b, k)
                      /\ \A e : ContainsElection(n, e) => \E s : ElectionPlace(n, e, s)
    BY DEF PlacesInv
  <1>1. ASSUME NEW b, ContainsBlock(n, b) PROVE \E k : BlockPlace(n, b, k)
    <2>1. PICK k \in DOMAIN chain[n] : chain[n][k] = b
      BY <1>1 DEF ContainsBlock, ToSet
    <2>2. \A i \in DOMAIN chain[n] : chain[n][i] = b => i = k
      BY <2>1 DEF PathsInv, SamePrefix
    <2>3. BlockPlace(n, b, k)
      BY <2>1, <2>2 DEF BlockPlace
    <2>4. QED
      BY <2>3
  <1>2. ASSUME NEW e, ContainsElection(n, e) PROVE \E s : ElectionPlace(n, e, s)
    <2>1. PICK h \in OfType("election") : published[h].election = e /\ ContainsTransaction(n, h)
      BY <1>2 DEF ContainsElection
    <2>2. published[h] = TxElection(e)
      BY <2>1 DEF PathsInv, ElectionsOK
    <2>3. PICK s \in DOMAIN chain[n] : h \in BlockTxs(chain[n][s])
      BY <2>1 DEF ContainsTransaction, ToSet
    <2>4. Opens(blocks, published, chain[n][s], e)
      BY <2>2, <2>3 DEF Opens, BlockTxs
    <2>5. ASSUME NEW i \in DOMAIN chain[n], Opens(blocks, published, chain[n][i], e) PROVE i = s
      <3>1. PICK g \in BlockTxs(chain[n][i]) : published[g] = TxElection(e)
        BY <2>5 DEF Opens, BlockTxs
      <3>2. chain[n][i] \in DOMAIN blocks
        BY DEF Inv, ChainOK, ToSet
      <3>3. g \in Hashes
        BY <3>1, <3>2 DEF Inv, BlocksInv
      <3>4. g \in OfType("election") /\ published[g].election = e
        BY <3>1, <3>3 DEF OfType, TxElection
      <3>5. g = h
        BY <2>1, <3>4 DEF Inv, PublishedInv
      <3>6. QED
        BY <2>3, <3>1, <3>5 DEF PathsInv, Once
    <2>6. ElectionPlace(n, e, s)
      BY <2>4, <2>5 DEF ElectionPlace
    <2>7. QED
      BY <2>6
  <1>3. QED
    BY <1>1, <1>2

\* What n counts for a tally, and that all nodes that have the tally count it
Count(n, h) == CountedVotes(n, published[h].election, published[h].lastBlock)

CountsAgree ==
    \A n, m \in Nodes : \A h \in OfType("tally") :
        ContainsTransaction(n, h) /\ ContainsTransaction(m, h) => Count(n, h) = Count(m, h)

\* Nodes that have a tally have the same blocks up to its last one, and count the
\* same votes of it.
LEMMA Agree == ASSUME Inv, PathsInv, PlacesInv PROVE CountsAgree
  <1> SUFFICES ASSUME NEW n \in Nodes, NEW m \in Nodes, NEW h \in OfType("tally"),
                      ContainsTransaction(n, h), ContainsTransaction(m, h),
                      NEW e, published[h].election = e, NEW last, published[h].lastBlock = last
               PROVE  CountedVotes(n, e, last) = CountedVotes(m, e, last)
    BY DEF CountsAgree, Count
  <1>1. /\ ContainsElection(n, e) /\ ContainsBlock(n, last)
        /\ ContainsElection(m, e) /\ ContainsBlock(m, last)
    BY DEF PathsInv, TalliesOK
  <1>2. PICK k : BlockPlace(n, last, k)
    BY <1>1 DEF PlacesInv
  <1>3. PICK l : BlockPlace(m, last, l)
    BY <1>1 DEF PlacesInv
  <1>4. PICK s : ElectionPlace(n, e, s)
    BY <1>1 DEF PlacesInv
  <1>5. PICK r : ElectionPlace(m, e, r)
    BY <1>1 DEF PlacesInv
  <1>6. k = l /\ \A i \in 1 .. k : chain[n][i] = chain[m][i]
    BY <1>2, <1>3 DEF PathsInv, SamePrefix, BlockPlace
  <1>7. /\ DOMAIN chain[n] = 1 .. Len(chain[n]) /\ Len(chain[n]) \in Nat
        /\ DOMAIN chain[m] = 1 .. Len(chain[m]) /\ Len(chain[m]) \in Nat
    BY SequenceFacts DEF Inv, Shapes
  <1>8. Counted(chain[n], blocks, published, BlockSize, e, last)
          = Counted(chain[m], blocks, published, BlockSize, e, last)
    <2>1. Place(chain[n], blocks, published, e, last, k, s)
      BY <1>2, <1>4, <1>7 DEF Place, BlockPlace, ElectionPlace
    <2>2. Place(chain[m], blocks, published, e, last, k, r)
      BY <1>3, <1>5, <1>6, <1>7 DEF Place, BlockPlace, ElectionPlace
    <2>3. SameUpTo(chain[n], chain[m], blocks, blocks, published, published, k)
      BY <1>6 DEF SameUpTo
    <2>4. QED
      BY <2>1, <2>2, <2>3, SameCount
  <1>9. QED
    BY <1>8, CountedIs

\* What a node counts for a tally of its chain does not change when the chain grows.
LEMMA CountKept ==
    ASSUME Inv, Inv', PathsInv, PlacesInv, PlacesInv', Grows, NEW n \in Nodes,
           NEW h \in OfType("tally"), ContainsTransaction(n, h)
    PROVE  Count(n, h)' = Count(n, h)
  <1> SUFFICES ASSUME NEW e, published[h].election = e, NEW last, published[h].lastBlock = last
               PROVE  CountedVotes(n, e, last)' = CountedVotes(n, e, last)
    BY GrowsFacts DEF Count, OfType
  <1>1. ContainsElection(n, e) /\ ContainsBlock(n, last)
    BY DEF PathsInv, TalliesOK
  <1>2. PICK k : BlockPlace(n, last, k)
    BY <1>1 DEF PlacesInv
  <1>3. PICK s : ElectionPlace(n, e, s)
    BY <1>1 DEF PlacesInv
  <1>4. /\ Extends(chain[n], chain'[n]) /\ Extends(blocks, blocks') /\ Extends(published, published')
        /\ BlockSize' = BlockSize
    BY DEF Grows, BlockSize
  <1>5. /\ DOMAIN chain[n] = 1 .. Len(chain[n]) /\ Len(chain[n]) \in Nat
        /\ \A i \in DOMAIN chain[n] : chain[n][i] \in DOMAIN blocks
        /\ \A b \in DOMAIN blocks : ToSet(blocks[b].transactions) \subseteq DOMAIN published
    BY SequenceFacts DEF Inv, Shapes, ChainOK, BlocksInv, BlockTxs, ToSet, Hashes
  <1>6. PICK d : d = chain'[n]
    OBVIOUS
  <1>7. DOMAIN d = 1 .. Len(d) /\ Len(d) \in Nat
    <2>1. Sequence(d)
      BY <1>6 DEF Inv, Shapes
    <2>2. QED
      BY <2>1, SequenceFacts
  <1>8. /\ \A i \in 1 .. Len(chain[n]) : i \in DOMAIN d /\ d[i] = chain[n][i]
        /\ \A i \in 1 .. Len(chain[n]) : blocks[chain[n][i]] = blocks'[chain[n][i]]
        /\ \A i \in 1 .. Len(chain[n]) : \A g \in ToSet(blocks[chain[n][i]].transactions) :
             published[g] = published'[g]
    BY <1>4, <1>5, <1>6 DEF Extends
  <1>9. k \in 1 .. Len(chain[n]) /\ s \in 1 .. Len(chain[n]) /\ chain[n][k] = last
    BY <1>2, <1>3, <1>5 DEF BlockPlace, ElectionPlace
  <1>10. \A i \in DOMAIN d : d[i] = last => i = k
    <2>1. ContainsBlock(n, last)'
      BY <1>6, <1>8, <1>9 DEF ContainsBlock, ToSet
    <2>2. PICK l : BlockPlace(n, last, l)'
      BY <2>1 DEF PlacesInv
    <2>3. \A i \in DOMAIN d : d[i] = last <=> i = l
      BY <1>6, <2>2 DEF BlockPlace
    <2>4. QED
      BY <1>8, <1>9, <2>3
  <1>11. /\ Opens(blocks', published', d[s], e)
         /\ \A i \in DOMAIN d : Opens(blocks', published', d[i], e) => i = s
    <2>1. Opens(blocks, published, chain[n][s], e)
      BY <1>3 DEF ElectionPlace
    <2>2. Opens(blocks', published', d[s], e)
      BY <1>8, <1>9, <2>1 DEF Opens
    <2>3. ContainsElection(n, e)'
      BY <1>1, GrowsFacts
    <2>4. PICK r : ElectionPlace(n, e, r)'
      BY <2>3 DEF PlacesInv
    <2>5. \A i \in DOMAIN d : Opens(blocks', published', d[i], e) <=> i = r
      BY <1>6, <2>4 DEF ElectionPlace
    <2>6. QED
      BY <1>8, <1>9, <2>2, <2>5
  <1>12. Counted(chain[n], blocks, published, BlockSize, e, last)
           = Counted(d, blocks', published', BlockSize, e, last)
    <2>1. k \in 1 .. Len(d) /\ d[k] = last /\ s \in DOMAIN d
      BY <1>7, <1>8, <1>9
    <2>2. \A i \in 1 .. k : i \in 1 .. Len(chain[n])
      BY <1>5, <1>9
    <2>3. /\ \A i \in 1 .. k : chain[n][i] = d[i] /\ blocks[chain[n][i]] = blocks'[chain[n][i]]
          /\ \A i \in 1 .. k : \A g \in ToSet(blocks[chain[n][i]].transactions) :
               published[g] = published'[g]
      BY <1>8, <2>2
    <2>4. Place(chain[n], blocks, published, e, last, k, s)
      BY <1>2, <1>3, <1>5 DEF Place, BlockPlace, ElectionPlace
    <2>5. Place(d, blocks', published', e, last, k, s)
      BY <1>7, <1>10, <1>11, <2>1 DEF Place
    <2>6. SameUpTo(chain[n], d, blocks, blocks', published, published', k)
      BY <2>3 DEF SameUpTo
    <2>7. QED
      BY <2>4, <2>5, <2>6, SameCount
  <1>13. CountedVotes(n, e, last)' = Counted(d, blocks', published', BlockSize, e, last)
    BY <1>4, <1>6 DEF CountedVotes, VotePositions, VoteAt, VotesIn, BlockTxs, Counted, Positions, At,
       Before, Opens, VotesOf
  <1>14. QED
    BY <1>12, <1>13, CountedIs

-----------------------------------------------------------------------------
(* Partial tallies *)

\* What a partial tally decrypts is what every node that has the tally counts.
SumsInv ==
    \A t \in OfType("trusteeTally") : \A h : published[t].tally = h =>
        /\ \E n \in Nodes : ContainsTransaction(n, h)
        /\ \A n \in Nodes : ContainsTransaction(n, h) =>
             published[t].partialDecryption = Product(Count(n, h), published[h].election)

\* SumsInv holds where nothing is published.
LEMMA SumsInit == Init => SumsInv
  BY DEF Init, SumsInv, OfType, Hashes

\* Every step keeps SumsInv: a partial tally is of the chain of its node, and a
\* chain that grows to contain the tally counts what the others count.
LEMMA SumsStep ==
    ASSUME Inv, Inv', AnsweringOK, PathsInv, PlacesInv, PlacesInv', CountsAgree', SumsInv,
           [Next]_vars
    PROVE  SumsInv'
  <1>1. Grows
    BY StepKinds, AnswersGrow, AddsGrow
  <1> SUFFICES ASSUME NEW t \in OfType("trusteeTally")', NEW h, published'[t].tally = h
               PROVE  /\ \E n \in Nodes : ContainsTransaction(n, h)'
                      /\ \A n \in Nodes : ContainsTransaction(n, h)' =>
                           published'[t].partialDecryption = Product(Count(n, h)', published'[h].election)
    BY DEF SumsInv
  <1>2. ASSUME NEW n \in Nodes, h \in OfType("tally"), ContainsTransaction(n, h),
               published'[t].partialDecryption = Product(Count(n, h), published[h].election)
        PROVE  /\ \E m \in Nodes : ContainsTransaction(m, h)'
               /\ \A m \in Nodes : ContainsTransaction(m, h)' =>
                    published'[t].partialDecryption = Product(Count(m, h)', published'[h].election)
    <2>1. ContainsTransaction(n, h)' /\ h \in OfType("tally")' /\ published'[h] = published[h]
      BY <1>1, <1>2, GrowsFacts DEF OfType
    <2>2. Count(n, h)' = Count(n, h)
      BY <1>1, <1>2, CountKept
    <2>3. \A m \in Nodes : ContainsTransaction(m, h)' => Count(m, h)' = Count(n, h)'
      BY <2>1 DEF CountsAgree
    <2>4. QED
      BY <1>2, <2>1, <2>2, <2>3
  <1>3. CASE t \in Hashes
    <2>1. t \in OfType("trusteeTally") /\ published'[t] = published[t]
      BY <1>1, <1>3, GrowsFacts
    <2>2. h \in OfType("tally")
      BY <2>1 DEF Inv, PublishedInv
    <2>3. PICK n \in Nodes : ContainsTransaction(n, h)
      BY <2>1 DEF SumsInv
    <2>4. published'[t].partialDecryption = Product(Count(n, h), published[h].election)
      BY <2>1, <2>3 DEF SumsInv
    <2>5. QED
      BY <1>2, <2>2, <2>3, <2>4
  <1>4. CASE t \notin Hashes
    <2>1. t \in Hashes' \ Hashes /\ published'[t].type = "trusteeTally"
      BY <1>4 DEF OfType
    <2>2. PublishesAnswers
      BY <2>1, StepKinds DEF Adds, Hashes
    <2>3. Answer(published'[t])
      <3>1. \A e : TxElection(e).type = "election"
        BY DEF TxElection
      <3>2. ~\E e : published'[t] = TxElection(e)
        BY <2>1, <3>1
      <3>3. QED
        BY <2>1, <2>2, <3>2 DEF PublishesAnswers
    <2>4. PICK n \in Nodes : \E g \in OfType("tally") :
            ContainsTransaction(n, g) /\ \E k : published'[t] = TrusteeTally(n, g, k)
      BY <2>3 DEF Answer
    <2>5. PICK g \in OfType("tally") :
            ContainsTransaction(n, g) /\ \E k : published'[t] = TrusteeTally(n, g, k)
      BY <2>4
    <2>6. PICK k : published'[t] = TrusteeTally(n, g, k)
      BY <2>5
    <2>7. /\ published'[t].tally = g
          /\ published'[t].partialDecryption = Sums(n, ElectionOf(g), published[g].lastBlock)
      BY <2>6 DEF TrusteeTally, TxTrusteeTally
    <2>8. ElectionOf(g) = published[g].election
      BY <2>5 DEF ElectionOf, OfType
    <2>9. h = g /\ published'[t].partialDecryption = Product(Count(n, h), published[h].election)
      BY <2>7, <2>8 DEF Sums, Count
    <2>10. QED
      BY <1>2, <2>5, <2>9
  <1>5. QED
    BY <1>3, <1>4

\* SumsInv holds in every state.
LEMMA SumsInvariance == Spec => []SumsInv
  <1>1. Inv /\ PathsInv => PlacesInv
    BY Places
  <1>2. Inv /\ PathsInv /\ PlacesInv => CountsAgree
    BY Agree
  <1>3. /\ Inv /\ Inv' /\ AnsweringOK /\ PathsInv /\ PlacesInv /\ PlacesInv' /\ CountsAgree'
        /\ SumsInv /\ [Next]_vars
        => SumsInv'
    BY SumsStep
  <1>4. QED
    BY <1>1, <1>2, <1>3, Invariance, PathsInvariance, SumsInit, PTL DEF Spec

\* Two trustees that answer one tally decrypt the same sums, each of them
\* whenever, on whatever branch and after whatever crashes it counts
\* (ElectionManager::createTrusteeTally, getAllVotes).
THEOREM SameSums == Spec => []TrusteesAgree
  <1>1. Inv /\ SumsInv => TrusteesAgree
    <2> SUFFICES ASSUME Inv, SumsInv, NEW t \in OfType("trusteeTally"), NEW u \in OfType("trusteeTally"),
                        published[t].tally = published[u].tally
                 PROVE  published[t].partialDecryption = published[u].partialDecryption
      BY DEF TrusteesAgree
    <2>1. PICK n \in Nodes : ContainsTransaction(n, published[t].tally)
      BY DEF SumsInv
    <2>2. QED
      BY <2>1 DEF SumsInv
  <1>2. QED
    BY <1>1, Invariance, SumsInvariance, PTL
=============================================================================
