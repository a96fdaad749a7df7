----------------------------- MODULE MiningProofs -----------------------------
(***************************************************************************)
(* Proofs about Mining, for any transactions, votes of one key, callers,   *)
(* workers, addresses and settings: no transaction is forgotten, no worker *)
(* searches unnoticed, a queue that is not empty is served, and votes of   *)
(* one key are mined in the order in which they came.                      *)
(***************************************************************************)
EXTENDS Mining, NoncesProofs

-----------------------------------------------------------------------------
(* The inductive invariant *)

Steps ==
    {"idle", "ended", "time", "latest", "copy", "search", "found", "abort", "publish", "notify",
     "requeue", "tearDownOther", "tearDown", "run", "create"}

MinerObject ==
    [transactions : SUBSET Transactions, running : BOOLEAN, newBlockFound : BOOLEAN,
     threadsDone : Nat, minerThreads : SUBSET Workers, created : Nat, mutex : Workers \cup {Nobody}]

BlockOf == [previous : Nat, time : Nat, transactions : SUBSET Transactions]

ManagerTypes ==
    /\ situation \in Situations
    /\ queue \in Seq(Transactions)
    /\ m \in Addresses \cup {Nobody} /\ lock \in Threads \cup {Nobody}
    /\ miner \in [Addresses -> MinerObject]
    /\ chain \in Seq([transactions : SUBSET Transactions, time : Nat, own : BOOLEAN])
    /\ now \in Nat

ThreadTypes ==
    /\ pc \in [Threads -> Steps] /\ then \in [Threads -> {"idle", "ended", "tearDown"}]
    /\ this \in [Workers -> Addresses \cup {Nobody}]
    /\ target \in [Threads -> Addresses \cup {Nobody}]
    /\ block \in [Threads -> BlockOf]
    /\ interrupted \subseteq Workers /\ givenUp \in Nat

HistoryTypes ==
    /\ accepted \in Seq(Transactions)
    /\ rejected \subseteq Transactions /\ stale \subseteq Threads /\ dangling \in BOOLEAN

Types == ManagerTypes /\ ThreadTypes /\ HistoryTypes

\* What a thread returns to is decided by where it is, and the mutex of the
\* manager is held by the thread that constructs a Miner.
CallersFlow ==
    \A t \in Callers : then[t] = "idle" /\ pc[t] \in
        {"idle", "run", "create", "notify", "requeue", "tearDownOther"}
WorkersFlow ==
    \A w \in Workers :
        /\ pc[w] # "idle" /\ (pc[w] # "ended" => this[w] \in Addresses)
        /\ pc[w] \in {"run", "create"} => then[w] # "idle"
        /\ pc[w] \in {"notify", "requeue", "tearDownOther"} => then[w] = "tearDown"
LockFlow ==
    /\ \A t \in Threads : pc[t] \in {"create", "requeue", "tearDownOther"} => target[t] \in Addresses
    /\ \A t \in Threads : pc[t] = "create" => lock = t
    /\ lock # Nobody => pc[lock] = "create" /\ m = Nobody
FlowInv == CallersFlow /\ WorkersFlow /\ LockFlow

\* Also of a worker that has found a block
Searching == {"time", "latest", "copy", "search", "found"}
OrphanInv ==
    \A w \in Workers : pc[w] \in Searching /\ w \notin interrupted =>
        this[w] \in Current /\ w \in miner[this[w]].minerThreads

\* A Miner runs that will look at the queue, or somebody is about to look.
ServedInv ==
    queue # <<>> =>
        \/ \E a \in Current : miner[a].running
        \/ \E t \in Threads : pc[t] \in {"run", "tearDownOther"}

\* A thread that still knows the Miner there is knows it by its address, and
\* the worker that publishes a block has set the flag by which the call of
\* onNewBlockFromNetwork that follows knows its own block.
WorkersOwner == \A w \in Workers : pc[w] # "ended" /\ w \notin stale => this[w] \in Current
ToldOwner ==
    \A t \in Threads : pc[t] \in {"requeue", "tearDownOther"} /\ t \notin stale => target[t] = m
WorkersEnd ==
    \A w \in Workers : pc[w] # "tearDownOther" /\ (pc[w] \in {"run", "create"} => then[w] = "ended")
OwnBlockFound ==
    \A w \in Workers : pc[w] \in {"publish", "notify", "requeue", "tearDown"} /\ w \notin stale =>
        miner[this[w]].newBlockFound
OwnersInv == WorkersOwner /\ ToldOwner /\ WorkersEnd /\ OwnBlockFound

Settlement(tx) == tx \in ToSet(queue) \cup rejected \/ InChain(tx)

\* Workers whose block is that of their Miner, and those whose block is decided
Working == {"search", "found", "publish", "notify", "requeue", "tearDown"}
Published == {"notify", "requeue", "tearDown"}

\* Where the transactions of a Miner are at each step of those that end it
KeptInv ==
    /\ \A tx \in ToSet(accepted) : Settlement(tx) \/ tx \in Held
    /\ \A t \in Callers : pc[t] \in {"notify", "requeue"} =>
           \A tx \in block[t].transactions : InChain(tx)
    /\ \A t \in Callers : pc[t] = "tearDownOther" /\ t \notin stale =>
           \A tx \in miner[m].transactions : Settlement(tx)
    /\ \A w \in Workers : w \notin stale /\ pc[w] \in Working =>
           block[w].transactions = miner[this[w]].transactions
    /\ \A w \in Workers : pc[w] \in Published =>
           \A tx \in block[w].transactions : tx \in rejected \/ InChain(tx)

\* What was accepted verifies ever after; only such transactions are in the
\* queue, in the Miners, and in what workers mine.
AcceptedInv ==
    /\ \A i, j \in DOMAIN accepted : accepted[i] = accepted[j] => i = j
    /\ \A tx \in ToSet(accepted) : Verify(tx)
    /\ ToSet(queue) \subseteq ToSet(accepted)
    /\ \A a \in Addresses : miner[a].transactions \subseteq ToSet(accepted)
    /\ \A w \in Workers : pc[w] \in {"latest", "copy", "search", "found", "publish"} =>
           block[w].transactions \subseteq ToSet(accepted) /\ block[w].previous <= Len(chain)
    /\ \A k \in DOMAIN chain : chain[k].own => chain[k].transactions \subseteq ToSet(accepted)

Earlier(u, v) ==
    /\ Duplicates(u, v)
    /\ \E i, j \in DOMAIN accepted : i < j /\ accepted[i] = u /\ accepted[j] = v

\* Workers whose block may still come onto the chain
Mining(w) == pc[w] \in {"search", "found", "publish"}

\* The Miner there is, a worker or the chain has v.
Taken(v) ==
    \/ \E a \in Current : v \in miner[a].transactions
    \/ \E w \in Workers : Mining(w) /\ v \in block[w].transactions
    \/ OwnBlock(v) # {}

QueueOrder(u, v) == \A i, j \in DOMAIN queue : queue[i] = u /\ queue[j] = v => i < j
TakenLast(u, v) ==
    Taken(v) => u \notin ToSet(queue) /\ \A a \in Current : u \notin miner[a].transactions
Apart(u, v) ==
    \A w \in Workers : Mining(w) /\ u \in block[w].transactions =>
        v \notin block[w].transactions /\ (block[w].previous = Len(chain) => OwnBlock(v) = {})
ChainOrder(u, v) == \A k \in OwnBlock(v), l \in OwnBlock(u) : l < k

\* Of two votes of one key, the second is taken after the first has gone for good.
OrderInv ==
    \A u, v \in Transactions : Earlier(u, v) =>
        QueueOrder(u, v) /\ TakenLast(u, v) /\ Apart(u, v) /\ ChainOrder(u, v)

Ended(a) == {w \in miner[a].minerThreads : pc[w] = "ended"}

\* A Miner that runs has counted those of its workers that have ended, and one has not.
SearchersInv ==
    \A a \in Current : miner[a].running =>
        /\ IsFiniteSet(miner[a].minerThreads)
        /\ miner[a].threadsDone = Cardinality(Ended(a))
        /\ lock = Nobody => \E w \in miner[a].minerThreads : pc[w] # "ended"
        /\ miner[a].minerThreads # {} => \E w \in miner[a].minerThreads : pc[w] # "ended"
        /\ \A w \in miner[a].minerThreads :
               /\ this[w] = a /\ w \notin interrupted /\ w \notin stale
               /\ pc[w] \notin {"run", "create"}
        /\ \A w \in Workers : pc[w] # "ended" /\ this[w] = a /\ w \notin stale =>
               w \in miner[a].minerThreads

Threaded == Types /\ FlowInv /\ OrphanInv /\ ServedInv
Undamaged == ~dangling => OwnersInv /\ KeptInv /\ OrderInv /\ SearchersInv
Inv == Threaded /\ AcceptedInv /\ Undamaged

-----------------------------------------------------------------------------
(* Sequences *)

LEMMA SetOfSeq ==
    ASSUME NEW S, NEW s \in Seq(S)
    PROVE  /\ \A x : x \in ToSet(s) <=> \E i \in 1 .. Len(s) : s[i] = x
           /\ ToSet(s) \subseteq S /\ IsFiniteSet(ToSet(s))
  <1>1. \A x : x \in ToSet(s) <=> \E i \in 1 .. Len(s) : s[i] = x
    BY DEF ToSet
  <1>2. IsFiniteSet(1 .. Len(s))
    BY FS_Interval
  <1>3. s \in Surjection(1 .. Len(s), ToSet(s))
    BY <1>1 DEF Surjection
  <1>4. QED
    BY <1>1, <1>2, <1>3, FS_Surjection

\* The elements of a finite set in some order
LEMMA SeqOfSet ==
    ASSUME NEW S, IsFiniteSet(S)
    PROVE  /\ SetToSeq(S) \in Seq(S)
           /\ ToSet(SetToSeq(S)) = S
  <1> DEFINE n == Cardinality(S)
  <1>1. n \in Nat /\ ExistsBijection(1 .. n, S)
    BY FS_CardinalityType
  <1>2. PICK f \in Bijection(1 .. n, S) : TRUE
    BY <1>1 DEF ExistsBijection
  <1>3. f \in [1 .. n -> S] /\ IsInjective(f)
    BY <1>2 DEF Bijection, Injection
  <1>4. SetToSeq(S) \in [1 .. n -> S] /\ IsInjective(SetToSeq(S))
    BY <1>3 DEF SetToSeq
  <1>5. SetToSeq(S) \in Injection(1 .. n, S)
    BY <1>4 DEF Injection
  <1>6. IsFiniteSet(1 .. n) /\ Cardinality(1 .. n) = n
    BY <1>1, FS_Interval
  <1>7. SetToSeq(S) \in Surjection(1 .. n, S)
    BY <1>5, <1>6, FS_Injection
  <1>8. SetToSeq(S) \in Seq(S) /\ Len(SetToSeq(S)) = n
    BY <1>1, <1>4
  <1>9. QED
    BY <1>1, <1>4, <1>7, <1>8 DEF ToSet, Surjection

\* What is put back comes first, in some order, and the rest of the queue stays.
LEMMA PutInFront ==
    ASSUME NEW S, IsFiniteSet(S), S \subseteq Transactions, queue \in Seq(Transactions)
    PROVE  \E front \in Seq(Transactions) :
               ReAdded(S) = front \o queue /\ ToSet(front) = {tx \in S : Verify(tx)}
  <1> DEFINE verified == {tx \in S : Verify(tx)}
  <1>1. IsFiniteSet(verified)
    BY FS_Subset
  <1>2. PICK s : s = SetToSeq(verified)
    OBVIOUS
  <1>3. s \in Seq(verified) /\ ToSet(s) = verified
    BY <1>1, <1>2, SeqOfSet
  <1>4. PICK r : r = Reverse(s)
    OBVIOUS
  <1>5. r \in Seq(verified) /\ ToSet(r) = ToSet(s)
    <2> HIDE DEF verified
    <2>1. r \in Seq(verified) /\ Len(r) = Len(s)
      BY <1>3, <1>4 DEF Reverse
    <2>2. \A i \in 1 .. Len(s) : r[i] = s[Len(s) - i + 1] /\ s[i] = r[Len(s) - i + 1]
      BY <1>3, <1>4 DEF Reverse
    <2>3. \A i \in 1 .. Len(s) : Len(s) - i + 1 \in 1 .. Len(s)
      BY <1>3
    <2>4. \A x : x \in ToSet(r) <=> \E i \in 1 .. Len(s) : r[i] = x
      BY <2>1, SetOfSeq
    <2>5. \A x : x \in ToSet(s) <=> \E i \in 1 .. Len(s) : s[i] = x
      BY <1>3, SetOfSeq
    <2>6. QED
      BY <2>1, <2>2, <2>3, <2>4, <2>5
  <1>6. r \in Seq(Transactions) /\ ReAdded(S) = r \o queue
    BY <1>2, <1>4, <1>5 DEF ReAdded
  <1>7. QED
    BY <1>3, <1>5, <1>6

LEMMA Concatenated ==
    ASSUME NEW S, NEW s \in Seq(S), NEW t \in Seq(S)
    PROVE  /\ s \o t \in Seq(S)
           /\ ToSet(s \o t) = ToSet(s) \cup ToSet(t)
  <1>1. s \o t \in Seq(S) /\ Len(s \o t) = Len(s) + Len(t)
    OBVIOUS
  <1>2. \A i \in 1 .. Len(s) : (s \o t)[i] = s[i]
    OBVIOUS
  <1>3. \A i \in 1 .. Len(t) : (s \o t)[Len(s) + i] = t[i]
    OBVIOUS
  <1>4. \A i \in 1 .. Len(s \o t) : i \in 1 .. Len(s) \/ \E j \in 1 .. Len(t) : i = Len(s) + j
    <2>1. ASSUME NEW i \in 1 .. Len(s \o t), i \notin 1 .. Len(s)
          PROVE  i - Len(s) \in 1 .. Len(t) /\ i = Len(s) + (i - Len(s))
      BY <1>1, <2>1
    <2>2. QED
      BY <2>1
  <1>5. ASSUME NEW x PROVE x \in ToSet(s \o t) <=> x \in ToSet(s) \/ x \in ToSet(t)
    <2>1. x \in ToSet(s \o t) <=> \E i \in 1 .. Len(s \o t) : (s \o t)[i] = x
      BY <1>1, SetOfSeq
    <2>2. x \in ToSet(s) <=> \E i \in 1 .. Len(s) : s[i] = x
      BY SetOfSeq
    <2>3. x \in ToSet(t) <=> \E i \in 1 .. Len(t) : t[i] = x
      BY SetOfSeq
    <2>4. \A i \in 1 .. Len(s) : i \in 1 .. Len(s \o t)
      BY <1>1
    <2>5. \A i \in 1 .. Len(t) : Len(s) + i \in 1 .. Len(s \o t)
      BY <1>1
    <2>6. QED
      BY <1>2, <1>3, <1>4, <2>1, <2>2, <2>3, <2>4, <2>5
  <1>6. QED
    BY <1>1, <1>5

LEMMA Appended ==
    ASSUME NEW S, NEW s \in Seq(S), NEW x \in S
    PROVE  /\ Append(s, x) \in Seq(S)
           /\ ToSet(Append(s, x)) = ToSet(s) \cup {x}
  <1>1. Append(s, x) \in Seq(S) /\ Len(Append(s, x)) = Len(s) + 1
    OBVIOUS
  <1>2. \A i \in 1 .. Len(s) : Append(s, x)[i] = s[i]
    OBVIOUS
  <1>3. Append(s, x)[Len(s) + 1] = x
    OBVIOUS
  <1>4. ASSUME NEW y PROVE y \in ToSet(Append(s, x)) <=> y \in ToSet(s) \/ y = x
    <2>1. y \in ToSet(Append(s, x)) <=> \E i \in 1 .. Len(s) + 1 : Append(s, x)[i] = y
      BY <1>1, SetOfSeq
    <2>2. y \in ToSet(s) <=> \E i \in 1 .. Len(s) : s[i] = y
      BY SetOfSeq
    <2>3. \A i \in 1 .. Len(s) + 1 : i \in 1 .. Len(s) \/ i = Len(s) + 1
      OBVIOUS
    <2>4. \A i \in 1 .. Len(s) : i \in 1 .. Len(s) + 1
      OBVIOUS
    <2>5. Len(s) + 1 \in 1 .. Len(s) + 1
      OBVIOUS
    <2>6. QED
      BY <1>2, <1>3, <2>1, <2>2, <2>3, <2>4, <2>5
  <1>5. QED
    BY <1>1, <1>4

\* The steps of std::remove, given a set to remove
Kept(k, q, S) ==
    k = [i \in 0 .. Len(q) |->
            IF i = 0 THEN <<>> ELSE IF q[i] \in S THEN k[i - 1] ELSE Append(k[i - 1], q[i])]

\* Up to n
KeptTo(n, k, q, S) ==
    k = [i \in 0 .. n |->
            IF i = 0 THEN <<>> ELSE IF q[i] \in S THEN k[i - 1] ELSE Append(k[i - 1], q[i])]

LEMMA KeptExists ==
    ASSUME NEW T, NEW q \in Seq(T), NEW S
    PROVE  \E k : Kept(k, q, S)
  <1> DEFINE Missing == {n \in Nat : n <= Len(q) /\ ~\E k : KeptTo(n, k, q, S)}
  <1>1. Missing = {}
    <2>1. SUFFICES ASSUME Missing # {} PROVE FALSE
      OBVIOUS
    <2>2. PICK n \in Missing : \A j \in Missing : n <= j
      BY <2>1, LeastNumber
    <2>3. CASE n = 0
      <3>1. KeptTo(0, [i \in 0 .. 0 |-> <<>>], q, S)
        BY DEF KeptTo
      <3>2. QED
        BY <2>2, <2>3, <3>1
    <2>4. CASE n # 0
      <3>1. n - 1 \in Nat /\ n - 1 <= Len(q) /\ n - 1 \notin Missing
        BY <2>2, <2>4
      <3>2. PICK f : KeptTo(n - 1, f, q, S)
        BY <3>1
      <3> DEFINE Next1 == IF q[n] \in S THEN f[n - 1] ELSE Append(f[n - 1], q[n])
                 g == [i \in 0 .. n |-> IF i = n THEN Next1 ELSE f[i]]
      <3>3. \A i \in 0 .. n - 1 : g[i] = f[i]
        BY <2>4
      <3>4. ASSUME NEW i \in 0 .. n
            PROVE  g[i] = IF i = 0 THEN <<>> ELSE IF q[i] \in S THEN g[i - 1] ELSE Append(g[i - 1], q[i])
        <4>1. CASE i = n
          BY <2>4, <3>3, <4>1
        <4>2. CASE i # n
          <5>1. i \in 0 .. n - 1 /\ (i # 0 => i - 1 \in 0 .. n - 1)
            BY <2>2, <4>2
          <5>2. f[i] = IF i = 0 THEN <<>> ELSE IF q[i] \in S THEN f[i - 1] ELSE Append(f[i - 1], q[i])
            BY <3>2, <5>1 DEF KeptTo
          <5>3. QED
            BY <3>3, <5>1, <5>2
        <4>3. QED
          BY <4>1, <4>2
      <3>5. KeptTo(n, g, q, S)
        <4>1. g = [i \in 0 .. n |-> g[i]]
          OBVIOUS
        <4> HIDE DEF g
        <4>2. QED
          BY <3>4, <4>1 DEF KeptTo
      <3>6. QED
        BY <2>2, <3>5
    <2>5. QED
      BY <2>3, <2>4
  <1>2. Len(q) \in Nat /\ Len(q) \notin Missing
    <2> HIDE DEF Missing
    <2> QED
      BY <1>1
  <1>3. PICK k : KeptTo(Len(q), k, q, S)
    BY <1>2
  <1>4. QED
    BY <1>3 DEF Kept, KeptTo

\* What std::remove leaves is in the old order: each element of it stood where
\* from tells, and from is increasing.
Selects(s, from, q, n, S) ==
    /\ s \in Seq(ToSet(q) \ S)
    /\ from \in [1 .. Len(s) -> 1 .. n]
    /\ \A i \in 1 .. Len(s) : s[i] = q[from[i]]
    /\ \A i, j \in 1 .. Len(s) : i < j => from[i] < from[j]
    /\ \A i \in 1 .. n : q[i] \notin S => \E j \in 1 .. Len(s) : s[j] = q[i]

LEMMA Removal ==
    ASSUME NEW T, NEW q \in Seq(T), NEW S
    PROVE  \E from : Selects(Without(q, S), from, q, Len(q), S)
  <1>1. PICK k : Kept(k, q, S) /\ Without(q, S) = k[Len(q)]
    <2>1. Kept(CHOOSE k : Kept(k, q, S), q, S)
      BY KeptExists
    <2>2. Without(q, S) = (CHOOSE k : Kept(k, q, S))[Len(q)]
      BY DEF Without, Kept
    <2>3. QED
      BY <2>1, <2>2
  <1> DEFINE Missing == {n \in Nat : n <= Len(q) /\ ~\E from : Selects(k[n], from, q, n, S)}
  <1>2. Missing = {}
    <2>1. SUFFICES ASSUME Missing # {} PROVE FALSE
      OBVIOUS
    <2>2. PICK n \in Missing : \A j \in Missing : n <= j
      BY <2>1, LeastNumber
    <2>3. CASE n = 0
      <3>1. k[0] = <<>>
        BY <1>1 DEF Kept
      <3>2. Selects(<<>>, [i \in 1 .. 0 |-> 0], q, 0, S)
        BY DEF Selects
      <3>3. QED
        BY <2>2, <2>3, <3>1, <3>2
    <2>4. CASE n # 0
      <3>1. n - 1 \in Nat /\ n - 1 <= Len(q) /\ n - 1 \notin Missing /\ n \in 1 .. Len(q)
        BY <2>2, <2>4
      <3>2. PICK f : Selects(k[n - 1], f, q, n - 1, S)
        BY <3>1
      <3>3. k[n] = IF q[n] \in S THEN k[n - 1] ELSE Append(k[n - 1], q[n])
        <4> HIDE DEF Missing
        <4>1. n \in 0 .. Len(q) /\ n # 0
          BY <2>4, <3>1
        <4> QED
          BY <1>1, <4>1 DEF Kept
      <3>4. CASE q[n] \in S
        <4>1. Selects(k[n - 1], f, q, n, S)
          BY <3>1, <3>2, <3>4 DEF Selects
        <4>2. QED
          BY <2>2, <3>3, <3>4, <4>1
      <3>5. CASE q[n] \notin S
        <4> DEFINE s == k[n - 1]
                   g == [i \in 1 .. Len(s) + 1 |-> IF i = Len(s) + 1 THEN n ELSE f[i]]
        <4>1. s \in Seq(ToSet(q) \ S) /\ Len(s) \in Nat
          BY <3>2 DEF Selects
        <4>2. q[n] \in ToSet(q) \ S
          BY <3>1, <3>5 DEF ToSet
        <4>3. /\ Append(s, q[n]) \in Seq(ToSet(q) \ S) /\ Len(Append(s, q[n])) = Len(s) + 1
              /\ \A i \in 1 .. Len(s) : Append(s, q[n])[i] = s[i]
              /\ Append(s, q[n])[Len(s) + 1] = q[n]
          BY <4>1, <4>2
        <4>4. g \in [1 .. Len(s) + 1 -> 1 .. n]
          BY <3>1, <3>2, <4>1 DEF Selects
        <4>5. \A i \in 1 .. Len(s) : g[i] = f[i] /\ g[i] \in 1 .. n - 1
          BY <3>2, <4>1 DEF Selects
        <4>6. g[Len(s) + 1] = n
          BY <4>1
        <4>7. Selects(Append(s, q[n]), g, q, n, S)
          <5> HIDE DEF g, s
          <5>1. \A i \in 1 .. Len(s) + 1 : i \in 1 .. Len(s) \/ i = Len(s) + 1
            BY <4>1
          <5>2. \A i \in 1 .. Len(s) + 1 : Append(s, q[n])[i] = q[g[i]]
            <6>1. \A i \in 1 .. Len(s) : s[i] = q[f[i]]
              BY <3>2 DEF Selects, s
            <6>2. QED
              BY <4>3, <4>5, <4>6, <5>1, <6>1
          <5>3. \A i, j \in 1 .. Len(s) + 1 : i < j => g[i] < g[j]
            <6>1. \A i, j \in 1 .. Len(s) : i < j => f[i] < f[j]
              BY <3>2 DEF Selects, s
            <6>2. QED
              BY <3>1, <4>1, <4>5, <4>6, <5>1, <6>1
          <5>4. \A i \in 1 .. n : q[i] \notin S => \E j \in 1 .. Len(s) + 1 : Append(s, q[n])[j] = q[i]
            <6>1. \A i \in 1 .. n - 1 : q[i] \notin S => \E j \in 1 .. Len(s) : s[j] = q[i]
              BY <3>2 DEF Selects, s
            <6>2. QED
              BY <3>1, <4>1, <4>3, <6>1
          <5>5. QED
            BY <4>3, <4>4, <5>2, <5>3, <5>4 DEF Selects
        <4>8. QED
          BY <2>2, <3>3, <3>5, <4>7
      <3>6. QED
        BY <3>4, <3>5
    <2>5. QED
      BY <2>3, <2>4
  <1>3. Len(q) \in Nat /\ Len(q) \notin Missing
    <2> HIDE DEF Missing
    <2> QED
      BY <1>2
  <1>4. QED
    BY <1>1, <1>3

-----------------------------------------------------------------------------
(* Types and the course of each thread *)

\* What getTransactionsForBlock takes, and what it leaves
LEMMA Divided ==
    ASSUME queue \in Seq(Transactions)
    PROVE  /\ Remaining \in Seq(Transactions)
           /\ ForBlock \subseteq ToSet(queue)
           /\ ToSet(Remaining) = ToSet(queue) \ ForBlock
  <1>1. PICK from : Selects(Remaining, from, queue, Len(queue), ForBlock)
    BY Removal DEF Remaining
  <1>2. ForBlock \subseteq ToSet(queue) /\ ToSet(queue) \subseteq Transactions
    BY SetOfSeq DEF ForBlock, ToSet
  <1>3. Remaining \in Seq(ToSet(queue) \ ForBlock)
    BY <1>1 DEF Selects
  <1>4. Remaining \in Seq(Transactions)
    BY <1>2, <1>3
  <1>5. ASSUME NEW x PROVE x \in ToSet(Remaining) <=> x \in ToSet(queue) \ ForBlock
    <2>1. x \in ToSet(Remaining) <=> \E i \in 1 .. Len(Remaining) : Remaining[i] = x
      BY <1>4, SetOfSeq
    <2>2. x \in ToSet(queue) <=> \E i \in 1 .. Len(queue) : queue[i] = x
      BY SetOfSeq
    <2>3. x \in ToSet(Remaining) => x \in ToSet(queue) \ ForBlock
      BY <1>3, <2>1
    <2>4. \A i \in 1 .. Len(queue) : queue[i] \notin ForBlock => \E j \in 1 .. Len(Remaining) : Remaining[j] = queue[i]
      BY <1>1 DEF Selects
    <2>5. QED
      BY <2>1, <2>2, <2>3, <2>4
  <1>6. QED
    BY <1>2, <1>4, <1>5

\* A set of transactions of a Miner goes back to the queue.
LEMMA Restored ==
    ASSUME NEW S, S \subseteq ToSet(accepted), accepted \in Seq(Transactions),
           queue \in Seq(Transactions)
    PROVE  /\ ReAdded(S) \in Seq(Transactions)
           /\ ToSet(ReAdded(S)) = ToSet(queue) \cup {tx \in S : Verify(tx)}
  <1>1. IsFiniteSet(S) /\ S \subseteq Transactions
    BY SetOfSeq, FS_Subset
  <1>2. PICK front \in Seq(Transactions) :
            ReAdded(S) = front \o queue /\ ToSet(front) = {tx \in S : Verify(tx)}
    BY <1>1, PutInFront
  <1>3. QED
    BY <1>2, Concatenated

\* What the steps change of a Miner
LEMMA TornDownMiner ==
    ASSUME NEW mi \in MinerObject
    PROVE  TornDown(mi) \in MinerObject
  BY DEF TornDown, MinerObject

LEMMA MinerUpdates ==
    ASSUME NEW mi \in MinerObject, NEW w \in Workers
    PROVE  /\ [TornDown(mi) EXCEPT !.mutex = Nobody] \in MinerObject
           /\ [mi EXCEPT !.minerThreads = @ \cup {w}, !.created = @ + 1] \in MinerObject
           /\ [mi EXCEPT !.newBlockFound = TRUE, !.mutex = w] \in MinerObject
           /\ [mi EXCEPT !.threadsDone = mi.threadsDone + 1] \in MinerObject
  <1>1. TornDown(mi) \in MinerObject
    BY TornDownMiner
  <1>2. [TornDown(mi) EXCEPT !.mutex = Nobody] \in MinerObject
    BY <1>1 DEF MinerObject
  <1>3. [mi EXCEPT !.minerThreads = @ \cup {w}, !.created = @ + 1] \in MinerObject
    <2>1. mi.minerThreads \cup {w} \in SUBSET Workers /\ mi.created + 1 \in Nat
      BY DEF MinerObject
    <2>2. QED
      BY <2>1 DEF MinerObject
  <1>4. [mi EXCEPT !.newBlockFound = TRUE, !.mutex = w] \in MinerObject
    BY DEF MinerObject
  <1>5. [mi EXCEPT !.threadsDone = mi.threadsDone + 1] \in MinerObject
    BY DEF MinerObject
  <1>6. QED
    BY <1>2, <1>3, <1>4, <1>5

LEMMA TypesStep ==
    ASSUME Types, FlowInv, AcceptedInv, [Next]_vars
    PROVE  Types'
  <1> USE MiningAssumption DEF Types
  <1>1. UNCHANGED situation
    BY DEF Next, vars
  <1>2. CASE Tick
    BY <1>1, <1>2
       DEF ManagerTypes, ThreadTypes, HistoryTypes, Threads, Goto, shared, threads, histories,
           Steps, Tick
  <1>3. ASSUME NEW t \in Callers, NEW tx \in situation.arriving, AddTransaction(t, tx)
         PROVE  Types'
    <2>1. tx \in Transactions
      BY <1>3 DEF ManagerTypes
    <2>2. Append(queue, tx) \in Seq(Transactions) /\ Append(accepted, tx) \in Seq(Transactions)
      BY <2>1 DEF ManagerTypes, HistoryTypes
    <2>3. QED
      BY <1>1, <1>3, <2>2
         DEF ManagerTypes, ThreadTypes, HistoryTypes, Threads, Goto, shared, threads, histories,
             Steps, AddTransaction
  <1>4. ASSUME NEW txs \in SUBSET situation.arriving, NEW time \in 0 .. situation.time, ReceiveBlock(txs, time)
         PROVE  Types'
    <2> DEFINE b == [transactions |-> txs, time |-> time, own |-> FALSE]
    <2>1. /\ txs \in SUBSET Transactions /\ time \in Nat
          /\ b \in [transactions : SUBSET Transactions, time : Nat, own : BOOLEAN]
      BY DEF ManagerTypes
    <2>2. Append(chain, b) \in Seq([transactions : SUBSET Transactions, time : Nat, own : BOOLEAN])
      BY <2>1 DEF ManagerTypes
    <2>3. [previous |-> Len(chain), time |-> time, transactions |-> txs] \in BlockOf
      BY <2>1 DEF ManagerTypes, BlockOf
    <2>4. ThreadTypes'
      <3> HIDE DEF b
      <3> QED
        BY <1>1, <1>4, <2>3
           DEF ManagerTypes, ThreadTypes, HistoryTypes, Threads, Goto, shared, threads,
               histories, Steps, ReceiveBlock
    <2>5. ManagerTypes' /\ HistoryTypes'
      BY <1>1, <1>4, <2>2
         DEF ManagerTypes, ThreadTypes, HistoryTypes, Threads, Goto, shared, threads, histories,
             Steps, ReceiveBlock
    <2>6. QED
      BY <2>4, <2>5
  <1>5. ASSUME NEW w \in Workers, GiveUp(w) PROVE Types'
    BY <1>1, <1>5
       DEF ManagerTypes, ThreadTypes, HistoryTypes, Threads, Goto, shared, threads, histories,
           Steps, GiveUp
  <1>6. ASSUME NEW t \in Threads, RunNot(t) PROVE Types'
    BY <1>1, <1>6
       DEF ManagerTypes, ThreadTypes, HistoryTypes, Threads, Goto, shared, threads, histories,
           Steps, RunNot
  <1>7. ASSUME NEW t \in Threads, Run(t) PROVE Types'
    <2>1. Remaining \in Seq(Transactions) /\ ForBlock \subseteq Transactions
      BY Divided, SetOfSeq DEF ManagerTypes
    <2>2. NewMiner(ForBlock) \in MinerObject
      BY <2>1 DEF NewMiner, MinerObject
    <2>3. miner' \in [Addresses -> MinerObject] /\ target' \in [Threads -> Addresses \cup {Nobody}]
      BY <1>7, <2>2
         DEF ManagerTypes, ThreadTypes, HistoryTypes, Threads, Goto, shared, threads, histories,
             Steps, Run
    <2>4. interrupted' \subseteq Workers /\ stale' \subseteq Threads
      BY <1>7
         DEF ManagerTypes, ThreadTypes, HistoryTypes, Threads, Goto, shared, threads, histories,
             Steps, Run, MinerObject
    <2>5. QED
      BY <1>1, <1>7, <2>1, <2>3, <2>4
         DEF ManagerTypes, ThreadTypes, HistoryTypes, Threads, Goto, shared, threads, histories,
             Steps, Run
  <1>8. ASSUME NEW t \in Threads, NEW w \in Workers, CreateThread(t, w) PROVE Types'
    <2>1. target[t] \in Addresses
      BY <1>8 DEF CreateThread, FlowInv, LockFlow
    <2>2. miner' \in [Addresses -> MinerObject]
      BY <1>8, <2>1, MinerUpdates DEF ManagerTypes, CreateThread
    <2>3. ManagerTypes'
      BY <1>1, <1>8, <2>1, <2>2 DEF ManagerTypes, CreateThread
    <2>4. ThreadTypes'
      BY <1>8 DEF ThreadTypes, Threads, Steps, CreateThread
    <2>5. HistoryTypes'
      BY <1>8 DEF HistoryTypes, CreateThread
    <2>6. QED
      BY <2>3, <2>4, <2>5
  <1>9. ASSUME NEW t \in Threads, Notify(t) PROVE Types'
    <2>1. ManagerTypes'
      BY <1>1, <1>9 DEF ManagerTypes, Notify, shared
    <2>2. then[t] \in Steps /\ m \in Addresses \cup {Nobody}
      BY DEF ThreadTypes, ManagerTypes, Steps
    <2>3. \/ pc' = [pc EXCEPT ![t] = then[t]] /\ target' = target
          \/ pc' = [pc EXCEPT ![t] = "requeue"] /\ target' = [target EXCEPT ![t] = m]
      BY <1>9 DEF Notify, Goto
    <2>4. pc' \in [Threads -> Steps] /\ target' \in [Threads -> Addresses \cup {Nobody}]
      BY <2>2, <2>3 DEF ThreadTypes, Steps
    <2>5. ThreadTypes'
      BY <1>9, <2>4 DEF ThreadTypes, Notify
    <2>6. HistoryTypes'
      BY <1>9 DEF HistoryTypes, Notify
    <2>7. QED
      BY <2>1, <2>5, <2>6
  <1>10. ASSUME NEW t \in Threads, Requeue(t) PROVE Types'
    <2>1. target[t] \in Addresses
      BY <1>10 DEF Requeue, FlowInv, LockFlow
    <2>2. NotInBlock(miner[target[t]].transactions, block[t].transactions) \subseteq ToSet(accepted)
      BY <2>1 DEF AcceptedInv, NotInBlock
    <2>3. queue' \in Seq(Transactions)
      BY <1>10, <2>2, Restored DEF ManagerTypes, HistoryTypes, Requeue
    <2>4. ManagerTypes'
      BY <1>1, <1>10, <2>3 DEF ManagerTypes, Requeue
    <2>5. ThreadTypes'
      BY <1>10 DEF ThreadTypes, Steps, Requeue, Goto
    <2>6. HistoryTypes'
      BY <1>10 DEF HistoryTypes, Requeue, Uses
    <2>7. QED
      BY <2>4, <2>5, <2>6
  <1>11. ASSUME NEW t \in Threads, TearDownOther(t) PROVE Types'
    <2>1. target[t] \in Addresses
      BY <1>11 DEF TearDownOther, FlowInv, LockFlow
    <2>2. miner[target[t]] \in MinerObject /\ miner[target[t]].minerThreads \subseteq Workers
      BY <2>1 DEF ManagerTypes, MinerObject
    <2>3. TornDown(miner[target[t]]) \in MinerObject
      BY <2>2, TornDownMiner
    <2>4. miner' \in [Addresses -> MinerObject]
      BY <1>11, <2>2, <2>3, MinerUpdates DEF ManagerTypes, TearDownOther, TearDown
    <2>5. interrupted' \subseteq Workers
      BY <1>11, <2>2 DEF ThreadTypes, TearDownOther, TearDown
    <2>6. QED
      BY <1>1, <1>11, <2>4, <2>5
         DEF ManagerTypes, ThreadTypes, HistoryTypes, Threads, Goto, shared, threads, histories,
             Steps, TearDownOther, TearDown, Uses
  <1>12. ASSUME NEW w \in Workers, ReadTime(w) PROVE Types'
    <2>1. [NoBlock EXCEPT !.time = now] \in BlockOf
      BY DEF BlockOf, NoBlock, ManagerTypes
    <2>2. QED
      BY <1>1, <1>12, <2>1
         DEF ManagerTypes, ThreadTypes, HistoryTypes, Threads, Goto, shared, threads, histories,
             Steps, ReadTime
  <1>13. ASSUME NEW w \in Workers, ReadLatestBlock(w) PROVE Types'
    <2>1. [block[w] EXCEPT !.previous = Len(chain)] \in BlockOf
      <3>1. block[w] \in BlockOf /\ Len(chain) \in Nat
        BY DEF ManagerTypes, ThreadTypes, Threads
      <3>2. QED
        BY <3>1 DEF BlockOf
    <2>2. QED
      BY <1>1, <1>13, <2>1
         DEF ManagerTypes, ThreadTypes, HistoryTypes, Threads, Goto, shared, threads, histories,
             Steps, ReadLatestBlock
  <1>14. ASSUME NEW w \in Workers, CopyTransactions(w) PROVE Types'
    <2>1. this[w] \in Addresses
      BY <1>14 DEF CopyTransactions, FlowInv, WorkersFlow
    <2>2. [block[w] EXCEPT !.transactions = miner[this[w]].transactions] \in BlockOf
      <3>1. block[w] \in BlockOf /\ miner[this[w]].transactions \in SUBSET Transactions
        BY <2>1 DEF ManagerTypes, ThreadTypes, Threads, MinerObject
      <3>2. QED
        BY <3>1 DEF BlockOf
    <2>3. QED
      BY <1>1, <1>14, <2>2
         DEF ManagerTypes, ThreadTypes, HistoryTypes, Threads, Goto, shared, threads, histories,
             Steps, CopyTransactions, Uses
  <1>15. ASSUME NEW w \in Workers, Interrupt(w) PROVE Types'
    BY <1>1, <1>15
       DEF ManagerTypes, ThreadTypes, HistoryTypes, Threads, Goto, shared, threads, histories,
           Steps, Interrupt
  <1>16. ASSUME NEW w \in Workers, Find(w) PROVE Types'
    BY <1>1, <1>16
       DEF ManagerTypes, ThreadTypes, HistoryTypes, Threads, Goto, shared, threads, histories,
           Steps, Find
  <1>17. ASSUME NEW w \in Workers, OnNewBlockFound(w) PROVE Types'
    <2>1. this[w] \in Addresses
      BY <1>17 DEF OnNewBlockFound, FlowInv, WorkersFlow
    <2>2. miner[this[w]] \in MinerObject
      BY <2>1 DEF ManagerTypes
    <2>3. [miner[this[w]] EXCEPT !.newBlockFound = TRUE, !.mutex = w] \in MinerObject
      BY <2>2, MinerUpdates
    <2>4. miner' \in [Addresses -> MinerObject]
      BY <1>17, <2>3 DEF ManagerTypes, OnNewBlockFound
    <2>5. ManagerTypes'
      BY <1>1, <1>17, <2>4 DEF ManagerTypes, OnNewBlockFound
    <2>6. ThreadTypes'
      BY <1>17 DEF ThreadTypes, Threads, Steps, OnNewBlockFound, Goto
    <2>7. HistoryTypes'
      BY <1>17 DEF HistoryTypes, OnNewBlockFound, Uses
    <2>8. QED
      BY <2>5, <2>6, <2>7
  <1>18. ASSUME NEW w \in Workers, PublishBlock(w) PROVE Types'
    <2>1. block[w] \in BlockOf
      BY DEF ThreadTypes, Threads
    <2> DEFINE b == [transactions |-> block[w].transactions, time |-> block[w].time, own |-> TRUE]
    <2>2. b \in [transactions : SUBSET Transactions, time : Nat, own : BOOLEAN]
      BY <2>1 DEF BlockOf
    <2>3. Append(chain, b) \in Seq([transactions : SUBSET Transactions, time : Nat, own : BOOLEAN])
      BY <2>2 DEF ManagerTypes
    <2>4. chain' \in Seq([transactions : SUBSET Transactions, time : Nat, own : BOOLEAN])
      BY <1>18, <2>3 DEF PublishBlock, ManagerTypes
    <2>5. rejected' \subseteq Transactions
      BY <1>18, <2>1 DEF PublishBlock, HistoryTypes, BlockOf
    <2>6. ThreadTypes'
      BY <1>18
         DEF ManagerTypes, ThreadTypes, HistoryTypes, Threads, Goto, shared, threads, histories,
             Steps, PublishBlock
    <2>7. QED
      BY <1>1, <1>18, <2>4, <2>5, <2>6
         DEF ManagerTypes, ThreadTypes, HistoryTypes, Threads, Goto, shared, threads, histories,
             Steps, PublishBlock
  <1>19. ASSUME NEW w \in Workers, TearDownOwn(w) PROVE Types'
    <2>1. this[w] \in Addresses
      BY <1>19 DEF TearDownOwn, FlowInv, WorkersFlow
    <2>2. miner[this[w]] \in MinerObject /\ miner[this[w]].minerThreads \subseteq Workers
      BY <2>1 DEF ManagerTypes, MinerObject
    <2>3. TornDown(miner[this[w]]) \in MinerObject
      BY <2>2, TornDownMiner
    <2>4. miner' \in [Addresses -> MinerObject]
      BY <1>19, <2>2, <2>3, MinerUpdates DEF ManagerTypes, TearDownOwn
    <2>5. interrupted' \subseteq Workers
      BY <1>19, <2>2 DEF ThreadTypes, TearDownOwn
    <2>6. QED
      BY <1>1, <1>19, <2>4, <2>5
         DEF ManagerTypes, ThreadTypes, HistoryTypes, Threads, Goto, shared, threads, histories,
             Steps, TearDownOwn, Uses
  <1>20. ASSUME NEW w \in Workers, Abort(w) PROVE Types'
    <2>1. this[w] \in Addresses
      BY <1>20 DEF Abort, FlowInv, WorkersFlow
    <2> DEFINE mi == miner[this[w]]
               done == [mi EXCEPT !.threadsDone = mi.threadsDone + 1]
    <2>2. mi \in MinerObject /\ mi.minerThreads \subseteq Workers
      BY <2>1 DEF ManagerTypes, MinerObject
    <2>3. done \in MinerObject /\ TornDown(done) \in MinerObject
      BY <2>2, MinerUpdates, TornDownMiner
    <2>4. miner' = [miner EXCEPT ![this[w]] = TornDown(done)] \/ miner' = [miner EXCEPT ![this[w]] = done]
      BY <1>20, <2>1 DEF ManagerTypes, Abort
    <2>5. miner' \in [Addresses -> MinerObject]
      <3> HIDE DEF done
      <3> QED
        BY <2>3, <2>4 DEF ManagerTypes
    <2>6. interrupted' \subseteq Workers
      BY <1>20, <2>2 DEF ThreadTypes, Abort
    <2>7. PutBack(this[w]) \subseteq ToSet(accepted)
      BY <2>1 DEF AcceptedInv, PutBack
    <2>8. queue' \in Seq(Transactions)
      BY <1>20, <2>7, Restored DEF ManagerTypes, HistoryTypes, Abort
    <2>9. ManagerTypes'
      BY <1>1, <1>20, <2>5, <2>8 DEF ManagerTypes, Abort
    <2>10. ThreadTypes'
      BY <1>20, <2>6 DEF ThreadTypes, Threads, Steps, Abort, Goto
    <2>11. HistoryTypes'
      BY <1>20 DEF HistoryTypes, Abort, Uses
    <2>12. QED
      BY <2>9, <2>10, <2>11
  <1>21. CASE UNCHANGED vars
    BY <1>21
       DEF ManagerTypes, ThreadTypes, HistoryTypes, Threads, Goto, shared, threads, histories,
           Steps, vars, shared, threads, histories
  <1>22. QED
    BY <1>2, <1>3, <1>4, <1>5, <1>6, <1>7, <1>8, <1>9, <1>10, <1>11, <1>12, <1>13, <1>14, <1>15,
       <1>16, <1>17, <1>18, <1>19, <1>20, <1>21
       DEF Next, Arrive, Step, Manage, Told, Mine

LEMMA FlowStep ==
    ASSUME Types, FlowInv, [Next]_vars
    PROVE  FlowInv'
  <1> USE MiningAssumption DEF Types, ManagerTypes
  <1>1. UNCHANGED situation
    BY DEF Next, vars
  <1>2. CASE Tick
    BY <1>1, <1>2
       DEF ThreadTypes, Threads, Goto, Steps, shared, threads, histories, FlowInv, CallersFlow,
           WorkersFlow, LockFlow, Tick
  <1>3. ASSUME NEW t \in Callers, NEW tx \in situation.arriving, AddTransaction(t, tx)
         PROVE  FlowInv'
    BY <1>1, <1>3
       DEF ThreadTypes, Threads, Goto, Steps, shared, threads, histories, FlowInv, CallersFlow,
           WorkersFlow, LockFlow, AddTransaction
  <1>4. ASSUME NEW txs \in SUBSET situation.arriving, NEW time \in 0 .. situation.time, ReceiveBlock(txs, time)
         PROVE  FlowInv'
    BY <1>1, <1>4
       DEF ThreadTypes, Threads, Goto, Steps, shared, threads, histories, FlowInv, CallersFlow,
           WorkersFlow, LockFlow, ReceiveBlock
  <1>5. ASSUME NEW w \in Workers, GiveUp(w) PROVE FlowInv'
    BY <1>1, <1>5
       DEF ThreadTypes, Threads, Goto, Steps, shared, threads, histories, FlowInv, CallersFlow,
           WorkersFlow, LockFlow, GiveUp
  <1>6. ASSUME NEW t \in Threads, RunNot(t) PROVE FlowInv'
    <2>1. CallersFlow'
      BY <1>6
         DEF FlowInv, CallersFlow, ThreadTypes, Threads, Goto, Steps, shared, threads,
             histories, RunNot
    <2>2. WorkersFlow'
      BY <1>6
         DEF FlowInv, WorkersFlow, LockFlow, ThreadTypes, Threads, Goto, Steps, shared, threads,
             histories, RunNot
    <2>3. LockFlow'
      BY <1>6
         DEF FlowInv, LockFlow, ThreadTypes, Threads, Goto, Steps, shared, threads, histories,
             RunNot
    <2>4. QED
      BY <2>1, <2>2, <2>3 DEF FlowInv
  <1>7. ASSUME NEW t \in Threads, Run(t) PROVE FlowInv'
    BY <1>1, <1>7
       DEF ThreadTypes, Threads, Goto, Steps, shared, threads, histories, FlowInv, CallersFlow,
           WorkersFlow, LockFlow, Run
  <1>8. ASSUME NEW t \in Threads, NEW w \in Workers, CreateThread(t, w) PROVE FlowInv'
    <2>1. /\ lock = t /\ m = Nobody /\ target[t] \in Addresses /\ t # w
          /\ \A u \in Threads : pc[u] = "create" => u = t
      BY <1>8 DEF CreateThread, FlowInv, LockFlow
    <2>2. CallersFlow'
      <3>1. then' = then /\ \A u \in Threads : u # w => pc'[u] \in {pc[u], then[u]}
        BY <1>8, <2>1 DEF CreateThread, ThreadTypes, Threads
      <3>2. QED
        BY <3>1 DEF FlowInv, CallersFlow, Threads
    <2>3. WorkersFlow'
      BY <1>8, <2>1
         DEF FlowInv, WorkersFlow, LockFlow, CreateThread, ThreadTypes, Threads, Goto, Steps,
             shared, threads, histories
    <2>4. LockFlow'
      <3>1. CASE miner[target[t]].created + 1 = NumThreads
        <4>1. lock' = Nobody /\ pc' = [pc EXCEPT ![w] = "time", ![t] = then[t]] /\ target' = target
          BY <1>8, <3>1 DEF CreateThread
        <4>2. QED
          BY <2>1, <4>1
             DEF FlowInv, LockFlow, ThreadTypes, Threads, Goto, Steps, shared, threads,
                 histories
      <3>2. CASE miner[target[t]].created + 1 # NumThreads
        <4>1. lock' = lock /\ m' = m /\ pc' = [pc EXCEPT ![w] = "time"] /\ target' = target
          BY <1>8, <3>2 DEF CreateThread
        <4>2. QED
          BY <1>8, <2>1, <4>1
             DEF FlowInv, LockFlow, CreateThread, ThreadTypes, Threads, Goto, Steps, shared,
                 threads, histories
      <3>3. QED
        BY <3>1, <3>2
    <2>5. QED
      BY <2>2, <2>3, <2>4 DEF FlowInv
  <1>9. ASSUME NEW t \in Threads, Notify(t) PROVE FlowInv'
    <2>1. CallersFlow'
      BY <1>9
         DEF FlowInv, CallersFlow, ThreadTypes, Threads, Goto, Steps, shared, threads,
             histories, Notify
    <2>2. WorkersFlow'
      BY <1>9
         DEF FlowInv, WorkersFlow, LockFlow, ThreadTypes, Threads, Goto, Steps, shared, threads,
             histories, Notify
    <2>3. LockFlow'
      <3>1. UNCHANGED <<m, lock>> /\ pc[t] = "notify"
        BY <1>9 DEF Notify, shared
      <3>2. \/ pc' = [pc EXCEPT ![t] = then[t]] /\ target' = target
            \/ pc' = [pc EXCEPT ![t] = "requeue"] /\ target' = [target EXCEPT ![t] = m] /\ m # Nobody
        BY <1>9 DEF Notify, Goto
      <3>3. QED
        BY <3>1, <3>2 DEF FlowInv, LockFlow, WorkersFlow, CallersFlow, ThreadTypes, Threads
    <2>4. QED
      BY <2>1, <2>2, <2>3 DEF FlowInv
  <1>10. ASSUME NEW t \in Threads, Requeue(t) PROVE FlowInv'
    <2>1. CallersFlow'
      BY <1>10
         DEF FlowInv, CallersFlow, ThreadTypes, Threads, Goto, Steps, shared, threads,
             histories, Requeue
    <2>2. WorkersFlow'
      BY <1>10
         DEF FlowInv, WorkersFlow, LockFlow, ThreadTypes, Threads, Goto, Steps, shared, threads,
             histories, Requeue
    <2>3. LockFlow'
      <3>1. UNCHANGED <<m, lock, target>> /\ pc[t] = "requeue"
        BY <1>10 DEF Requeue
      <3>2. pc' = [pc EXCEPT ![t] = then[t]] \/ pc' = [pc EXCEPT ![t] = "tearDownOther"]
        BY <1>10 DEF Requeue, Goto
      <3>3. QED
        BY <3>1, <3>2
           DEF FlowInv, LockFlow, ThreadTypes, Threads, Goto, Steps, shared, threads, histories,
               Requeue
    <2>4. QED
      BY <2>1, <2>2, <2>3 DEF FlowInv
  <1>11. ASSUME NEW t \in Threads, TearDownOther(t) PROVE FlowInv'
    BY <1>1, <1>11
       DEF ThreadTypes, Threads, Goto, Steps, shared, threads, histories, FlowInv, CallersFlow,
           WorkersFlow, LockFlow, TearDownOther
  <1>12. ASSUME NEW w \in Workers, ReadTime(w) PROVE FlowInv'
    BY <1>1, <1>12
       DEF ThreadTypes, Threads, Goto, Steps, shared, threads, histories, FlowInv, CallersFlow,
           WorkersFlow, LockFlow, ReadTime
  <1>13. ASSUME NEW w \in Workers, ReadLatestBlock(w) PROVE FlowInv'
    BY <1>1, <1>13
       DEF ThreadTypes, Threads, Goto, Steps, shared, threads, histories, FlowInv, CallersFlow,
           WorkersFlow, LockFlow, ReadLatestBlock
  <1>14. ASSUME NEW w \in Workers, CopyTransactions(w) PROVE FlowInv'
    BY <1>1, <1>14
       DEF ThreadTypes, Threads, Goto, Steps, shared, threads, histories, FlowInv, CallersFlow,
           WorkersFlow, LockFlow, CopyTransactions
  <1>15. ASSUME NEW w \in Workers, Interrupt(w) PROVE FlowInv'
    BY <1>1, <1>15
       DEF ThreadTypes, Threads, Goto, Steps, shared, threads, histories, FlowInv, CallersFlow,
           WorkersFlow, LockFlow, Interrupt
  <1>16. ASSUME NEW w \in Workers, Find(w) PROVE FlowInv'
    BY <1>1, <1>16
       DEF ThreadTypes, Threads, Goto, Steps, shared, threads, histories, FlowInv, CallersFlow,
           WorkersFlow, LockFlow, Find
  <1>17. ASSUME NEW w \in Workers, OnNewBlockFound(w) PROVE FlowInv'
    <2>1. CallersFlow'
      BY <1>17 DEF FlowInv, CallersFlow, ThreadTypes, Threads, Goto, OnNewBlockFound
    <2>2. WorkersFlow'
      BY <1>17
         DEF FlowInv, WorkersFlow, LockFlow, ThreadTypes, Threads, Goto, Steps, shared, threads,
             histories, OnNewBlockFound
    <2>3. LockFlow'
      BY <1>17
         DEF FlowInv, LockFlow, ThreadTypes, Threads, Goto, Steps, shared, threads, histories,
             OnNewBlockFound
    <2>4. QED
      BY <2>1, <2>2, <2>3 DEF FlowInv
  <1>18. ASSUME NEW w \in Workers, PublishBlock(w) PROVE FlowInv'
    BY <1>1, <1>18
       DEF ThreadTypes, Threads, Goto, Steps, shared, threads, histories, FlowInv, CallersFlow,
           WorkersFlow, LockFlow, PublishBlock
  <1>19. ASSUME NEW w \in Workers, TearDownOwn(w) PROVE FlowInv'
    BY <1>1, <1>19
       DEF ThreadTypes, Threads, Goto, Steps, shared, threads, histories, FlowInv, CallersFlow,
           WorkersFlow, LockFlow, TearDownOwn
  <1>20. ASSUME NEW w \in Workers, Abort(w) PROVE FlowInv'
    <2>1. CallersFlow'
      BY <1>20
         DEF FlowInv, CallersFlow, ThreadTypes, Threads, Goto, Steps, shared, threads,
             histories, Abort
    <2>2. WorkersFlow'
      BY <1>20
         DEF FlowInv, WorkersFlow, LockFlow, ThreadTypes, Threads, Goto, Steps, shared, threads,
             histories, Abort
    <2>3. LockFlow'
      BY <1>20
         DEF FlowInv, LockFlow, ThreadTypes, Threads, Goto, Steps, shared, threads, histories,
             Abort
    <2>4. QED
      BY <2>1, <2>2, <2>3 DEF FlowInv
  <1>21. CASE UNCHANGED vars
    BY <1>21
       DEF ThreadTypes, Threads, Goto, Steps, shared, threads, histories, FlowInv, CallersFlow,
           WorkersFlow, LockFlow, vars, shared, threads, histories
  <1>22. QED
    BY <1>2, <1>3, <1>4, <1>5, <1>6, <1>7, <1>8, <1>9, <1>10, <1>11, <1>12, <1>13, <1>14, <1>15,
       <1>16, <1>17, <1>18, <1>19, <1>20, <1>21
       DEF Next, Arrive, Step, Manage, Told, Mine

\* What the actions change of the Miners: a Miner keeps what it works on until
\* Run replaces it, and goes on running until it is torn down.
SameMiner(new, old) ==
    /\ new.transactions = old.transactions /\ new.running = old.running
    /\ new.minerThreads = old.minerThreads

LEMMA FoundEffect ==
    ASSUME Types, FlowInv, NEW w \in Workers, OnNewBlockFound(w)
    PROVE  /\ this[w] \in Addresses
           /\ \A a \in Addresses : /\ SameMiner(miner'[a], miner[a])
                                   /\ miner'[a].threadsDone = miner[a].threadsDone
                                   /\ miner[a].newBlockFound => miner'[a].newBlockFound
           /\ pc'[w] = "publish" => miner'[this[w]].newBlockFound
  <1>1. this[w] \in Addresses /\ pc[w] = "found"
    BY DEF OnNewBlockFound, FlowInv, WorkersFlow
  <1>2. miner[this[w]] \in MinerObject
    BY <1>1 DEF Types, ManagerTypes
  <1>3. CASE miner[this[w]].newBlockFound
    BY <1>1, <1>3 DEF OnNewBlockFound, SameMiner, Types, ManagerTypes
  <1>4. CASE ~miner[this[w]].newBlockFound
    <2>1. PICK new : new = [miner[this[w]] EXCEPT !.newBlockFound = TRUE, !.mutex = w]
      OBVIOUS
    <2>2. /\ SameMiner(new, miner[this[w]]) /\ new.threadsDone = miner[this[w]].threadsDone
          /\ new.newBlockFound
      BY <1>2, <2>1 DEF MinerObject, SameMiner
    <2>3. miner' = [miner EXCEPT ![this[w]] = new]
      BY <1>1, <1>4, <2>1 DEF OnNewBlockFound, Types, ManagerTypes
    <2>4. QED
      BY <1>1, <2>2, <2>3 DEF SameMiner, Types, ManagerTypes
  <1>5. QED
    BY <1>3, <1>4

LEMMA AbortEffect ==
    ASSUME Types, FlowInv, NEW w \in Workers, Abort(w)
    PROVE  LET a == this[w]
               all == AllAborted(a, miner[a].threadsDone + 1)
           IN  /\ a \in Addresses
               /\ miner'[a].transactions = miner[a].transactions
               /\ miner'[a].newBlockFound = miner[a].newBlockFound
               /\ miner'[a].threadsDone = miner[a].threadsDone + 1
               /\ all => ~miner'[a].running /\ miner'[a].minerThreads = {}
               /\ ~all => SameMiner(miner'[a], miner[a])
               /\ \A c \in Addresses : c # a => miner'[c] = miner[c]
  <1>1. this[w] \in Addresses
    BY DEF Abort, FlowInv, WorkersFlow
  <1>2. miner[this[w]] \in MinerObject
    BY <1>1 DEF Types, ManagerTypes
  <1>3. PICK done : done = [miner[this[w]] EXCEPT !.threadsDone = miner[this[w]].threadsDone + 1]
    OBVIOUS
  <1>4. /\ SameMiner(done, miner[this[w]]) /\ done.threadsDone = miner[this[w]].threadsDone + 1
        /\ done.newBlockFound = miner[this[w]].newBlockFound /\ done \in MinerObject
    BY <1>2, <1>3 DEF MinerObject, SameMiner
  <1>5. /\ TornDown(done).transactions = done.transactions /\ TornDown(done).threadsDone = done.threadsDone
        /\ TornDown(done).newBlockFound = done.newBlockFound
        /\ ~TornDown(done).running /\ TornDown(done).minerThreads = {}
    BY <1>4 DEF TornDown, MinerObject
  <1>6. miner' = [miner EXCEPT ![this[w]] =
            IF AllAborted(this[w], miner[this[w]].threadsDone + 1) THEN TornDown(done) ELSE done]
    BY <1>1, <1>3 DEF Abort, Types, ManagerTypes
  <1>7. QED
    <2> HIDE DEF AllAborted, TornDown
    <2> QED
      BY <1>1, <1>4, <1>5, <1>6 DEF SameMiner, Types, ManagerTypes

LEMMA TearDownEffect ==
    ASSUME Types, FlowInv, NEW t \in Threads, NEW a \in Addresses,
           \/ TearDownOther(t) /\ a = target[t]
           \/ t \in Workers /\ TearDownOwn(t) /\ a = this[t]
    PROVE  /\ miner'[a].transactions = miner[a].transactions
           /\ miner'[a].newBlockFound = miner[a].newBlockFound
           /\ ~miner'[a].running /\ miner'[a].minerThreads = {}
           /\ \A c \in Addresses : c # a => miner'[c] = miner[c]
  <1>1. miner[a] \in MinerObject
    BY DEF Types, ManagerTypes
  <1>2. /\ TornDown(miner[a]).transactions = miner[a].transactions
        /\ TornDown(miner[a]).newBlockFound = miner[a].newBlockFound
        /\ ~TornDown(miner[a]).running /\ TornDown(miner[a]).minerThreads = {}
        /\ TornDown(miner[a]) \in MinerObject
    BY <1>1 DEF TornDown, MinerObject
  <1>3. PICK new : new = [TornDown(miner[a]) EXCEPT !.mutex = Nobody]
    OBVIOUS
  <1>4. /\ new.transactions = miner[a].transactions /\ new.newBlockFound = miner[a].newBlockFound
        /\ ~new.running /\ new.minerThreads = {}
    BY <1>2, <1>3 DEF MinerObject
  <1>5. miner' = [miner EXCEPT ![a] = TornDown(miner[a])] \/ miner' = [miner EXCEPT ![a] = new]
    BY <1>3 DEF TearDownOther, TearDownOwn, TearDown, Types, ManagerTypes
  <1>6. QED
    <2> HIDE DEF TornDown
    <2> QED
      BY <1>2, <1>4, <1>5 DEF Types, ManagerTypes

LEMMA CreateEffect ==
    ASSUME Types, FlowInv, NEW t \in Threads, NEW w \in Workers, CreateThread(t, w)
    PROVE  LET a == target[t]
           IN  /\ miner'[a].transactions = miner[a].transactions /\ miner'[a].running = miner[a].running
               /\ miner'[a].newBlockFound = miner[a].newBlockFound
               /\ miner'[a].threadsDone = miner[a].threadsDone
               /\ miner'[a].minerThreads = miner[a].minerThreads \cup {w}
               /\ \A c \in Addresses : c # a => miner'[c] = miner[c]
  <1>1. target[t] \in Addresses
    BY DEF CreateThread, FlowInv, LockFlow
  <1>2. miner[target[t]] \in MinerObject
    BY <1>1 DEF Types, ManagerTypes
  <1>3. PICK new : new = [miner[target[t]] EXCEPT !.minerThreads = @ \cup {w}, !.created = @ + 1]
    OBVIOUS
  <1>4. /\ new.transactions = miner[target[t]].transactions /\ new.running = miner[target[t]].running
        /\ new.newBlockFound = miner[target[t]].newBlockFound
        /\ new.threadsDone = miner[target[t]].threadsDone
        /\ new.minerThreads = miner[target[t]].minerThreads \cup {w}
    BY <1>2, <1>3 DEF MinerObject
  <1>5. miner' = [miner EXCEPT ![target[t]] = new]
    BY <1>1, <1>3 DEF CreateThread, Types, ManagerTypes
  <1>6. QED
    BY <1>1, <1>4, <1>5 DEF Types, ManagerTypes

\* There is at most one Miner, also while one is being constructed.
LEMMA CurrentIs ==
    ASSUME Types, FlowInv
    PROVE  /\ lock = Nobody => Current = IF m = Nobody THEN {} ELSE {m}
           /\ lock # Nobody => Current = {target[lock]}
           /\ m \in Addresses => lock = Nobody
           /\ Current \subseteq Addresses
  BY MiningAssumption DEF Types, ManagerTypes, FlowInv, LockFlow, Current

LEMMA CurrentStays ==
    ASSUME Types, FlowInv, UNCHANGED <<m, lock>>, \A t \in Threads : pc[t] = "create" => target'[t] = target[t]
    PROVE  Current' = Current
  BY MiningAssumption DEF Types, ManagerTypes, FlowInv, LockFlow, Current

\* How Run and CreateThread change it
LEMMA CurrentRun ==
    ASSUME Types, FlowInv, NEW t \in Threads, Run(t)
    PROVE  /\ Current = IF m = Nobody THEN {} ELSE {m}
           /\ Current' = {target'[t]} /\ target'[t] \in Addresses
           /\ miner' = [miner EXCEPT ![target'[t]] = NewMiner(ForBlock)]
  <1>1. PICK a \in Addresses :
            miner' = [miner EXCEPT ![a] = NewMiner(ForBlock)] /\ target' = [target EXCEPT ![t] = a]
    BY DEF Run
  <1>2. target'[t] = a
    BY <1>1 DEF Types, ThreadTypes
  <1>3. lock = Nobody /\ lock' = t /\ m' = Nobody /\ t # Nobody
    BY MiningAssumption DEF Run
  <1>4. Current' = {a}
    BY <1>2, <1>3, MiningAssumption DEF Current
  <1>5. QED
    BY <1>1, <1>2, <1>3, <1>4, CurrentIs

LEMMA CurrentCreate ==
    ASSUME Types, FlowInv, NEW t \in Threads, NEW w \in Workers, CreateThread(t, w)
    PROVE  /\ Current = {target[t]} /\ Current' = Current
           /\ target[t] \in Addresses /\ lock = t /\ t # w
  <1>1. lock = t /\ m = Nobody /\ target[t] \in Addresses /\ pc[t] = "create" /\ pc[w] = "ended"
    BY MiningAssumption DEF CreateThread, FlowInv, LockFlow
  <1>2. Current = {target[t]}
    BY <1>1, MiningAssumption, CurrentIs
  <1>3. Current' = {target[t]}
    BY <1>1, MiningAssumption DEF CreateThread, Current
  <1>4. QED
    BY <1>1, <1>2, <1>3

\* Whoever tears a Miner down interrupts all who search in it.
LEMMA OrphanStep ==
    ASSUME Types, FlowInv, OrphanInv, [Next]_vars
    PROVE  OrphanInv'
  <1> USE MiningAssumption
  <1>1. CASE Tick
    <2>1. Current' = Current
      BY <1>1, CurrentStays DEF Tick, shared, threads
    <2>2. QED
      BY <1>1, <2>1
         DEF Threads, Goto, shared, threads, histories, OrphanInv, Searching, Types,
             ManagerTypes, ThreadTypes, Tick
  <1>2. ASSUME NEW t \in Callers, NEW tx \in situation.arriving, AddTransaction(t, tx)
         PROVE  OrphanInv'
    <2>1. Current' = Current
      BY <1>2, CurrentStays DEF AddTransaction, shared, threads
    <2>2. QED
      BY <1>2, <2>1
         DEF Threads, Goto, shared, threads, histories, OrphanInv, Searching, Types,
             ManagerTypes, ThreadTypes, AddTransaction
  <1>3. ASSUME NEW txs \in SUBSET situation.arriving, NEW time \in 0 .. situation.time, ReceiveBlock(txs, time)
         PROVE  OrphanInv'
    <2>1. Current' = Current
      BY <1>3, CurrentStays DEF ReceiveBlock, shared, threads
    <2>2. QED
      BY <1>3, <2>1
         DEF Threads, Goto, shared, threads, histories, OrphanInv, Searching, Types,
             ManagerTypes, ThreadTypes, ReceiveBlock
  <1>4. ASSUME NEW w \in Workers, GiveUp(w) PROVE OrphanInv'
    <2>1. Current' = Current
      BY <1>4, CurrentStays DEF GiveUp, shared, threads
    <2>2. QED
      BY <1>4, <2>1
         DEF Threads, Goto, shared, threads, histories, OrphanInv, Searching, Types,
             ManagerTypes, ThreadTypes, GiveUp
  <1>5. ASSUME NEW t \in Threads, RunNot(t) PROVE OrphanInv'
    <2>1. Current' = Current
      BY <1>5, CurrentStays DEF RunNot, shared, threads
    <2>2. QED
      BY <1>5, <2>1
         DEF Threads, Goto, shared, threads, histories, OrphanInv, Searching, Types,
             ManagerTypes, ThreadTypes, RunNot
  <1>6. ASSUME NEW t \in Threads, Run(t) PROVE OrphanInv'
    <2>1. ASSUME NEW w \in Workers, pc'[w] \in Searching, w \notin interrupted' PROVE FALSE
      <3>1. pc[w] \in Searching /\ w \notin interrupted
        BY <1>6, <2>1 DEF Run, Goto, Searching, Types, ThreadTypes, Threads
      <3>2. m # Nobody /\ this[w] = m /\ w \in miner[m].minerThreads
        BY <1>6, <3>1, CurrentRun DEF OrphanInv
      <3>3. QED
        BY <1>6, <2>1, <3>2 DEF Run
    <2>2. QED
      BY <2>1 DEF OrphanInv
  <1>7. ASSUME NEW t \in Threads, NEW w \in Workers, CreateThread(t, w) PROVE OrphanInv'
    <2>1. Current = {target[t]} /\ Current' = Current /\ target[t] \in Addresses /\ t # w
      BY <1>7, CurrentCreate
    <2>2. miner[target[t]] \in MinerObject
      BY <2>1 DEF Types, ManagerTypes
    <2>3. miner'[target[t]].minerThreads = miner[target[t]].minerThreads \cup {w}
      BY <1>7, <2>1, <2>2 DEF CreateThread, MinerObject, Types, ManagerTypes
    <2>4. ASSUME NEW v \in Workers, pc'[v] \in Searching, v \notin interrupted'
          PROVE  this'[v] \in Current' /\ v \in miner'[this'[v]].minerThreads
      <3>1. CASE v = w
        BY <1>7, <2>1, <2>3, <3>1 DEF CreateThread, Types, ThreadTypes
      <3>2. CASE v # w
        <4>1. pc[v] \in Searching /\ v \notin interrupted /\ this'[v] = this[v]
          BY <1>7, <2>4, <3>2
             DEF CreateThread, Searching, FlowInv, WorkersFlow, Types, ThreadTypes, Threads
        <4>2. QED
          BY <2>1, <2>3, <4>1 DEF OrphanInv
      <3>3. QED
        BY <3>1, <3>2
    <2>5. QED
      BY <2>4 DEF OrphanInv
  <1>8. ASSUME NEW t \in Threads, Notify(t) PROVE OrphanInv'
    <2>1. Current' = Current
      BY <1>8, CurrentStays DEF Notify, shared, Types, ThreadTypes
    <2>2. UNCHANGED <<miner, this, interrupted>>
      BY <1>8 DEF Notify, shared
    <2>3. pc' = [pc EXCEPT ![t] = pc'[t]] /\ (t \in Workers => pc'[t] \notin Searching)
      BY <1>8 DEF Notify, Goto, FlowInv, WorkersFlow, Types, ThreadTypes, Searching
    <2>4. \A v \in Workers : pc'[v] \in Searching => pc'[v] = pc[v]
      BY <2>3 DEF Types, ThreadTypes, Threads
    <2>5. QED
      BY <2>1, <2>2, <2>4 DEF OrphanInv
  <1>9. ASSUME NEW t \in Threads, Requeue(t) PROVE OrphanInv'
    <2>1. Current' = Current
      BY <1>9, CurrentStays DEF Requeue, shared, threads
    <2>2. UNCHANGED <<miner, this, interrupted>>
      BY <1>9 DEF Requeue
    <2>3. \A v \in Workers : pc'[v] \in Searching => pc'[v] = pc[v]
      BY <1>9 DEF Requeue, Goto, Searching, Types, ThreadTypes, Threads
    <2>4. QED
      BY <2>1, <2>2, <2>3 DEF OrphanInv
  <1>10. ASSUME NEW t \in Threads, TearDownOther(t) PROVE OrphanInv'
    <2> DEFINE a == target[t]
    <2>1. Current' = Current
      BY <1>10, CurrentStays DEF TearDownOther, TearDown, shared, threads
    <2>2. interrupted' = interrupted \cup miner[a].minerThreads
      BY <1>10 DEF TearDownOther, TearDown
    <2>3. \A c \in Addresses : c # a => miner'[c] = miner[c]
      BY <1>10 DEF TearDownOther, TearDown, Types, ManagerTypes
    <2>4. ASSUME NEW v \in Workers, pc'[v] \in Searching, v \notin interrupted'
          PROVE  this'[v] \in Current' /\ v \in miner'[this'[v]].minerThreads
      <3>1. pc[v] \in Searching /\ v \notin interrupted /\ this'[v] = this[v] /\ v \notin miner[a].minerThreads
        BY <1>10, <2>2, <2>4 DEF TearDownOther, Goto, Searching, Types, ThreadTypes, Threads
      <3>2. this[v] \in Current /\ v \in miner[this[v]].minerThreads
        BY <3>1 DEF OrphanInv
      <3>3. this[v] # a /\ this[v] \in Addresses
        BY <3>1, <3>2, CurrentIs
      <3>4. QED
        BY <2>1, <2>3, <3>1, <3>2, <3>3
    <2>5. QED
      BY <2>4 DEF OrphanInv
  <1>11. ASSUME NEW w \in Workers, ReadTime(w) PROVE OrphanInv'
    <2>1. Current' = Current
      BY <1>11, CurrentStays DEF ReadTime, shared, threads
    <2>2. QED
      BY <1>11, <2>1
         DEF Threads, Goto, shared, threads, histories, OrphanInv, Searching, Types,
             ManagerTypes, ThreadTypes, ReadTime
  <1>12. ASSUME NEW w \in Workers, ReadLatestBlock(w) PROVE OrphanInv'
    <2>1. Current' = Current
      BY <1>12, CurrentStays DEF ReadLatestBlock, shared, threads
    <2>2. QED
      BY <1>12, <2>1
         DEF Threads, Goto, shared, threads, histories, OrphanInv, Searching, Types,
             ManagerTypes, ThreadTypes, ReadLatestBlock
  <1>13. ASSUME NEW w \in Workers, CopyTransactions(w) PROVE OrphanInv'
    <2>1. Current' = Current
      BY <1>13, CurrentStays DEF CopyTransactions, shared, threads
    <2>2. QED
      BY <1>13, <2>1
         DEF Threads, Goto, shared, threads, histories, OrphanInv, Searching, Types,
             ManagerTypes, ThreadTypes, CopyTransactions
  <1>14. ASSUME NEW w \in Workers, Interrupt(w) PROVE OrphanInv'
    <2>1. Current' = Current
      BY <1>14, CurrentStays DEF Interrupt, shared, threads
    <2>2. QED
      BY <1>14, <2>1
         DEF Threads, Goto, shared, threads, histories, OrphanInv, Searching, Types,
             ManagerTypes, ThreadTypes, Interrupt
  <1>15. ASSUME NEW w \in Workers, Find(w) PROVE OrphanInv'
    <2>1. Current' = Current
      BY <1>15, CurrentStays DEF Find, shared, threads
    <2>2. QED
      BY <1>15, <2>1
         DEF Threads, Goto, shared, threads, histories, OrphanInv, Searching, Types,
             ManagerTypes, ThreadTypes, Find
  <1>16. ASSUME NEW w \in Workers, OnNewBlockFound(w) PROVE OrphanInv'
    <2>1. Current' = Current
      BY <1>16, CurrentStays DEF OnNewBlockFound, shared, threads
    <2>2. UNCHANGED <<this, interrupted>> /\ this[w] \in Addresses
      BY <1>16 DEF OnNewBlockFound, FlowInv, WorkersFlow
    <2>3. \A v \in Workers : pc'[v] \in Searching => pc[v] \in Searching
      BY <1>16 DEF OnNewBlockFound, Goto, Searching, Types, ThreadTypes, Threads
    <2>4. \A a \in Addresses : miner'[a].minerThreads = miner[a].minerThreads
      BY <1>16, FoundEffect DEF SameMiner
    <2>5. QED
      BY <2>1, <2>2, <2>3, <2>4, CurrentIs DEF OrphanInv
  <1>17. ASSUME NEW w \in Workers, PublishBlock(w) PROVE OrphanInv'
    <2>1. Current' = Current
      BY <1>17, CurrentStays DEF PublishBlock, shared, threads
    <2>2. QED
      BY <1>17, <2>1
         DEF Threads, Goto, shared, threads, histories, OrphanInv, Searching, Types,
             ManagerTypes, ThreadTypes, PublishBlock
  <1>18. ASSUME NEW w \in Workers, TearDownOwn(w) PROVE OrphanInv'
    <2> DEFINE a == this[w]
    <2>1. Current' = Current
      BY <1>18, CurrentStays DEF TearDownOwn, shared, threads
    <2>2. interrupted' = interrupted \cup miner[a].minerThreads
      BY <1>18 DEF TearDownOwn
    <2>3. \A c \in Addresses : c # a => miner'[c] = miner[c]
      BY <1>18 DEF TearDownOwn, Types, ManagerTypes
    <2>4. ASSUME NEW v \in Workers, pc'[v] \in Searching, v \notin interrupted'
          PROVE  this'[v] \in Current' /\ v \in miner'[this'[v]].minerThreads
      <3>1. pc[v] \in Searching /\ v \notin interrupted /\ this'[v] = this[v] /\ v \notin miner[a].minerThreads
        BY <1>18, <2>2, <2>4 DEF TearDownOwn, Goto, Searching, Types, ThreadTypes, Threads
      <3>2. this[v] \in Current /\ v \in miner[this[v]].minerThreads
        BY <3>1 DEF OrphanInv
      <3>3. this[v] # a /\ this[v] \in Addresses
        BY <3>1, <3>2, CurrentIs
      <3>4. QED
        BY <2>1, <2>3, <3>1, <3>2, <3>3
    <2>5. QED
      BY <2>4 DEF OrphanInv
  <1>19. ASSUME NEW w \in Workers, Abort(w) PROVE OrphanInv'
    <2>1. Current' = Current
      BY <1>19, CurrentStays DEF Abort, shared, threads
    <2>2. CASE AllAborted(this[w], miner[this[w]].threadsDone + 1)
      <3>1. interrupted' = interrupted \cup miner[this[w]].minerThreads
        BY <1>19, <2>2 DEF Abort
      <3>2. \A c \in Addresses : c # this[w] => miner'[c] = miner[c]
        BY <1>19, <2>2 DEF Abort, Types, ManagerTypes
      <3>3. ASSUME NEW v \in Workers, pc'[v] \in Searching, v \notin interrupted'
            PROVE  this'[v] \in Current' /\ v \in miner'[this'[v]].minerThreads
        <4>1. pc[v] \in Searching /\ v \notin interrupted /\ this'[v] = this[v] /\ v \notin miner[this[w]].minerThreads
          BY <1>19, <2>2, <3>1, <3>3 DEF Abort, Goto, Searching, Types, ThreadTypes, Threads
        <4>2. this[v] \in Current /\ v \in miner[this[v]].minerThreads
          BY <4>1 DEF OrphanInv
        <4>3. this[v] # this[w] /\ this[v] \in Addresses
          BY <4>1, <4>2, CurrentIs
        <4>4. QED
          BY <2>1, <3>2, <4>1, <4>2, <4>3
      <3>4. QED
        BY <3>3 DEF OrphanInv
    <2>3. CASE ~AllAborted(this[w], miner[this[w]].threadsDone + 1)
      <3>1. UNCHANGED <<this, interrupted>> /\ this[w] \in Addresses
        BY <1>19, <2>3 DEF Abort, FlowInv, WorkersFlow
      <3>2. \A v \in Workers : pc'[v] \in Searching => pc[v] \in Searching
        BY <1>19, <2>3 DEF Abort, Goto, Searching, Types, ThreadTypes, Threads
      <3>3. \A a \in Addresses : miner'[a].minerThreads = miner[a].minerThreads
        BY <1>19, <2>3, AbortEffect DEF SameMiner
      <3>4. QED
        BY <2>1, <3>1, <3>2, <3>3, CurrentIs DEF OrphanInv
    <2>4. QED
      BY <2>2, <2>3
  <1>20. CASE UNCHANGED vars
    <2>1. Current' = Current
      BY <1>20, CurrentStays DEF vars, shared, threads
    <2>2. QED
      BY <1>20, <2>1 DEF OrphanInv, vars, shared, threads
  <1>21. QED
    BY <1>1, <1>2, <1>3, <1>4, <1>5, <1>6, <1>7, <1>8, <1>9, <1>10, <1>11, <1>12, <1>13, <1>14,
       <1>15, <1>16, <1>17, <1>18, <1>19, <1>20
       DEF Next, Arrive, Step, Manage, Told, Mine

\* Whoever puts something into the queue or stops a Miner goes on to runIfPossible.
LEMMA ServedStep ==
    ASSUME Types, FlowInv, ServedInv, [Next]_vars
    PROVE  ServedInv'
  <1> USE MiningAssumption
  <1>1. CASE Tick
    <2>1. Current' = Current
      BY <1>1, CurrentStays DEF Tick, shared, threads, Types, ThreadTypes
    <2>2. QED
      BY <1>1, <2>1
         DEF Threads, Goto, shared, threads, histories, ServedInv, Types, ManagerTypes,
             ThreadTypes, Tick
  <1>2. ASSUME NEW t \in Callers, NEW tx \in situation.arriving, AddTransaction(t, tx)
         PROVE  ServedInv'
    <2>1. pc'[t] = "run" /\ t \in Threads
      BY <1>2 DEF AddTransaction, Goto, Threads, Types, ThreadTypes
    <2>2. QED
      BY <2>1 DEF ServedInv
  <1>3. ASSUME NEW txs \in SUBSET situation.arriving, NEW time \in 0 .. situation.time, ReceiveBlock(txs, time)
         PROVE  ServedInv'
    <2>1. Current' = Current
      BY <1>3, CurrentStays DEF ReceiveBlock, shared, threads, Types, ThreadTypes
    <2>2. QED
      BY <1>3, <2>1
         DEF Threads, Goto, shared, threads, histories, ServedInv, Types, ManagerTypes,
             ThreadTypes, ReceiveBlock
  <1>4. ASSUME NEW w \in Workers, GiveUp(w) PROVE ServedInv'
    <2>1. Current' = Current
      BY <1>4, CurrentStays DEF GiveUp, shared, threads, Types, ThreadTypes
    <2>2. QED
      BY <1>4, <2>1
         DEF Threads, Goto, shared, threads, histories, ServedInv, Types, ManagerTypes,
             ThreadTypes, GiveUp
  <1>5. ASSUME NEW t \in Threads, RunNot(t) PROVE ServedInv'
    <2>1. Current' = Current
      BY <1>5, CurrentStays DEF RunNot, shared, threads, Types, ThreadTypes
    <2>2. queue # <<>> => m \in Current /\ miner[m].running
      BY <1>5, CurrentIs DEF RunNot, Types, ManagerTypes
    <2>3. QED
      BY <1>5, <2>1, <2>2 DEF RunNot, shared, ServedInv
  <1>6. ASSUME NEW t \in Threads, Run(t) PROVE ServedInv'
    <2>1. target'[t] \in Current' /\ miner'[target'[t]].running
      BY <1>6, CurrentRun DEF Types, ManagerTypes, NewMiner
    <2>2. QED
      BY <2>1 DEF ServedInv
  <1>7. ASSUME NEW t \in Threads, NEW w \in Workers, CreateThread(t, w) PROVE ServedInv'
    <2>1. Current = {target[t]} /\ Current' = Current /\ target[t] \in Addresses /\ t # w
      BY <1>7, CurrentCreate
    <2>2. miner[target[t]] \in MinerObject
      BY <2>1 DEF Types, ManagerTypes
    <2>3. miner'[target[t]].running = miner[target[t]].running
      BY <1>7, <2>1, <2>2 DEF CreateThread, MinerObject, Types, ManagerTypes
    <2>4. ASSUME NEW u \in Threads, pc[u] \in {"run", "tearDownOther"} PROVE pc'[u] = pc[u]
      BY <1>7, <2>4 DEF CreateThread, Types, ThreadTypes, Threads
    <2>5. queue' = queue
      BY <1>7 DEF CreateThread
    <2>6. QED
      BY <2>1, <2>3, <2>4, <2>5 DEF ServedInv
  <1>8. ASSUME NEW t \in Threads, Notify(t) PROVE ServedInv'
    <2>1. Current' = Current
      BY <1>8, CurrentStays DEF Notify, shared, threads, Types, ThreadTypes
    <2>2. QED
      BY <1>8, <2>1
         DEF Threads, Goto, shared, threads, histories, ServedInv, Types, ManagerTypes,
             ThreadTypes, Notify
  <1>9. ASSUME NEW t \in Threads, Requeue(t) PROVE ServedInv'
    <2>1. Current' = Current
      BY <1>9, CurrentStays DEF Requeue, shared, threads, Types, ThreadTypes
    <2>2. CASE miner[target[t]].newBlockFound
      BY <1>9, <2>1, <2>2
         DEF Threads, Goto, shared, threads, histories, ServedInv, Types, ManagerTypes,
             ThreadTypes, Requeue
    <2>3. CASE ~miner[target[t]].newBlockFound
      <3>1. pc'[t] = "tearDownOther"
        BY <1>9, <2>3 DEF Requeue, Goto, Types, ThreadTypes
      <3>2. QED
        BY <3>1 DEF ServedInv
    <2>4. QED
      BY <2>2, <2>3
  <1>10. ASSUME NEW t \in Threads, TearDownOther(t) PROVE ServedInv'
    <2>1. pc'[t] = "run" /\ t \in Threads
      BY <1>10 DEF TearDownOther, Goto, Threads, Types, ThreadTypes
    <2>2. QED
      BY <2>1 DEF ServedInv
  <1>11. ASSUME NEW w \in Workers, ReadTime(w) PROVE ServedInv'
    <2>1. Current' = Current
      BY <1>11, CurrentStays DEF ReadTime, shared, threads, Types, ThreadTypes
    <2>2. QED
      BY <1>11, <2>1
         DEF Threads, Goto, shared, threads, histories, ServedInv, Types, ManagerTypes,
             ThreadTypes, ReadTime
  <1>12. ASSUME NEW w \in Workers, ReadLatestBlock(w) PROVE ServedInv'
    <2>1. Current' = Current
      BY <1>12, CurrentStays DEF ReadLatestBlock, shared, threads, Types, ThreadTypes
    <2>2. QED
      BY <1>12, <2>1
         DEF Threads, Goto, shared, threads, histories, ServedInv, Types, ManagerTypes,
             ThreadTypes, ReadLatestBlock
  <1>13. ASSUME NEW w \in Workers, CopyTransactions(w) PROVE ServedInv'
    <2>1. Current' = Current
      BY <1>13, CurrentStays DEF CopyTransactions, shared, threads, Types, ThreadTypes
    <2>2. QED
      BY <1>13, <2>1
         DEF Threads, Goto, shared, threads, histories, ServedInv, Types, ManagerTypes,
             ThreadTypes, CopyTransactions
  <1>14. ASSUME NEW w \in Workers, Interrupt(w) PROVE ServedInv'
    <2>1. Current' = Current
      BY <1>14, CurrentStays DEF Interrupt, shared, threads, Types, ThreadTypes
    <2>2. QED
      BY <1>14, <2>1
         DEF Threads, Goto, shared, threads, histories, ServedInv, Types, ManagerTypes,
             ThreadTypes, Interrupt
  <1>15. ASSUME NEW w \in Workers, Find(w) PROVE ServedInv'
    <2>1. Current' = Current
      BY <1>15, CurrentStays DEF Find, shared, threads, Types, ThreadTypes
    <2>2. QED
      BY <1>15, <2>1
         DEF Threads, Goto, shared, threads, histories, ServedInv, Types, ManagerTypes,
             ThreadTypes, Find
  <1>16. ASSUME NEW w \in Workers, OnNewBlockFound(w) PROVE ServedInv'
    <2>1. Current' = Current
      BY <1>16, CurrentStays DEF OnNewBlockFound, shared, threads, Types, ThreadTypes
    <2>2. this[w] \in Addresses
      BY <1>16 DEF OnNewBlockFound, FlowInv, WorkersFlow
    <2>3. \A a \in Addresses : miner'[a].running = miner[a].running
      BY <1>16, FoundEffect DEF SameMiner
    <2>4. Current \subseteq Addresses
      BY CurrentIs
    <2>5. ASSUME NEW u \in Threads, pc[u] \in {"run", "tearDownOther"} PROVE pc'[u] = pc[u]
      BY <1>16, <2>5 DEF OnNewBlockFound, Goto, Types, ThreadTypes, Threads
    <2>6. QED
      BY <1>16, <2>1, <2>3, <2>4, <2>5 DEF OnNewBlockFound, ServedInv
  <1>17. ASSUME NEW w \in Workers, PublishBlock(w) PROVE ServedInv'
    <2>1. Current' = Current
      BY <1>17, CurrentStays DEF PublishBlock, shared, threads, Types, ThreadTypes
    <2>2. QED
      BY <1>17, <2>1
         DEF Threads, Goto, shared, threads, histories, ServedInv, Types, ManagerTypes,
             ThreadTypes, PublishBlock
  <1>18. ASSUME NEW w \in Workers, TearDownOwn(w) PROVE ServedInv'
    <2>1. pc'[w] = "run" /\ w \in Threads
      BY <1>18 DEF TearDownOwn, Goto, Threads, Types, ThreadTypes
    <2>2. QED
      BY <2>1 DEF ServedInv
  <1>19. ASSUME NEW w \in Workers, Abort(w) PROVE ServedInv'
    <2>1. Current' = Current
      BY <1>19, CurrentStays DEF Abort, shared, threads, Types, ThreadTypes
    <2>2. this[w] \in Addresses
      BY <1>19 DEF Abort, FlowInv, WorkersFlow
    <2>3. CASE AllAborted(this[w], miner[this[w]].threadsDone + 1)
      <3>1. pc'[w] = "run" /\ w \in Threads
        BY <1>19, <2>3 DEF Abort, Goto, Types, ThreadTypes, Threads
      <3>2. QED
        BY <3>1 DEF ServedInv
    <2>4. CASE ~AllAborted(this[w], miner[this[w]].threadsDone + 1)
      <3>1. \A a \in Addresses : miner'[a].running = miner[a].running
        BY <1>19, <2>4, AbortEffect DEF SameMiner
      <3>2. Current \subseteq Addresses
        BY CurrentIs
      <3>3. ASSUME NEW u \in Threads, pc[u] \in {"run", "tearDownOther"} PROVE pc'[u] = pc[u]
        BY <1>19, <2>4, <3>3 DEF Abort, Goto, Types, ThreadTypes, Threads
      <3>4. QED
        BY <1>19, <2>1, <2>4, <3>1, <3>2, <3>3 DEF Abort, ServedInv
    <2>5. QED
      BY <2>3, <2>4
  <1>20. CASE UNCHANGED vars
    <2>1. Current' = Current
      BY <1>20, CurrentStays DEF vars, shared, threads
    <2>2. QED
      BY <1>20, <2>1 DEF ServedInv, vars, shared, threads
  <1>21. QED
    BY <1>1, <1>2, <1>3, <1>4, <1>5, <1>6, <1>7, <1>8, <1>9, <1>10, <1>11, <1>12, <1>13, <1>14,
       <1>15, <1>16, <1>17, <1>18, <1>19, <1>20
       DEF Next, Arrive, Step, Manage, Told, Mine

\* The chain only grows, so that what verifies goes on to verify.
Extended == chain' = chain \/ \E b \in [transactions : SUBSET Transactions, time : Nat, own : BOOLEAN] :
                                  chain' = Append(chain, b)

LEMMA ChainGrows ==
    ASSUME Types, Extended
    PROVE  /\ Len(chain) <= Len(chain')
           /\ \A i \in DOMAIN chain : i \in DOMAIN chain' /\ chain'[i] = chain[i]
           /\ \A tx : InChain(tx) => InChain(tx)'
           /\ \A tx : Verify(tx) => Verify(tx)'
  <1>1. Len(chain) <= Len(chain') /\ \A i \in DOMAIN chain : i \in DOMAIN chain' /\ chain'[i] = chain[i]
    <2>1. CASE chain' = chain
      BY <2>1 DEF Types, ManagerTypes
    <2>2. ASSUME NEW b \in [transactions : SUBSET Transactions, time : Nat, own : BOOLEAN], chain' = Append(chain, b)
          PROVE  Len(chain) <= Len(chain') /\ \A i \in DOMAIN chain : i \in DOMAIN chain' /\ chain'[i] = chain[i]
      BY <2>2 DEF Types, ManagerTypes
    <2>3. QED
      BY <2>1, <2>2 DEF Extended
  <1>2. ASSUME NEW tx, InChain(tx) PROVE InChain(tx)'
    BY <1>1, <1>2 DEF InChain
  <1>3. ASSUME NEW tx, Verify(tx) PROVE Verify(tx)'
    BY <1>2, <1>3 DEF Verify
  <1>4. QED
    BY <1>1, <1>2, <1>3

\* Only Run changes what a Miner works on.
Unreplaced == \A a \in Addresses : miner'[a].transactions = miner[a].transactions
RunOnly ==
    /\ Unreplaced \/ \E u \in Threads : Run(u)
    /\ lock' = Nobody \/ lock # Nobody => Unreplaced

LEMMA Changes ==
    ASSUME Types, FlowInv, [Next]_vars
    PROVE  Extended /\ RunOnly
  <1> USE MiningAssumption
  <1>1. CASE Tick
    BY <1>1 DEF Extended, RunOnly, Unreplaced, shared, threads, histories, Tick
  <1>2. ASSUME NEW t \in Callers, NEW tx \in situation.arriving, AddTransaction(t, tx)
         PROVE  Extended /\ RunOnly
    BY <1>2 DEF Extended, RunOnly, Unreplaced, shared, threads, histories, AddTransaction
  <1>3. ASSUME NEW txs \in SUBSET situation.arriving, NEW time \in 0 .. situation.time, ReceiveBlock(txs, time)
         PROVE  Extended /\ RunOnly
    <2> DEFINE b == [transactions |-> txs, time |-> time, own |-> FALSE]
    <2>1. b \in [transactions : SUBSET Transactions, time : Nat, own : BOOLEAN]
      BY DEF Types, ManagerTypes
    <2>2. chain' = Append(chain, b) /\ miner' = miner
      BY <1>3 DEF ReceiveBlock
    <2>3. QED
      BY <2>1, <2>2 DEF Extended, RunOnly, Unreplaced
  <1>4. ASSUME NEW w \in Workers, GiveUp(w) PROVE Extended /\ RunOnly
    BY <1>4 DEF Extended, RunOnly, Unreplaced, shared, threads, histories, GiveUp
  <1>5. ASSUME NEW t \in Threads, RunNot(t) PROVE Extended /\ RunOnly
    BY <1>5 DEF Extended, RunOnly, Unreplaced, shared, threads, histories, RunNot
  <1>6. ASSUME NEW t \in Threads, Run(t) PROVE Extended /\ RunOnly
    BY <1>6 DEF Extended, RunOnly, Run, Threads
  <1>7. ASSUME NEW t \in Threads, NEW w \in Workers, CreateThread(t, w)
         PROVE  Extended /\ RunOnly
    <2>1. target[t] \in Addresses
      BY <1>7 DEF CreateThread, FlowInv, LockFlow
    <2>2. miner[target[t]] \in MinerObject
      BY <2>1 DEF Types, ManagerTypes
    <2>3. Unreplaced
      BY <1>7, <2>1, <2>2 DEF CreateThread, MinerObject, Types, ManagerTypes, Unreplaced
    <2>4. QED
      BY <1>7, <2>3 DEF Extended, RunOnly, CreateThread
  <1>8. ASSUME NEW t \in Threads, Notify(t) PROVE Extended /\ RunOnly
    BY <1>8 DEF Extended, RunOnly, Unreplaced, shared, threads, histories, Notify
  <1>9. ASSUME NEW t \in Threads, Requeue(t) PROVE Extended /\ RunOnly
    BY <1>9 DEF Extended, RunOnly, Unreplaced, shared, threads, histories, Requeue
  <1>10. ASSUME NEW t \in Threads, TearDownOther(t) PROVE Extended /\ RunOnly
    <2>1. target[t] \in Addresses
      BY <1>10 DEF TearDownOther, FlowInv, LockFlow
    <2>2. miner[target[t]] \in MinerObject
      BY <2>1 DEF Types, ManagerTypes
    <2>3. miner'[target[t]].transactions = miner[target[t]].transactions
      BY <1>10, <2>1, <2>2
         DEF TearDownOther, TearDown, TornDown, MinerObject, Types, ManagerTypes
    <2>4. \A c \in Addresses : c # target[t] => miner'[c] = miner[c]
      BY <1>10 DEF TearDownOther, TearDown, Types, ManagerTypes
    <2>5. chain' = chain
      BY <1>10 DEF TearDownOther, TearDown
    <2>6. QED
      BY <2>3, <2>4, <2>5 DEF Extended, RunOnly, Unreplaced
  <1>11. ASSUME NEW w \in Workers, ReadTime(w) PROVE Extended /\ RunOnly
    BY <1>11 DEF Extended, RunOnly, Unreplaced, shared, threads, histories, ReadTime
  <1>12. ASSUME NEW w \in Workers, ReadLatestBlock(w) PROVE Extended /\ RunOnly
    BY <1>12 DEF Extended, RunOnly, Unreplaced, shared, threads, histories, ReadLatestBlock
  <1>13. ASSUME NEW w \in Workers, CopyTransactions(w) PROVE Extended /\ RunOnly
    BY <1>13 DEF Extended, RunOnly, Unreplaced, shared, threads, histories, CopyTransactions
  <1>14. ASSUME NEW w \in Workers, Interrupt(w) PROVE Extended /\ RunOnly
    BY <1>14 DEF Extended, RunOnly, Unreplaced, shared, threads, histories, Interrupt
  <1>15. ASSUME NEW w \in Workers, Find(w) PROVE Extended /\ RunOnly
    BY <1>15 DEF Extended, RunOnly, Unreplaced, shared, threads, histories, Find
  <1>16. ASSUME NEW w \in Workers, OnNewBlockFound(w) PROVE Extended /\ RunOnly
    <2>1. chain' = chain
      BY <1>16 DEF OnNewBlockFound
    <2>2. QED
      BY <1>16, <2>1, FoundEffect DEF SameMiner, Extended, RunOnly, Unreplaced
  <1>17. ASSUME NEW w \in Workers, PublishBlock(w) PROVE Extended /\ RunOnly
    <2>1. block[w] \in BlockOf
      BY DEF Types, ThreadTypes, Threads
    <2> DEFINE b == [transactions |-> block[w].transactions, time |-> block[w].time, own |-> TRUE]
    <2>2. b \in [transactions : SUBSET Transactions, time : Nat, own : BOOLEAN]
      BY <2>1 DEF BlockOf
    <2>3. (chain' = Append(chain, b) \/ chain' = chain) /\ miner' = miner
      BY <1>17 DEF PublishBlock
    <2>4. QED
      BY <2>2, <2>3 DEF Extended, RunOnly, Unreplaced
  <1>18. ASSUME NEW w \in Workers, TearDownOwn(w) PROVE Extended /\ RunOnly
    <2>1. this[w] \in Addresses
      BY <1>18 DEF TearDownOwn, FlowInv, WorkersFlow
    <2>2. miner[this[w]] \in MinerObject
      BY <2>1 DEF Types, ManagerTypes
    <2>3. miner'[this[w]].transactions = miner[this[w]].transactions
      BY <1>18, <2>1, <2>2 DEF TearDownOwn, TornDown, MinerObject, Types, ManagerTypes
    <2>4. \A c \in Addresses : c # this[w] => miner'[c] = miner[c]
      BY <1>18 DEF TearDownOwn, Types, ManagerTypes
    <2>5. chain' = chain
      BY <1>18 DEF TearDownOwn
    <2>6. QED
      BY <2>3, <2>4, <2>5 DEF Extended, RunOnly, Unreplaced
  <1>19. ASSUME NEW w \in Workers, Abort(w) PROVE Extended /\ RunOnly
    <2>1. chain' = chain
      BY <1>19 DEF Abort
    <2>2. \A c \in Addresses : miner'[c].transactions = miner[c].transactions
      <3> DEFINE all == AllAborted(this[w], miner[this[w]].threadsDone + 1)
      <3>1. /\ this[w] \in Addresses
            /\ miner'[this[w]].transactions = miner[this[w]].transactions
            /\ \A c \in Addresses : c # this[w] => miner'[c] = miner[c]
        BY <1>19, AbortEffect
      <3>2. QED
        BY <3>1
    <2>3. QED
      BY <2>1, <2>2 DEF Extended, RunOnly, Unreplaced
  <1>20. CASE UNCHANGED vars
    BY <1>20 DEF Extended, RunOnly, Unreplaced, vars, shared
  <1>21. QED
    BY <1>1, <1>2, <1>3, <1>4, <1>5, <1>6, <1>7, <1>8, <1>9, <1>10, <1>11, <1>12, <1>13, <1>14,
       <1>15, <1>16, <1>17, <1>18, <1>19, <1>20
       DEF Next, Arrive, Step, Manage, Told, Mine

\* What workers work on, and what the chain has of them, comes from addTransaction.
WorkersAccepted ==
    \A v \in Workers : pc'[v] \in {"latest", "copy", "search", "found", "publish"} =>
        /\ block'[v].transactions \subseteq ToSet(accepted)
        /\ block'[v].previous <= Len(chain) /\ block'[v] \in BlockOf
ChainAccepted ==
    \/ chain' = chain
    \/ \E b : chain' = Append(chain, b) /\ (b.own => b.transactions \subseteq ToSet(accepted))

LEMMA AcceptedKept ==
    ASSUME Types, FlowInv, AcceptedInv, Extended, accepted' = accepted,
           ToSet(queue') \subseteq ToSet(accepted),
           \A a \in Addresses : miner'[a].transactions \subseteq ToSet(accepted),
           WorkersAccepted, ChainAccepted
    PROVE  AcceptedInv'
  <1>1. \A tx \in ToSet(accepted') : Verify(tx)'
    BY ChainGrows DEF AcceptedInv
  <1>2. \A w \in Workers : pc'[w] \in {"latest", "copy", "search", "found", "publish"} => block'[w].previous <= Len(chain')
    BY ChainGrows DEF WorkersAccepted, BlockOf, Types, ManagerTypes, Extended
  <1>3. \A k \in DOMAIN chain' : chain'[k].own => chain'[k].transactions \subseteq ToSet(accepted)
    <2>1. CASE chain' = chain
      BY <2>1 DEF AcceptedInv
    <2>2. ASSUME NEW b, chain' = Append(chain, b), b.own => b.transactions \subseteq ToSet(accepted)
          PROVE  \A k \in DOMAIN chain' : chain'[k].own => chain'[k].transactions \subseteq ToSet(accepted)
      <3>1. DOMAIN chain' = 1 .. Len(chain) + 1 /\ chain'[Len(chain) + 1] = b
        BY <2>2 DEF Types, ManagerTypes
      <3>2. \A k \in 1 .. Len(chain) : chain'[k] = chain[k]
        BY <2>2 DEF Types, ManagerTypes
      <3>3. \A k \in 1 .. Len(chain) + 1 : k \in 1 .. Len(chain) \/ k = Len(chain) + 1
        BY DEF Types, ManagerTypes
      <3>4. \A k \in 1 .. Len(chain) : chain[k].own => chain[k].transactions \subseteq ToSet(accepted)
        BY DEF AcceptedInv, Types, ManagerTypes
      <3>5. QED
        BY <2>2, <3>1, <3>2, <3>3, <3>4
    <2>3. QED
      BY <2>1, <2>2 DEF ChainAccepted
  <1>4. QED
    BY <1>1, <1>2, <1>3 DEF AcceptedInv, WorkersAccepted

\* Only what addTransaction took gets into the queue, a Miner, a block of a worker and an own block.
LEMMA AcceptedStep ==
    ASSUME Types, FlowInv, AcceptedInv, [Next]_vars
    PROVE  AcceptedInv'
  <1> USE MiningAssumption
  <1>a. Extended /\ (Unreplaced \/ \E u \in Threads : Run(u))
    BY Changes DEF RunOnly
  <1>b. \A a \in Addresses : miner'[a].transactions \subseteq ToSet(accepted)
    <2>1. ASSUME NEW t \in Threads, Run(t) PROVE \A a \in Addresses : miner'[a].transactions \subseteq ToSet(accepted)
      <3>1. miner' = [miner EXCEPT ![target'[t]] = NewMiner(ForBlock)]
        BY <2>1, CurrentRun
      <3>2. NewMiner(ForBlock).transactions \subseteq ToSet(accepted)
        BY Divided DEF NewMiner, AcceptedInv, Types, ManagerTypes
      <3>3. QED
        BY <3>1, <3>2 DEF AcceptedInv, Types, ManagerTypes
    <2>2. CASE Unreplaced
      BY <2>2 DEF Unreplaced, AcceptedInv
    <2>3. QED
      BY <1>a, <2>1, <2>2
  <1>1. CASE Tick
    <2>1. WorkersAccepted
      BY <1>1
         DEF WorkersAccepted, Tick, AcceptedInv, shared, threads, histories, Goto, Types,
             ThreadTypes, Threads
    <2>2. UNCHANGED <<accepted, queue, chain>>
      BY <1>1 DEF Tick, shared, histories
    <2>3. QED
      BY <1>a, <1>b, <2>1, <2>2, AcceptedKept DEF AcceptedInv, ChainAccepted
  <1>2. ASSUME NEW t \in Callers, NEW tx \in situation.arriving, AddTransaction(t, tx)
         PROVE  AcceptedInv'
    <2>1. tx \in Transactions /\ tx \notin ToSet(accepted) /\ Verify(tx)
      BY <1>2 DEF AddTransaction, Types, ManagerTypes
    <2>2. accepted' = Append(accepted, tx) /\ queue' = Append(queue, tx) /\ UNCHANGED <<miner, chain, block>>
      BY <1>2 DEF AddTransaction
    <2>3. ToSet(accepted') = ToSet(accepted) \cup {tx} /\ ToSet(queue') = ToSet(queue) \cup {tx}
      BY <2>1, <2>2, Appended DEF Types, ManagerTypes, HistoryTypes
    <2>4. \A i, j \in DOMAIN accepted' : accepted'[i] = accepted'[j] => i = j
      <3>1. /\ DOMAIN accepted' = 1 .. Len(accepted) + 1 /\ accepted'[Len(accepted) + 1] = tx
            /\ \A i \in 1 .. Len(accepted) : accepted'[i] = accepted[i] /\ accepted[i] # tx
        BY <2>1, <2>2 DEF Types, HistoryTypes, ToSet
      <3>2. \A i \in 1 .. Len(accepted) + 1 : i \in 1 .. Len(accepted) \/ i = Len(accepted) + 1
        BY DEF Types, HistoryTypes
      <3>3. \A i, j \in 1 .. Len(accepted) : accepted[i] = accepted[j] => i = j
        BY DEF AcceptedInv, Types, HistoryTypes
      <3>4. QED
        BY <3>1, <3>2, <3>3
    <2>5. \A u \in ToSet(accepted') : Verify(u)'
      <3>1. \A u : Verify(u) => Verify(u)'
        BY <2>2 DEF Verify, InChain
      <3>2. QED
        BY <2>1, <2>3, <3>1 DEF AcceptedInv
    <2>6. \A v \in Workers : pc'[v] = pc[v]
      BY <1>2 DEF AddTransaction, Goto, Types, ThreadTypes, Threads
    <2>7. QED
      BY <2>2, <2>3, <2>4, <2>5, <2>6 DEF AcceptedInv
  <1>3. ASSUME NEW txs \in SUBSET situation.arriving, NEW time \in 0 .. situation.time, ReceiveBlock(txs, time)
         PROVE  AcceptedInv'
    <2>1. WorkersAccepted
      BY <1>3
         DEF WorkersAccepted, ReceiveBlock, AcceptedInv, shared, threads, histories, Goto,
             Types, ThreadTypes, Threads
    <2>2. ToSet(queue') \subseteq ToSet(accepted)
      BY <1>3 DEF ReceiveBlock, AcceptedInv, shared
    <2>3. ChainAccepted
      <3> DEFINE b == [transactions |-> txs, time |-> time, own |-> FALSE]
      <3>1. chain' = Append(chain, b) /\ ~b.own
        BY <1>3 DEF ReceiveBlock
      <3>2. QED
        BY <3>1 DEF ChainAccepted
    <2>4. \A a \in Addresses : miner'[a].transactions \subseteq ToSet(accepted)
      BY <1>b
    <2>5. accepted' = accepted
      BY <1>3 DEF ReceiveBlock, shared, histories
    <2>6. QED
      BY <1>a, <2>1, <2>2, <2>3, <2>4, <2>5, AcceptedKept
  <1>4. ASSUME NEW w \in Workers, GiveUp(w) PROVE AcceptedInv'
    <2>1. WorkersAccepted
      BY <1>4
         DEF WorkersAccepted, GiveUp, AcceptedInv, shared, threads, histories, Goto, Types,
             ThreadTypes, Threads
    <2>2. UNCHANGED <<accepted, queue, chain>>
      BY <1>4 DEF GiveUp, shared, histories
    <2>3. QED
      BY <1>a, <1>b, <2>1, <2>2, AcceptedKept DEF AcceptedInv, ChainAccepted
  <1>5. ASSUME NEW t \in Threads, RunNot(t) PROVE AcceptedInv'
    <2>1. WorkersAccepted
      BY <1>5
         DEF WorkersAccepted, RunNot, AcceptedInv, shared, threads, histories, Goto, Types,
             ThreadTypes, Threads
    <2>2. UNCHANGED <<accepted, queue, chain>>
      BY <1>5 DEF RunNot, shared, histories
    <2>3. QED
      BY <1>a, <1>b, <2>1, <2>2, AcceptedKept DEF AcceptedInv, ChainAccepted
  <1>6. ASSUME NEW t \in Threads, Run(t) PROVE AcceptedInv'
    <2>1. WorkersAccepted
      BY <1>6
         DEF WorkersAccepted, Run, AcceptedInv, shared, threads, histories, Goto, Types,
             ThreadTypes, Threads
    <2>2. ToSet(queue') \subseteq ToSet(accepted)
      BY <1>6, Divided DEF Run, AcceptedInv, Types, ManagerTypes
    <2>3. ChainAccepted
      BY <1>6 DEF ChainAccepted, Run, shared
    <2>4. \A a \in Addresses : miner'[a].transactions \subseteq ToSet(accepted)
      BY <1>b
    <2>5. accepted' = accepted
      BY <1>6 DEF Run, shared, histories
    <2>6. QED
      BY <1>a, <2>1, <2>2, <2>3, <2>4, <2>5, AcceptedKept
  <1>7. ASSUME NEW t \in Threads, NEW w \in Workers, CreateThread(t, w) PROVE AcceptedInv'
    <2>1. WorkersAccepted
      BY <1>7
         DEF WorkersAccepted, CreateThread, AcceptedInv, shared, threads, histories, Goto,
             Types, ThreadTypes, Threads
    <2>2. UNCHANGED <<accepted, queue, chain>>
      BY <1>7 DEF CreateThread, shared, histories
    <2>3. QED
      BY <1>a, <1>b, <2>1, <2>2, AcceptedKept DEF AcceptedInv, ChainAccepted
  <1>8. ASSUME NEW t \in Threads, Notify(t) PROVE AcceptedInv'
    <2>1. WorkersAccepted
      BY <1>8
         DEF WorkersAccepted, Notify, AcceptedInv, shared, threads, histories, Goto, Types,
             ThreadTypes, Threads
    <2>2. UNCHANGED <<accepted, queue, chain>>
      BY <1>8 DEF Notify, shared, histories
    <2>3. QED
      BY <1>a, <1>b, <2>1, <2>2, AcceptedKept DEF AcceptedInv, ChainAccepted
  <1>9. ASSUME NEW t \in Threads, Requeue(t) PROVE AcceptedInv'
    <2>1. WorkersAccepted
      BY <1>9
         DEF WorkersAccepted, Requeue, AcceptedInv, shared, threads, histories, Goto, Types,
             ThreadTypes, Threads
    <2>2. ToSet(queue') \subseteq ToSet(accepted)
      <3>1. target[t] \in Addresses
        BY <1>9 DEF Requeue, FlowInv, LockFlow
      <3>2. NotInBlock(miner[target[t]].transactions, block[t].transactions) \subseteq ToSet(accepted)
        BY <3>1 DEF AcceptedInv, NotInBlock
      <3>3. ToSet(ReAdded(NotInBlock(miner[target[t]].transactions, block[t].transactions))) \subseteq ToSet(accepted)
        BY <3>2, Restored DEF AcceptedInv, Types, ManagerTypes, HistoryTypes
      <3>4. QED
        BY <1>9, <3>3 DEF Requeue, AcceptedInv
    <2>3. ChainAccepted
      BY <1>9 DEF ChainAccepted, Requeue, shared
    <2>4. \A a \in Addresses : miner'[a].transactions \subseteq ToSet(accepted)
      BY <1>b
    <2>5. accepted' = accepted
      BY <1>9 DEF Requeue, shared, histories
    <2>6. QED
      BY <1>a, <2>1, <2>2, <2>3, <2>4, <2>5, AcceptedKept
  <1>10. ASSUME NEW t \in Threads, TearDownOther(t) PROVE AcceptedInv'
    <2>1. WorkersAccepted
      BY <1>10
         DEF WorkersAccepted, TearDownOther, AcceptedInv, shared, threads, histories, Goto,
             Types, ThreadTypes, Threads
    <2>2. UNCHANGED <<accepted, queue, chain>>
      BY <1>10 DEF TearDownOther, shared, histories
    <2>3. QED
      BY <1>a, <1>b, <2>1, <2>2, AcceptedKept DEF AcceptedInv, ChainAccepted
  <1>11. ASSUME NEW w \in Workers, ReadTime(w) PROVE AcceptedInv'
    <2>1. WorkersAccepted
      <3>1. NoBlock \in BlockOf /\ NoBlock.transactions = {} /\ NoBlock.previous = 0 /\ now \in Nat
        BY DEF NoBlock, BlockOf, Types, ManagerTypes
      <3>2. block'[w] = [NoBlock EXCEPT !.time = now]
        BY <1>11 DEF ReadTime, Types, ThreadTypes, Threads
      <3>3. block'[w] \in BlockOf /\ block'[w].transactions = {} /\ block'[w].previous = 0
        <4> HIDE DEF NoBlock
        <4> QED
          BY <3>1, <3>2 DEF BlockOf
      <3>4. \A v \in Workers : v # w => pc'[v] = pc[v] /\ block'[v] = block[v]
        BY <1>11 DEF ReadTime, Goto, Types, ThreadTypes, Threads
      <3>5. Len(chain) \in Nat
        BY DEF Types, ManagerTypes
      <3>6. QED
        BY <3>3, <3>4, <3>5 DEF WorkersAccepted, AcceptedInv, Types, ThreadTypes, Threads
    <2>2. ToSet(queue') \subseteq ToSet(accepted)
      BY <1>11 DEF ReadTime, AcceptedInv, shared
    <2>3. ChainAccepted
      BY <1>11 DEF ChainAccepted, ReadTime, shared
    <2>4. \A a \in Addresses : miner'[a].transactions \subseteq ToSet(accepted)
      BY <1>b
    <2>5. accepted' = accepted
      BY <1>11 DEF ReadTime, shared, histories
    <2>6. QED
      BY <1>a, <2>1, <2>2, <2>3, <2>4, <2>5, AcceptedKept
  <1>12. ASSUME NEW w \in Workers, ReadLatestBlock(w) PROVE AcceptedInv'
    <2>1. WorkersAccepted
      <3>1. block[w] \in BlockOf /\ Len(chain) \in Nat
        BY DEF Types, ManagerTypes, ThreadTypes, Threads
      <3>2. block'[w] = [block[w] EXCEPT !.previous = Len(chain)]
        BY <1>12 DEF ReadLatestBlock, Types, ThreadTypes, Threads
      <3>3. block'[w] \in BlockOf /\ block'[w].previous = Len(chain) /\ block'[w].transactions = block[w].transactions
        BY <3>1, <3>2 DEF BlockOf
      <3>4. pc[w] = "latest"
        BY <1>12 DEF ReadLatestBlock
      <3>5. \A v \in Workers : v # w => pc'[v] = pc[v] /\ block'[v] = block[v]
        BY <1>12 DEF ReadLatestBlock, Goto, Types, ThreadTypes, Threads
      <3>6. QED
        BY <3>1, <3>3, <3>4, <3>5 DEF WorkersAccepted, AcceptedInv, Types, ThreadTypes, Threads
    <2>2. ToSet(queue') \subseteq ToSet(accepted)
      BY <1>12 DEF ReadLatestBlock, AcceptedInv, shared
    <2>3. ChainAccepted
      BY <1>12 DEF ChainAccepted, ReadLatestBlock, shared
    <2>4. \A a \in Addresses : miner'[a].transactions \subseteq ToSet(accepted)
      BY <1>b
    <2>5. accepted' = accepted
      BY <1>12 DEF ReadLatestBlock, shared, histories
    <2>6. QED
      BY <1>a, <2>1, <2>2, <2>3, <2>4, <2>5, AcceptedKept
  <1>13. ASSUME NEW w \in Workers, CopyTransactions(w) PROVE AcceptedInv'
    <2>1. WorkersAccepted
      <3>1. block[w] \in BlockOf /\ this[w] \in Addresses /\ pc[w] = "copy"
        BY <1>13 DEF CopyTransactions, FlowInv, WorkersFlow, Types, ThreadTypes, Threads
      <3>2. block'[w] = [block[w] EXCEPT !.transactions = miner[this[w]].transactions]
        BY <1>13 DEF CopyTransactions, Types, ThreadTypes, Threads
      <3>3. miner[this[w]].transactions \in SUBSET Transactions
        BY <3>1 DEF Types, ManagerTypes, MinerObject
      <3>4. block'[w] \in BlockOf /\ block'[w].previous = block[w].previous /\ block'[w].transactions = miner[this[w]].transactions
        BY <3>1, <3>2, <3>3 DEF BlockOf
      <3>5. \A v \in Workers : v # w => pc'[v] = pc[v] /\ block'[v] = block[v]
        BY <1>13 DEF CopyTransactions, Goto, Types, ThreadTypes, Threads
      <3>6. QED
        BY <3>1, <3>4, <3>5 DEF WorkersAccepted, AcceptedInv, Types, ThreadTypes, Threads
    <2>2. ToSet(queue') \subseteq ToSet(accepted)
      BY <1>13 DEF CopyTransactions, AcceptedInv, shared
    <2>3. ChainAccepted
      BY <1>13 DEF ChainAccepted, CopyTransactions, shared
    <2>4. \A a \in Addresses : miner'[a].transactions \subseteq ToSet(accepted)
      BY <1>b
    <2>5. accepted' = accepted
      BY <1>13 DEF CopyTransactions, shared, histories
    <2>6. QED
      BY <1>a, <2>1, <2>2, <2>3, <2>4, <2>5, AcceptedKept
  <1>14. ASSUME NEW w \in Workers, Interrupt(w) PROVE AcceptedInv'
    <2>1. WorkersAccepted
      BY <1>14
         DEF WorkersAccepted, Interrupt, AcceptedInv, shared, threads, histories, Goto, Types,
             ThreadTypes, Threads
    <2>2. UNCHANGED <<accepted, queue, chain>>
      BY <1>14 DEF Interrupt, shared, histories
    <2>3. QED
      BY <1>a, <1>b, <2>1, <2>2, AcceptedKept DEF AcceptedInv, ChainAccepted
  <1>15. ASSUME NEW w \in Workers, Find(w) PROVE AcceptedInv'
    <2>1. WorkersAccepted
      BY <1>15
         DEF WorkersAccepted, Find, AcceptedInv, shared, threads, histories, Goto, Types,
             ThreadTypes, Threads
    <2>2. UNCHANGED <<accepted, queue, chain>>
      BY <1>15 DEF Find, shared, histories
    <2>3. QED
      BY <1>a, <1>b, <2>1, <2>2, AcceptedKept DEF AcceptedInv, ChainAccepted
  <1>16. ASSUME NEW w \in Workers, OnNewBlockFound(w) PROVE AcceptedInv'
    <2>1. WorkersAccepted
      BY <1>16
         DEF WorkersAccepted, OnNewBlockFound, AcceptedInv, shared, threads, histories, Goto,
             Types, ThreadTypes, Threads
    <2>2. UNCHANGED <<accepted, queue, chain>>
      BY <1>16 DEF OnNewBlockFound, shared, histories
    <2>3. QED
      BY <1>a, <1>b, <2>1, <2>2, AcceptedKept DEF AcceptedInv, ChainAccepted
  <1>17. ASSUME NEW w \in Workers, PublishBlock(w) PROVE AcceptedInv'
    <2>1. WorkersAccepted
      BY <1>17
         DEF WorkersAccepted, PublishBlock, AcceptedInv, shared, threads, histories, Goto,
             Types, ThreadTypes, Threads
    <2>2. ToSet(queue') \subseteq ToSet(accepted)
      BY <1>17 DEF PublishBlock, AcceptedInv, shared
    <2>3. ChainAccepted
      <3> DEFINE b == [transactions |-> block[w].transactions, time |-> block[w].time, own |-> TRUE]
      <3>1. (chain' = Append(chain, b) \/ chain' = chain) /\ pc[w] = "publish"
        BY <1>17 DEF PublishBlock
      <3>2. b.transactions \subseteq ToSet(accepted)
        BY <3>1 DEF AcceptedInv
      <3>3. QED
        BY <3>1, <3>2 DEF ChainAccepted
    <2>4. \A a \in Addresses : miner'[a].transactions \subseteq ToSet(accepted)
      BY <1>b
    <2>5. accepted' = accepted
      BY <1>17 DEF PublishBlock, shared, histories
    <2>6. QED
      BY <1>a, <2>1, <2>2, <2>3, <2>4, <2>5, AcceptedKept
  <1>18. ASSUME NEW w \in Workers, TearDownOwn(w) PROVE AcceptedInv'
    <2>1. WorkersAccepted
      BY <1>18
         DEF WorkersAccepted, TearDownOwn, AcceptedInv, shared, threads, histories, Goto, Types,
             ThreadTypes, Threads
    <2>2. UNCHANGED <<accepted, queue, chain>>
      BY <1>18 DEF TearDownOwn, shared, histories
    <2>3. QED
      BY <1>a, <1>b, <2>1, <2>2, AcceptedKept DEF AcceptedInv, ChainAccepted
  <1>19. ASSUME NEW w \in Workers, Abort(w) PROVE AcceptedInv'
    <2>1. WorkersAccepted
      BY <1>19
         DEF WorkersAccepted, Abort, AcceptedInv, shared, threads, histories, Goto, Types,
             ThreadTypes, Threads
    <2>2. ToSet(queue') \subseteq ToSet(accepted)
      <3>1. this[w] \in Addresses
        BY <1>19 DEF Abort, FlowInv, WorkersFlow
      <3>2. PutBack(this[w]) \subseteq ToSet(accepted)
        BY <3>1 DEF AcceptedInv, PutBack
      <3>3. ToSet(ReAdded(PutBack(this[w]))) \subseteq ToSet(accepted)
        BY <3>2, Restored DEF AcceptedInv, Types, ManagerTypes, HistoryTypes
      <3>4. QED
        BY <1>19, <3>3 DEF Abort, AcceptedInv
    <2>3. ChainAccepted
      BY <1>19 DEF ChainAccepted, Abort, shared
    <2>4. \A a \in Addresses : miner'[a].transactions \subseteq ToSet(accepted)
      BY <1>b
    <2>5. accepted' = accepted
      BY <1>19 DEF Abort, shared, histories
    <2>6. QED
      BY <1>a, <2>1, <2>2, <2>3, <2>4, <2>5, AcceptedKept
  <1>20. CASE UNCHANGED vars
    <2>1. WorkersAccepted
      BY <1>20 DEF WorkersAccepted, vars, AcceptedInv, threads, Types, ThreadTypes, Threads
    <2>2. ToSet(queue') \subseteq ToSet(accepted)
      BY <1>20 DEF vars, shared, AcceptedInv
    <2>3. ChainAccepted
      BY <1>20 DEF ChainAccepted, vars, shared
    <2>4. \A a \in Addresses : miner'[a].transactions \subseteq ToSet(accepted)
      BY <1>b
    <2>5. accepted' = accepted
      BY <1>20 DEF vars, shared, histories
    <2>6. QED
      BY <1>a, <2>1, <2>2, <2>3, <2>4, <2>5, AcceptedKept

  <1>21. QED
    BY <1>1, <1>2, <1>3, <1>4, <1>5, <1>6, <1>7, <1>8, <1>9, <1>10, <1>11, <1>12, <1>13, <1>14,
       <1>15, <1>16, <1>17, <1>18, <1>19, <1>20
       DEF Next, Arrive, Step, Manage, Told, Mine

\* What is claimed up to the first use of a deleted Miner is claimed of a time that ends once.
LEMMA Undangled ==
    ASSUME Types, [Next]_vars, dangling
    PROVE  dangling'
  <1>1. CASE Tick
    BY <1>1 DEF Tick, histories
  <1>2. ASSUME NEW t \in Callers, NEW tx \in situation.arriving, AddTransaction(t, tx)
         PROVE  dangling'
    BY <1>2 DEF AddTransaction, histories
  <1>3. ASSUME NEW txs \in SUBSET situation.arriving, NEW time \in 0 .. situation.time, ReceiveBlock(txs, time)
         PROVE  dangling'
    BY <1>3 DEF ReceiveBlock, histories
  <1>4. ASSUME NEW w \in Workers, GiveUp(w) PROVE dangling'
    BY <1>4 DEF GiveUp, histories
  <1>5. ASSUME NEW t \in Threads, RunNot(t) PROVE dangling'
    BY <1>5 DEF RunNot, histories
  <1>6. ASSUME NEW t \in Threads, Run(t) PROVE dangling'
    BY <1>6 DEF Run, histories
  <1>7. ASSUME NEW t \in Threads, NEW w \in Workers, CreateThread(t, w) PROVE dangling'
    BY <1>7 DEF CreateThread, histories
  <1>8. ASSUME NEW t \in Threads, Notify(t) PROVE dangling'
    BY <1>8 DEF Notify, histories
  <1>9. ASSUME NEW t \in Threads, Requeue(t) PROVE dangling'
    BY <1>9 DEF Requeue, histories, Uses
  <1>10. ASSUME NEW t \in Threads, TearDownOther(t) PROVE dangling'
    BY <1>10 DEF TearDownOther, histories, Uses
  <1>11. ASSUME NEW w \in Workers, ReadTime(w) PROVE dangling'
    BY <1>11 DEF ReadTime, histories
  <1>12. ASSUME NEW w \in Workers, ReadLatestBlock(w) PROVE dangling'
    BY <1>12 DEF ReadLatestBlock, histories
  <1>13. ASSUME NEW w \in Workers, CopyTransactions(w) PROVE dangling'
    BY <1>13 DEF CopyTransactions, histories, Uses
  <1>14. ASSUME NEW w \in Workers, Interrupt(w) PROVE dangling'
    BY <1>14 DEF Interrupt, histories
  <1>15. ASSUME NEW w \in Workers, Find(w) PROVE dangling'
    BY <1>15 DEF Find, histories
  <1>16. ASSUME NEW w \in Workers, OnNewBlockFound(w) PROVE dangling'
    BY <1>16 DEF OnNewBlockFound, histories, Uses
  <1>17. ASSUME NEW w \in Workers, PublishBlock(w) PROVE dangling'
    BY <1>17 DEF PublishBlock, histories
  <1>18. ASSUME NEW w \in Workers, TearDownOwn(w) PROVE dangling'
    BY <1>18 DEF TearDownOwn, histories, Uses
  <1>19. ASSUME NEW w \in Workers, Abort(w) PROVE dangling'
    BY <1>19 DEF Abort, histories, Uses
  <1>20. CASE UNCHANGED vars
    BY <1>20 DEF vars, histories
  <1>21. QED
    BY <1>1, <1>2, <1>3, <1>4, <1>5, <1>6, <1>7, <1>8, <1>9, <1>10, <1>11, <1>12, <1>13, <1>14,
       <1>15, <1>16, <1>17, <1>18, <1>19, <1>20
       DEF Next, Arrive, Step, Manage, Told, Mine

\* Run makes a stranger of everyone who knew the Miner it deletes.
LEMMA Strangers ==
    ASSUME Types, FlowInv, OwnersInv, NEW t \in Threads, Run(t)
    PROVE  /\ \A v \in Workers : pc[v] # "ended" => v \in stale'
           /\ \A u \in Threads : pc[u] \in {"requeue", "tearDownOther"} => u \in stale'
  <1>1. Current = IF m = Nobody THEN {} ELSE {m}
    BY CurrentRun
  <1>2. \A v \in Workers : pc[v] # "ended" => v \in stale'
    <2>1. CASE m = Nobody
      BY <1>1, <2>1 DEF Run, OwnersInv, WorkersOwner
    <2>2. CASE m # Nobody
      <3>1. stale' = stale \cup {v \in Workers : pc[v] # "ended" /\ this[v] = m}
                            \cup {u \in Threads : pc[u] \in {"requeue", "tearDownOther"} /\ target[u] = m}
        BY <2>2 DEF Run
      <3>2. QED
        BY <1>1, <2>2, <3>1 DEF OwnersInv, WorkersOwner
    <2>3. QED
      BY <2>1, <2>2
  <1>3. \A u \in Threads : pc[u] \in {"requeue", "tearDownOther"} => u \in stale'
    <2>1. CASE m = Nobody
      BY <2>1, MiningAssumption DEF Run, OwnersInv, ToldOwner, FlowInv, LockFlow
    <2>2. CASE m # Nobody
      <3>1. stale' = stale \cup {v \in Workers : pc[v] # "ended" /\ this[v] = m}
                            \cup {u \in Threads : pc[u] \in {"requeue", "tearDownOther"} /\ target[u] = m}
        BY <2>2 DEF Run
      <3>2. QED
        BY <2>2, <3>1 DEF OwnersInv, ToldOwner
    <2>3. QED
      BY <2>1, <2>2
  <1>4. QED
    BY <1>2, <1>3

\* A thread that is no stranger works for the only Miner there is.
LEMMA Own ==
    ASSUME Types, FlowInv, OwnersInv
    PROVE  /\ \A a \in Current : Current = {a}
           /\ \A v \in Workers : pc[v] # "ended" /\ v \notin stale => Current = {this[v]}
           /\ \A u \in Threads : pc[u] \in {"requeue", "tearDownOther"} /\ u \notin stale =>
                  target[u] = m /\ m \in Addresses /\ Current = {m}
  <1>1. \A a \in Current : Current = {a}
    BY CurrentIs
  <1>2. ASSUME NEW u \in Threads, pc[u] \in {"requeue", "tearDownOther"} /\ u \notin stale
        PROVE  target[u] = m /\ m \in Addresses /\ Current = {m}
    <2>1. target[u] = m /\ m \in Addresses
      BY <1>2 DEF OwnersInv, ToldOwner, FlowInv, LockFlow
    <2>2. QED
      BY <2>1, CurrentIs, MiningAssumption
  <1>3. QED
    BY <1>1, <1>2 DEF OwnersInv, WorkersOwner

LEMMA OwnersStep ==
    ASSUME Types, FlowInv, OwnersInv, [Next]_vars, ~dangling'
    PROVE  OwnersInv'
  <1> USE MiningAssumption
  <1>1. CASE Tick
    <2>1. Current' = Current
      BY <1>1, CurrentStays DEF Tick, shared, threads
    <2>2. WorkersOwner'
      BY <1>1, <2>1
         DEF OwnersInv, WorkersOwner, ToldOwner, WorkersEnd, OwnBlockFound, Tick, Types,
             ManagerTypes, ThreadTypes, Threads, Goto, shared, threads, histories
    <2>3. ToldOwner'
      BY <1>1, <2>1
         DEF OwnersInv, WorkersOwner, ToldOwner, WorkersEnd, OwnBlockFound, Tick, Types,
             ManagerTypes, ThreadTypes, Threads, Goto, shared, threads, histories
    <2>4. WorkersEnd'
      BY <1>1, <2>1
         DEF OwnersInv, WorkersOwner, ToldOwner, WorkersEnd, OwnBlockFound, Tick, Types,
             ManagerTypes, ThreadTypes, Threads, Goto, shared, threads, histories
    <2>5. OwnBlockFound'
      BY <1>1, <2>1
         DEF OwnersInv, WorkersOwner, ToldOwner, WorkersEnd, OwnBlockFound, Tick, Types,
             ManagerTypes, ThreadTypes, Threads, Goto, shared, threads, histories
    <2>6. QED
      BY <2>2, <2>3, <2>4, <2>5 DEF OwnersInv
  <1>2. ASSUME NEW t \in Callers, NEW tx \in situation.arriving, AddTransaction(t, tx)
         PROVE  OwnersInv'
    <2>1. Current' = Current
      BY <1>2, CurrentStays DEF AddTransaction, shared, threads
    <2>2. WorkersOwner'
      BY <1>2, <2>1
         DEF OwnersInv, WorkersOwner, ToldOwner, WorkersEnd, OwnBlockFound, AddTransaction,
             Types, ManagerTypes, ThreadTypes, Threads, Goto, shared, threads, histories
    <2>3. ToldOwner'
      BY <1>2, <2>1
         DEF OwnersInv, WorkersOwner, ToldOwner, WorkersEnd, OwnBlockFound, AddTransaction,
             Types, ManagerTypes, ThreadTypes, Threads, Goto, shared, threads, histories
    <2>4. WorkersEnd'
      BY <1>2, <2>1
         DEF OwnersInv, WorkersOwner, ToldOwner, WorkersEnd, OwnBlockFound, AddTransaction,
             Types, ManagerTypes, ThreadTypes, Threads, Goto, shared, threads, histories
    <2>5. OwnBlockFound'
      BY <1>2, <2>1
         DEF OwnersInv, WorkersOwner, ToldOwner, WorkersEnd, OwnBlockFound, AddTransaction,
             Types, ManagerTypes, ThreadTypes, Threads, Goto, shared, threads, histories
    <2>6. QED
      BY <2>2, <2>3, <2>4, <2>5 DEF OwnersInv
  <1>3. ASSUME NEW txs \in SUBSET situation.arriving, NEW time \in 0 .. situation.time, ReceiveBlock(txs, time)
         PROVE  OwnersInv'
    <2>1. Current' = Current
      BY <1>3, CurrentStays DEF ReceiveBlock, shared, threads
    <2>2. WorkersOwner'
      BY <1>3, <2>1
         DEF OwnersInv, WorkersOwner, ToldOwner, WorkersEnd, OwnBlockFound, ReceiveBlock, Types,
             ManagerTypes, ThreadTypes, Threads, Goto, shared, threads, histories
    <2>3. ToldOwner'
      BY <1>3, <2>1
         DEF OwnersInv, WorkersOwner, ToldOwner, WorkersEnd, OwnBlockFound, ReceiveBlock, Types,
             ManagerTypes, ThreadTypes, Threads, Goto, shared, threads, histories
    <2>4. WorkersEnd'
      BY <1>3, <2>1
         DEF OwnersInv, WorkersOwner, ToldOwner, WorkersEnd, OwnBlockFound, ReceiveBlock, Types,
             ManagerTypes, ThreadTypes, Threads, Goto, shared, threads, histories
    <2>5. OwnBlockFound'
      BY <1>3, <2>1
         DEF OwnersInv, WorkersOwner, ToldOwner, WorkersEnd, OwnBlockFound, ReceiveBlock, Types,
             ManagerTypes, ThreadTypes, Threads, Goto, shared, threads, histories
    <2>6. QED
      BY <2>2, <2>3, <2>4, <2>5 DEF OwnersInv
  <1>4. ASSUME NEW w \in Workers, GiveUp(w) PROVE OwnersInv'
    <2>1. Current' = Current
      BY <1>4, CurrentStays DEF GiveUp, shared, threads
    <2>2. WorkersOwner'
      BY <1>4, <2>1
         DEF OwnersInv, WorkersOwner, ToldOwner, WorkersEnd, OwnBlockFound, GiveUp, Types,
             ManagerTypes, ThreadTypes, Threads, Goto, shared, threads, histories
    <2>3. ToldOwner'
      BY <1>4, <2>1
         DEF OwnersInv, WorkersOwner, ToldOwner, WorkersEnd, OwnBlockFound, GiveUp, Types,
             ManagerTypes, ThreadTypes, Threads, Goto, shared, threads, histories
    <2>4. WorkersEnd'
      BY <1>4, <2>1
         DEF OwnersInv, WorkersOwner, ToldOwner, WorkersEnd, OwnBlockFound, GiveUp, Types,
             ManagerTypes, ThreadTypes, Threads, Goto, shared, threads, histories
    <2>5. OwnBlockFound'
      BY <1>4, <2>1
         DEF OwnersInv, WorkersOwner, ToldOwner, WorkersEnd, OwnBlockFound, GiveUp, Types,
             ManagerTypes, ThreadTypes, Threads, Goto, shared, threads, histories
    <2>6. QED
      BY <2>2, <2>3, <2>4, <2>5 DEF OwnersInv
  <1>5. ASSUME NEW t \in Threads, RunNot(t) PROVE OwnersInv'
    <2>1. Current' = Current
      BY <1>5, CurrentStays DEF RunNot, shared
    <2>2. t \in Workers => then[t] = "ended"
      BY <1>5 DEF RunNot, OwnersInv, WorkersEnd
    <2>3. t \notin Workers => then[t] = "idle"
      BY DEF FlowInv, CallersFlow, Threads
    <2>4. WorkersOwner'
      BY <1>5, <2>1, <2>2, <2>3
         DEF OwnersInv, WorkersOwner, ToldOwner, WorkersEnd, OwnBlockFound, RunNot, Types,
             ManagerTypes, ThreadTypes, Threads, Goto, shared, threads, histories
    <2>5. ToldOwner'
      BY <1>5, <2>1, <2>2, <2>3
         DEF OwnersInv, WorkersOwner, ToldOwner, WorkersEnd, OwnBlockFound, RunNot, Types,
             ManagerTypes, ThreadTypes, Threads, Goto, shared, threads, histories
    <2>6. WorkersEnd'
      BY <1>5, <2>1, <2>2, <2>3
         DEF OwnersInv, WorkersOwner, ToldOwner, WorkersEnd, OwnBlockFound, RunNot, Types,
             ManagerTypes, ThreadTypes, Threads, Goto, shared, threads, histories
    <2>7. OwnBlockFound'
      BY <1>5, <2>1, <2>2, <2>3
         DEF OwnersInv, WorkersOwner, ToldOwner, WorkersEnd, OwnBlockFound, RunNot, Types,
             ManagerTypes, ThreadTypes, Threads, Goto, shared, threads, histories
    <2>8. QED
      BY <2>4, <2>5, <2>6, <2>7 DEF OwnersInv
  <1>6. ASSUME NEW t \in Threads, Run(t) PROVE OwnersInv'
    <2>1. Current = IF m = Nobody THEN {} ELSE {m}
      BY <1>6, CurrentRun
    <2>2. /\ UNCHANGED <<this, then>> /\ pc' = [pc EXCEPT ![t] = "create"] /\ pc[t] = "run"
          /\ \A u \in Threads : u # t => target'[u] = target[u]
      BY <1>6 DEF Run, Goto, Types, ThreadTypes
    <2>3. \A v \in Workers : pc[v] # "ended" => v \in stale'
      BY <1>6, Strangers
    <2>4. \A u \in Threads : pc[u] \in {"requeue", "tearDownOther"} => u \in stale'
      BY <1>6, Strangers
    <2>5. WorkersOwner'
      BY <2>2, <2>3, <2>4
         DEF OwnersInv, WorkersOwner, ToldOwner, WorkersEnd, OwnBlockFound, Types, ManagerTypes,
             ThreadTypes, Threads
    <2>6. ToldOwner'
      BY <2>2, <2>3, <2>4
         DEF OwnersInv, WorkersOwner, ToldOwner, WorkersEnd, OwnBlockFound, Types, ManagerTypes,
             ThreadTypes, Threads
    <2>7. WorkersEnd'
      BY <2>2, <2>3, <2>4
         DEF OwnersInv, WorkersOwner, ToldOwner, WorkersEnd, OwnBlockFound, Types, ManagerTypes,
             ThreadTypes, Threads
    <2>8. OwnBlockFound'
      BY <2>2, <2>3, <2>4
         DEF OwnersInv, WorkersOwner, ToldOwner, WorkersEnd, OwnBlockFound, Types, ManagerTypes,
             ThreadTypes, Threads
    <2>9. QED
      BY <2>5, <2>6, <2>7, <2>8 DEF OwnersInv
  <1>7. ASSUME NEW t \in Threads, NEW w \in Workers, CreateThread(t, w) PROVE OwnersInv'
    <2>1. /\ Current = {target[t]} /\ Current' = Current /\ target[t] \in Addresses /\ t # w
          /\ pc[t] = "create" /\ pc[w] = "ended" /\ m = Nobody
      BY <1>7, CurrentCreate DEF CreateThread, FlowInv, LockFlow
    <2>2. this' = [this EXCEPT ![w] = target[t]] /\ stale' = stale \ {w} /\ UNCHANGED <<then, target>>
      BY <1>7 DEF CreateThread
    <2>3. \/ pc' = [pc EXCEPT ![w] = "time", ![t] = then[t]]
          \/ pc' = [pc EXCEPT ![w] = "time"]
      BY <1>7 DEF CreateThread
    <2>4. t \in Workers => then[t] = "ended"
      BY <2>1 DEF OwnersInv, WorkersEnd
    <2>5. t \notin Workers => then[t] = "idle"
      BY DEF FlowInv, CallersFlow, Threads
    <2>6. \A a \in Addresses : miner'[a].newBlockFound = miner[a].newBlockFound
      BY <1>7, <2>1, CreateEffect
    <2>7. \A v \in Workers : pc[v] # "ended" => this[v] \in Addresses
      BY DEF FlowInv, WorkersFlow
    <2>8. \A u \in Threads : pc[u] \in {"requeue", "tearDownOther"} => u \in stale
      BY <2>1, MiningAssumption DEF OwnersInv, ToldOwner, FlowInv, LockFlow
    <2>9. WorkersOwner'
      BY <2>1, <2>2, <2>3, <2>4, <2>5, <2>6, <2>7, <2>8
         DEF OwnersInv, WorkersOwner, ToldOwner, WorkersEnd, OwnBlockFound, Types, ManagerTypes,
             ThreadTypes, Threads
    <2>10. ToldOwner'
      BY <2>1, <2>2, <2>3, <2>4, <2>5, <2>6, <2>7, <2>8
         DEF OwnersInv, WorkersOwner, ToldOwner, WorkersEnd, OwnBlockFound, Types, ManagerTypes,
             ThreadTypes, Threads
    <2>11. WorkersEnd'
      BY <2>1, <2>2, <2>3, <2>4, <2>5, <2>6, <2>7, <2>8
         DEF OwnersInv, WorkersOwner, ToldOwner, WorkersEnd, OwnBlockFound, Types, ManagerTypes,
             ThreadTypes, Threads
    <2>12. OwnBlockFound'
      BY <2>1, <2>2, <2>3, <2>4, <2>5, <2>6, <2>7, <2>8
         DEF OwnersInv, WorkersOwner, ToldOwner, WorkersEnd, OwnBlockFound, Types, ManagerTypes,
             ThreadTypes, Threads
    <2>13. QED
      BY <2>9, <2>10, <2>11, <2>12 DEF OwnersInv
  <1>8. ASSUME NEW t \in Threads, Notify(t) PROVE OwnersInv'
    <2>1. Current' = Current
      BY <1>8, CurrentStays DEF Notify, shared, Types, ThreadTypes
    <2>2. UNCHANGED <<m, miner, this, then>> /\ pc[t] = "notify"
      BY <1>8 DEF Notify, shared
    <2>3. \A v \in Workers : stale' = stale \/ (t # v /\ stale' = stale \ {t})
      BY <1>8, MiningAssumption DEF Notify
    <2>4. \/ pc' = [pc EXCEPT ![t] = then[t]] /\ UNCHANGED target
          \/ pc' = [pc EXCEPT ![t] = "requeue"] /\ target' = [target EXCEPT ![t] = m]
      BY <1>8 DEF Notify, Goto
    <2>5. t \in Workers => then[t] = "tearDown"
      BY <2>2 DEF FlowInv, WorkersFlow
    <2>6. t \notin Workers => then[t] = "idle"
      BY DEF FlowInv, CallersFlow, Threads
    <2>7. WorkersOwner'
      BY <2>1, <2>2, <2>3, <2>4, <2>5, <2>6
         DEF OwnersInv, WorkersOwner, ToldOwner, WorkersEnd, OwnBlockFound, Types, ManagerTypes,
             ThreadTypes, Threads
    <2>8. ToldOwner'
      <3>1. stale' = stale \/ stale' = stale \ {t}
        BY <1>8 DEF Notify
      <3>2. QED
        BY <2>2, <2>4, <2>5, <2>6, <3>1
           DEF OwnersInv, ToldOwner, Types, ManagerTypes, ThreadTypes, Threads
    <2>9. WorkersEnd'
      BY <2>1, <2>2, <2>3, <2>4, <2>5, <2>6
         DEF OwnersInv, WorkersOwner, ToldOwner, WorkersEnd, OwnBlockFound, Types, ManagerTypes,
             ThreadTypes, Threads
    <2>10. OwnBlockFound'
      BY <2>1, <2>2, <2>3, <2>4, <2>5, <2>6
         DEF OwnersInv, WorkersOwner, ToldOwner, WorkersEnd, OwnBlockFound, Types, ManagerTypes,
             ThreadTypes, Threads
    <2>11. QED
      BY <2>7, <2>8, <2>9, <2>10 DEF OwnersInv
  <1>9. ASSUME NEW t \in Threads, Requeue(t) PROVE OwnersInv'
    <2>1. t \notin stale
      BY <1>9 DEF Requeue, Uses
    <2>2. Current' = Current /\ UNCHANGED <<m, miner, this, target, then, stale>> /\ pc[t] = "requeue"
      BY <1>9, CurrentStays DEF Requeue
    <2>3. t \in Workers => miner[target[t]].newBlockFound
      <3>1. target[t] = m /\ m \in Addresses
        BY <2>1, <2>2 DEF OwnersInv, ToldOwner, FlowInv, LockFlow
      <3>2. Current = {m}
        BY <3>1, CurrentIs, MiningAssumption
      <3>3. QED
        BY <2>1, <2>2, <3>1, <3>2 DEF OwnersInv, WorkersOwner, OwnBlockFound
    <2>4. /\ (pc' = [pc EXCEPT ![t] = then[t]] \/ pc' = [pc EXCEPT ![t] = "tearDownOther"])
          /\ t \in Workers => pc' = [pc EXCEPT ![t] = then[t]]
      BY <1>9, <2>3 DEF Requeue, Goto
    <2>5. t \in Workers => then[t] = "tearDown"
      BY <2>2 DEF FlowInv, WorkersFlow
    <2>6. t \notin Workers => then[t] = "idle"
      BY DEF FlowInv, CallersFlow, Threads
    <2>7. WorkersOwner'
      BY <2>1, <2>2, <2>4, <2>5, <2>6
         DEF OwnersInv, WorkersOwner, ToldOwner, WorkersEnd, OwnBlockFound, Types, ManagerTypes,
             ThreadTypes, Threads
    <2>8. ToldOwner'
      BY <2>1, <2>2, <2>4, <2>5, <2>6
         DEF OwnersInv, WorkersOwner, ToldOwner, WorkersEnd, OwnBlockFound, Types, ManagerTypes,
             ThreadTypes, Threads
    <2>9. WorkersEnd'
      BY <2>1, <2>2, <2>4, <2>5, <2>6
         DEF OwnersInv, WorkersOwner, ToldOwner, WorkersEnd, OwnBlockFound, Types, ManagerTypes,
             ThreadTypes, Threads
    <2>10. OwnBlockFound'
      BY <2>1, <2>2, <2>4, <2>5, <2>6
         DEF OwnersInv, WorkersOwner, ToldOwner, WorkersEnd, OwnBlockFound, Types, ManagerTypes,
             ThreadTypes, Threads
    <2>11. QED
      BY <2>7, <2>8, <2>9, <2>10 DEF OwnersInv
  <1>10. ASSUME NEW t \in Threads, TearDownOther(t) PROVE OwnersInv'
    <2>1. target[t] \in Addresses /\ pc[t] = "tearDownOther"
      BY <1>10 DEF TearDownOther, FlowInv, LockFlow
    <2>2. t \notin Workers
      BY <2>1 DEF OwnersInv, WorkersEnd
    <2>3. Current' = Current /\ UNCHANGED <<m, this, target, then, stale>> /\ pc' = [pc EXCEPT ![t] = "run"]
      BY <1>10, CurrentStays DEF TearDownOther, Goto
    <2>4. \A a \in Addresses : miner'[a].newBlockFound = miner[a].newBlockFound
      BY <1>10, <2>1, TearDownEffect
    <2>5. \A v \in Workers : pc[v] # "ended" => this[v] \in Addresses
      BY DEF FlowInv, WorkersFlow
    <2>6. WorkersOwner'
      BY <2>1, <2>2, <2>3, <2>4, <2>5
         DEF OwnersInv, WorkersOwner, ToldOwner, WorkersEnd, OwnBlockFound, Types, ManagerTypes,
             ThreadTypes, Threads
    <2>7. ToldOwner'
      BY <2>1, <2>2, <2>3, <2>4, <2>5
         DEF OwnersInv, WorkersOwner, ToldOwner, WorkersEnd, OwnBlockFound, Types, ManagerTypes,
             ThreadTypes, Threads
    <2>8. WorkersEnd'
      BY <2>1, <2>2, <2>3, <2>4, <2>5
         DEF OwnersInv, WorkersOwner, ToldOwner, WorkersEnd, OwnBlockFound, Types, ManagerTypes,
             ThreadTypes, Threads
    <2>9. OwnBlockFound'
      BY <2>1, <2>2, <2>3, <2>4, <2>5
         DEF OwnersInv, WorkersOwner, ToldOwner, WorkersEnd, OwnBlockFound, Types, ManagerTypes,
             ThreadTypes, Threads
    <2>10. QED
      BY <2>6, <2>7, <2>8, <2>9 DEF OwnersInv
  <1>11. ASSUME NEW w \in Workers, ReadTime(w) PROVE OwnersInv'
    <2>1. Current' = Current
      BY <1>11, CurrentStays DEF ReadTime, shared, threads
    <2>2. WorkersOwner'
      BY <1>11, <2>1
         DEF OwnersInv, WorkersOwner, ToldOwner, WorkersEnd, OwnBlockFound, ReadTime, Types,
             ManagerTypes, ThreadTypes, Threads, Goto, shared, threads, histories
    <2>3. ToldOwner'
      BY <1>11, <2>1
         DEF OwnersInv, WorkersOwner, ToldOwner, WorkersEnd, OwnBlockFound, ReadTime, Types,
             ManagerTypes, ThreadTypes, Threads, Goto, shared, threads, histories
    <2>4. WorkersEnd'
      BY <1>11, <2>1
         DEF OwnersInv, WorkersOwner, ToldOwner, WorkersEnd, OwnBlockFound, ReadTime, Types,
             ManagerTypes, ThreadTypes, Threads, Goto, shared, threads, histories
    <2>5. OwnBlockFound'
      BY <1>11, <2>1
         DEF OwnersInv, WorkersOwner, ToldOwner, WorkersEnd, OwnBlockFound, ReadTime, Types,
             ManagerTypes, ThreadTypes, Threads, Goto, shared, threads, histories
    <2>6. QED
      BY <2>2, <2>3, <2>4, <2>5 DEF OwnersInv
  <1>12. ASSUME NEW w \in Workers, ReadLatestBlock(w) PROVE OwnersInv'
    <2>1. Current' = Current
      BY <1>12, CurrentStays DEF ReadLatestBlock, shared, threads
    <2>2. WorkersOwner'
      BY <1>12, <2>1
         DEF OwnersInv, WorkersOwner, ToldOwner, WorkersEnd, OwnBlockFound, ReadLatestBlock,
             Types, ManagerTypes, ThreadTypes, Threads, Goto, shared, threads, histories
    <2>3. ToldOwner'
      BY <1>12, <2>1
         DEF OwnersInv, WorkersOwner, ToldOwner, WorkersEnd, OwnBlockFound, ReadLatestBlock,
             Types, ManagerTypes, ThreadTypes, Threads, Goto, shared, threads, histories
    <2>4. WorkersEnd'
      BY <1>12, <2>1
         DEF OwnersInv, WorkersOwner, ToldOwner, WorkersEnd, OwnBlockFound, ReadLatestBlock,
             Types, ManagerTypes, ThreadTypes, Threads, Goto, shared, threads, histories
    <2>5. OwnBlockFound'
      BY <1>12, <2>1
         DEF OwnersInv, WorkersOwner, ToldOwner, WorkersEnd, OwnBlockFound, ReadLatestBlock,
             Types, ManagerTypes, ThreadTypes, Threads, Goto, shared, threads, histories
    <2>6. QED
      BY <2>2, <2>3, <2>4, <2>5 DEF OwnersInv
  <1>13. ASSUME NEW w \in Workers, CopyTransactions(w) PROVE OwnersInv'
    <2>1. Current' = Current
      BY <1>13, CurrentStays DEF CopyTransactions, shared, threads
    <2>2. WorkersOwner'
      BY <1>13, <2>1
         DEF OwnersInv, WorkersOwner, ToldOwner, WorkersEnd, OwnBlockFound, CopyTransactions,
             Types, ManagerTypes, ThreadTypes, Threads, Goto, shared, threads, histories
    <2>3. ToldOwner'
      BY <1>13, <2>1
         DEF OwnersInv, WorkersOwner, ToldOwner, WorkersEnd, OwnBlockFound, CopyTransactions,
             Types, ManagerTypes, ThreadTypes, Threads, Goto, shared, threads, histories
    <2>4. WorkersEnd'
      BY <1>13, <2>1
         DEF OwnersInv, WorkersOwner, ToldOwner, WorkersEnd, OwnBlockFound, CopyTransactions,
             Types, ManagerTypes, ThreadTypes, Threads, Goto, shared, threads, histories
    <2>5. OwnBlockFound'
      BY <1>13, <2>1
         DEF OwnersInv, WorkersOwner, ToldOwner, WorkersEnd, OwnBlockFound, CopyTransactions,
             Types, ManagerTypes, ThreadTypes, Threads, Goto, shared, threads, histories
    <2>6. QED
      BY <2>2, <2>3, <2>4, <2>5 DEF OwnersInv
  <1>14. ASSUME NEW w \in Workers, Interrupt(w) PROVE OwnersInv'
    <2>1. Current' = Current
      BY <1>14, CurrentStays DEF Interrupt, shared, threads
    <2>2. WorkersOwner'
      BY <1>14, <2>1
         DEF OwnersInv, WorkersOwner, ToldOwner, WorkersEnd, OwnBlockFound, Interrupt, Types,
             ManagerTypes, ThreadTypes, Threads, Goto, shared, threads, histories
    <2>3. ToldOwner'
      BY <1>14, <2>1
         DEF OwnersInv, WorkersOwner, ToldOwner, WorkersEnd, OwnBlockFound, Interrupt, Types,
             ManagerTypes, ThreadTypes, Threads, Goto, shared, threads, histories
    <2>4. WorkersEnd'
      BY <1>14, <2>1
         DEF OwnersInv, WorkersOwner, ToldOwner, WorkersEnd, OwnBlockFound, Interrupt, Types,
             ManagerTypes, ThreadTypes, Threads, Goto, shared, threads, histories
    <2>5. OwnBlockFound'
      BY <1>14, <2>1
         DEF OwnersInv, WorkersOwner, ToldOwner, WorkersEnd, OwnBlockFound, Interrupt, Types,
             ManagerTypes, ThreadTypes, Threads, Goto, shared, threads, histories
    <2>6. QED
      BY <2>2, <2>3, <2>4, <2>5 DEF OwnersInv
  <1>15. ASSUME NEW w \in Workers, Find(w) PROVE OwnersInv'
    <2>1. Current' = Current
      BY <1>15, CurrentStays DEF Find, shared, threads
    <2>2. WorkersOwner'
      BY <1>15, <2>1
         DEF OwnersInv, WorkersOwner, ToldOwner, WorkersEnd, OwnBlockFound, Find, Types,
             ManagerTypes, ThreadTypes, Threads, Goto, shared, threads, histories
    <2>3. ToldOwner'
      BY <1>15, <2>1
         DEF OwnersInv, WorkersOwner, ToldOwner, WorkersEnd, OwnBlockFound, Find, Types,
             ManagerTypes, ThreadTypes, Threads, Goto, shared, threads, histories
    <2>4. WorkersEnd'
      BY <1>15, <2>1
         DEF OwnersInv, WorkersOwner, ToldOwner, WorkersEnd, OwnBlockFound, Find, Types,
             ManagerTypes, ThreadTypes, Threads, Goto, shared, threads, histories
    <2>5. OwnBlockFound'
      BY <1>15, <2>1
         DEF OwnersInv, WorkersOwner, ToldOwner, WorkersEnd, OwnBlockFound, Find, Types,
             ManagerTypes, ThreadTypes, Threads, Goto, shared, threads, histories
    <2>6. QED
      BY <2>2, <2>3, <2>4, <2>5 DEF OwnersInv
  <1>16. ASSUME NEW w \in Workers, OnNewBlockFound(w) PROVE OwnersInv'
    <2>1. UNCHANGED <<m, this, target, stale, then>>
      BY <1>16 DEF OnNewBlockFound
    <2>2. /\ (pc' = [pc EXCEPT ![w] = "search"] \/ pc' = [pc EXCEPT ![w] = "publish"])
          /\ pc[w] = "found"
      BY <1>16 DEF OnNewBlockFound, Goto
    <2>3. Current' = Current
      BY <1>16, CurrentStays DEF OnNewBlockFound
    <2>4. /\ \A a \in Addresses : miner[a].newBlockFound => miner'[a].newBlockFound
          /\ pc'[w] = "publish" => miner'[this[w]].newBlockFound
      BY <1>16, FoundEffect
    <2>5. \A v \in Workers : pc[v] # "ended" => this[v] \in Addresses
      BY DEF FlowInv, WorkersFlow
    <2>6. WorkersOwner'
      BY <2>1, <2>2, <2>3, <2>4, <2>5
         DEF OwnersInv, WorkersOwner, ToldOwner, WorkersEnd, OwnBlockFound, Types, ManagerTypes,
             ThreadTypes, Threads
    <2>7. ToldOwner'
      BY <2>1, <2>2, <2>3, <2>4, <2>5
         DEF OwnersInv, WorkersOwner, ToldOwner, WorkersEnd, OwnBlockFound, Types, ManagerTypes,
             ThreadTypes, Threads
    <2>8. WorkersEnd'
      BY <2>1, <2>2, <2>3, <2>4, <2>5
         DEF OwnersInv, WorkersOwner, ToldOwner, WorkersEnd, OwnBlockFound, Types, ManagerTypes,
             ThreadTypes, Threads
    <2>9. OwnBlockFound'
      BY <2>1, <2>2, <2>3, <2>4, <2>5
         DEF OwnersInv, WorkersOwner, ToldOwner, WorkersEnd, OwnBlockFound, Types, ManagerTypes,
             ThreadTypes, Threads
    <2>10. QED
      BY <2>6, <2>7, <2>8, <2>9 DEF OwnersInv
  <1>17. ASSUME NEW w \in Workers, PublishBlock(w) PROVE OwnersInv'
    <2>1. Current' = Current
      BY <1>17, CurrentStays DEF PublishBlock
    <2>2. /\ UNCHANGED <<m, miner, this, target, stale>> /\ pc[w] = "publish"
          /\ then' = [then EXCEPT ![w] = "tearDown"]
          /\ (pc' = [pc EXCEPT ![w] = "notify"] \/ pc' = [pc EXCEPT ![w] = "tearDown"])
      BY <1>17 DEF PublishBlock, Goto
    <2>3. WorkersOwner'
      BY <2>1, <2>2
         DEF OwnersInv, WorkersOwner, ToldOwner, WorkersEnd, OwnBlockFound, Types, ManagerTypes,
             ThreadTypes, Threads
    <2>4. ToldOwner'
      BY <2>1, <2>2
         DEF OwnersInv, WorkersOwner, ToldOwner, WorkersEnd, OwnBlockFound, Types, ManagerTypes,
             ThreadTypes, Threads
    <2>5. WorkersEnd'
      BY <2>1, <2>2
         DEF OwnersInv, WorkersOwner, ToldOwner, WorkersEnd, OwnBlockFound, Types, ManagerTypes,
             ThreadTypes, Threads
    <2>6. OwnBlockFound'
      BY <2>1, <2>2
         DEF OwnersInv, WorkersOwner, ToldOwner, WorkersEnd, OwnBlockFound, Types, ManagerTypes,
             ThreadTypes, Threads
    <2>7. QED
      BY <2>3, <2>4, <2>5, <2>6 DEF OwnersInv
  <1>18. ASSUME NEW w \in Workers, TearDownOwn(w) PROVE OwnersInv'
    <2>1. this[w] \in Addresses /\ w \in Threads /\ pc[w] = "tearDown"
      BY <1>18 DEF TearDownOwn, FlowInv, WorkersFlow, Threads
    <2>2. /\ Current' = Current /\ UNCHANGED <<m, this, target, stale>>
          /\ pc' = [pc EXCEPT ![w] = "run"] /\ then' = [then EXCEPT ![w] = "ended"]
      BY <1>18, CurrentStays DEF TearDownOwn, Goto
    <2>3. \A a \in Addresses : miner'[a].newBlockFound = miner[a].newBlockFound
      BY <1>18, <2>1, TearDownEffect
    <2>4. \A v \in Workers : pc[v] # "ended" => this[v] \in Addresses
      BY DEF FlowInv, WorkersFlow
    <2>5. WorkersOwner'
      BY <2>1, <2>2, <2>3, <2>4
         DEF OwnersInv, WorkersOwner, ToldOwner, WorkersEnd, OwnBlockFound, Types, ManagerTypes,
             ThreadTypes, Threads
    <2>6. ToldOwner'
      BY <2>1, <2>2, <2>3, <2>4
         DEF OwnersInv, WorkersOwner, ToldOwner, WorkersEnd, OwnBlockFound, Types, ManagerTypes,
             ThreadTypes, Threads
    <2>7. WorkersEnd'
      BY <2>1, <2>2, <2>3, <2>4
         DEF OwnersInv, WorkersOwner, ToldOwner, WorkersEnd, OwnBlockFound, Types, ManagerTypes,
             ThreadTypes, Threads
    <2>8. OwnBlockFound'
      BY <2>1, <2>2, <2>3, <2>4
         DEF OwnersInv, WorkersOwner, ToldOwner, WorkersEnd, OwnBlockFound, Types, ManagerTypes,
             ThreadTypes, Threads
    <2>9. QED
      BY <2>5, <2>6, <2>7, <2>8 DEF OwnersInv
  <1>19. ASSUME NEW w \in Workers, Abort(w) PROVE OwnersInv'
    <2>1. UNCHANGED <<m, this, target, stale>> /\ pc[w] = "abort"
      BY <1>19 DEF Abort
    <2>2. \/ pc' = [pc EXCEPT ![w] = "run"] /\ then' = [then EXCEPT ![w] = "ended"]
          \/ pc' = [pc EXCEPT ![w] = "ended"] /\ then' = then
      BY <1>19 DEF Abort, Goto
    <2>3. Current' = Current
      BY <1>19, CurrentStays DEF Abort
    <2>4. \A a \in Addresses : miner'[a].newBlockFound = miner[a].newBlockFound
      BY <1>19, AbortEffect
    <2>5. \A v \in Workers : pc[v] # "ended" => this[v] \in Addresses
      BY DEF FlowInv, WorkersFlow
    <2>6. WorkersOwner'
      BY <2>1, <2>2, <2>3, <2>4, <2>5
         DEF OwnersInv, WorkersOwner, ToldOwner, WorkersEnd, OwnBlockFound, Types, ManagerTypes,
             ThreadTypes, Threads
    <2>7. ToldOwner'
      BY <2>1, <2>2, <2>3, <2>4, <2>5
         DEF OwnersInv, WorkersOwner, ToldOwner, WorkersEnd, OwnBlockFound, Types, ManagerTypes,
             ThreadTypes, Threads
    <2>8. WorkersEnd'
      BY <2>1, <2>2, <2>3, <2>4, <2>5
         DEF OwnersInv, WorkersOwner, ToldOwner, WorkersEnd, OwnBlockFound, Types, ManagerTypes,
             ThreadTypes, Threads
    <2>9. OwnBlockFound'
      <3>1. \A v \in Workers :
                pc'[v] \in {"publish", "notify", "requeue", "tearDown"} => pc'[v] = pc[v]
        BY <2>1, <2>2 DEF Types, ThreadTypes, Threads
      <3>2. QED
        BY <2>1, <2>4, <2>5, <3>1 DEF OwnersInv, OwnBlockFound
    <2>10. QED
      BY <2>6, <2>7, <2>8, <2>9 DEF OwnersInv
  <1>20. CASE UNCHANGED vars
    <2>1. Current' = Current
      BY <1>20, CurrentStays DEF vars, shared, threads
    <2>2. WorkersOwner'
      BY <1>20, <2>1
         DEF OwnersInv, WorkersOwner, ToldOwner, WorkersEnd, OwnBlockFound, vars, Types,
             ManagerTypes, ThreadTypes, Threads, Goto, shared, threads, histories
    <2>3. ToldOwner'
      BY <1>20, <2>1
         DEF OwnersInv, WorkersOwner, ToldOwner, WorkersEnd, OwnBlockFound, vars, Types,
             ManagerTypes, ThreadTypes, Threads, Goto, shared, threads, histories
    <2>4. WorkersEnd'
      BY <1>20, <2>1
         DEF OwnersInv, WorkersOwner, ToldOwner, WorkersEnd, OwnBlockFound, vars, Types,
             ManagerTypes, ThreadTypes, Threads, Goto, shared, threads, histories
    <2>5. OwnBlockFound'
      BY <1>20, <2>1
         DEF OwnersInv, WorkersOwner, ToldOwner, WorkersEnd, OwnBlockFound, vars, Types,
             ManagerTypes, ThreadTypes, Threads, Goto, shared, threads, histories
    <2>6. QED
      BY <2>2, <2>3, <2>4, <2>5 DEF OwnersInv

  <1>21. QED
    BY <1>1, <1>2, <1>3, <1>4, <1>5, <1>6, <1>7, <1>8, <1>9, <1>10, <1>11, <1>12, <1>13, <1>14,
       <1>15, <1>16, <1>17, <1>18, <1>19, <1>20
       DEF Next, Arrive, Step, Manage, Told, Mine

\* SearchersInv of the Miner there is
LEMMA SearchersOf ==
    ASSUME NEW a \in Addresses, Current' = {a},
           miner'[a].running =>
               /\ IsFiniteSet(miner'[a].minerThreads)
               /\ miner'[a].threadsDone = Cardinality(Ended(a)')
               /\ lock' = Nobody => \E w \in miner'[a].minerThreads : pc'[w] # "ended"
               /\ miner'[a].minerThreads # {} => \E w \in miner'[a].minerThreads : pc'[w] # "ended"
               /\ \A w \in miner'[a].minerThreads :
                      /\ this'[w] = a /\ w \notin interrupted' /\ w \notin stale'
                      /\ pc'[w] \notin {"run", "create"}
               /\ \A w \in Workers : pc'[w] # "ended" /\ this'[w] = a /\ w \notin stale' =>
                      w \in miner'[a].minerThreads
    PROVE  SearchersInv'
  <1> SUFFICES ASSUME NEW c \in Current', miner'[c].running
               PROVE
                   /\ IsFiniteSet(miner'[c].minerThreads)
                   /\ miner'[c].threadsDone = Cardinality(Ended(c)')
                   /\ lock' = Nobody => \E w \in miner'[c].minerThreads : pc'[w] # "ended"
                   /\ miner'[c].minerThreads # {} => \E w \in miner'[c].minerThreads : pc'[w] # "ended"
                   /\ \A w \in miner'[c].minerThreads :
                          /\ this'[w] = c /\ w \notin interrupted' /\ w \notin stale'
                          /\ pc'[w] \notin {"run", "create"}
                   /\ \A w \in Workers : pc'[w] # "ended" /\ this'[w] = c /\ w \notin stale' =>
                      w \in miner'[c].minerThreads
    BY DEF SearchersInv
  <1>1. c = a
    OBVIOUS
  <1>2. QED
    BY <1>1

LEMMA SearchersKept ==
    ASSUME Types, FlowInv, SearchersInv, Current' = Current, UNCHANGED <<lock, this>>,
           \A v \in Workers : (v \in stale <=> v \in stale') /\ (pc'[v] # "ended" => pc[v] # "ended"),
           \A a \in Current : miner'[a].running =>
               /\ miner[a].running /\ miner'[a].minerThreads = miner[a].minerThreads
               /\ miner'[a].threadsDone = miner[a].threadsDone
               /\ \A v \in miner[a].minerThreads :
                      /\ v \notin interrupted' /\ pc'[v] \notin {"run", "create"}
                      /\ pc'[v] = "ended" => pc[v] = "ended"
    PROVE  SearchersInv'
  <1> SUFFICES ASSUME NEW a \in Current, miner'[a].running
               PROVE  /\ IsFiniteSet(miner'[a].minerThreads)
                      /\ miner'[a].threadsDone = Cardinality(Ended(a)')
                      /\ lock' = Nobody => \E w \in miner'[a].minerThreads : pc'[w] # "ended"
                      /\ miner'[a].minerThreads # {} => \E w \in miner'[a].minerThreads : pc'[w] # "ended"
                      /\ \A w \in miner'[a].minerThreads :
                             /\ this'[w] = a /\ w \notin interrupted' /\ w \notin stale'
                             /\ pc'[w] \notin {"run", "create"}
                      /\ \A w \in Workers : pc'[w] # "ended" /\ this'[w] = a /\ w \notin stale' =>
                             w \in miner'[a].minerThreads
    BY DEF SearchersInv
  <1>1. miner[a].running /\ miner'[a].minerThreads = miner[a].minerThreads
    OBVIOUS
  <1>2. miner[a].minerThreads \subseteq Workers
    BY CurrentIs DEF Types, ManagerTypes, MinerObject
  <1>3. \A v \in miner[a].minerThreads : pc'[v] = "ended" <=> pc[v] = "ended"
    BY <1>1, <1>2
  <1>4. Ended(a)' = Ended(a)
    BY <1>1, <1>3 DEF Ended
  <1>5. /\ IsFiniteSet(miner[a].minerThreads) /\ miner[a].threadsDone = Cardinality(Ended(a))
        /\ lock = Nobody => \E w \in miner[a].minerThreads : pc[w] # "ended"
        /\ miner[a].minerThreads # {} => \E w \in miner[a].minerThreads : pc[w] # "ended"
        /\ \A w \in miner[a].minerThreads : this[w] = a /\ w \notin stale
        /\ \A w \in Workers : pc[w] # "ended" /\ this[w] = a /\ w \notin stale =>
               w \in miner[a].minerThreads
    BY <1>1 DEF SearchersInv
  <1>6. QED
    BY <1>1, <1>2, <1>3, <1>4, <1>5

\* What a step does that leaves the Miners as they are, and the workers in them
SameMiners ==
    \A a \in Current :
        SameMiner(miner'[a], miner[a]) /\ miner'[a].threadsDone = miner[a].threadsDone
SearchOn ==
    \A v \in Workers :
        /\ pc'[v] # "ended" => pc[v] # "ended"
        /\ \A a \in Current : miner[a].running /\ v \in miner[a].minerThreads =>
               /\ pc'[v] \notin {"run", "create"}
               /\ pc'[v] = "ended" => pc[v] = "ended"

\* Only the last worker of a Miner to end finds all the others ended.
LEMMA SearchersStep ==
    ASSUME Types, FlowInv, OwnersInv, SearchersInv, [Next]_vars, ~dangling'
    PROVE  SearchersInv'
  <1> USE MiningAssumption
  <1>a. \A a \in Current : miner[a].minerThreads \subseteq Workers /\ a \in Addresses
    BY CurrentIs DEF Types, ManagerTypes, MinerObject
  <1>b. \A a \in Current : miner[a].running => \A v \in miner[a].minerThreads :
            v \notin interrupted /\ v \notin stale /\ this[v] = a /\ pc[v] \notin {"run", "create"}
    BY DEF SearchersInv
  <1>c. \A v \in Workers : pc[v] # "ended" => this[v] \in Addresses
    BY DEF FlowInv, WorkersFlow
  <1>d. \A a \in Current : Current = {a}
    BY Own
  <1>1. CASE Tick
    <2>1. Current' = Current
      BY <1>1, CurrentStays DEF Tick, shared, threads, Types, ThreadTypes
    <2>2. UNCHANGED <<lock, this, interrupted>>
      BY <1>1 DEF Tick, shared, threads
    <2>3. SameMiners
      BY <1>1 DEF SameMiners, Tick, shared, SameMiner
    <2>4. \A v \in Workers : v \in stale <=> v \in stale'
      BY <1>1 DEF Tick, histories
    <2>5. SearchOn
      BY <1>1, <1>b
         DEF SearchOn, Tick, Types, ManagerTypes, ThreadTypes, Threads, Goto, shared, threads,
             histories
    <2>6. QED
      BY <1>a, <1>b, <2>1, <2>2, <2>3, <2>4, <2>5, SearchersKept
         DEF SameMiners, SearchOn, SameMiner
  <1>2. ASSUME NEW t \in Callers, NEW tx \in situation.arriving, AddTransaction(t, tx)
         PROVE  SearchersInv'
    <2>1. Current' = Current
      BY <1>2, CurrentStays DEF AddTransaction, shared, threads, Types, ThreadTypes
    <2>2. UNCHANGED <<lock, this, interrupted>>
      BY <1>2 DEF AddTransaction, shared, threads
    <2>3. SameMiners
      BY <1>2 DEF SameMiners, AddTransaction, shared, SameMiner
    <2>4. \A v \in Workers : v \in stale <=> v \in stale'
      BY <1>2 DEF AddTransaction, histories
    <2>5. SearchOn
      BY <1>2, <1>b
         DEF SearchOn, AddTransaction, Types, ManagerTypes, ThreadTypes, Threads, Goto, shared,
             threads, histories
    <2>6. QED
      BY <1>a, <1>b, <2>1, <2>2, <2>3, <2>4, <2>5, SearchersKept
         DEF SameMiners, SearchOn, SameMiner
  <1>3. ASSUME NEW txs \in SUBSET situation.arriving, NEW time \in 0 .. situation.time, ReceiveBlock(txs, time)
         PROVE  SearchersInv'
    <2>1. Current' = Current
      BY <1>3, CurrentStays DEF ReceiveBlock, shared, threads, Types, ThreadTypes
    <2>2. UNCHANGED <<lock, this, interrupted>>
      BY <1>3 DEF ReceiveBlock, shared, threads
    <2>3. SameMiners
      BY <1>3 DEF SameMiners, ReceiveBlock, shared, SameMiner
    <2>4. \A v \in Workers : v \in stale <=> v \in stale'
      BY <1>3 DEF ReceiveBlock, histories
    <2>5. SearchOn
      BY <1>3, <1>b
         DEF SearchOn, ReceiveBlock, Types, ManagerTypes, ThreadTypes, Threads, Goto, shared,
             threads, histories
    <2>6. QED
      BY <1>a, <1>b, <2>1, <2>2, <2>3, <2>4, <2>5, SearchersKept
         DEF SameMiners, SearchOn, SameMiner
  <1>4. ASSUME NEW w \in Workers, GiveUp(w) PROVE SearchersInv'
    <2>1. Current' = Current
      BY <1>4, CurrentStays DEF GiveUp, shared, threads, Types, ThreadTypes
    <2>2. UNCHANGED <<lock, this, interrupted>>
      BY <1>4 DEF GiveUp, shared, threads
    <2>3. SameMiners
      BY <1>4 DEF SameMiners, GiveUp, shared, SameMiner
    <2>4. \A v \in Workers : v \in stale <=> v \in stale'
      BY <1>4 DEF GiveUp, histories
    <2>5. SearchOn
      BY <1>4, <1>b
         DEF SearchOn, GiveUp, Types, ManagerTypes, ThreadTypes, Threads, Goto, shared, threads,
             histories
    <2>6. QED
      BY <1>a, <1>b, <2>1, <2>2, <2>3, <2>4, <2>5, SearchersKept
         DEF SameMiners, SearchOn, SameMiner
  <1>5. ASSUME NEW t \in Threads, RunNot(t) PROVE SearchersInv'
    <2>1. Current' = Current
      BY <1>5, CurrentStays DEF RunNot, shared, threads, Types, ThreadTypes
    <2>2. UNCHANGED <<lock, this, interrupted>>
      BY <1>5 DEF RunNot, shared, threads
    <2>3. SameMiners
      BY <1>5 DEF SameMiners, RunNot, shared, SameMiner
    <2>4. \A v \in Workers : v \in stale <=> v \in stale'
      BY <1>5 DEF RunNot, histories
    <2>5. SearchOn
      BY <1>5, <1>b
         DEF SearchOn, RunNot, Types, ManagerTypes, ThreadTypes, Threads, Goto, shared, threads,
             histories
    <2>6. QED
      BY <1>a, <1>b, <2>1, <2>2, <2>3, <2>4, <2>5, SearchersKept
         DEF SameMiners, SearchOn, SameMiner
  <1>6. ASSUME NEW t \in Threads, Run(t) PROVE SearchersInv'
    <2>1. PICK a : a = target'[t]
      OBVIOUS
    <2>2. Current' = {a} /\ a \in Addresses /\ miner'[a] = NewMiner(ForBlock)
      BY <1>6, <2>1, CurrentRun DEF Types, ManagerTypes
    <2>3. lock' = t /\ t # Nobody
      BY <1>6 DEF Run
    <2>4. \A v \in Workers : pc'[v] # "ended" => pc[v] # "ended"
      BY <1>6 DEF Run, Goto, Types, ThreadTypes, Threads
    <2>5. \A v \in Workers : pc[v] # "ended" => v \in stale'
      BY <1>6, Strangers
    <2>6. miner'[a].minerThreads = {} /\ miner'[a].threadsDone = 0
      BY <2>2 DEF NewMiner
    <2>7. Ended(a)' = {}
      BY <2>6 DEF Ended
    <2>8. Cardinality(Ended(a)') = 0
      BY <2>7, FS_EmptySet
    <2>9. IsFiniteSet(miner'[a].minerThreads) /\ miner'[a].threadsDone = Cardinality(Ended(a)')
      BY <2>6, <2>8, FS_EmptySet
    <2>10. lock' # Nobody
      BY <2>3
    <2>11. /\ \A v \in miner'[a].minerThreads : FALSE
           /\ \A v \in Workers : ~(pc'[v] # "ended" /\ this'[v] = a /\ v \notin stale')
      BY <2>4, <2>5, <2>6
    <2>12. QED
      BY <2>2, <2>9, <2>10, <2>11, SearchersOf
  <1>7. ASSUME NEW t \in Threads, NEW w \in Workers, CreateThread(t, w) PROVE SearchersInv'
    <2>1. Current = {target[t]} /\ Current' = Current /\ target[t] \in Addresses /\ t # w
      BY <1>7, CurrentCreate
    <2>2. PICK a : a = target[t]
      OBVIOUS
    <2>3. /\ this' = [this EXCEPT ![w] = a] /\ stale' = stale \ {w} /\ interrupted' = interrupted \ {w}
          /\ pc[t] = "create" /\ pc[w] = "ended" /\ w \notin miner[a].minerThreads
          /\ pc'[w] = "time" /\ \A u \in Threads : u # t /\ u # w => pc'[u] = pc[u]
      BY <1>7, <2>1, <2>2 DEF CreateThread, Types, ThreadTypes, Threads
    <2>4. /\ miner'[a].running = miner[a].running /\ miner'[a].threadsDone = miner[a].threadsDone
          /\ miner'[a].minerThreads = miner[a].minerThreads \cup {w}
      BY <1>7, <2>2, CreateEffect
    <2>5. SUFFICES ASSUME miner[a].running
                   PROVE  /\ IsFiniteSet(miner'[a].minerThreads)
                          /\ miner'[a].threadsDone = Cardinality(Ended(a)')
                          /\ \A v \in miner'[a].minerThreads :
                                 /\ this'[v] = a /\ v \notin interrupted' /\ v \notin stale'
                                 /\ pc'[v] \notin {"run", "create"}
                          /\ \A v \in Workers : pc'[v] # "ended" /\ this'[v] = a /\ v \notin stale' =>
                                 v \in miner'[a].minerThreads
      <3>1. a \in Addresses /\ Current' = {a}
        BY <2>1, <2>2
      <3>2. miner'[a].running => \E v \in miner'[a].minerThreads : pc'[v] # "ended"
        BY <2>3, <2>4
      <3>3. QED
        BY <2>4, <3>1, <3>2, SearchersOf
    <2>6. /\ IsFiniteSet(miner[a].minerThreads) /\ miner[a].threadsDone = Cardinality(Ended(a))
          /\ \A v \in Workers : pc[v] # "ended" /\ this[v] = a /\ v \notin stale => v \in miner[a].minerThreads
      BY <2>1, <2>2, <2>5 DEF SearchersInv
    <2>7. /\ miner[a].minerThreads \subseteq Workers /\ t \notin miner[a].minerThreads
          /\ \A v \in miner[a].minerThreads :
                 v # t /\ v # w /\ v \notin interrupted /\ v \notin stale /\ this[v] = a
                 /\ pc[v] \notin {"run", "create"}
      BY <1>a, <1>b, <2>1, <2>2, <2>3, <2>5
    <2>8. \A v \in miner[a].minerThreads : pc'[v] = pc[v]
      BY <2>3, <2>7 DEF Threads
    <2>9. Ended(a)' = Ended(a)
      BY <2>3, <2>4, <2>8 DEF Ended
    <2>10. IsFiniteSet(miner'[a].minerThreads)
      <3>1. IsFiniteSet(miner[a].minerThreads \cup {w})
        BY <2>6, FS_AddElement
      <3>2. QED
        BY <2>4, <3>1
    <2>11. ASSUME NEW v \in Workers, pc'[v] # "ended", this'[v] = a, v \notin stale'
           PROVE  v \in miner'[a].minerThreads
      <3>1. CASE v = w
        BY <2>4, <3>1
      <3>2. CASE v # w
        <4>1. pc[v] # "ended" /\ this[v] = a /\ v \notin stale
          BY <2>3, <2>11, <3>2 DEF Types, ThreadTypes, Threads
        <4>2. QED
          BY <2>4, <2>6, <4>1
      <3>3. QED
        BY <3>1, <3>2
    <2>12. \A v \in miner'[a].minerThreads :
               /\ this'[v] = a /\ v \notin interrupted' /\ v \notin stale'
               /\ pc'[v] \notin {"run", "create"}
      BY <2>3, <2>4, <2>7, <2>8 DEF Types, ThreadTypes, Threads
    <2>13. QED
      BY <2>4, <2>6, <2>9, <2>10, <2>11, <2>12
  <1>8. ASSUME NEW t \in Threads, Notify(t) PROVE SearchersInv'
    <2>1. Current' = Current
      BY <1>8, CurrentStays DEF Notify, shared, threads, Types, ThreadTypes
    <2>2. UNCHANGED <<lock, this, interrupted>>
      BY <1>8 DEF Notify, shared, threads
    <2>3. SameMiners
      BY <1>8 DEF SameMiners, Notify, shared, SameMiner
    <2>4. \A v \in Workers : v \in stale <=> v \in stale'
      BY <1>8 DEF Notify, histories
    <2>5. SearchOn
      <3>1. t \in Workers => then[t] = "tearDown"
        BY <1>8 DEF Notify, FlowInv, WorkersFlow
      <3>2. QED
        BY <1>8, <1>b, <3>1
           DEF SearchOn, Notify, Types, ManagerTypes, ThreadTypes, Threads, Goto, shared,
               threads, histories
    <2>6. QED
      BY <1>a, <1>b, <2>1, <2>2, <2>3, <2>4, <2>5, SearchersKept
         DEF SameMiners, SearchOn, SameMiner
  <1>9. ASSUME NEW t \in Threads, Requeue(t) PROVE SearchersInv'
    <2>1. Current' = Current
      BY <1>9, CurrentStays DEF Requeue, shared, threads, Types, ThreadTypes
    <2>2. UNCHANGED <<lock, this, interrupted>>
      BY <1>9 DEF Requeue, shared, threads
    <2>3. SameMiners
      BY <1>9 DEF SameMiners, Requeue, shared, SameMiner
    <2>4. \A v \in Workers : v \in stale <=> v \in stale'
      BY <1>9 DEF Requeue, histories
    <2>5. SearchOn
      <3>1. t \in Workers => then[t] = "tearDown"
        BY <1>9 DEF Requeue, FlowInv, WorkersFlow
      <3>2. (pc' = [pc EXCEPT ![t] = then[t]] \/ pc' = [pc EXCEPT ![t] = "tearDownOther"]) /\ pc[t] = "requeue"
        BY <1>9 DEF Requeue, Goto
      <3>3. QED
        BY <1>b, <3>1, <3>2 DEF SearchOn, Types, ThreadTypes, Threads
    <2>6. QED
      BY <1>a, <1>b, <2>1, <2>2, <2>3, <2>4, <2>5, SearchersKept
         DEF SameMiners, SearchOn, SameMiner
  <1>10. ASSUME NEW t \in Threads, TearDownOther(t) PROVE SearchersInv'
    <2>1. t \notin stale /\ pc[t] = "tearDownOther"
      BY <1>10 DEF TearDownOther, Uses
    <2>2. target[t] \in Addresses /\ Current = {target[t]}
      BY <2>1, Own
    <2>3. Current' = Current
      BY <1>10, CurrentStays DEF TearDownOther
    <2>4. ~miner'[target[t]].running
      BY <1>10, <2>2, TearDownEffect
    <2>5. QED
      BY <2>2, <2>3, <2>4 DEF SearchersInv
  <1>11. ASSUME NEW w \in Workers, ReadTime(w) PROVE SearchersInv'
    <2>1. Current' = Current
      BY <1>11, CurrentStays DEF ReadTime, shared, threads, Types, ThreadTypes
    <2>2. UNCHANGED <<lock, this, interrupted>>
      BY <1>11 DEF ReadTime, shared, threads
    <2>3. SameMiners
      BY <1>11 DEF SameMiners, ReadTime, shared, SameMiner
    <2>4. \A v \in Workers : v \in stale <=> v \in stale'
      BY <1>11 DEF ReadTime, histories
    <2>5. SearchOn
      BY <1>11, <1>b
         DEF SearchOn, ReadTime, Types, ManagerTypes, ThreadTypes, Threads, Goto, shared,
             threads, histories
    <2>6. QED
      BY <1>a, <1>b, <2>1, <2>2, <2>3, <2>4, <2>5, SearchersKept
         DEF SameMiners, SearchOn, SameMiner
  <1>12. ASSUME NEW w \in Workers, ReadLatestBlock(w) PROVE SearchersInv'
    <2>1. Current' = Current
      BY <1>12, CurrentStays DEF ReadLatestBlock, shared, threads, Types, ThreadTypes
    <2>2. UNCHANGED <<lock, this, interrupted>>
      BY <1>12 DEF ReadLatestBlock, shared, threads
    <2>3. SameMiners
      BY <1>12 DEF SameMiners, ReadLatestBlock, shared, SameMiner
    <2>4. \A v \in Workers : v \in stale <=> v \in stale'
      BY <1>12 DEF ReadLatestBlock, histories
    <2>5. SearchOn
      BY <1>12, <1>b
         DEF SearchOn, ReadLatestBlock, Types, ManagerTypes, ThreadTypes, Threads, Goto, shared,
             threads, histories
    <2>6. QED
      BY <1>a, <1>b, <2>1, <2>2, <2>3, <2>4, <2>5, SearchersKept
         DEF SameMiners, SearchOn, SameMiner
  <1>13. ASSUME NEW w \in Workers, CopyTransactions(w) PROVE SearchersInv'
    <2>1. Current' = Current
      BY <1>13, CurrentStays DEF CopyTransactions, shared, threads, Types, ThreadTypes
    <2>2. UNCHANGED <<lock, this, interrupted>>
      BY <1>13 DEF CopyTransactions, shared, threads
    <2>3. SameMiners
      BY <1>13 DEF SameMiners, CopyTransactions, shared, SameMiner
    <2>4. \A v \in Workers : v \in stale <=> v \in stale'
      BY <1>13 DEF CopyTransactions, histories
    <2>5. SearchOn
      BY <1>13, <1>b
         DEF SearchOn, CopyTransactions, Types, ManagerTypes, ThreadTypes, Threads, Goto,
             shared, threads, histories
    <2>6. QED
      BY <1>a, <1>b, <2>1, <2>2, <2>3, <2>4, <2>5, SearchersKept
         DEF SameMiners, SearchOn, SameMiner
  <1>14. ASSUME NEW w \in Workers, Interrupt(w) PROVE SearchersInv'
    <2>1. Current' = Current
      BY <1>14, CurrentStays DEF Interrupt, shared, threads, Types, ThreadTypes
    <2>2. UNCHANGED <<lock, this, interrupted>>
      BY <1>14 DEF Interrupt, shared, threads
    <2>3. SameMiners
      BY <1>14 DEF SameMiners, Interrupt, shared, SameMiner
    <2>4. \A v \in Workers : v \in stale <=> v \in stale'
      BY <1>14 DEF Interrupt, histories
    <2>5. SearchOn
      BY <1>14, <1>b
         DEF SearchOn, Interrupt, Types, ManagerTypes, ThreadTypes, Threads, Goto, shared,
             threads, histories
    <2>6. QED
      BY <1>a, <1>b, <2>1, <2>2, <2>3, <2>4, <2>5, SearchersKept
         DEF SameMiners, SearchOn, SameMiner
  <1>15. ASSUME NEW w \in Workers, Find(w) PROVE SearchersInv'
    <2>1. Current' = Current
      BY <1>15, CurrentStays DEF Find, shared, threads, Types, ThreadTypes
    <2>2. UNCHANGED <<lock, this, interrupted>>
      BY <1>15 DEF Find, shared, threads
    <2>3. SameMiners
      BY <1>15 DEF SameMiners, Find, shared, SameMiner
    <2>4. \A v \in Workers : v \in stale <=> v \in stale'
      BY <1>15 DEF Find, histories
    <2>5. SearchOn
      BY <1>15, <1>b
         DEF SearchOn, Find, Types, ManagerTypes, ThreadTypes, Threads, Goto, shared, threads,
             histories
    <2>6. QED
      BY <1>a, <1>b, <2>1, <2>2, <2>3, <2>4, <2>5, SearchersKept
         DEF SameMiners, SearchOn, SameMiner
  <1>16. ASSUME NEW w \in Workers, OnNewBlockFound(w) PROVE SearchersInv'
    <2>1. Current' = Current
      BY <1>16, CurrentStays DEF OnNewBlockFound, shared, threads, Types, ThreadTypes
    <2>2. UNCHANGED <<lock, this, interrupted>>
      BY <1>16 DEF OnNewBlockFound, shared, threads
    <2>3. SameMiners
      BY <1>16, <1>a, FoundEffect DEF SameMiners, SameMiner
    <2>4. \A v \in Workers : v \in stale <=> v \in stale'
      BY <1>16 DEF OnNewBlockFound, histories
    <2>5. SearchOn
      BY <1>16, <1>b
         DEF SearchOn, OnNewBlockFound, Types, ManagerTypes, ThreadTypes, Threads, Goto, shared,
             threads, histories
    <2>6. QED
      BY <1>a, <1>b, <2>1, <2>2, <2>3, <2>4, <2>5, SearchersKept
         DEF SameMiners, SearchOn, SameMiner
  <1>17. ASSUME NEW w \in Workers, PublishBlock(w) PROVE SearchersInv'
    <2>1. Current' = Current
      BY <1>17, CurrentStays DEF PublishBlock, shared, threads, Types, ThreadTypes
    <2>2. UNCHANGED <<lock, this, interrupted>>
      BY <1>17 DEF PublishBlock, shared, threads
    <2>3. SameMiners
      BY <1>17 DEF SameMiners, PublishBlock, shared, SameMiner
    <2>4. \A v \in Workers : v \in stale <=> v \in stale'
      BY <1>17 DEF PublishBlock, histories
    <2>5. SearchOn
      BY <1>17, <1>b
         DEF SearchOn, PublishBlock, Types, ManagerTypes, ThreadTypes, Threads, Goto, shared,
             threads, histories
    <2>6. QED
      BY <1>a, <1>b, <2>1, <2>2, <2>3, <2>4, <2>5, SearchersKept
         DEF SameMiners, SearchOn, SameMiner
  <1>18. ASSUME NEW w \in Workers, TearDownOwn(w) PROVE SearchersInv'
    <2>1. w \notin stale /\ pc[w] = "tearDown" /\ w \in Threads
      BY <1>18 DEF TearDownOwn, Uses, Threads
    <2>2. this[w] \in Addresses /\ Current = {this[w]}
      BY <1>c, <2>1, Own
    <2>3. Current' = Current
      BY <1>18, CurrentStays DEF TearDownOwn
    <2>4. ~miner'[this[w]].running
      BY <1>18, <2>1, <2>2, TearDownEffect
    <2>5. QED
      BY <2>2, <2>3, <2>4 DEF SearchersInv
  <1>19. ASSUME NEW w \in Workers, Abort(w) PROVE SearchersInv'
    <2>1. w \notin stale /\ pc[w] = "abort"
      BY <1>19 DEF Abort, Uses
    <2>2. PICK a : a = this[w]
      OBVIOUS
    <2>3. a \in Addresses /\ Current = {a} /\ Current' = Current
      BY <1>19, <1>c, <2>1, <2>2, Own, CurrentStays DEF Abort
    <2>4. CASE ~miner'[a].running
      BY <2>3, <2>4 DEF SearchersInv
    <2>5. CASE miner'[a].running
      <3> DEFINE all == AllAborted(a, miner[a].threadsDone + 1)
      <3>1. /\ ~all /\ miner[a].running /\ miner'[a].minerThreads = miner[a].minerThreads
            /\ miner'[a].threadsDone = miner[a].threadsDone + 1
        <4>1. /\ miner'[a].threadsDone = miner[a].threadsDone + 1
              /\ all => ~miner'[a].running
              /\ ~all => SameMiner(miner'[a], miner[a])
          BY <1>19, <2>2, AbortEffect
        <4>2. QED
          BY <2>5, <4>1 DEF SameMiner
      <3>2. /\ IsFiniteSet(miner[a].minerThreads) /\ miner[a].threadsDone = Cardinality(Ended(a))
            /\ \A v \in Workers : pc[v] # "ended" /\ this[v] = a /\ v \notin stale => v \in miner[a].minerThreads
        BY <2>3, <3>1 DEF SearchersInv
      <3>3. w \in miner[a].minerThreads /\ miner[a].minerThreads \subseteq Workers
        BY <1>a, <2>1, <2>2, <2>3, <3>2
      <3>4. pc' = [pc EXCEPT ![w] = "ended"] /\ interrupted' = interrupted
        BY <1>19, <2>2, <3>1 DEF Abort, Goto
      <3>5. Ended(a)' = Ended(a) \cup {w} /\ w \notin Ended(a)
        BY <2>1, <3>1, <3>3, <3>4 DEF Ended, Types, ThreadTypes, Threads
      <3>6. Ended(a) \subseteq miner[a].minerThreads /\ Ended(a)' \subseteq miner[a].minerThreads
        BY <3>3, <3>5 DEF Ended
      <3>7. IsFiniteSet(Ended(a))
        BY <3>2, <3>6, FS_Subset
      <3>8. IsFiniteSet(Ended(a)') /\ Cardinality(Ended(a)') = Cardinality(Ended(a)) + 1
        BY <3>5, <3>7, FS_AddElement
      <3>9. /\ Cardinality(miner[a].minerThreads) \in Nat /\ Cardinality(Ended(a)) \in Nat
            /\ Cardinality(Ended(a)') < Cardinality(miner[a].minerThreads)
        BY <3>1, <3>2, <3>7, <3>8, FS_CardinalityType DEF AllAborted
      <3>10. \E v \in miner[a].minerThreads : pc'[v] # "ended"
        <4>1. Ended(a)' # miner[a].minerThreads
          BY <3>8, <3>9
        <4>2. QED
          BY <3>1, <3>6, <4>1 DEF Ended
      <3>11. /\ \A v \in Workers : pc'[v] # "ended" => pc[v] # "ended"
             /\ \A v \in miner[a].minerThreads : pc'[v] \notin {"run", "create"}
        BY <1>b, <2>1, <2>3, <3>1, <3>3, <3>4 DEF Types, ThreadTypes, Threads
      <3>12. UNCHANGED <<this, stale>>
        BY <1>19 DEF Abort
      <3>13. miner'[a].threadsDone = Cardinality(Ended(a)')
        BY <3>1, <3>2, <3>8
      <3>14. \A v \in miner'[a].minerThreads :
                 /\ this'[v] = a /\ v \notin interrupted' /\ v \notin stale'
                 /\ pc'[v] \notin {"run", "create"}
        BY <1>b, <2>3, <3>1, <3>4, <3>11, <3>12
      <3>15. \A v \in Workers : pc'[v] # "ended" /\ this'[v] = a /\ v \notin stale' => v \in miner'[a].minerThreads
        BY <3>1, <3>2, <3>11, <3>12
      <3>16. QED
        BY <2>3, <3>1, <3>2, <3>10, <3>13, <3>14, <3>15 DEF SearchersInv
    <2>6. QED
      BY <2>4, <2>5
  <1>20. CASE UNCHANGED vars
    <2>1. Current' = Current
      BY <1>20, CurrentStays DEF vars, shared, threads, Types, ThreadTypes
    <2>2. UNCHANGED <<lock, this, interrupted>>
      BY <1>20 DEF vars, shared, threads
    <2>3. SameMiners
      BY <1>20 DEF SameMiners, vars, shared, SameMiner
    <2>4. \A v \in Workers : v \in stale <=> v \in stale'
      BY <1>20 DEF vars, histories
    <2>5. SearchOn
      BY <1>20, <1>b
         DEF SearchOn, vars, Types, ManagerTypes, ThreadTypes, Threads, Goto, shared, threads,
             histories
    <2>6. QED
      BY <1>a, <1>b, <2>1, <2>2, <2>3, <2>4, <2>5, SearchersKept
         DEF SameMiners, SearchOn, SameMiner

  <1>21. QED
    BY <1>1, <1>2, <1>3, <1>4, <1>5, <1>6, <1>7, <1>8, <1>9, <1>10, <1>11, <1>12, <1>13, <1>14,
       <1>15, <1>16, <1>17, <1>18, <1>19, <1>20
       DEF Next, Arrive, Step, Manage, Told, Mine

\* What a step does that replaces no Miner:

\* Nothing is taken out of the queue.
Growing ==
    /\ rejected \subseteq rejected' /\ ToSet(queue) \subseteq ToSet(queue')
    /\ ToSet(accepted') \subseteq ToSet(accepted) \cup ToSet(queue')

\* What a Miner that stops had is settled.
HeldSettled ==
    \A a \in Current : miner[a].running =>
        miner'[a].running \/ \A x \in miner[a].transactions : Settlement(x)'

\* A caller that has been told of a block has it on its chain.
CallersTold ==
    \A u \in Callers : pc'[u] \in {"notify", "requeue"} =>
        \/ pc[u] \in {"notify", "requeue"} /\ block'[u] = block[u]
        \/ \A x \in block'[u].transactions : InChain(x)'

\* A caller tears down a Miner of which all is settled.
CallersTear ==
    \A u \in Callers : pc'[u] = "tearDownOther" /\ u \notin stale' =>
        /\ m' \in Addresses
        /\ \/ pc[u] = "tearDownOther" /\ u \notin stale /\ m' = m
           \/ \A x \in miner[m'].transactions : Settlement(x)'

\* A worker has the transactions of its Miner.
WorkersWork ==
    \A v \in Workers : v \notin stale' /\ pc'[v] \in Working =>
        /\ this'[v] = this[v] /\ this[v] \in Addresses /\ v \notin stale
        /\ \/ pc[v] \in Working /\ block'[v] = block[v]
           \/ block'[v].transactions = miner[this[v]].transactions

\* The block of a worker is on the chain or rejected.
WorkersDecide ==
    \A v \in Workers : pc'[v] \in Published =>
        \/ pc[v] \in Published /\ block'[v] = block[v]
        \/ \A x \in block'[v].transactions : x \in rejected' \/ InChain(x)'

\* Nothing is forgotten by a step that replaces no Miner, if all these hold.
LEMMA KeptOn ==
    ASSUME Types, FlowInv, KeptInv, Extended, Unreplaced, Current' = Current,
           Growing, HeldSettled, CallersTold, CallersTear, WorkersWork, WorkersDecide
    PROVE  KeptInv'
  <1>1. \A tx : Settlement(tx) => Settlement(tx)'
    BY ChainGrows DEF Growing, Settlement
  <1>2. \A tx : (tx \in rejected \/ InChain(tx)) => tx \in rejected' \/ InChain(tx)'
    BY ChainGrows DEF Growing
  <1>3. ASSUME NEW tx \in ToSet(accepted') PROVE Settlement(tx)' \/ tx \in Held'
    <2>1. CASE tx \in ToSet(queue')
      BY <2>1 DEF Settlement
    <2>2. CASE tx \in ToSet(accepted)
      <3>1. CASE Settlement(tx)
        BY <1>1, <3>1
      <3>2. CASE tx \in Held
        <4>1. PICK a \in Current : miner[a].running /\ tx \in miner[a].transactions
          BY <3>2 DEF Held
        <4>2. CASE miner'[a].running
          <5>1. tx \in miner'[a].transactions /\ a \in Current'
            BY <4>1, CurrentIs DEF Unreplaced
          <5>2. QED
            BY <4>2, <5>1 DEF Held
        <4>3. QED
          BY <4>1, <4>2 DEF HeldSettled
      <3>3. QED
        BY <2>2, <3>1, <3>2 DEF KeptInv
    <2>3. QED
      BY <1>3, <2>1, <2>2 DEF Growing
  <1>4. \A u \in Callers : pc'[u] \in {"notify", "requeue"} =>
              \A tx \in block'[u].transactions : InChain(tx)'
    BY ChainGrows DEF CallersTold, KeptInv
  <1>5. ASSUME NEW u \in Callers, pc'[u] = "tearDownOther", u \notin stale'
        PROVE  \A tx \in miner'[m'].transactions : Settlement(tx)'
    <2>1. miner'[m'].transactions = miner[m'].transactions
      BY <1>5 DEF CallersTear, Unreplaced
    <2>2. CASE pc[u] = "tearDownOther" /\ u \notin stale /\ m' = m
      BY <1>1, <2>1, <2>2 DEF KeptInv
    <2>3. QED
      BY <1>5, <2>1, <2>2 DEF CallersTear
  <1>6. ASSUME NEW v \in Workers, v \notin stale', pc'[v] \in Working
        PROVE  block'[v].transactions = miner'[this'[v]].transactions
    BY <1>6 DEF WorkersWork, Working, KeptInv, Unreplaced
  <1>7. ASSUME NEW v \in Workers, pc'[v] \in Published
        PROVE  \A tx \in block'[v].transactions : tx \in rejected' \/ InChain(tx)'
    BY <1>2, <1>7 DEF WorkersDecide, Published, KeptInv
  <1>8. QED
    BY <1>3, <1>4, <1>5, <1>6, <1>7 DEF KeptInv, Working, Published

LEMMA Appending ==
    ASSUME Types, NEW b, chain' = Append(chain, b)
    PROVE  \A tx \in b.transactions : InChain(tx)'
  <1>1. Len(chain) + 1 \in DOMAIN chain' /\ chain'[Len(chain) + 1] = b
    BY DEF Types, ManagerTypes
  <1>2. QED
    BY <1>1 DEF InChain

\* Whoever ends a Miner has settled what it worked on.
LEMMA KeptStep ==
    ASSUME Types, FlowInv, AcceptedInv, OwnersInv, KeptInv, [Next]_vars, ~dangling'
    PROVE  KeptInv'
  <1> USE MiningAssumption
  <1>a. Extended /\ (lock' = Nobody \/ lock # Nobody => Unreplaced)
    BY Changes DEF RunOnly
  <1>b. \A v \in Workers : pc[v] # "ended" => this[v] \in Addresses
    BY DEF FlowInv, WorkersFlow
  <1>c. \A u \in Callers : pc[u] = "tearDownOther" /\ u \notin stale => m \in Addresses
    BY Own DEF Threads
  <1>d. \A a \in Current : a \in Addresses
    BY CurrentIs
  <1>1. CASE Tick
    <2>1. Current' = Current
      BY <1>1, CurrentStays DEF Tick, shared, threads, Types, ThreadTypes
    <2>2. Extended /\ Unreplaced
      BY <1>1, <1>a DEF Tick, shared
    <2>3. Growing
      BY <1>1, <1>b, <1>c DEF Growing, Tick, shared, histories
    <2>4. HeldSettled
      BY <1>1, <1>b, <1>c DEF HeldSettled, Tick, shared
    <2>5. CallersTold
      BY <1>1, <1>b, <1>c
         DEF CallersTold, Tick, Types, ManagerTypes, ThreadTypes, Threads, Goto, shared,
             threads, histories
    <2>6. CallersTear
      BY <1>1, <1>b, <1>c
         DEF CallersTear, Tick, Types, ManagerTypes, ThreadTypes, Threads, Goto, shared,
             threads, histories
    <2>7. WorkersWork
      BY <1>1, <1>b, <1>c
         DEF WorkersWork, Tick, Types, ManagerTypes, ThreadTypes, Threads, Goto, shared,
             threads, histories, Working
    <2>8. WorkersDecide
      BY <1>1, <1>b, <1>c
         DEF WorkersDecide, Tick, Types, ManagerTypes, ThreadTypes, Threads, Goto, shared,
             threads, histories, Published
    <2>9. QED
      BY <2>1, <2>2, <2>3, <2>4, <2>5, <2>6, <2>7, <2>8, KeptOn
  <1>2. ASSUME NEW t \in Callers, NEW tx \in situation.arriving, AddTransaction(t, tx)
         PROVE  KeptInv'
    <2>1. Current' = Current
      BY <1>2, CurrentStays DEF AddTransaction, shared, threads, Types, ThreadTypes
    <2>2. Extended /\ Unreplaced
      BY <1>2, <1>a DEF AddTransaction, shared
    <2>3. Growing
      <3>1. tx \in Transactions
        BY DEF Types, ManagerTypes
      <3>2. /\ queue' = Append(queue, tx) /\ accepted' = Append(accepted, tx) /\ rejected' = rejected
        BY <1>2 DEF AddTransaction
      <3>3. ToSet(queue') = ToSet(queue) \cup {tx} /\ ToSet(accepted') = ToSet(accepted) \cup {tx}
        BY <3>1, <3>2, Appended DEF Types, ManagerTypes, HistoryTypes
      <3>4. QED
        BY <3>2, <3>3 DEF Growing
    <2>4. HeldSettled
      BY <1>2, <1>b, <1>c DEF HeldSettled, AddTransaction, shared
    <2>5. CallersTold
      BY <1>2, <1>b, <1>c
         DEF CallersTold, AddTransaction, Types, ManagerTypes, ThreadTypes, Threads, Goto,
             shared, threads, histories
    <2>6. CallersTear
      BY <1>2, <1>b, <1>c
         DEF CallersTear, AddTransaction, Types, ManagerTypes, ThreadTypes, Threads, Goto,
             shared, threads, histories
    <2>7. WorkersWork
      BY <1>2, <1>b, <1>c
         DEF WorkersWork, AddTransaction, Types, ManagerTypes, ThreadTypes, Threads, Goto,
             shared, threads, histories, Working
    <2>8. WorkersDecide
      BY <1>2, <1>b, <1>c
         DEF WorkersDecide, AddTransaction, Types, ManagerTypes, ThreadTypes, Threads, Goto,
             shared, threads, histories, Published
    <2>9. QED
      BY <2>1, <2>2, <2>3, <2>4, <2>5, <2>6, <2>7, <2>8, KeptOn
  <1>3. ASSUME NEW txs \in SUBSET situation.arriving, NEW time \in 0 .. situation.time, ReceiveBlock(txs, time)
         PROVE  KeptInv'
    <2>1. Current' = Current
      BY <1>3, CurrentStays DEF ReceiveBlock, shared, threads, Types, ThreadTypes
    <2>2. Extended /\ Unreplaced
      BY <1>3, <1>a DEF ReceiveBlock, shared
    <2>3. Growing
      BY <1>3, <1>b, <1>c DEF Growing, ReceiveBlock, shared, histories
    <2>4. HeldSettled
      BY <1>3, <1>b, <1>c DEF HeldSettled, ReceiveBlock, shared
    <2>5. CallersTold
      <3> DEFINE b == [transactions |-> txs, time |-> time, own |-> FALSE]
      <3>1. chain' = Append(chain, b)
        BY <1>3 DEF ReceiveBlock
      <3>2. \A tx \in txs : InChain(tx)'
        <4>1. b.transactions = txs
          OBVIOUS
        <4> HIDE DEF b
        <4>2. QED
          BY <3>1, <4>1, Appending
      <3>3. block'[Network].transactions = txs
        BY <1>3 DEF ReceiveBlock, Types, ThreadTypes, Threads
      <3>4. \A u \in Callers : u # Network => pc'[u] = pc[u] /\ block'[u] = block[u]
        BY <1>3 DEF ReceiveBlock, Goto, Types, ThreadTypes, Threads
      <3>5. QED
        BY <3>2, <3>3, <3>4 DEF CallersTold
    <2>6. CallersTear
      BY <1>3, <1>b, <1>c
         DEF CallersTear, ReceiveBlock, Types, ManagerTypes, ThreadTypes, Threads, Goto, shared,
             threads, histories
    <2>7. WorkersWork
      BY <1>3, <1>b, <1>c
         DEF WorkersWork, ReceiveBlock, Types, ManagerTypes, ThreadTypes, Threads, Goto, shared,
             threads, histories, Working
    <2>8. WorkersDecide
      BY <1>3, <1>b, <1>c
         DEF WorkersDecide, ReceiveBlock, Types, ManagerTypes, ThreadTypes, Threads, Goto,
             shared, threads, histories, Published
    <2>9. QED
      BY <2>1, <2>2, <2>3, <2>4, <2>5, <2>6, <2>7, <2>8, KeptOn
  <1>4. ASSUME NEW w \in Workers, GiveUp(w) PROVE KeptInv'
    <2>1. Current' = Current
      BY <1>4, CurrentStays DEF GiveUp, shared, threads, Types, ThreadTypes
    <2>2. Extended /\ Unreplaced
      BY <1>4, <1>a DEF GiveUp, shared
    <2>3. Growing
      BY <1>4, <1>b, <1>c DEF Growing, GiveUp, shared, histories
    <2>4. HeldSettled
      BY <1>4, <1>b, <1>c DEF HeldSettled, GiveUp, shared
    <2>5. CallersTold
      BY <1>4, <1>b, <1>c
         DEF CallersTold, GiveUp, Types, ManagerTypes, ThreadTypes, Threads, Goto, shared,
             threads, histories
    <2>6. CallersTear
      BY <1>4, <1>b, <1>c
         DEF CallersTear, GiveUp, Types, ManagerTypes, ThreadTypes, Threads, Goto, shared,
             threads, histories
    <2>7. WorkersWork
      BY <1>4, <1>b, <1>c
         DEF WorkersWork, GiveUp, Types, ManagerTypes, ThreadTypes, Threads, Goto, shared,
             threads, histories, Working
    <2>8. WorkersDecide
      BY <1>4, <1>b, <1>c
         DEF WorkersDecide, GiveUp, Types, ManagerTypes, ThreadTypes, Threads, Goto, shared,
             threads, histories, Published
    <2>9. QED
      BY <2>1, <2>2, <2>3, <2>4, <2>5, <2>6, <2>7, <2>8, KeptOn
  <1>5. ASSUME NEW t \in Threads, RunNot(t) PROVE KeptInv'
    <2>1. (t \in Workers => then[t] = "ended") /\ (t \in Callers => then[t] = "idle")
      BY <1>5 DEF RunNot, OwnersInv, WorkersEnd, FlowInv, CallersFlow
    <2>2. Current' = Current
      BY <1>5, CurrentStays DEF RunNot, shared, threads, Types, ThreadTypes
    <2>3. Extended /\ Unreplaced
      BY <1>5, <1>a DEF RunNot, shared
    <2>4. Growing
      BY <1>5, <1>b, <1>c DEF Growing, RunNot, shared, histories
    <2>5. HeldSettled
      BY <1>5, <1>b, <1>c DEF HeldSettled, RunNot, shared
    <2>6. CallersTold
      BY <1>5, <1>b, <1>c, <2>1
         DEF CallersTold, RunNot, Types, ManagerTypes, ThreadTypes, Threads, Goto, shared,
             threads, histories, Working, Published
    <2>7. CallersTear
      BY <1>5, <1>b, <1>c, <2>1
         DEF CallersTear, RunNot, Types, ManagerTypes, ThreadTypes, Threads, Goto, shared,
             threads, histories, Working, Published
    <2>8. WorkersWork
      BY <1>5, <1>b, <1>c, <2>1
         DEF WorkersWork, RunNot, Types, ManagerTypes, ThreadTypes, Threads, Goto, shared,
             threads, histories, Working, Published
    <2>9. WorkersDecide
      BY <1>5, <1>b, <1>c, <2>1
         DEF WorkersDecide, RunNot, Types, ManagerTypes, ThreadTypes, Threads, Goto, shared,
             threads, histories, Working, Published
    <2>10. QED
      BY <2>2, <2>3, <2>4, <2>5, <2>6, <2>7, <2>8, <2>9, KeptOn
  <1>6. ASSUME NEW t \in Threads, Run(t) PROVE KeptInv'
    <2>1. PICK a : a = target'[t]
      OBVIOUS
    <2>2. /\ Current = (IF m = Nobody THEN {} ELSE {m})
          /\ Current' = {a} /\ a \in Addresses /\ miner'[a] = NewMiner(ForBlock)
      BY <1>6, <2>1, CurrentRun DEF Types, ManagerTypes
    <2>3. /\ UNCHANGED <<chain, block, accepted, rejected>> /\ (m # Nobody => ~miner[m].running)
          /\ queue' = Remaining
      BY <1>6 DEF Run
    <2>4. /\ \A v \in Workers : pc[v] # "ended" => v \in stale'
          /\ \A u \in Threads : pc[u] \in {"requeue", "tearDownOther"} => u \in stale'
      BY <1>6, Strangers
    <2>5. \A u \in Threads : pc'[u] # "create" => pc'[u] = pc[u]
      BY <1>6 DEF Run, Goto, Types, ThreadTypes
    <2>6. ASSUME NEW tx \in ToSet(accepted') PROVE Settlement(tx)' \/ tx \in Held'
      <3>1. tx \notin Held
        BY <2>2, <2>3 DEF Held
      <3>2. tx \in ToSet(accepted)
        BY <2>3
      <3>3. Settlement(tx)
        BY <3>1, <3>2 DEF KeptInv
      <3>4. CASE tx \in ForBlock
        <4>1. tx \in miner'[a].transactions /\ miner'[a].running
          BY <2>2, <3>4 DEF NewMiner
        <4>2. QED
          BY <2>2, <4>1 DEF Held
      <3>5. CASE tx \notin ForBlock
        <4>1. tx \in ToSet(queue) => tx \in ToSet(queue')
          BY <2>3, <3>5, Divided DEF Types, ManagerTypes
        <4>2. QED
          BY <2>3, <3>3, <4>1 DEF Settlement, InChain
      <3>6. QED
        BY <3>4, <3>5
    <2>7. \A u \in Callers : pc'[u] \in {"notify", "requeue"} =>
              \A tx \in block'[u].transactions : InChain(tx)'
      BY <2>3, <2>5 DEF KeptInv, Threads, InChain
    <2>8. \A u \in Callers : pc'[u] = "tearDownOther" => u \in stale'
      BY <2>4, <2>5 DEF Threads
    <2>9. \A v \in Workers : pc'[v] \in Working => v \in stale'
      BY <2>4, <2>5 DEF Threads, Working
    <2>10. \A v \in Workers : pc'[v] \in Published =>
               \A tx \in block'[v].transactions : tx \in rejected' \/ InChain(tx)'
      BY <2>3, <2>5 DEF KeptInv, Threads, InChain, Published
    <2>11. QED
      BY <2>6, <2>7, <2>8, <2>9, <2>10 DEF KeptInv, Working, Published
  <1>7. ASSUME NEW t \in Threads, NEW w \in Workers, CreateThread(t, w) PROVE KeptInv'
    <2>1. /\ Current = {target[t]} /\ Current' = Current /\ target[t] \in Addresses /\ t # w
          /\ lock = t /\ lock # Nobody
      BY <1>7, CurrentCreate
    <2>2. /\ this' = [this EXCEPT ![w] = target[t]] /\ stale' = stale \ {w}
          /\ UNCHANGED <<queue, block, rejected, accepted>> /\ pc[t] = "create" /\ pc[w] = "ended"
          /\ pc'[w] = "time" /\ pc'[t] \in {then[t], pc[t]}
          /\ \A u \in Threads : u # t /\ u # w => pc'[u] = pc[u]
      BY <1>7, <2>1 DEF CreateThread, Types, ThreadTypes, Threads
    <2>3. (t \in Workers => then[t] = "ended") /\ (t \in Callers => then[t] = "idle")
      BY <2>2 DEF OwnersInv, WorkersEnd, FlowInv, CallersFlow
    <2>4. m \notin Addresses
      BY <2>1 DEF FlowInv, LockFlow
    <2>5. Current' = Current
      BY <2>1
    <2>6. Extended /\ Unreplaced
      BY <1>a, <2>1
    <2>7. Growing
      BY <2>2 DEF Growing
    <2>8. HeldSettled
      BY <1>7, <2>1, CreateEffect DEF HeldSettled
    <2>9. CallersTold
      BY <2>2, <2>3 DEF CallersTold, Threads
    <2>10. CallersTear
      BY <1>c, <2>2, <2>3, <2>4 DEF CallersTear, Threads
    <2>11. WorkersWork
      BY <1>b, <2>2, <2>3 DEF WorkersWork, Types, ThreadTypes, Threads, Working
    <2>12. WorkersDecide
      BY <2>2, <2>3 DEF WorkersDecide, Threads, Published
    <2>13. QED
      BY <2>5, <2>6, <2>7, <2>8, <2>9, <2>10, <2>11, <2>12, KeptOn
  <1>8. ASSUME NEW t \in Threads, Notify(t) PROVE KeptInv'
    <2>1. Current' = Current
      BY <1>8, CurrentStays DEF Notify, shared, threads, Types, ThreadTypes
    <2>2. Extended /\ Unreplaced
      BY <1>8, <1>a DEF Notify, shared
    <2>3. Growing
      BY <1>8, <1>b, <1>c DEF Growing, Notify, shared, histories
    <2>4. HeldSettled
      BY <1>8, <1>b, <1>c DEF HeldSettled, Notify, shared
    <2>5. CallersTold
      BY <1>8
         DEF CallersTold, Notify, Types, ManagerTypes, ThreadTypes, Threads, Goto, shared,
             threads, histories, FlowInv, CallersFlow
    <2>6. CallersTear
      BY <1>8, <1>c
         DEF CallersTear, Notify, Types, ManagerTypes, ThreadTypes, Threads, Goto, shared,
             threads, histories, FlowInv, CallersFlow
    <2>7. WorkersWork
      <3>1. UNCHANGED <<this, block>> /\ pc[t] = "notify" /\ (t \in Workers => stale' = stale)
        BY <1>8 DEF Notify
      <3>2. \A v \in Workers : pc'[v] # pc[v] => v = t
        BY <1>8 DEF Notify, Goto, Types, ThreadTypes, Threads
      <3>3. \A v \in Workers : v \in stale <=> v \in stale'
        BY <1>8 DEF Notify
      <3>4. QED
        BY <1>b, <3>1, <3>2, <3>3 DEF WorkersWork, Working
    <2>8. WorkersDecide
      <3>1. UNCHANGED block /\ pc[t] = "notify"
        BY <1>8 DEF Notify
      <3>2. \A v \in Workers : pc'[v] # pc[v] => v = t
        BY <1>8 DEF Notify, Goto, Types, ThreadTypes, Threads
      <3>3. QED
        BY <3>1, <3>2 DEF WorkersDecide, Published
    <2>9. QED
      BY <2>1, <2>2, <2>3, <2>4, <2>5, <2>6, <2>7, <2>8, KeptOn
  <1>9. ASSUME NEW t \in Threads, Requeue(t) PROVE KeptInv'
    <2>1. /\ t \notin stale /\ pc[t] = "requeue"
          /\ UNCHANGED <<m, miner, this, block, stale, rejected, accepted, chain, lock>>
      BY <1>9 DEF Requeue, Uses
    <2>2. target[t] = m /\ m \in Addresses
      BY <2>1, Own
    <2>3. (t \in Workers => then[t] = "tearDown") /\ (t \in Callers => then[t] = "idle")
      BY <2>1 DEF FlowInv, WorkersFlow, CallersFlow
    <2>4. \/ pc' = [pc EXCEPT ![t] = then[t]] /\ queue' = queue
          \/ /\ pc' = [pc EXCEPT ![t] = "tearDownOther"]
             /\ queue' = ReAdded(NotInBlock(miner[m].transactions, block[t].transactions))
      BY <1>9, <2>2 DEF Requeue, Goto
    <2>5. ToSet(ReAdded(NotInBlock(miner[m].transactions, block[t].transactions)))
             = ToSet(queue) \cup {tx \in miner[m].transactions \ block[t].transactions : Verify(tx)}
      <3>1. NotInBlock(miner[m].transactions, block[t].transactions) \subseteq ToSet(accepted)
        BY <2>2 DEF AcceptedInv, NotInBlock
      <3>2. QED
        BY <3>1, Restored DEF Types, ManagerTypes, HistoryTypes, NotInBlock
    <2>6. Current' = Current
      BY <1>9, CurrentStays DEF Requeue, shared, threads, Types, ThreadTypes
    <2>7. Extended /\ Unreplaced
      BY <1>9, <1>a DEF Requeue, shared
    <2>8. Growing
      BY <2>1, <2>4, <2>5 DEF Growing
    <2>9. HeldSettled
      BY <2>1 DEF HeldSettled
    <2>10. CallersTold
      BY <2>1, <2>3, <2>4 DEF CallersTold, Types, ThreadTypes, Threads
    <2>11. CallersTear
      <3>1. CASE pc'[t] = "tearDownOther" /\ t \in Callers
        <4>1. queue' = ReAdded(NotInBlock(miner[m].transactions, block[t].transactions))
          BY <2>1, <2>3, <2>4, <3>1 DEF Types, ThreadTypes
        <4>2. ASSUME NEW tx \in miner[m].transactions PROVE Settlement(tx)'
          <5>1. CASE tx \in block[t].transactions
            <6>1. InChain(tx)
              BY <2>1, <3>1, <5>1 DEF KeptInv
            <6>2. QED
              BY <2>1, <6>1 DEF Settlement, InChain
          <5>2. CASE tx \notin block[t].transactions
            <6>1. Verify(tx)
              BY <2>2 DEF AcceptedInv
            <6>2. tx \in ToSet(queue')
              BY <2>5, <4>1, <5>2, <6>1
            <6>3. QED
              BY <6>2 DEF Settlement
          <5>3. QED
            BY <5>1, <5>2
        <4>3. \A u \in Callers : u # t => pc'[u] = pc[u]
          BY <2>4 DEF Types, ThreadTypes, Threads
        <4>4. QED
          BY <2>1, <2>2, <4>2, <4>3 DEF CallersTear
      <3>2. CASE ~(pc'[t] = "tearDownOther" /\ t \in Callers)
        BY <1>c, <2>1, <2>4, <3>2 DEF CallersTear, Types, ThreadTypes, Threads
      <3>3. QED
        BY <3>1, <3>2
    <2>12. WorkersWork
      BY <1>b, <2>1, <2>3, <2>4 DEF WorkersWork, Types, ThreadTypes, Threads, Working
    <2>13. WorkersDecide
      BY <2>1, <2>3, <2>4 DEF WorkersDecide, Types, ThreadTypes, Threads, Published
    <2>14. QED
      BY <2>6, <2>7, <2>8, <2>9, <2>10, <2>11, <2>12, <2>13, KeptOn
  <1>10. ASSUME NEW t \in Threads, TearDownOther(t) PROVE KeptInv'
    <2>1. t \notin stale /\ pc[t] = "tearDownOther"
      BY <1>10 DEF TearDownOther, Uses
    <2>2. target[t] = m /\ m \in Addresses /\ Current = {m}
      BY <2>1, Own
    <2>3. t \in Callers
      BY <2>1 DEF OwnersInv, WorkersEnd, Threads
    <2>4. Current' = Current
      BY <1>10, CurrentStays DEF TearDownOther
    <2>5. Extended /\ Unreplaced
      BY <1>10, <1>a DEF TearDownOther, shared
    <2>6. Growing
      BY <1>10, <1>b, <1>c DEF Growing, TearDownOther, shared, histories
    <2>7. HeldSettled
      <3>1. \A tx \in miner[m].transactions : Settlement(tx)
        BY <2>1, <2>3 DEF KeptInv
      <3>2. UNCHANGED <<queue, rejected, chain>>
        BY <1>10 DEF TearDownOther
      <3>3. QED
        BY <2>2, <3>1, <3>2 DEF HeldSettled, Settlement, InChain
    <2>8. CallersTold
      BY <1>10, <1>b, <1>c
         DEF CallersTold, TearDownOther, Types, ManagerTypes, ThreadTypes, Threads, Goto,
             shared, threads, histories
    <2>9. CallersTear
      BY <1>10, <1>b, <1>c
         DEF CallersTear, TearDownOther, Types, ManagerTypes, ThreadTypes, Threads, Goto,
             shared, threads, histories
    <2>10. WorkersWork
      BY <1>10, <1>b, <1>c
         DEF WorkersWork, TearDownOther, Types, ManagerTypes, ThreadTypes, Threads, Goto,
             shared, threads, histories, Working
    <2>11. WorkersDecide
      BY <1>10, <1>b, <1>c
         DEF WorkersDecide, TearDownOther, Types, ManagerTypes, ThreadTypes, Threads, Goto,
             shared, threads, histories, Published
    <2>12. QED
      BY <2>4, <2>5, <2>6, <2>7, <2>8, <2>9, <2>10, <2>11, KeptOn
  <1>11. ASSUME NEW w \in Workers, ReadTime(w) PROVE KeptInv'
    <2>1. Current' = Current
      BY <1>11, CurrentStays DEF ReadTime, shared, threads, Types, ThreadTypes
    <2>2. Extended /\ Unreplaced
      BY <1>11, <1>a DEF ReadTime, shared
    <2>3. Growing
      BY <1>11, <1>b, <1>c DEF Growing, ReadTime, shared, histories
    <2>4. HeldSettled
      BY <1>11, <1>b, <1>c DEF HeldSettled, ReadTime, shared
    <2>5. CallersTold
      BY <1>11, <1>b, <1>c
         DEF CallersTold, ReadTime, Types, ManagerTypes, ThreadTypes, Threads, Goto, shared,
             threads, histories
    <2>6. CallersTear
      BY <1>11, <1>b, <1>c
         DEF CallersTear, ReadTime, Types, ManagerTypes, ThreadTypes, Threads, Goto, shared,
             threads, histories
    <2>7. WorkersWork
      BY <1>11, <1>b, <1>c
         DEF WorkersWork, ReadTime, Types, ManagerTypes, ThreadTypes, Threads, Goto, shared,
             threads, histories, Working
    <2>8. WorkersDecide
      BY <1>11, <1>b, <1>c
         DEF WorkersDecide, ReadTime, Types, ManagerTypes, ThreadTypes, Threads, Goto, shared,
             threads, histories, Published
    <2>9. QED
      BY <2>1, <2>2, <2>3, <2>4, <2>5, <2>6, <2>7, <2>8, KeptOn
  <1>12. ASSUME NEW w \in Workers, ReadLatestBlock(w) PROVE KeptInv'
    <2>1. Current' = Current
      BY <1>12, CurrentStays DEF ReadLatestBlock, shared, threads, Types, ThreadTypes
    <2>2. Extended /\ Unreplaced
      BY <1>12, <1>a DEF ReadLatestBlock, shared
    <2>3. Growing
      BY <1>12, <1>b, <1>c DEF Growing, ReadLatestBlock, shared, histories
    <2>4. HeldSettled
      BY <1>12, <1>b, <1>c DEF HeldSettled, ReadLatestBlock, shared
    <2>5. CallersTold
      BY <1>12, <1>b, <1>c
         DEF CallersTold, ReadLatestBlock, Types, ManagerTypes, ThreadTypes, Threads, Goto,
             shared, threads, histories
    <2>6. CallersTear
      BY <1>12, <1>b, <1>c
         DEF CallersTear, ReadLatestBlock, Types, ManagerTypes, ThreadTypes, Threads, Goto,
             shared, threads, histories
    <2>7. WorkersWork
      BY <1>12, <1>b, <1>c
         DEF WorkersWork, ReadLatestBlock, Types, ManagerTypes, ThreadTypes, Threads, Goto,
             shared, threads, histories, Working
    <2>8. WorkersDecide
      BY <1>12, <1>b, <1>c
         DEF WorkersDecide, ReadLatestBlock, Types, ManagerTypes, ThreadTypes, Threads, Goto,
             shared, threads, histories, Published
    <2>9. QED
      BY <2>1, <2>2, <2>3, <2>4, <2>5, <2>6, <2>7, <2>8, KeptOn
  <1>13. ASSUME NEW w \in Workers, CopyTransactions(w) PROVE KeptInv'
    <2>1. Current' = Current
      BY <1>13, CurrentStays DEF CopyTransactions, shared, threads, Types, ThreadTypes
    <2>2. Extended /\ Unreplaced
      BY <1>13, <1>a DEF CopyTransactions, shared
    <2>3. Growing
      BY <1>13, <1>b, <1>c DEF Growing, CopyTransactions, shared, histories
    <2>4. HeldSettled
      BY <1>13, <1>b, <1>c DEF HeldSettled, CopyTransactions, shared
    <2>5. CallersTold
      BY <1>13, <1>b, <1>c
         DEF CallersTold, CopyTransactions, Types, ManagerTypes, ThreadTypes, Threads, Goto,
             shared, threads, histories
    <2>6. CallersTear
      BY <1>13, <1>b, <1>c
         DEF CallersTear, CopyTransactions, Types, ManagerTypes, ThreadTypes, Threads, Goto,
             shared, threads, histories
    <2>7. WorkersWork
      <3>1. w \notin stale /\ pc[w] = "copy" /\ UNCHANGED <<this, stale>>
        BY <1>13 DEF CopyTransactions, Uses
      <3>2. block[w] \in BlockOf
        BY DEF Types, ThreadTypes, Threads
      <3>3. block'[w] = [block[w] EXCEPT !.transactions = miner[this[w]].transactions]
        BY <1>13 DEF CopyTransactions, Types, ThreadTypes, Threads
      <3>4. block'[w].transactions = miner[this[w]].transactions
        BY <3>2, <3>3 DEF BlockOf
      <3>5. \A v \in Workers : v # w => pc'[v] = pc[v] /\ block'[v] = block[v]
        BY <1>13 DEF CopyTransactions, Goto, Types, ThreadTypes, Threads
      <3>6. QED
        BY <1>b, <3>1, <3>4, <3>5 DEF WorkersWork, Working
    <2>8. WorkersDecide
      BY <1>13, <1>b, <1>c
         DEF WorkersDecide, CopyTransactions, Types, ManagerTypes, ThreadTypes, Threads, Goto,
             shared, threads, histories, Published
    <2>9. QED
      BY <2>1, <2>2, <2>3, <2>4, <2>5, <2>6, <2>7, <2>8, KeptOn
  <1>14. ASSUME NEW w \in Workers, Interrupt(w) PROVE KeptInv'
    <2>1. Current' = Current
      BY <1>14, CurrentStays DEF Interrupt, shared, threads, Types, ThreadTypes
    <2>2. Extended /\ Unreplaced
      BY <1>14, <1>a DEF Interrupt, shared
    <2>3. Growing
      BY <1>14, <1>b, <1>c DEF Growing, Interrupt, shared, histories
    <2>4. HeldSettled
      BY <1>14, <1>b, <1>c DEF HeldSettled, Interrupt, shared
    <2>5. CallersTold
      BY <1>14, <1>b, <1>c
         DEF CallersTold, Interrupt, Types, ManagerTypes, ThreadTypes, Threads, Goto, shared,
             threads, histories
    <2>6. CallersTear
      BY <1>14, <1>b, <1>c
         DEF CallersTear, Interrupt, Types, ManagerTypes, ThreadTypes, Threads, Goto, shared,
             threads, histories
    <2>7. WorkersWork
      BY <1>14, <1>b, <1>c
         DEF WorkersWork, Interrupt, Types, ManagerTypes, ThreadTypes, Threads, Goto, shared,
             threads, histories, Working
    <2>8. WorkersDecide
      BY <1>14, <1>b, <1>c
         DEF WorkersDecide, Interrupt, Types, ManagerTypes, ThreadTypes, Threads, Goto, shared,
             threads, histories, Published
    <2>9. QED
      BY <2>1, <2>2, <2>3, <2>4, <2>5, <2>6, <2>7, <2>8, KeptOn
  <1>15. ASSUME NEW w \in Workers, Find(w) PROVE KeptInv'
    <2>1. Current' = Current
      BY <1>15, CurrentStays DEF Find, shared, threads, Types, ThreadTypes
    <2>2. Extended /\ Unreplaced
      BY <1>15, <1>a DEF Find, shared
    <2>3. Growing
      BY <1>15, <1>b, <1>c DEF Growing, Find, shared, histories
    <2>4. HeldSettled
      BY <1>15, <1>b, <1>c DEF HeldSettled, Find, shared
    <2>5. CallersTold
      BY <1>15, <1>b, <1>c
         DEF CallersTold, Find, Types, ManagerTypes, ThreadTypes, Threads, Goto, shared,
             threads, histories
    <2>6. CallersTear
      BY <1>15, <1>b, <1>c
         DEF CallersTear, Find, Types, ManagerTypes, ThreadTypes, Threads, Goto, shared,
             threads, histories
    <2>7. WorkersWork
      BY <1>15, <1>b, <1>c
         DEF WorkersWork, Find, Types, ManagerTypes, ThreadTypes, Threads, Goto, shared,
             threads, histories, Working
    <2>8. WorkersDecide
      BY <1>15, <1>b, <1>c
         DEF WorkersDecide, Find, Types, ManagerTypes, ThreadTypes, Threads, Goto, shared,
             threads, histories, Published
    <2>9. QED
      BY <2>1, <2>2, <2>3, <2>4, <2>5, <2>6, <2>7, <2>8, KeptOn
  <1>16. ASSUME NEW w \in Workers, OnNewBlockFound(w) PROVE KeptInv'
    <2>1. Current' = Current
      BY <1>16, CurrentStays DEF OnNewBlockFound, shared, threads, Types, ThreadTypes
    <2>2. Extended /\ Unreplaced
      BY <1>16, <1>a DEF OnNewBlockFound, shared
    <2>3. Growing
      BY <1>16, <1>b, <1>c DEF Growing, OnNewBlockFound, shared, histories
    <2>4. HeldSettled
      BY <1>16, <1>d, FoundEffect DEF HeldSettled, SameMiner
    <2>5. CallersTold
      BY <1>16, <1>b, <1>c
         DEF CallersTold, OnNewBlockFound, Types, ManagerTypes, ThreadTypes, Threads, Goto,
             shared, threads, histories
    <2>6. CallersTear
      BY <1>16, <1>b, <1>c
         DEF CallersTear, OnNewBlockFound, Types, ManagerTypes, ThreadTypes, Threads, Goto,
             shared, threads, histories
    <2>7. WorkersWork
      BY <1>16, <1>b, <1>c
         DEF WorkersWork, OnNewBlockFound, Types, ManagerTypes, ThreadTypes, Threads, Goto,
             shared, threads, histories, Working
    <2>8. WorkersDecide
      BY <1>16, <1>b, <1>c
         DEF WorkersDecide, OnNewBlockFound, Types, ManagerTypes, ThreadTypes, Threads, Goto,
             shared, threads, histories, Published
    <2>9. QED
      BY <2>1, <2>2, <2>3, <2>4, <2>5, <2>6, <2>7, <2>8, KeptOn
  <1>17. ASSUME NEW w \in Workers, PublishBlock(w) PROVE KeptInv'
    <2>1. Current' = Current
      BY <1>17, CurrentStays DEF PublishBlock, shared, threads, Types, ThreadTypes
    <2>2. Extended /\ Unreplaced
      BY <1>17, <1>a DEF PublishBlock, shared
    <2>3. Growing
      BY <1>17, <1>b, <1>c DEF Growing, PublishBlock, shared, histories
    <2>4. HeldSettled
      BY <1>17, <1>b, <1>c DEF HeldSettled, PublishBlock, shared
    <2>5. CallersTold
      BY <1>17, <1>b, <1>c
         DEF CallersTold, PublishBlock, Types, ManagerTypes, ThreadTypes, Threads, Goto, shared,
             threads, histories
    <2>6. CallersTear
      BY <1>17, <1>b, <1>c
         DEF CallersTear, PublishBlock, Types, ManagerTypes, ThreadTypes, Threads, Goto, shared,
             threads, histories
    <2>7. WorkersWork
      BY <1>17, <1>b, <1>c
         DEF WorkersWork, PublishBlock, Types, ManagerTypes, ThreadTypes, Threads, Goto, shared,
             threads, histories, Working
    <2>8. WorkersDecide
      <3>1. UNCHANGED block /\ \A v \in Workers : v # w => pc'[v] = pc[v]
        BY <1>17 DEF PublishBlock, Goto, Types, ThreadTypes, Threads
      <3>2. CASE Acceptable(block[w])
        <4> DEFINE b == [transactions |-> block[w].transactions, time |-> block[w].time, own |-> TRUE]
        <4>1. chain' = Append(chain, b)
          BY <1>17, <3>2 DEF PublishBlock
        <4>2. b.transactions = block[w].transactions
          OBVIOUS
        <4>3. \A tx \in block[w].transactions : InChain(tx)'
          <5> HIDE DEF b
          <5> QED
            BY <4>1, <4>2, Appending
        <4>4. QED
          BY <3>1, <4>3 DEF WorkersDecide
      <3>3. CASE ~Acceptable(block[w])
        <4>1. rejected' = rejected \cup block[w].transactions
          BY <1>17, <3>3 DEF PublishBlock
        <4>2. QED
          BY <3>1, <4>1 DEF WorkersDecide
      <3>4. QED
        BY <3>2, <3>3
    <2>9. QED
      BY <2>1, <2>2, <2>3, <2>4, <2>5, <2>6, <2>7, <2>8, KeptOn
  <1>18. ASSUME NEW w \in Workers, TearDownOwn(w) PROVE KeptInv'
    <2>1. w \notin stale /\ pc[w] = "tearDown"
      BY <1>18 DEF TearDownOwn, Uses
    <2>2. Current = {this[w]}
      BY <2>1, Own
    <2>3. Current' = Current
      BY <1>18, CurrentStays DEF TearDownOwn
    <2>4. Extended /\ Unreplaced
      BY <1>18, <1>a DEF TearDownOwn, shared
    <2>5. Growing
      BY <1>18, <1>b, <1>c DEF Growing, TearDownOwn, shared, histories
    <2>6. HeldSettled
      <3>1. \A tx \in miner[this[w]].transactions : tx \in rejected \/ InChain(tx)
        BY <2>1 DEF KeptInv, Working, Published
      <3>2. UNCHANGED <<rejected, chain>>
        BY <1>18 DEF TearDownOwn
      <3>3. QED
        BY <2>2, <3>1, <3>2 DEF HeldSettled, Settlement, InChain
    <2>7. CallersTold
      BY <1>18, <1>b, <1>c
         DEF CallersTold, TearDownOwn, Types, ManagerTypes, ThreadTypes, Threads, Goto, shared,
             threads, histories
    <2>8. CallersTear
      BY <1>18, <1>b, <1>c
         DEF CallersTear, TearDownOwn, Types, ManagerTypes, ThreadTypes, Threads, Goto, shared,
             threads, histories
    <2>9. WorkersWork
      BY <1>18, <1>b, <1>c
         DEF WorkersWork, TearDownOwn, Types, ManagerTypes, ThreadTypes, Threads, Goto, shared,
             threads, histories, Working
    <2>10. WorkersDecide
      BY <1>18, <1>b, <1>c
         DEF WorkersDecide, TearDownOwn, Types, ManagerTypes, ThreadTypes, Threads, Goto,
             shared, threads, histories, Published
    <2>11. QED
      BY <2>3, <2>4, <2>5, <2>6, <2>7, <2>8, <2>9, <2>10, KeptOn
  <1>19. ASSUME NEW w \in Workers, Abort(w) PROVE KeptInv'
    <2>1. w \notin stale /\ pc[w] = "abort"
      BY <1>19 DEF Abort, Uses
    <2>2. Current = {this[w]} /\ this[w] \in Addresses
      BY <1>b, <2>1, Own
    <2>3. UNCHANGED <<m, this, block, stale, rejected, accepted, chain>>
      BY <1>19 DEF Abort
    <2>4. \/ pc' = [pc EXCEPT ![w] = "run"] /\ queue' = ReAdded(PutBack(this[w]))
          \/ /\ pc' = [pc EXCEPT ![w] = "ended"] /\ queue' = queue
             /\ ~AllAborted(this[w], miner[this[w]].threadsDone + 1)
      BY <1>19 DEF Abort, Goto
    <2>5. /\ \A tx \in miner[this[w]].transactions : tx \in ToSet(ReAdded(PutBack(this[w])))
          /\ ToSet(queue) \subseteq ToSet(ReAdded(PutBack(this[w])))
      <3>1. miner[this[w]].transactions \subseteq ToSet(accepted)
        BY <2>2 DEF AcceptedInv
      <3>2. ToSet(ReAdded(PutBack(this[w]))) = ToSet(queue) \cup {tx \in miner[this[w]].transactions : Verify(tx)}
        BY <3>1, Restored DEF Types, ManagerTypes, HistoryTypes, PutBack
      <3>3. QED
        BY <3>1, <3>2 DEF AcceptedInv
    <2>6. Current' = Current
      BY <1>19, CurrentStays DEF Abort
    <2>7. Extended /\ Unreplaced
      BY <1>19, <1>a DEF Abort, shared
    <2>8. Growing
      BY <2>3, <2>4, <2>5 DEF Growing
    <2>9. HeldSettled
      <3>1. CASE queue' = ReAdded(PutBack(this[w]))
        BY <2>2, <2>5, <3>1 DEF HeldSettled, Settlement
      <3>2. CASE ~AllAborted(this[w], miner[this[w]].threadsDone + 1)
        <4>1. SameMiner(miner'[this[w]], miner[this[w]])
          BY <1>19, <3>2, AbortEffect
        <4>2. QED
          BY <2>2, <4>1 DEF HeldSettled, SameMiner
      <3>3. QED
        BY <2>4, <3>1, <3>2 DEF HeldSettled
    <2>10. CallersTold
      BY <2>3, <2>4 DEF CallersTold, Types, ThreadTypes, Threads
    <2>11. CallersTear
      BY <1>c, <2>3, <2>4 DEF CallersTear, Types, ThreadTypes, Threads
    <2>12. WorkersWork
      BY <1>b, <2>3, <2>4 DEF WorkersWork, Types, ThreadTypes, Threads, Working
    <2>13. WorkersDecide
      BY <2>3, <2>4 DEF WorkersDecide, Types, ThreadTypes, Threads, Published
    <2>14. QED
      BY <2>6, <2>7, <2>8, <2>9, <2>10, <2>11, <2>12, <2>13, KeptOn
  <1>20. CASE UNCHANGED vars
    <2>1. Current' = Current
      BY <1>20, CurrentStays DEF vars, shared, threads, Types, ThreadTypes
    <2>2. Extended /\ Unreplaced
      BY <1>20, <1>a DEF vars, shared
    <2>3. Growing
      BY <1>20, <1>b, <1>c DEF Growing, vars, shared, histories
    <2>4. HeldSettled
      BY <1>20, <1>b, <1>c DEF HeldSettled, vars, shared
    <2>5. CallersTold
      BY <1>20, <1>b, <1>c
         DEF CallersTold, vars, Types, ManagerTypes, ThreadTypes, Threads, Goto, shared,
             threads, histories
    <2>6. CallersTear
      BY <1>20, <1>b, <1>c
         DEF CallersTear, vars, Types, ManagerTypes, ThreadTypes, Threads, Goto, shared,
             threads, histories
    <2>7. WorkersWork
      BY <1>20, <1>b, <1>c
         DEF WorkersWork, vars, Types, ManagerTypes, ThreadTypes, Threads, Goto, shared,
             threads, histories, Working
    <2>8. WorkersDecide
      BY <1>20, <1>b, <1>c
         DEF WorkersDecide, vars, Types, ManagerTypes, ThreadTypes, Threads, Goto, shared,
             threads, histories, Published
    <2>9. QED
      BY <2>1, <2>2, <2>3, <2>4, <2>5, <2>6, <2>7, <2>8, KeptOn

  <1>21. QED
    BY <1>1, <1>2, <1>3, <1>4, <1>5, <1>6, <1>7, <1>8, <1>9, <1>10, <1>11, <1>12, <1>13, <1>14,
       <1>15, <1>16, <1>17, <1>18, <1>19, <1>20
       DEF Next, Arrive, Step, Manage, Told, Mine

\* Steps that put back what the Miner there is had, or nothing
LEMMA OrderKept ==
    ASSUME Types, FlowInv, OrderInv, Current' = Current, Unreplaced, UNCHANGED <<accepted, chain>>,
           \A w \in Workers : Mining(w)' => Mining(w) /\ block'[w] = block[w],
           queue' # queue =>
               \E a \in Current, front \in Seq(Transactions) :
                   queue' = front \o queue /\ ToSet(front) \subseteq miner[a].transactions
    PROVE  OrderInv'
  <1> SUFFICES ASSUME NEW u \in Transactions, NEW v \in Transactions, Earlier(u, v)
               PROVE  QueueOrder(u, v)' /\ TakenLast(u, v)' /\ Apart(u, v)' /\ ChainOrder(u, v)'
    BY DEF OrderInv, Earlier
  <1>1. QueueOrder(u, v) /\ TakenLast(u, v) /\ Apart(u, v) /\ ChainOrder(u, v)
    BY DEF OrderInv
  <1>2. \A tx : OwnBlock(tx)' = OwnBlock(tx)
    BY DEF OwnBlock
  <1>3. Taken(v)' => Taken(v)
    BY <1>2, CurrentIs DEF Taken, Unreplaced
  <1>4. \A a \in Current : miner'[a].transactions = miner[a].transactions
    BY CurrentIs DEF Unreplaced
  <1>5. Apart(u, v)'
    BY <1>1, <1>2 DEF Apart
  <1>6. ChainOrder(u, v)'
    BY <1>1, <1>2 DEF ChainOrder
  <1>7. CASE queue' = queue
    <2>1. QueueOrder(u, v)'
      BY <1>1, <1>7 DEF QueueOrder
    <2>2. TakenLast(u, v)'
      BY <1>1, <1>3, <1>4, <1>7 DEF TakenLast
    <2>3. QED
      BY <1>5, <1>6, <2>1, <2>2
  <1>8. CASE queue' # queue
    <2>1. PICK a \in Current, front \in Seq(Transactions) :
              queue' = front \o queue /\ ToSet(front) \subseteq miner[a].transactions
      BY <1>8
    <2>2. queue \in Seq(Transactions)
      BY DEF Types, ManagerTypes
    <2>3. ToSet(queue') = ToSet(front) \cup ToSet(queue)
      BY <2>1, <2>2, Concatenated
    <2>4. TakenLast(u, v)'
      BY <1>1, <1>3, <1>4, <2>1, <2>3 DEF TakenLast
    <2>5. v \in ToSet(front) => u \notin ToSet(queue) /\ u \notin ToSet(front)
      BY <1>1, <2>1 DEF TakenLast, Taken
    <2>6. ASSUME NEW i \in DOMAIN queue', NEW j \in DOMAIN queue', queue'[i] = u, queue'[j] = v
          PROVE  i < j
      <3> DEFINE n == Len(front)
      <3>1. /\ DOMAIN queue' = 1 .. n + Len(queue) /\ n \in Nat /\ Len(queue) \in Nat
            /\ \A k \in 1 .. n : queue'[k] = front[k]
            /\ \A k \in 1 .. n + Len(queue) : k > n => queue'[k] = queue[k - n] /\ k - n \in 1 .. Len(queue)
        BY <2>1, <2>2
      <3>2. (\A k \in 1 .. n : front[k] \in ToSet(front)) /\ \A k \in 1 .. Len(queue) : queue[k] \in ToSet(queue)
        BY <2>1, <2>2, SetOfSeq
      <3>3. CASE j > n
        <4>1. queue[j - n] = v /\ j - n \in 1 .. Len(queue)
          BY <2>6, <3>1, <3>3
        <4>2. CASE i > n
          <5>1. queue[i - n] = u /\ i - n \in 1 .. Len(queue)
            BY <2>6, <3>1, <4>2
          <5>2. i - n < j - n
            BY <1>1, <2>2, <4>1, <5>1 DEF QueueOrder
          <5>3. QED
            BY <3>1, <5>2
        <4>3. CASE ~(i > n)
          BY <3>1, <3>3, <4>3
        <4>4. QED
          BY <4>2, <4>3
      <3>4. CASE ~(j > n)
        <4>1. v \in ToSet(front)
          <5>1. j \in 1 .. n
            BY <3>1, <3>4
          <5>2. QED
            BY <2>6, <3>1, <3>2, <5>1
        <4>2. u \in ToSet(front) \cup ToSet(queue)
          <5>1. i \in 1 .. n \/ i > n
            BY <3>1
          <5>2. QED
            BY <2>6, <3>1, <3>2, <5>1
        <4>3. QED
          BY <2>5, <4>1, <4>2
      <3>5. QED
        BY <3>3, <3>4
    <2>7. QueueOrder(u, v)'
      BY <2>6 DEF QueueOrder
    <2>8. QED
      BY <1>5, <1>6, <2>4, <2>7
  <1>9. QED
    BY <1>7, <1>8

\* A block is appended, that of a worker as an own one.
LEMMA OrderExtended ==
    ASSUME Types, FlowInv, AcceptedInv, OrderInv, Current' = Current,
           UNCHANGED <<accepted, queue, miner>>,
           NEW b \in [transactions : SUBSET Transactions, time : Nat, own : BOOLEAN],
           chain' = Append(chain, b),
           b.own => \E w \in Workers :
                        Mining(w) /\ b.transactions = block[w].transactions /\ block[w].previous = Len(chain),
           \A w \in Workers : Mining(w)' => Mining(w) /\ block'[w] = block[w]
    PROVE  OrderInv'
  <1> SUFFICES ASSUME NEW u \in Transactions, NEW v \in Transactions, Earlier(u, v)
               PROVE  QueueOrder(u, v)' /\ TakenLast(u, v)' /\ Apart(u, v)' /\ ChainOrder(u, v)'
    BY DEF OrderInv, Earlier
  <1>1. QueueOrder(u, v) /\ TakenLast(u, v) /\ Apart(u, v) /\ ChainOrder(u, v)
    BY DEF OrderInv
  <1>2. /\ Len(chain) \in Nat /\ Len(chain') = Len(chain) + 1
        /\ DOMAIN chain' = 1 .. Len(chain) + 1 /\ DOMAIN chain = 1 .. Len(chain)
        /\ chain'[Len(chain) + 1] = b /\ \A i \in DOMAIN chain : chain'[i] = chain[i]
    BY DEF Types, ManagerTypes
  <1>3. \A tx : OwnBlock(tx)' = OwnBlock(tx) \cup (IF b.own /\ tx \in b.transactions THEN {Len(chain) + 1} ELSE {})
    <2>1. \A i \in 1 .. Len(chain) + 1 : i \in 1 .. Len(chain) \/ i = Len(chain) + 1
      BY <1>2
    <2>2. Len(chain) + 1 \in 1 .. Len(chain) + 1 /\ \A i \in 1 .. Len(chain) : i \in 1 .. Len(chain) + 1
      BY <1>2
    <2>3. ASSUME NEW tx, NEW i
          PROVE  i \in OwnBlock(tx)' <=> i \in OwnBlock(tx) \/ (i = Len(chain) + 1 /\ b.own /\ tx \in b.transactions)
      BY <1>2, <2>1, <2>2 DEF OwnBlock
    <2>4. QED
      BY <2>3
  <1>4. Taken(v)' => Taken(v)
    BY <1>3 DEF Taken
  <1>5. TakenLast(u, v)' /\ QueueOrder(u, v)'
    BY <1>1, <1>4 DEF TakenLast, QueueOrder
  <1>6. Apart(u, v)'
    <2>1. \A w \in Workers : Mining(w) => block[w].previous <= Len(chain) /\ block[w].previous \in Nat
      BY DEF AcceptedInv, Mining, Types, ThreadTypes, Threads, BlockOf
    <2>2. QED
      BY <1>1, <1>2, <2>1 DEF Apart
  <1>7. ChainOrder(u, v)'
    <2>1. \A k \in OwnBlock(u) \cup OwnBlock(v) : k < Len(chain) + 1
      BY <1>2 DEF OwnBlock
    <2>2. b.own /\ u \in b.transactions => v \notin b.transactions /\ OwnBlock(v) = {}
      BY <1>1 DEF Apart
    <2>3. QED
      BY <1>1, <1>3, <2>1, <2>2 DEF ChainOrder
  <1>8. QED
    BY <1>5, <1>6, <1>7

\* Neither the queue nor the Miner nor a worker lets the second of two votes overtake the first.
LEMMA OrderStep ==
    ASSUME Types, FlowInv, AcceptedInv, OwnersInv, OrderInv, [Next]_vars, ~dangling'
    PROVE  OrderInv'
  <1> USE MiningAssumption
  <1>a. lock' = Nobody \/ lock # Nobody => Unreplaced
    BY Changes DEF RunOnly
  <1>b. \A v \in Workers : pc[v] # "ended" => this[v] \in Addresses
    BY DEF FlowInv, WorkersFlow
  <1>1. CASE Tick
    <2>1. Current' = Current
      BY <1>1, CurrentStays DEF Tick, shared, threads, Types, ThreadTypes
    <2>2. Unreplaced /\ UNCHANGED <<accepted, chain, queue>>
      BY <1>1, <1>a DEF Tick, shared, histories
    <2>3. \A v \in Workers : Mining(v)' => Mining(v) /\ block'[v] = block[v]
      BY <1>1 DEF Tick, Types, ThreadTypes, Threads, Goto, shared, threads, histories, Mining
    <2>4. QED
      BY <2>1, <2>2, <2>3, OrderKept
  <1>2. ASSUME NEW t \in Callers, NEW tx \in situation.arriving, AddTransaction(t, tx)
         PROVE  OrderInv'
    <2>1. tx \in Transactions /\ tx \notin ToSet(accepted)
      BY <1>2 DEF AddTransaction, Types, ManagerTypes
    <2>2. /\ UNCHANGED <<chain, miner, block>> /\ Current' = Current
          /\ queue' = Append(queue, tx) /\ accepted' = Append(accepted, tx)
      BY <1>2, CurrentStays DEF AddTransaction
    <2>3. ToSet(queue') = ToSet(queue) \cup {tx}
      BY <2>1, <2>2, Appended DEF Types, ManagerTypes
    <2>4. \A w \in Workers : Mining(w)' <=> Mining(w)
      BY <1>2 DEF AddTransaction, Goto, Types, ThreadTypes, Threads, Mining
    <2>5. \A x : OwnBlock(x)' = OwnBlock(x)
      BY <2>2 DEF OwnBlock
    <2>6. \A x : Taken(x)' <=> Taken(x)
      BY <2>2, <2>4, <2>5 DEF Taken
    <2>7. ~Taken(tx)
      <3>1. \A a \in Current : tx \notin miner[a].transactions
        BY <2>1, CurrentIs DEF AcceptedInv
      <3>2. \A w \in Workers : Mining(w) => tx \notin block[w].transactions
        BY <2>1 DEF AcceptedInv, Mining
      <3>3. OwnBlock(tx) = {}
        BY <2>1 DEF AcceptedInv, OwnBlock
      <3>4. QED
        BY <3>1, <3>2, <3>3 DEF Taken
    <2>8. /\ DOMAIN queue' = 1 .. Len(queue) + 1 /\ queue'[Len(queue) + 1] = tx /\ Len(queue) \in Nat
          /\ DOMAIN queue = 1 .. Len(queue)
          /\ \A i \in 1 .. Len(queue) : queue'[i] = queue[i] /\ queue[i] # tx /\ i < Len(queue) + 1
          /\ \A i \in 1 .. Len(queue) + 1 : i \in 1 .. Len(queue) \/ i = Len(queue) + 1
      <3>1. \A i \in 1 .. Len(queue) : queue[i] \in ToSet(accepted)
        BY SetOfSeq DEF AcceptedInv, Types, ManagerTypes
      <3>2. queue \in Seq(Transactions)
        BY DEF Types, ManagerTypes
      <3>3. Len(queue) \in Nat /\ DOMAIN queue = 1 .. Len(queue)
        BY <3>2
      <3>4. /\ DOMAIN queue' = 1 .. Len(queue) + 1 /\ queue'[Len(queue) + 1] = tx
            /\ \A i \in 1 .. Len(queue) : queue'[i] = queue[i]
        BY <2>1, <2>2, <3>2
      <3>5. \A i \in 1 .. Len(queue) : queue[i] # tx /\ i < Len(queue) + 1
        BY <2>1, <3>1, <3>3
      <3>6. \A i \in 1 .. Len(queue) + 1 : i \in 1 .. Len(queue) \/ i = Len(queue) + 1
        BY <3>3
      <3>7. QED
        BY <3>3, <3>4, <3>5, <3>6
    <2>9. /\ DOMAIN accepted' = 1 .. Len(accepted) + 1 /\ accepted'[Len(accepted) + 1] = tx
          /\ DOMAIN accepted = 1 .. Len(accepted) /\ Len(accepted) \in Nat
          /\ \A i \in 1 .. Len(accepted) : accepted'[i] = accepted[i] /\ accepted[i] # tx
      <3>1. \A i \in 1 .. Len(accepted) : accepted[i] \in ToSet(accepted)
        BY SetOfSeq DEF Types, HistoryTypes
      <3>2. QED
        BY <2>1, <2>2, <3>1 DEF Types, HistoryTypes
    <2>10. SUFFICES ASSUME NEW u \in Transactions, NEW v \in Transactions, Earlier(u, v)'
                    PROVE  QueueOrder(u, v)' /\ TakenLast(u, v)' /\ Apart(u, v)' /\ ChainOrder(u, v)'
      BY DEF OrderInv
    <2>11. u # tx
      BY <2>9, <2>10 DEF Earlier
    <2>12. CASE v = tx
      <3>1. QueueOrder(u, v)'
        BY <2>8, <2>11, <2>12 DEF QueueOrder
      <3>2. QED
        BY <2>2, <2>4, <2>5, <2>6, <2>7, <2>12, <3>1 DEF TakenLast, Apart, ChainOrder, Taken
    <2>13. CASE v # tx
      <3>1. Earlier(u, v)
        BY <2>9, <2>10, <2>13 DEF Earlier
      <3>2. QueueOrder(u, v) /\ TakenLast(u, v) /\ Apart(u, v) /\ ChainOrder(u, v)
        BY <3>1 DEF OrderInv
      <3>3. QueueOrder(u, v)'
        BY <2>8, <2>11, <2>13, <3>2 DEF QueueOrder
      <3>4. TakenLast(u, v)'
        BY <2>2, <2>3, <2>6, <2>11, <3>2 DEF TakenLast
      <3>5. Apart(u, v)' /\ ChainOrder(u, v)'
        BY <2>2, <2>4, <2>5, <3>2 DEF Apart, ChainOrder
      <3>6. QED
        BY <3>3, <3>4, <3>5
    <2>14. QED
      BY <2>12, <2>13
  <1>3. ASSUME NEW txs \in SUBSET situation.arriving, NEW time \in 0 .. situation.time, ReceiveBlock(txs, time)
         PROVE  OrderInv'
    <2> DEFINE b == [transactions |-> txs, time |-> time, own |-> FALSE]
    <2>1. Current' = Current
      BY <1>3, CurrentStays DEF ReceiveBlock
    <2>2. UNCHANGED <<accepted, queue, miner>> /\ chain' = Append(chain, b)
      BY <1>3 DEF ReceiveBlock, histories
    <2>3. b \in [transactions : SUBSET Transactions, time : Nat, own : BOOLEAN] /\ ~b.own
      BY DEF Types, ManagerTypes
    <2>4. \A v \in Workers : Mining(v)' => Mining(v) /\ block'[v] = block[v]
      BY <1>3
         DEF ReceiveBlock, Types, ThreadTypes, Threads, Goto, shared, threads, histories, Mining
    <2> HIDE DEF b
    <2>5. QED
      BY <2>1, <2>2, <2>3, <2>4, OrderExtended
  <1>4. ASSUME NEW w \in Workers, GiveUp(w) PROVE OrderInv'
    <2>1. Current' = Current
      BY <1>4, CurrentStays DEF GiveUp, shared, threads, Types, ThreadTypes
    <2>2. Unreplaced /\ UNCHANGED <<accepted, chain, queue>>
      BY <1>4, <1>a DEF GiveUp, shared, histories
    <2>3. \A v \in Workers : Mining(v)' => Mining(v) /\ block'[v] = block[v]
      BY <1>4 DEF GiveUp, Types, ThreadTypes, Threads, Goto, shared, threads, histories, Mining
    <2>4. QED
      BY <2>1, <2>2, <2>3, OrderKept
  <1>5. ASSUME NEW t \in Threads, RunNot(t) PROVE OrderInv'
    <2>1. Current' = Current
      BY <1>5, CurrentStays DEF RunNot, shared, threads, Types, ThreadTypes
    <2>2. Unreplaced /\ UNCHANGED <<accepted, chain, queue>>
      BY <1>5, <1>a DEF RunNot, shared, histories
    <2>3. \A v \in Workers : Mining(v)' => Mining(v) /\ block'[v] = block[v]
      <3>1. then[t] \in {"idle", "ended", "tearDown"}
        BY DEF Types, ThreadTypes
      <3>2. QED
        BY <1>5, <3>1
           DEF RunNot, Types, ThreadTypes, Threads, Goto, shared, threads, histories, Mining
    <2>4. QED
      BY <2>1, <2>2, <2>3, OrderKept
  <1>6. ASSUME NEW t \in Threads, Run(t) PROVE OrderInv'
    <2>1. PICK a : a = target'[t]
      OBVIOUS
    <2>2. Current' = {a} /\ a \in Addresses /\ miner'[a] = NewMiner(ForBlock)
      BY <1>6, <2>1, CurrentRun DEF Types, ManagerTypes
    <2>3. UNCHANGED <<chain, block, accepted>> /\ queue' = Remaining
      BY <1>6 DEF Run
    <2>4. \A w \in Workers : Mining(w)' <=> Mining(w)
      BY <1>6 DEF Run, Goto, Types, ThreadTypes, Threads, Mining
    <2>5. \A x : OwnBlock(x)' = OwnBlock(x)
      BY <2>3 DEF OwnBlock
    <2>6. miner'[a].transactions = ForBlock
      BY <2>2 DEF NewMiner
    <2>7. ToSet(queue') \subseteq ToSet(queue) /\ ForBlock \subseteq ToSet(queue)
      BY <2>3, Divided DEF Types, ManagerTypes
    <2>8. SUFFICES ASSUME NEW u \in Transactions, NEW v \in Transactions, Earlier(u, v)
                   PROVE  QueueOrder(u, v)' /\ TakenLast(u, v)' /\ Apart(u, v)' /\ ChainOrder(u, v)'
      BY <2>3 DEF OrderInv, Earlier
    <2>9. QueueOrder(u, v) /\ TakenLast(u, v) /\ Apart(u, v) /\ ChainOrder(u, v)
      BY <2>8 DEF OrderInv
    <2>10. Apart(u, v)' /\ ChainOrder(u, v)'
      BY <2>3, <2>4, <2>5, <2>9 DEF Apart, ChainOrder
    <2>11. v \in ForBlock => u \notin ToSet(queue)
      <3>1. ASSUME v \in ForBlock, u \in ToSet(queue) PROVE FALSE
        <4>1. PICK j \in DOMAIN queue :
                  queue[j] = v /\ \A k \in 1 .. j - 1 : ~Duplicates(queue[j], queue[k])
          BY <3>1 DEF ForBlock
        <4>2. PICK i \in DOMAIN queue : queue[i] = u
          BY <3>1 DEF ToSet
        <4>3. i < j
          BY <2>9, <4>1, <4>2 DEF QueueOrder
        <4>4. i \in 1 .. j - 1
          BY <4>1, <4>2, <4>3 DEF Types, ManagerTypes
        <4>5. Duplicates(v, u)
          BY <2>8 DEF Earlier, Duplicates
        <4>6. QED
          BY <4>1, <4>2, <4>4, <4>5
      <3>2. QED
        BY <3>1
    <2>12. TakenLast(u, v)'
      <3>1. Taken(v)' => v \in ForBlock \/ Taken(v)
        BY <2>2, <2>3, <2>4, <2>5, <2>6 DEF Taken
      <3>2. Taken(v)' => u \notin ToSet(queue)
        BY <2>9, <2>11, <3>1 DEF TakenLast
      <3>3. QED
        BY <2>2, <2>6, <2>7, <3>2 DEF TakenLast
    <2>13. QueueOrder(u, v)'
      <3>1. PICK from : Selects(queue', from, queue, Len(queue), ForBlock)
        BY <2>3, Removal DEF Remaining, Types, ManagerTypes
      <3>2. ASSUME NEW i \in DOMAIN queue', NEW j \in DOMAIN queue', queue'[i] = u, queue'[j] = v
            PROVE  i < j
        <4>1. /\ DOMAIN queue' = 1 .. Len(queue') /\ i \in Nat /\ j \in Nat
              /\ from[i] \in 1 .. Len(queue) /\ from[j] \in 1 .. Len(queue)
              /\ queue[from[i]] = u /\ queue[from[j]] = v
          BY <3>1, <3>2 DEF Selects
        <4>2. from[i] < from[j]
          BY <2>9, <4>1 DEF QueueOrder, Types, ManagerTypes
        <4>3. j < i => from[j] < from[i]
          BY <3>1, <4>1 DEF Selects
        <4>4. QED
          BY <4>1, <4>2, <4>3
      <3>3. QED
        BY <3>2 DEF QueueOrder
    <2>14. QED
      BY <2>10, <2>12, <2>13
  <1>7. ASSUME NEW t \in Threads, NEW w \in Workers, CreateThread(t, w) PROVE OrderInv'
    <2>1. Current' = Current /\ lock # Nobody /\ t # w /\ pc[t] = "create"
      BY <1>7, CurrentCreate DEF CreateThread
    <2>2. Unreplaced /\ UNCHANGED <<accepted, chain, queue, block>>
      BY <1>7, <1>a, <2>1 DEF CreateThread
    <2>3. pc'[w] = "time" /\ pc'[t] \in {then[t], pc[t]} /\ \A v \in Threads : v # t /\ v # w => pc'[v] = pc[v]
      BY <1>7, <2>1 DEF CreateThread, Types, ThreadTypes, Threads
    <2>4. then[t] \in {"idle", "ended", "tearDown"}
      BY DEF Types, ThreadTypes
    <2>5. \A v \in Workers : Mining(v)' => Mining(v) /\ block'[v] = block[v]
      BY <2>1, <2>2, <2>3, <2>4 DEF Mining, Threads
    <2>6. QED
      BY <2>1, <2>2, <2>5, OrderKept
  <1>8. ASSUME NEW t \in Threads, Notify(t) PROVE OrderInv'
    <2>1. Current' = Current
      BY <1>8, CurrentStays DEF Notify, shared, threads, Types, ThreadTypes
    <2>2. Unreplaced /\ UNCHANGED <<accepted, chain, queue>>
      BY <1>8, <1>a DEF Notify, shared, histories
    <2>3. \A v \in Workers : Mining(v)' => Mining(v) /\ block'[v] = block[v]
      <3>1. then[t] \in {"idle", "ended", "tearDown"}
        BY DEF Types, ThreadTypes
      <3>2. QED
        BY <1>8, <3>1
           DEF Notify, Types, ThreadTypes, Threads, Goto, shared, threads, histories, Mining
    <2>4. QED
      BY <2>1, <2>2, <2>3, OrderKept
  <1>9. ASSUME NEW t \in Threads, Requeue(t) PROVE OrderInv'
    <2>1. t \notin stale /\ pc[t] = "requeue"
      BY <1>9 DEF Requeue, Uses
    <2>2. target[t] = m /\ m \in Addresses /\ m \in Current
      BY <2>1, Own
    <2>3. Current' = Current
      BY <1>9, CurrentStays DEF Requeue
    <2>4. Unreplaced /\ UNCHANGED <<accepted, chain>>
      BY <1>9, <1>a DEF Requeue
    <2>5. \A v \in Workers : Mining(v)' => Mining(v) /\ block'[v] = block[v]
      <3>1. then[t] \in {"idle", "ended", "tearDown"}
        BY DEF Types, ThreadTypes, Threads
      <3>2. QED
        BY <1>9, <3>1
           DEF Requeue, Types, ThreadTypes, Threads, Goto, shared, threads, histories, Mining
    <2>6. queue' = queue \/ queue' = ReAdded(NotInBlock(miner[m].transactions, block[t].transactions))
      BY <1>9, <2>2 DEF Requeue
    <2>7. \E front \in Seq(Transactions) :
              ReAdded(NotInBlock(miner[m].transactions, block[t].transactions)) = front \o queue /\ ToSet(front) \subseteq miner[m].transactions
      <3>1. NotInBlock(miner[m].transactions, block[t].transactions) \subseteq ToSet(accepted) /\ NotInBlock(miner[m].transactions, block[t].transactions) \subseteq miner[m].transactions
        BY <2>2 DEF AcceptedInv, NotInBlock, PutBack
      <3>2. IsFiniteSet(NotInBlock(miner[m].transactions, block[t].transactions)) /\ NotInBlock(miner[m].transactions, block[t].transactions) \subseteq Transactions
        BY <3>1, SetOfSeq, FS_Subset DEF Types, HistoryTypes
      <3>3. PICK front \in Seq(Transactions) :
                ReAdded(NotInBlock(miner[m].transactions, block[t].transactions)) = front \o queue
                /\ ToSet(front) = {tx \in NotInBlock(miner[m].transactions, block[t].transactions) : Verify(tx)}
        BY <3>2, PutInFront DEF Types, ManagerTypes
      <3>4. QED
        BY <3>1, <3>3
    <2>8. QED
      BY <2>2, <2>3, <2>4, <2>5, <2>6, <2>7, OrderKept
  <1>10. ASSUME NEW t \in Threads, TearDownOther(t) PROVE OrderInv'
    <2>1. Current' = Current
      BY <1>10, CurrentStays DEF TearDownOther, shared, threads, Types, ThreadTypes
    <2>2. Unreplaced /\ UNCHANGED <<accepted, chain, queue>>
      BY <1>10, <1>a DEF TearDownOther, shared, histories
    <2>3. \A v \in Workers : Mining(v)' => Mining(v) /\ block'[v] = block[v]
      BY <1>10
         DEF TearDownOther, Types, ThreadTypes, Threads, Goto, shared, threads, histories,
             Mining
    <2>4. QED
      BY <2>1, <2>2, <2>3, OrderKept
  <1>11. ASSUME NEW w \in Workers, ReadTime(w) PROVE OrderInv'
    <2>1. Current' = Current
      BY <1>11, CurrentStays DEF ReadTime, shared, threads, Types, ThreadTypes
    <2>2. Unreplaced /\ UNCHANGED <<accepted, chain, queue>>
      BY <1>11, <1>a DEF ReadTime, shared, histories
    <2>3. \A v \in Workers : Mining(v)' => Mining(v) /\ block'[v] = block[v]
      BY <1>11
         DEF ReadTime, Types, ThreadTypes, Threads, Goto, shared, threads, histories, Mining
    <2>4. QED
      BY <2>1, <2>2, <2>3, OrderKept
  <1>12. ASSUME NEW w \in Workers, ReadLatestBlock(w) PROVE OrderInv'
    <2>1. Current' = Current
      BY <1>12, CurrentStays DEF ReadLatestBlock, shared, threads, Types, ThreadTypes
    <2>2. Unreplaced /\ UNCHANGED <<accepted, chain, queue>>
      BY <1>12, <1>a DEF ReadLatestBlock, shared, histories
    <2>3. \A v \in Workers : Mining(v)' => Mining(v) /\ block'[v] = block[v]
      BY <1>12
         DEF ReadLatestBlock, Types, ThreadTypes, Threads, Goto, shared, threads, histories,
             Mining
    <2>4. QED
      BY <2>1, <2>2, <2>3, OrderKept
  <1>13. ASSUME NEW w \in Workers, CopyTransactions(w) PROVE OrderInv'
    <2>1. w \notin stale /\ pc[w] = "copy"
      BY <1>13 DEF CopyTransactions, Uses
    <2>2. this[w] \in Current /\ Current' = Current
      BY <1>13, <2>1, Own, CurrentStays DEF CopyTransactions, shared
    <2>3. UNCHANGED <<accepted, chain, queue, miner>>
      BY <1>13 DEF CopyTransactions, shared
    <2>4. block'[w].transactions = miner[this[w]].transactions
      <3>1. block[w] \in BlockOf
        BY DEF Types, ThreadTypes, Threads
      <3>2. block'[w] = [block[w] EXCEPT !.transactions = miner[this[w]].transactions]
        BY <1>13 DEF CopyTransactions, Types, ThreadTypes, Threads
      <3>3. QED
        BY <3>1, <3>2 DEF BlockOf
    <2>5. \A v \in Workers : v # w => block'[v] = block[v] /\ (Mining(v)' <=> Mining(v))
      BY <1>13 DEF CopyTransactions, Goto, Types, ThreadTypes, Threads, Mining
    <2>6. SUFFICES ASSUME NEW u \in Transactions, NEW v \in Transactions, Earlier(u, v)
                   PROVE  QueueOrder(u, v)' /\ TakenLast(u, v)' /\ Apart(u, v)' /\ ChainOrder(u, v)'
      BY <2>3 DEF OrderInv, Earlier
    <2>7. QueueOrder(u, v) /\ TakenLast(u, v) /\ Apart(u, v) /\ ChainOrder(u, v)
      BY <2>6 DEF OrderInv
    <2>8. \A tx : OwnBlock(tx)' = OwnBlock(tx)
      BY <2>3 DEF OwnBlock
    <2>9. Taken(v)' => Taken(v)
      BY <2>2, <2>3, <2>4, <2>5, <2>8 DEF Taken
    <2>10. QueueOrder(u, v)' /\ ChainOrder(u, v)' /\ TakenLast(u, v)'
      BY <2>2, <2>3, <2>7, <2>8, <2>9 DEF QueueOrder, ChainOrder, TakenLast
    <2>11. u \in miner[this[w]].transactions => v \notin miner[this[w]].transactions /\ OwnBlock(v) = {}
      BY <2>2, <2>7 DEF TakenLast, Taken
    <2>12. Apart(u, v)'
      BY <2>3, <2>4, <2>5, <2>7, <2>8, <2>11 DEF Apart
    <2>13. QED
      BY <2>10, <2>12
  <1>14. ASSUME NEW w \in Workers, Interrupt(w) PROVE OrderInv'
    <2>1. Current' = Current
      BY <1>14, CurrentStays DEF Interrupt, shared, threads, Types, ThreadTypes
    <2>2. Unreplaced /\ UNCHANGED <<accepted, chain, queue>>
      BY <1>14, <1>a DEF Interrupt, shared, histories
    <2>3. \A v \in Workers : Mining(v)' => Mining(v) /\ block'[v] = block[v]
      BY <1>14
         DEF Interrupt, Types, ThreadTypes, Threads, Goto, shared, threads, histories, Mining
    <2>4. QED
      BY <2>1, <2>2, <2>3, OrderKept
  <1>15. ASSUME NEW w \in Workers, Find(w) PROVE OrderInv'
    <2>1. Current' = Current
      BY <1>15, CurrentStays DEF Find, shared, threads, Types, ThreadTypes
    <2>2. Unreplaced /\ UNCHANGED <<accepted, chain, queue>>
      BY <1>15, <1>a DEF Find, shared, histories
    <2>3. \A v \in Workers : Mining(v)' => Mining(v) /\ block'[v] = block[v]
      BY <1>15 DEF Find, Types, ThreadTypes, Threads, Goto, shared, threads, histories, Mining
    <2>4. QED
      BY <2>1, <2>2, <2>3, OrderKept
  <1>16. ASSUME NEW w \in Workers, OnNewBlockFound(w) PROVE OrderInv'
    <2>1. Current' = Current
      BY <1>16, CurrentStays DEF OnNewBlockFound, shared, threads, Types, ThreadTypes
    <2>2. Unreplaced /\ UNCHANGED <<accepted, chain, queue>>
      BY <1>16, <1>a DEF OnNewBlockFound, shared, histories
    <2>3. \A v \in Workers : Mining(v)' => Mining(v) /\ block'[v] = block[v]
      BY <1>16
         DEF OnNewBlockFound, Types, ThreadTypes, Threads, Goto, shared, threads, histories,
             Mining
    <2>4. QED
      BY <2>1, <2>2, <2>3, OrderKept
  <1>17. ASSUME NEW w \in Workers, PublishBlock(w) PROVE OrderInv'
    <2> DEFINE b == [transactions |-> block[w].transactions, time |-> block[w].time, own |-> TRUE]
    <2>1. Current' = Current
      BY <1>17, CurrentStays DEF PublishBlock
    <2>2. UNCHANGED <<accepted, queue, miner, lock>> /\ pc[w] = "publish"
      BY <1>17 DEF PublishBlock
    <2>3. \A v \in Workers : Mining(v)' => Mining(v) /\ block'[v] = block[v]
      BY <1>17
         DEF PublishBlock, Types, ThreadTypes, Threads, Goto, shared, threads, histories, Mining
    <2>4. CASE Acceptable(block[w])
      <3>1. chain' = Append(chain, b) /\ block[w].previous = Len(chain)
        BY <1>17, <2>4 DEF PublishBlock, Acceptable
      <3>2. block[w] \in BlockOf
        BY DEF Types, ThreadTypes, Threads
      <3>3. /\ b \in [transactions : SUBSET Transactions, time : Nat, own : BOOLEAN]
            /\ b.transactions = block[w].transactions
        BY <3>2 DEF BlockOf
      <3>4. Mining(w)
        BY <2>2 DEF Mining
      <3> HIDE DEF b
      <3>5. QED
        BY <2>1, <2>2, <2>3, <3>1, <3>3, <3>4, OrderExtended
    <2>5. CASE ~Acceptable(block[w])
      <3>1. chain' = chain
        BY <1>17, <2>5 DEF PublishBlock
      <3>2. Unreplaced
        BY <1>a, <2>2
      <3>3. QED
        BY <2>1, <2>2, <2>3, <3>1, <3>2, OrderKept
    <2>6. QED
      BY <2>4, <2>5
  <1>18. ASSUME NEW w \in Workers, TearDownOwn(w) PROVE OrderInv'
    <2>1. Current' = Current
      BY <1>18, CurrentStays DEF TearDownOwn, shared, threads, Types, ThreadTypes
    <2>2. Unreplaced /\ UNCHANGED <<accepted, chain, queue>>
      BY <1>18, <1>a DEF TearDownOwn, shared, histories
    <2>3. \A v \in Workers : Mining(v)' => Mining(v) /\ block'[v] = block[v]
      BY <1>18
         DEF TearDownOwn, Types, ThreadTypes, Threads, Goto, shared, threads, histories, Mining
    <2>4. QED
      BY <2>1, <2>2, <2>3, OrderKept
  <1>19. ASSUME NEW w \in Workers, Abort(w) PROVE OrderInv'
    <2>1. w \notin stale /\ pc[w] = "abort"
      BY <1>19 DEF Abort, Uses
    <2>2. this[w] \in Addresses /\ this[w] \in Current
      BY <1>b, <2>1, Own
    <2>3. Current' = Current
      BY <1>19, CurrentStays DEF Abort
    <2>4. Unreplaced /\ UNCHANGED <<accepted, chain>>
      BY <1>19, <1>a DEF Abort
    <2>5. \A v \in Workers : Mining(v)' => Mining(v) /\ block'[v] = block[v]
      <3>1. then[w] \in {"idle", "ended", "tearDown"}
        BY DEF Types, ThreadTypes, Threads
      <3>2. QED
        BY <1>19, <3>1
           DEF Abort, Types, ThreadTypes, Threads, Goto, shared, threads, histories, Mining
    <2>6. queue' = queue \/ queue' = ReAdded(PutBack(this[w]))
      BY <1>19, <2>2 DEF Abort
    <2>7. \E front \in Seq(Transactions) :
              ReAdded(PutBack(this[w])) = front \o queue /\ ToSet(front) \subseteq miner[this[w]].transactions
      <3>1. PutBack(this[w]) \subseteq ToSet(accepted) /\ PutBack(this[w]) \subseteq miner[this[w]].transactions
        BY <2>2 DEF AcceptedInv, NotInBlock, PutBack
      <3>2. IsFiniteSet(PutBack(this[w])) /\ PutBack(this[w]) \subseteq Transactions
        BY <3>1, SetOfSeq, FS_Subset DEF Types, HistoryTypes
      <3>3. PICK front \in Seq(Transactions) :
                ReAdded(PutBack(this[w])) = front \o queue
                /\ ToSet(front) = {tx \in PutBack(this[w]) : Verify(tx)}
        BY <3>2, PutInFront DEF Types, ManagerTypes
      <3>4. QED
        BY <3>1, <3>3
    <2>8. QED
      BY <2>2, <2>3, <2>4, <2>5, <2>6, <2>7, OrderKept
  <1>20. CASE UNCHANGED vars
    <2>1. Current' = Current
      BY <1>20, CurrentStays DEF vars, shared, threads, Types, ThreadTypes
    <2>2. Unreplaced /\ UNCHANGED <<accepted, chain, queue>>
      BY <1>20, <1>a DEF vars, shared, histories
    <2>3. \A v \in Workers : Mining(v)' => Mining(v) /\ block'[v] = block[v]
      BY <1>20 DEF vars, Types, ThreadTypes, Threads, Goto, shared, threads, histories, Mining
    <2>4. QED
      BY <2>1, <2>2, <2>3, OrderKept

  <1>21. QED
    BY <1>1, <1>2, <1>3, <1>4, <1>5, <1>6, <1>7, <1>8, <1>9, <1>10, <1>11, <1>12, <1>13, <1>14,
       <1>15, <1>16, <1>17, <1>18, <1>19, <1>20
       DEF Next, Arrive, Step, Manage, Told, Mine

\* The invariant
LEMMA InvInit ==
    Init => Inv
  <1> SUFFICES ASSUME Init PROVE Inv
    OBVIOUS
  <1> USE MiningAssumption
  <1>1. NewMiner({}) \in MinerObject
    BY DEF NewMiner, MinerObject
  <1>2. Deleted \in MinerObject /\ ~Deleted.running /\ Deleted.transactions = {}
    <2>1. PICK mi : mi = NewMiner({}) /\ mi \in MinerObject /\ mi.transactions = {}
      BY <1>1 DEF NewMiner
    <2>2. Deleted = [mi EXCEPT !.running = FALSE]
      BY <2>1 DEF Deleted
    <2>3. QED
      BY <2>1, <2>2 DEF MinerObject
  <1>3. NoBlock \in BlockOf
    BY DEF NoBlock, BlockOf
  <1>4. /\ queue = <<>> /\ m = Nobody /\ lock = Nobody /\ miner = [a \in Addresses |-> Deleted]
        /\ chain = <<>> /\ accepted = <<>>
        /\ pc = [t \in Threads |-> IF t \in Callers THEN "idle" ELSE "ended"]
        /\ stale = {} /\ rejected = {}
    BY DEF Init
  <1>5. ManagerTypes
    <2> HIDE DEF Deleted
    <2> QED
      BY <1>2, <1>4 DEF Init, ManagerTypes
  <1>6. ThreadTypes
    BY <1>3 DEF Init, ThreadTypes, Steps, Threads
  <1>7. HistoryTypes
    <2>1. accepted \in Seq(Transactions)
      BY <1>4
    <2>2. QED
      BY <2>1 DEF Init, HistoryTypes, Threads
  <1>8. /\ \A w \in Workers : pc[w] = "ended"
        /\ \A t \in Callers : pc[t] = "idle"
    BY <1>4 DEF Threads
  <1>9. FlowInv
    BY <1>4, <1>8 DEF Init, FlowInv, CallersFlow, WorkersFlow, LockFlow, Threads
  <1>10. OrphanInv /\ ServedInv
    BY <1>4, <1>8 DEF OrphanInv, ServedInv, Searching
  <1>11. ToSet(<<>>) = {}
    BY DEF ToSet
  <1>12. AcceptedInv
    BY <1>2, <1>4, <1>8, <1>11 DEF AcceptedInv
  <1>13. Current = {}
    BY <1>4 DEF Current
  <1>14. OwnersInv
    BY <1>8 DEF OwnersInv, WorkersOwner, ToldOwner, WorkersEnd, OwnBlockFound, Threads
  <1>15. KeptInv
    BY <1>4, <1>8, <1>11 DEF KeptInv, Working, Published
  <1>16. OrderInv
    BY <1>4 DEF OrderInv, Earlier
  <1>17. SearchersInv
    BY <1>13 DEF SearchersInv
  <1>18. QED
    BY <1>5, <1>6, <1>7, <1>9, <1>10, <1>12, <1>14, <1>15, <1>16, <1>17
       DEF Inv, Threaded, Types, Undamaged

LEMMA InvStep ==
    Inv /\ [Next]_vars => Inv'
  <1> SUFFICES ASSUME Inv, [Next]_vars PROVE Inv'
    OBVIOUS
  <1>1. Types /\ FlowInv /\ OrphanInv /\ ServedInv /\ AcceptedInv
    BY DEF Inv, Threaded
  <1>2. Types' /\ FlowInv' /\ OrphanInv' /\ ServedInv' /\ AcceptedInv'
    BY <1>1, TypesStep, FlowStep, OrphanStep, ServedStep, AcceptedStep
  <1>3. ASSUME ~dangling' PROVE OwnersInv' /\ KeptInv' /\ OrderInv' /\ SearchersInv'
    <2>1. ~dangling
      BY <1>1, <1>3, Undangled
    <2>2. OwnersInv /\ KeptInv /\ OrderInv /\ SearchersInv
      BY <2>1 DEF Inv, Undamaged
    <2>3. QED
      BY <1>1, <1>3, <2>2, OwnersStep, KeptStep, OrderStep, SearchersStep
  <1>4. QED
    BY <1>2, <1>3 DEF Inv, Threaded, Undamaged

\* The inductive invariant: wherever the threads are, every transaction, worker
\* and Miner is where the code expects it, up to the first use of a deleted Miner.
THEOREM Invariant == Spec => []Inv
  BY InvInit, InvStep, PTL DEF Spec

-----------------------------------------------------------------------------
(* What the invariant says *)

\* The queue and the Miners hold only what addTransaction took, and every
\* thread is where its kind may be.
THEOREM TypesHold == Spec => []TypeOK
  <1>1. Inv => TypeOK
    <2> SUFFICES ASSUME Inv PROVE TypeOK
      OBVIOUS
    <2>1. Types /\ FlowInv /\ AcceptedInv
      BY DEF Inv, Threaded
    <2>2. ToSet(accepted) \subseteq Transactions
      BY <2>1, SetOfSeq DEF Types, HistoryTypes
    <2>3. \A w \in Workers : pc[w] # "idle" /\ pc[w] \in Steps
      BY <2>1 DEF Types, ThreadTypes, FlowInv, WorkersFlow, Threads
    <2>4. QED
      BY <2>1, <2>2, <2>3
         DEF TypeOK, Types, ManagerTypes, ThreadTypes, HistoryTypes, MinerObject,
         FlowInv, CallersFlow, AcceptedInv, Steps, Threads
  <1>2. QED
    BY <1>1, Invariant, PTL

\* No wake-up is lost: whoever leaves something in the queue has a Miner that
\* runs, or goes to start one, whatever the threads do in between.
THEOREM QueueIsServed == Spec => []QueueServed
  <1>1. Inv => QueueServed
    <2> SUFFICES ASSUME Inv, Quiet, queue # <<>> PROVE m # Nobody /\ miner[m].running
      BY DEF QueueServed
    <2>1. Types /\ FlowInv /\ ServedInv
      BY DEF Inv, Threaded
    <2>2. ~\E t \in Threads : pc[t] \in {"run", "tearDownOther"}
      BY DEF Quiet
    <2>3. lock = Nobody
      <3>1. lock # Nobody => lock \in Threads /\ pc[lock] = "create"
        BY <2>1 DEF Types, ManagerTypes, FlowInv, LockFlow
      <3>2. QED
        BY <3>1 DEF Quiet
    <2>4. PICK a \in Current : miner[a].running
      BY <2>1, <2>2 DEF ServedInv
    <2>5. a = m /\ m # Nobody
      BY <2>1, <2>3, <2>4, CurrentIs
    <2>6. QED
      BY <2>4, <2>5
  <1>2. QED
    BY <1>1, Invariant, PTL

\* A worker that nobody has interrupted is one of the threads of the Miner there is.
THEOREM NoWorkerOrphaned == Spec => []NoOrphans
  <1>1. Inv => NoOrphans
    BY DEF Inv, Threaded, OrphanInv, NoOrphans, Searching
  <1>2. QED
    BY <1>1, Invariant, PTL

\* A transaction that addTransaction took stays in the queue, in the running
\* Miner or on the chain, or was in a block that receiveBlock rejected.
THEOREM NothingForgotten == Spec => []NoneForgotten
  <1>1. Inv => NoneForgotten
    BY DEF Inv, Undamaged, KeptInv, Settlement, NoneForgotten
  <1>2. QED
    BY <1>1, Invariant, PTL

\* Of two votes of one key the node mines the one that came first before the other.
THEOREM VotesMinedInOrder == Spec => []VotesInOrder
  <1>1. Inv => VotesInOrder
    <2> SUFFICES ASSUME Inv, ~dangling, NEW i \in DOMAIN accepted, NEW j \in DOMAIN accepted,
                        i < j, Duplicates(accepted[i], accepted[j])
                 PROVE  \A k \in OwnBlock(accepted[j]), l \in OwnBlock(accepted[i]) : l < k
      BY DEF VotesInOrder
    <2>1. OrderInv /\ Types
      BY DEF Inv, Undamaged, Threaded
    <2>2. accepted[i] \in Transactions /\ accepted[j] \in Transactions
      BY <2>1 DEF Types, HistoryTypes
    <2>3. Earlier(accepted[i], accepted[j])
      BY DEF Earlier
    <2>4. ChainOrder(accepted[i], accepted[j])
      BY <2>1, <2>2, <2>3 DEF OrderInv
    <2>5. QED
      BY <2>4 DEF ChainOrder
  <1>2. QED
    BY <1>1, Invariant, PTL

\* A running Miner has a worker that still searches.
THEOREM RunningMinerSearches == Spec => []MinerSearches
  <1>1. Inv => MinerSearches
    <2> SUFFICES ASSUME Inv, ~dangling, Quiet, m # Nobody, miner[m].running
                 PROVE  \E w \in miner[m].minerThreads : pc[w] # "ended" /\ w \notin interrupted
      BY DEF MinerSearches
    <2>1. Types /\ FlowInv /\ SearchersInv
      BY DEF Inv, Undamaged, Threaded
    <2>2. m \in Addresses /\ lock = Nobody /\ m \in Current
      BY <2>1, CurrentIs DEF Types, ManagerTypes
    <2>3. QED
      BY <2>1, <2>2 DEF SearchersInv
  <1>2. QED
    BY <1>1, Invariant, PTL

-----------------------------------------------------------------------------
(* The nonces *)

\* The searches of a Miner (consumeNextNonces, mineTransactions) end as SearchEnds
\* says and try the nonces as EachOnce says, for any numbers of nonces and of nonces
\* taken at once.
THEOREM NoncesAlwaysExhausted == Spec => []NoncesExhausted
  <1>1. ASSUME NEW size \in NonceSizes PROVE SearchEnds(size) /\ EachOnce(size)
    <2>1. size[1] \in Nat \ {0} /\ size[2] \in 1 .. size[1] - 1
      BY NoncesAssumption
    <2>2. SearchEnds(size)
      BY <2>1, EndsFrom
    <2>3. EachOnce(size)
      BY <2>1, TriesEachOnce
    <2>4. QED
      BY <2>2, <2>3
  <1>2. NoncesExhausted
    BY <1>1 DEF NoncesExhausted
  <1>3. QED
    BY <1>2, PTL
=============================================================================
