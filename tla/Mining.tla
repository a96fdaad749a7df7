-------------------------------- MODULE Mining --------------------------------
(***************************************************************************)
(* The miner of one node (miner.cpp): the queue of transactions, the       *)
(* Miner object with its worker threads, and the part of                   *)
(* Controller::receiveBlock that concerns them.                            *)
(*                                                                         *)
(* Three kinds of threads meet here: the network thread and the GUI thread *)
(* bring transactions and, the network thread, blocks of others; the       *)
(* worker threads search for a nonce.  There is one mutex in each Miner    *)
(* and one in the manager; much is read and written without them.          *)
(*                                                                         *)
(* Tearing down a Miner interrupts its workers and does not wait for them, *)
(* and the Miner is deleted when the next one starts.  A worker that is    *)
(* beyond its last interruption point then uses what lies at the address   *)
(* of its Miner: the old object, or a new one in its place.                *)
(*                                                                         *)
(* A block of this node goes the same way as one from the network, through *)
(* the loopback of BlocksProtocol::Publish.  Checking a block and adding   *)
(* it are one step here; BlockChainDB takes addBlock apart.  The           *)
(* transactions a node publishes while it processes a block come from the  *)
(* GUI thread here.                                                        *)
(***************************************************************************)
EXTENDS Nonces

CONSTANTS
    Transactions,
    SameVoter,      \* pairs of votes of one key in one election
    Needs,          \* Needs[tx]: what has to be on the chain for tx to verify
    Callers,        \* the threads that are not workers
    Network,        \* the one of them that receives blocks
    Workers,        \* bound: threads searching at the same time
    Addresses,      \* where a Miner may lie: at most one exists at a time
    Nobody,
    Situations      \* settings and bounds to explore:
                    \*   threads    Settings::GetMiningThreads()
                    \*   arriving   the transactions that may arrive
                    \*   foreign    bound: blocks from the network
                    \*   givenUp    bound: workers that give up
                    \*   time       bound: ticks of the clock

Threads == Callers \cup Workers

ASSUME MiningAssumption ==
    /\ SameVoter \subseteq Transactions \X Transactions
    /\ Needs \in [Transactions -> SUBSET Transactions]
    /\ Network \in Callers /\ Callers \cap Workers = {}
    /\ Nobody \notin Threads \cup Addresses
    /\ Situations \subseteq [threads : Nat \ {0}, arriving : SUBSET Transactions,
                           foreign : Nat, givenUp : Nat, time : Nat]

VARIABLES
    situation,      \* one of Situations
    queue,          \* MiningManager::transQueue
    m,              \* MiningManager::m, Nobody for NULL
    lock,           \* MiningManager::mutex: who holds it
    miner,          \* the Miner objects by address, also what a deleted one leaves
    chain,          \* the chain of the node: transactions, time, and whether it mined the block
    now,            \* the clock
    pc,             \* what each thread does next
    then,           \* ... and after it is done with the manager
    this,           \* the Miner a worker belongs to
    target,         \* the Miner a thread is creating, or telling about a block
    block,          \* the block a thread works on
    interrupted,    \* workers with a pending interruption
    givenUp,        \* workers that gave up so far
    accepted,       \* history: transactions addTransaction took, in order
    rejected,       \* history: transactions of own blocks that receiveBlock rejected
    stale,          \* history: threads whose Miner was deleted
    dangling        \* history: a thread used its Miner after it was deleted

shared == <<queue, m, lock, miner, chain>>
threads == <<pc, then, this, target, block, interrupted>>
histories == <<accepted, rejected, stale, dangling>>
vars == <<situation, shared, now, threads, givenUp, histories>>

NumThreads == situation.threads

-----------------------------------------------------------------------------
(* Values *)

NoBlock == [previous |-> 0, time |-> 0, transactions |-> {}]

NewMiner(txs) ==
    [transactions |-> txs, running |-> TRUE, newBlockFound |-> FALSE,
     threadsDone |-> 0, minerThreads |-> {}, created |-> 0, mutex |-> Nobody]

Deleted == [NewMiner({}) EXCEPT !.running = FALSE]

InChain(tx) == \E i \in DOMAIN chain : tx \in chain[i].transactions
LastTime == IF chain = <<>> THEN 0 ELSE Last(chain).time

\* Transaction::verify asks for other transactions on the chain, not whether
\* this one is there already, nor whether it is too late.
Verify(tx) == \A u \in Needs[tx] : InChain(u)

Duplicates(t, u) == <<t, u>> \in SameVoter \/ <<u, t>> \in SameVoter

-----------------------------------------------------------------------------
Init ==
    /\ situation \in Situations
    /\ queue = <<>> /\ m = Nobody /\ lock = Nobody
    /\ miner = [a \in Addresses |-> Deleted]
    /\ chain = <<>> /\ now = 0
    /\ pc = [t \in Threads |-> IF t \in Callers THEN "idle" ELSE "ended"]
    /\ then = [t \in Threads |-> "idle"]
    /\ this = [w \in Workers |-> Nobody]
    /\ target = [t \in Threads |-> Nobody]
    /\ block = [t \in Threads |-> NoBlock]
    /\ interrupted = {} /\ givenUp = 0
    /\ accepted = <<>> /\ rejected = {} /\ stale = {} /\ dangling = FALSE

Tick ==
    /\ now < situation.time
    /\ now' = now + 1
    /\ UNCHANGED <<shared, threads, givenUp, histories>>

Goto(t, label) == pc' = [pc EXCEPT ![t] = label]

\* t uses the Miner it has a pointer to.
Uses(t) == dangling' = (dangling \/ t \in stale)

\* Miner::tearDown
TornDown(mi) == [mi EXCEPT !.minerThreads = {}, !.running = FALSE]

\* Mutant of TearDown: clears minerThreads before it interrupts them
ClearFirst(a) ==
    /\ miner' = [miner EXCEPT ![a] = TornDown(@)]
    /\ UNCHANGED interrupted

TearDown(a) ==
    /\ miner' = [miner EXCEPT ![a] = TornDown(@)]
    /\ interrupted' = interrupted \cup miner[a].minerThreads

\* Mutant of ReAdded: to the back of the queue
AddedBack(S) == queue \o SetToSeq({tx \in S : Verify(tx)})

\* addTransaction(tx, false) for each tx of S, in the order of their hashes:
\* each that verifies goes to the front of the queue.
ReAdded(S) == Reverse(SetToSeq({tx \in S : Verify(tx)})) \o queue

\* std::remove of each transaction of S
Without(q, S) ==
    LET Kept[i \in 0 .. Len(q)] ==
            IF i = 0 THEN <<>>
            ELSE IF q[i] \in S THEN Kept[i - 1] ELSE Append(Kept[i - 1], q[i])
    IN  Kept[Len(q)]

-----------------------------------------------------------------------------
(* MiningManager *)

\* receiveTransaction and addTransaction: "already known" means on the chain
AddTransaction(t, tx) ==
    /\ t \in Callers /\ pc[t] = "idle"
    /\ tx \notin ToSet(accepted)
    /\ ~InChain(tx) /\ Verify(tx)
    /\ queue' = Append(queue, tx)
    /\ accepted' = Append(accepted, tx)
    /\ Goto(t, "run") /\ then' = [then EXCEPT ![t] = "idle"]
    /\ UNCHANGED <<m, lock, miner, chain, now, this, target, block, interrupted,
                   givenUp, rejected, stale, dangling>>

\* getTransactionsForBlock: the first vote of each key, and all the others
ForBlock ==
    {queue[i] : i \in {j \in DOMAIN queue : \A k \in 1 .. j - 1 : ~Duplicates(queue[j], queue[k])}}

\* runIfPossible, when a Miner runs or no transaction waits
RunNot(t) ==
    /\ pc[t] = "run" /\ lock = Nobody
    /\ queue = <<>> \/ (m # Nobody /\ miner[m].running)
    /\ Goto(t, then[t])
    /\ UNCHANGED <<shared, now, then, this, target, block, interrupted, givenUp, histories>>

\* What runIfPossible leaves in the queue, and its mutant: those that wait for
\* a vote of the same key are removed, too
ClearedQueue == <<>>
Remaining == Without(queue, ForBlock)

\* Deletes the old Miner and begins to construct a new one, under the mutex of
\* the manager; m is NULL meanwhile.
Run(t) ==
    /\ pc[t] = "run" /\ lock = Nobody
    /\ queue # <<>> /\ (m # Nobody => ~miner[m].running)
    /\ \E a \in Addresses :
         /\ miner' = [miner EXCEPT ![a] = NewMiner(ForBlock)]
         /\ target' = [target EXCEPT ![t] = a]
    /\ queue' = Remaining
    /\ m' = Nobody /\ lock' = t
    /\ Goto(t, "create")
    /\ IF m = Nobody
       THEN UNCHANGED <<interrupted, stale>>
       ELSE /\ interrupted' = interrupted \cup miner[m].minerThreads
            /\ stale' = stale \cup {w \in Workers : pc[w] # "ended" /\ this[w] = m}
                              \cup {u \in Threads : pc[u] \in {"requeue", "tearDownOther"} /\ target[u] = m}
    /\ UNCHANGED <<chain, now, then, this, block, givenUp, accepted, rejected, dangling>>

\* The constructor of Miner starts its threads one after the other; one that
\* has already ended stays one of minerThreads.
CreateThread(t, w) ==
    LET a == target[t]
        last == miner[a].created + 1 = NumThreads
    IN  /\ pc[t] = "create" /\ w \in Workers
        /\ pc[w] = "ended" /\ w \notin miner[a].minerThreads
        /\ this' = [this EXCEPT ![w] = a]
        /\ interrupted' = interrupted \ {w} /\ stale' = stale \ {w}
        /\ miner' = [miner EXCEPT ![a].minerThreads = @ \cup {w}, ![a].created = @ + 1]
        /\ IF last
           THEN /\ m' = a /\ lock' = Nobody
                /\ pc' = [pc EXCEPT ![w] = "time", ![t] = then[t]]
           ELSE /\ UNCHANGED <<m, lock>>
                /\ pc' = [pc EXCEPT ![w] = "time"]
        /\ UNCHANGED <<queue, chain, now, then, target, block, givenUp, accepted, rejected, dangling>>

-----------------------------------------------------------------------------
(* Blocks from the network *)

\* receiveBlock takes a block that follows the newest one (others change nothing).
ReceiveBlock(txs, time) ==
    LET t == Network
        b == [previous |-> Len(chain), time |-> time, transactions |-> txs]
    IN  /\ pc[t] = "idle"
        /\ Cardinality({i \in DOMAIN chain : ~chain[i].own}) < situation.foreign
        /\ LastTime <= time /\ time <= now
        /\ \A tx \in txs : ~InChain(tx) /\ Verify(tx)
        /\ chain' = Append(chain, [transactions |-> txs, time |-> time, own |-> FALSE])
        /\ block' = [block EXCEPT ![t] = b]
        /\ Goto(t, "notify") /\ then' = [then EXCEPT ![t] = "idle"]
        /\ UNCHANGED <<queue, m, lock, miner, now, this, target, interrupted, givenUp, histories>>

\* MiningManager::onNewBlockFromNetwork reads m without the mutex.
Notify(t) ==
    /\ pc[t] = "notify"
    /\ IF m = Nobody
       THEN Goto(t, then[t]) /\ UNCHANGED <<target, stale>>
       ELSE /\ Goto(t, "requeue")
            /\ target' = [target EXCEPT ![t] = m]
            /\ stale' = IF t \in Callers THEN stale \ {t} ELSE stale
    /\ UNCHANGED <<shared, now, then, this, block, interrupted, givenUp, accepted, rejected, dangling>>

\* What a foreign block leaves of a Miner's transactions, and its mutant: the
\* arguments of set_difference are swapped
OthersOfBlock(txs, ofBlock) == ofBlock \ txs
NotInBlock(txs, ofBlock) == txs \ ofBlock

\* Miner::onNewBlockFromNetwork: ignored when the miner itself has found a
\* block; otherwise the transactions the block lacks go back to the queue.
Requeue(t) ==
    LET mi == miner[target[t]]
    IN  /\ pc[t] = "requeue"
        /\ IF mi.newBlockFound
           THEN Goto(t, then[t]) /\ UNCHANGED queue
           ELSE /\ Goto(t, "tearDownOther")
                /\ queue' = ReAdded(NotInBlock(mi.transactions, block[t].transactions))
        /\ Uses(t)
        /\ UNCHANGED <<m, lock, miner, chain, now, then, this, target, block, interrupted,
                       givenUp, accepted, rejected, stale>>

\* Mutant of TearDownOther: does not start the mining process again
TearDownOnly(t) ==
    /\ pc[t] = "tearDownOther" /\ miner[target[t]].mutex = Nobody
    /\ TearDown(target[t]) /\ Uses(t)
    /\ Goto(t, then[t])
    /\ UNCHANGED <<queue, m, lock, chain, now, then, this, target, block, givenUp,
                   accepted, rejected, stale>>

\* ... and the mining process is torn down under its mutex and started again.
TearDownOther(t) ==
    /\ pc[t] = "tearDownOther" /\ miner[target[t]].mutex = Nobody
    /\ TearDown(target[t]) /\ Uses(t)
    /\ Goto(t, "run")
    /\ UNCHANGED <<queue, m, lock, chain, now, then, this, target, block, givenUp,
                   accepted, rejected, stale>>

-----------------------------------------------------------------------------
(* A worker: mineTransactions *)

\* The creation time of the block is fixed before anything else.
ReadTime(w) ==
    /\ pc[w] = "time"
    /\ Goto(w, "latest")
    /\ block' = [block EXCEPT ![w] = [NoBlock EXCEPT !.time = now]]
    /\ UNCHANGED <<shared, now, then, this, target, interrupted, givenUp, histories>>

ReadLatestBlock(w) ==
    /\ pc[w] = "latest" /\ w \notin interrupted
    /\ Goto(w, "copy")
    /\ block' = [block EXCEPT ![w].previous = Len(chain)]
    /\ UNCHANGED <<shared, now, then, this, target, interrupted, givenUp, histories>>

CopyTransactions(w) ==
    /\ pc[w] = "copy"
    /\ Goto(w, "search")
    /\ block' = [block EXCEPT ![w].transactions = miner[this[w]].transactions]
    /\ Uses(w)
    /\ UNCHANGED <<shared, now, then, this, target, interrupted, givenUp, accepted, rejected, stale>>

\* An interruption point ends a worker that was interrupted.
Interrupt(w) ==
    /\ pc[w] \in {"latest", "search"} /\ w \in interrupted
    /\ Goto(w, "ended")
    /\ UNCHANGED <<shared, now, then, this, target, block, interrupted, givenUp, histories>>

\* The hash of the block is below the target, and the worker is not
\* interrupted at the last interruption point before onNewBlockFound.
Find(w) ==
    /\ pc[w] = "search" /\ w \notin interrupted
    /\ Goto(w, "found")
    /\ UNCHANGED <<shared, now, then, this, target, block, interrupted, givenUp, histories>>

\* The latest block cannot be read, or consumeNextNonces has no more nonces.
\* (It waits for the mutex; abort does so again.)
GiveUp(w) ==
    /\ pc[w] \in {"latest", "search"} /\ w \notin interrupted
    /\ givenUp < situation.givenUp
    /\ givenUp' = givenUp + 1
    /\ Goto(w, "abort")
    /\ UNCHANGED <<shared, now, then, this, target, block, interrupted, histories>>

\* The last worker of a Miner aborts, and its mutant: off by one
MoreThanAll(a, done) == done > Cardinality(miner[a].minerThreads)
AllAborted(a, done) == done >= Cardinality(miner[a].minerThreads)

\* The transactions abort puts back, and its mutant: none
NoneBack(a) == {}
PutBack(a) == miner[a].transactions

\* abort: the last worker puts the transactions back and tears down.
Abort(w) ==
    LET a == this[w]
        done == miner[a].threadsDone + 1
    IN  /\ pc[w] = "abort" /\ miner[a].mutex = Nobody
        /\ IF AllAborted(a, done)
           THEN /\ queue' = ReAdded(PutBack(a))
                /\ miner' = [miner EXCEPT ![a] = TornDown([@ EXCEPT !.threadsDone = done])]
                /\ interrupted' = interrupted \cup miner[a].minerThreads
                /\ Goto(w, "run") /\ then' = [then EXCEPT ![w] = "ended"]
           ELSE /\ miner' = [miner EXCEPT ![a].threadsDone = done]
                /\ Goto(w, "ended")
                /\ UNCHANGED <<queue, interrupted, then>>
        /\ Uses(w)
        /\ UNCHANGED <<m, lock, chain, now, this, target, block, givenUp, accepted, rejected, stale>>

\* onNewBlockFound: the first worker to come keeps the mutex, for the others
\* the search goes on.
OnNewBlockFound(w) ==
    LET a == this[w]
    IN  /\ pc[w] = "found" /\ miner[a].mutex = Nobody
        /\ IF miner[a].newBlockFound
           THEN Goto(w, "search") /\ UNCHANGED miner
           ELSE /\ Goto(w, "publish")
                /\ miner' = [miner EXCEPT ![a].newBlockFound = TRUE, ![a].mutex = w]
        /\ Uses(w)
        /\ UNCHANGED <<queue, m, lock, chain, now, then, this, target, block, interrupted,
                       givenUp, accepted, rejected, stale>>

\* The checks of receiveBlock on a block of this node
Acceptable(b) ==
    /\ b.previous = Len(chain)
    /\ LastTime <= b.time
    /\ \A tx \in b.transactions : ~InChain(tx) /\ Verify(tx)

\* publishBlock floods the block and hands it to receiveBlock.
PublishBlock(w) ==
    LET b == block[w]
    IN  /\ pc[w] = "publish"
        /\ then' = [then EXCEPT ![w] = "tearDown"]
        /\ IF Acceptable(b)
           THEN /\ chain' = Append(chain, [transactions |-> b.transactions, time |-> b.time,
                                           own |-> TRUE])
                /\ Goto(w, "notify")
                /\ UNCHANGED rejected
           ELSE /\ rejected' = rejected \cup b.transactions
                /\ Goto(w, "tearDown")
                /\ UNCHANGED chain
        /\ UNCHANGED <<queue, m, lock, miner, now, this, target, block, interrupted, givenUp,
                       accepted, stale, dangling>>

TearDownOwn(w) ==
    LET a == this[w]
    IN  /\ pc[w] = "tearDown"
        /\ miner' = [miner EXCEPT ![a] = [TornDown(@) EXCEPT !.mutex = Nobody]]
        /\ interrupted' = interrupted \cup miner[a].minerThreads
        /\ Goto(w, "run") /\ then' = [then EXCEPT ![w] = "ended"]
        /\ Uses(w)
        /\ UNCHANGED <<queue, m, lock, chain, now, this, target, block, givenUp,
                       accepted, rejected, stale>>

-----------------------------------------------------------------------------
(* The system *)

Manage(t) == RunNot(t) \/ Run(t) \/ \E w \in Workers : CreateThread(t, w)
Told(t) == Notify(t) \/ Requeue(t) \/ TearDownOther(t)
Mine(w) ==
    \/ ReadTime(w) \/ ReadLatestBlock(w) \/ CopyTransactions(w) \/ Interrupt(w)
    \/ Find(w) \/ OnNewBlockFound(w) \/ PublishBlock(w) \/ TearDownOwn(w)
    \/ Abort(w)

\* What the program does by itself
Step(t) == Manage(t) \/ Told(t) \/ (t \in Workers /\ Mine(t))

Arrive ==
    \/ \E t \in Callers, tx \in situation.arriving : AddTransaction(t, tx)
    \/ \E txs \in SUBSET situation.arriving, time \in 0 .. situation.time : ReceiveBlock(txs, time)

Next ==
    /\ UNCHANGED situation
    /\ \/ Tick
       \/ Arrive
       \/ \E w \in Workers : GiveUp(w)
       \/ \E t \in Threads : Step(t)

Spec == Init /\ [][Next]_vars

\* Threads run: each that can take a step of its own takes one.  That includes
\* a search, which finds a nonce unless it runs out of them.
FairSpec == Spec /\ \A t \in Threads : WF_vars(Step(t) /\ UNCHANGED situation)

-----------------------------------------------------------------------------
(* Properties *)

\* All that is claimed is claimed up to the first use of a deleted Miner.

\* The values every variable keeps; the queue and the Miners hold only what
\* addTransaction took.
TypeOK ==
    /\ ToSet(queue) \subseteq ToSet(accepted) /\ ToSet(accepted) \subseteq Transactions
    /\ m \in Addresses \cup {Nobody} /\ lock \in Threads \cup {Nobody}
    /\ \A a \in Addresses :
         /\ miner[a].transactions \subseteq ToSet(accepted)
         /\ miner[a].minerThreads \subseteq Workers
         /\ miner[a].mutex \in Workers \cup {Nobody}
    /\ \A t \in Callers :
         pc[t] \in {"idle", "run", "create", "notify", "requeue", "tearDownOther"}
    /\ \A w \in Workers :
         pc[w] \in {"ended", "time", "latest", "copy", "search", "found", "abort", "publish", "notify",
                    "requeue", "tearDownOther", "tearDown", "run", "create"}
    /\ interrupted \subseteq Workers /\ rejected \subseteq Transactions

\* The Miner there is, also while it is being constructed
Current == {a \in Addresses : a = m \/ (lock # Nobody /\ a = target[lock])}

\* Nobody is about to change the queue or the Miner.
Quiet == \A t \in Threads : pc[t] \in {"idle", "ended", "time", "latest", "copy", "search"}

\* No wake-up is lost: when nobody is about to start one, a queue that is not
\* empty has a running Miner, which looks at it when it finishes.
QueueServed == ~dangling /\ Quiet /\ queue # <<>> => m # Nobody /\ miner[m].running

\* A running Miner runs: one of its workers still searches.
MinerSearches ==
    ~dangling /\ Quiet /\ m # Nobody /\ miner[m].running =>
        \E w \in miner[m].minerThreads : pc[w] # "ended" /\ w \notin interrupted

\* A worker that nobody has interrupted is known to the Miner there is, which
\* can interrupt it: none searches on for ever.
NoOrphans ==
  ~dangling =>
    \A w \in Workers : pc[w] \in {"time", "latest", "copy", "search"} /\ w \notin interrupted =>
        \E a \in Current : this[w] = a /\ w \in miner[a].minerThreads

\* What a running Miner works on
Held == UNION {miner[a].transactions : a \in {c \in Current : miner[c].running}}

\* A transaction that addTransaction took stays in the queue, in the running
\* Miner or on the chain, or was in a block of this node that receiveBlock
\* rejected, unless a thread used a deleted Miner.
NoneForgotten ==
    ~dangling =>
        \A tx \in ToSet(accepted) :
            tx \in ToSet(queue) \cup Held \cup rejected \/ InChain(tx)

OwnBlock(tx) == {i \in DOMAIN chain : chain[i].own /\ tx \in chain[i].transactions}

\* "The last incoming vote will be the last to be put into a block": of two
\* votes of one key, the node does not mine the second before the first.
VotesInOrder ==
  ~dangling =>
    \A i, j \in DOMAIN accepted :
        i < j /\ Duplicates(accepted[i], accepted[j]) =>
            \A k \in OwnBlock(accepted[j]), l \in OwnBlock(accepted[i]) : l < k

\* Every transaction that addTransaction took ends in a block, if not in one
\* that receiveBlock rejects: neither lost wake-ups nor waiting for a mutex
\* keep it from being mined.
Settled ==
    \A tx \in Transactions :
        tx \in ToSet(accepted) ~> InChain(tx) \/ tx \in rejected \/ dangling

\* The workers of a Miner try no nonce twice, skip none that is away from the
\* wrap, and then give up, from all starts that are away from it as well
\* (consumeNextNonces).  It depends on no state and is evaluated once.
NoncesExhausted == accepted = <<>> => \A size \in NonceSizes : SearchEnds(size) /\ EachOnce(size)

=============================================================================
