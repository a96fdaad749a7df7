# A verification project for bitvoting

Bitvoting is a peer-to-peer program for elections. Every client keeps a block
chain; elections, votes, tallies and partial tallies are transactions in its
blocks; votes are Paillier ciphertexts that only a threshold of trustees can
decrypt together. The source is in `src/bitvoting`, its documentation (German)
in `src/docs/documentation.tex`. This directory holds TLA+ modules translated
from that source, the TLC configurations that check them on small instances,
and proofs that TLAPS checks for every value of the constants.

    tlc -config BlockChainDBCrash.cfg MCBlockChainDB
    tlc -config Network.cfg MCNetwork
    tlapm BlockChainDBProofs.tla
    tlapm BlockChainMaintenanceProofs.tla
    tlapm FloodingProofs.tla
    tlapm VotingLedgerProofs.tla
    tlapm MiningProofs.tla

`PROJECT.json` maps every definition to the lines it stands for, lists the runs,
the theorems, the hazards of the code, what the checks found, and for every
checked property a *mutant*: a plausible mistake (a forgotten write, an
off-by-one) under which TLC must find that property violated. The mutants stand
in the modules directly before the definition they replace, marked `Mutant of`;
no specification uses them.

## 1. The system

### Components

| component | state | operations | what makes it correct |
|---|---|---|---|
| **Block store** `database/blockchaindb.*` | block files, a LevelDB index (block -> place, transaction -> place of its block), keys `genesisBlock`, `latestBlock`, `currentLocation`; the last two also in memory | constructor, `addBlock`, `getBlock`, `getTransaction`, `contains*`, `getLatestBlock`, `getAllBlocks`, for tests `cutOffAfter`, `clear` | an accepted block stays readable; the chain only grows; index, files and memory agree, through crashes and failing disks |
| **Controller: blocks** `controller.cpp` 328-461 | none of its own | `receiveBlock` (check order, contents, every transaction; add; process), `receiveBlockRequest` | a block that one node mined is accepted by all others in the same position |
| **Controller: elections** `controller.cpp` 85-314, `electionmanager.*`, `database/electiondb.*` | one `ElectionManager` entry for each election the node is involved in: who voted, own votes, tallies with their partial tallies, results, ended | `processTx*` for the four transaction types, `createTrusteeTally`, `getAllVotes`, `tally`, `onVote`, `onTally`, `onNewPaillierKey` | entries say what the chain says; trustees decrypt the same sums; a result counts each voter's newest vote once |
| **Transactions** `transactions/*` | immutable | `verify` | the same verdict everywhere |
| **GUI** `gui/*` | windows | vote, tally, import a key | only offers what the others accept |
| **Mining** `miner.*` | queue of transactions, flags and threads of one `Miner`, nonce intervals | `addTransaction`, `runIfPossible`, `mineTransactions`, `onNewBlockFound`, `onNewBlockFromNetwork`, `abort`, `tearDown` | no transaction is lost, one miner at a time, mining goes on |
| **Flooding, block exchange** `net/network.*`, `net/protocols/{blocks,transactions,duplicate}.h` | ids of messages seen | flood with TTL, drop duplicates, request and send blocks | every reachable node gets every block once; a new node catches up |
| **Connections** `net/connection.*`, `net/peers.h`, `net/protocols/{initialize,pingpong,heartbeat}.h` | sockets, GUIDs, known peers | connect, handshake, close, write | one connection per peer, none that is dead or half known for ever |
| **Paillier** `paillier/*` | keys | generate keys, encrypt, prove, decrypt a part, combine | parts of any threshold of trustees combine to the sum |
| **Key stores** `store.h`, `database/{signkeydb,paillierdb}.h` | vectors of keys on disk | save, remove, look up | |
| Hashes, signatures, settings, serialization, tests | | | not part of the protocol's state |

### How they interact

A user's vote, election or tally is signed and *published*: flooded to the peers
and handed to the own miner. A miner that finds a block floods it and passes it
to its own node through the loopback, so that own and foreign blocks take the
same way: `receiveBlock` checks that the block follows the newest one, looks for
each transaction in the index, verifies each (which reads the chain *and* the
local ElectionDB), calls `addBlock`, and only then processes the transactions
one by one. Processing a tally makes a trustee publish its partial tally;
processing the partial tally that reaches the threshold combines a result.

Threads: the network threads (`io_service`), the miner threads and the GUI
thread call into the controller without a common lock. The lock in `addBlock` is a
temporary object that is destroyed in the statement that creates it.

### What is hard

* **Crashes.** `addBlock` makes five kinds of separate writes (index entry,
  locators, block, newest block, location); the processing of the transactions
  comes after all of them and is never repeated.
* **Interleaving.** Two threads inside `addBlock`; a key import and the processing of a
  tally, each in the middle of the other; miner threads that outlive their `Miner`.
* **Order.** Transactions may be mined by anybody in any order and on competing
  branches, of which a node takes the first and keeps it.
* **Local state in global decisions.** Verification reads the ElectionDB, which
  only involved nodes have.
* **Connections.** Both sides close what they take for the second connection to a
  peer; links break without notice; messages of one flood overtake those of
  another; block requests and floods mix on one link.
* **Boundaries.** Block files that roll over, questions nobody answers,
  trustees counted twice, nonces that overflow, powers in floating point.

`PROJECT.json` lists each hazard at its line, with the properties aimed at it, or with what
they leave out.

## 2. The modules

| module | contents |
|---|---|
| `AcceptedChain` | abstract specification of the block store |
| `BlockChainDB`, `BlockChainMaintenance` | the block store step by step; cutting off and clearing |
| `BlockChainDBProofs`, `BlockChainMaintenanceProofs` | proofs about the store; about cutting off and clearing |
| `VotingLedger` | the course of elections on several nodes |
| `VotingLedgerProofs`, `VotingResultsProofs` | proofs about `VotingLedger` |
| `Nonces`, `Mining` | intervals of nonces (pure); queue, Miners and threads of one node |
| `NoncesProofs`, `MiningProofs` | proofs about the nonces; about `Mining` |
| `Paillier` | threshold encryption, with small numbers |
| `PaillierProofs` | proofs about `Paillier`, with numbers of any size |
| `Connections`, `Flooding` | links and handshakes; what is exchanged over them |
| `Broadcast` | abstract specification of `Flooding` |
| `FloodingProofs` | proofs about `Connections` and `Flooding` |
| `MC*` | constants for TLC |

`BlockChainDB`, `VotingLedger`, `Mining` and `Flooding` each contain
`Controller::receiveBlock`, with the part that concerns them; what one module takes
as one step another takes apart:

| part of `receiveBlock` | module |
|---|---|
| the checks against the store and `addBlock`, write by write | `BlockChainDB` |
| verification of the transactions, processing them one by one | `VotingLedger` |
| the check of the time, telling the miner | `Mining` |
| who gets a block, and in which order | `Flooding` |

Where one run should look at several settings, one constant `Situations` is a
set of records, the initial state picks one, and no step changes it: the number
of trustees, the length of the chain and whether processes crash in
`VotingLedger`, which faults may come in `Mining` and `Flooding`.

### `BlockChainDB`, with `AcceptedChain` (the abstract specification)

The state is that of the class and its disk: `latestBlock`, `currentLocation`
(memory), `genesisStored`, `dLatest`, `dLocation` (the three keys), `info`,
`locators` (the index), `files` (length and complete blocks of each file). A
thread walks through `receiveBlock` and `addBlock`; `pc[t]` names its next
step, and every step is one read-and-decide or one write of the code:

| action | code |
|---|---|
| `Construct`, `InitLatest`, `InitLocation` | constructor: load the keys, or write the three of a new database |
| `ReceiveBlock` | the checks of `receiveBlock` that read the store |
| `CheckOrder`, `OpenBlockFile` | `addBlock` compares with `latestBlock`, then `tellp()` with `currentLocation` |
| `SaveBlockInfo`, `SaveLocator` | index entries |
| `WriteBlock`, `WriteBlockFails` | serialization into the stream's buffer |
| `CloseBlockFile`, `CloseBlockFileFails` | `close()` brings the buffer to the disk, whole or in part |
| `SaveLatest`, `SaveLocation` | `saveMetaData`, two writes |
| `Crash`, `CrashInClose` | the process stops between any two of these, or in the middle of `close()` |

A block is a model value with a parent, transactions and a length. A LevelDB
write is atomic and survives a crash of the process. `ContainsBlock`,
`GetBlock`, `GetTransaction`, `GetLatestBlock` are the reads. `Height` is not in
the code: it expresses that hashes admit no cycles.

`AcceptedChain` is what a store promises: a `tip` that starts at genesis and only
ever moves to a child. `RefinesChain` says that the newest block *on disk* does
so, through crashes and restarts.

### `BlockChainMaintenance`

Extends `BlockChainDB` by `CutOffAfter` and `Clear`, which only the tests call,
on one thread, between calls of `addBlock`. Each is one step; crashes and restarts come
before and after it, and between the writes of `addBlock`. A `CutOffAfter` that finds a file missing stops
in the middle, as the code does (`BC_FILE_CORRUPT`), with the index entries and some
files gone and the newest block unchanged.

### `VotingLedger`

Several nodes, each with its chain, its ElectionDB (`elections[n]`, the fields of
`ElectionManager`) and its PaillierDB. A transaction is published once, may be
mined by any node at any later time or never, in any order with others; a block
may reach another node at any later time or never. This covers losses, delays
and reordering of the network and the queues. `MineBlock` and `Receive` run the
checks of `receiveBlock`; `pending[n]` then holds the transactions of the block
still to be processed, so that a crash can come in between. The users'
actions are the GUI's handlers with their checks, among them the rule which
blocks a tally may end at (`OfferedBlocks`).

Where the GUI thread and the thread that processes a block meet without a lock, both
are taken apart. A tally is processed in two steps: `RegisterTxTally` up to
`ElectionDB::Save`, `AnswerTxTally` from `PaillierDB::Get` on, with `answering[n]`
in between. The import of a key has two as well: `ImportKey` is `onNewPaillierKey`,
`SaveKey` is `PaillierDB::Save`, with `importing[n]` in between. `Processed(n)`
says that a node is done with its newest block.

Counting is modelled by what it computes: `CountedVotes` is the walk of
`getAllVotes`, from the newest block to the oldest and in each block in the order
of the transactions' hashes, taking the first vote of a key; the product of ciphertexts
decrypts to the number of YES ballots; parts of different sums combine to
`Garbage`; two parts of one server divide by zero, which stops the process
(`Abort`), as does publishing the NULL of a count without any ballot. That the
cryptography does compute this is what `Paillier` is about.

Every client is honest: a signature is by the key it names. A hash is the
identity of what it is taken of. Time and proof of work do not occur.

### `Mining`, with `Nonces`

One node: `queue` and `m` of the `MiningManager`, the `Miner` objects by
address, and the threads, each with its `pc`. `Callers` are the network thread
and the GUI thread; a worker is a thread of a Miner and is `"ended"` until
`CreateThread` starts it.

| action | code |
|---|---|
| `AddTransaction` | `receiveTransaction`, `addTransaction`; the thread then tries to run |
| `RunNot`, `Run` | `runIfPossible` up to the constructor of `Miner`: returns, or takes the transactions out of the queue, deletes the old Miner and places a new one, at the same or at another address |
| `CreateThread` | the constructor starts its threads one by one, under the manager's mutex |
| `ReceiveBlock`, `Notify` | `receiveBlock` and the unlocked read of `m` |
| `Requeue`, `TearDownOther` | `Miner::onNewBlockFromNetwork` up to and with `tearDown` |
| `ReadTime` ... `Find`, `Interrupt`, `GiveUp` | `mineTransactions`; a worker that was interrupted ends at an interruption point and nowhere else |
| `OnNewBlockFound`, `PublishBlock`, `TearDownOwn` | `onNewBlockFound`, with the Miner's mutex held through the loopback into `receiveBlock` |
| `Abort` | `abort` |

The mutexes are those of the code: `lock` of the manager, `mutex` of each Miner;
everything else is read and written without one. A deletion marks the threads that
still have a pointer to the Miner as `stale`; when one of them uses it,
`dangling` is set. From then on the behaviour of the program is undefined, and
nothing is claimed. Overlapping insertions into the vector of the queue are undefined
too; here an insertion is one step. `receiveBlock` is one step up to `addBlock` here:
`BlockChainDB` takes it apart. `Verify` asks for
other transactions on the chain (`Needs`), so that a verdict never turns negative
again; in `Mining` `consumeNextNonces` is running out of nonces, or not.

`Nonces` is what `consumeNextNonces` hands out, as functions of the number of
nonces, the size of an interval and the start: `UpperBound` is the computation
with the overflow of `unsigned int`, `Ends` and `Tried` what a search comes to.
`SearchEnds` and `EachOnce` are about the searches that do not start near the wrap
(`SafeStarts`); `CountsUp` is what the comment at `Miner` says of all.

### `Paillier`

Key generation, archives, ballots with their proofs, sums, partial decryptions
with their proofs, combination and the comparison operators that the `std::set`s
rely on, each with the formula of the code, over real but small numbers: the
loops over safe primes with 6 bits end with 5 and 7 only, so that n = 35. GMP is
modelled by what it documents (`Power`, `Invert`, `TDiv`). What the code draws at
random comes from small sets; the hash of a proof is any function of its input,
here a remainder of the concatenated digits. An archive is the tuple
of what is written, in its order. A tally takes the partial decryptions with a right proof in the
order of their `std::set`, and combines the first `threshold` of them.

### `Connections` and `Flooding`, with `Broadcast` (the abstract specification)

A link is one TCP connection with two ends, each a `Connection` object of its
node. `wire[e]` is what is under way to end `e`, in order. The two handlers that
complete a connection (`Connected`, `Accept`) run in any order; each writes
`PeerInfo`, and `ReceivedPeerInfo` is where a node learns the GUID of the other
side, closes the connection when it has one to that peer already, or asks for
blocks. A ping makes every node that gets it connect to its sender. A link may be lost
without notice: data that is not acknowledged (`Heartbeat`, left on the wire of
an end that is gone) is how an end finds out (`SendHeartbeat`, `WriteFails`).

| action | code |
|---|---|
| `ConnectInitial`, `Connected`, `ConnectFails`, `Accept` | `network.cpp` and `Connection::connect`, with the limit of connections checked where the code checks it |
| `ReceivedPeerInfo` | `initialize.h` |
| `SendPing`, `ReceivedPing` | `pingpong.h` |
| `SendHeartbeat`, `ReadFails`, `WriteFails` | `heartbeat.h`, the error branches of `connection.cpp` |
| `Lose`, `Shutdown` | a link breaks; a process ends |
| `PublishTransaction`, `ReceivedTransaction` | `transactions.h`, `Flood`, `checkDuplicate` |
| `PublishBlock`, `DistributeOwn`, `ReceivedBlock` | `blocks.h`, also the loopback: an own block is flooded before it is added |
| `ReceivedBlockRequest` | `blocks.h` and `Controller::receiveBlockRequest` |

A block is the chain that ends with it. TTLs are those of the code, with its two
special values; ids of messages do not expire. A flood is one step of its node: in
the code it iterates over the connections while other threads may change them.

`Broadcast` promises that a node handles a transaction at most once and only
when it was published. The refinement maps `handled` to itself.

## 3. What TLC checks

| run | shows |
|---|---|
| `store_crash` | one thread, a tree of five blocks with competing branches and shared transactions, file limit such that chains of two blocks roll over, crashes anywhere: types, `StoreInv` (the inductive invariant), `AckedReadable`, `IndexIsChain`, `Extendable`, `BlockFilesBounded`, `RefinesChain` |
| `store_faults` | two threads that take turns on one chain while the disk fails and the process crashes: no block is accepted on top of a lost one (`NeverBuiltOnLost`) |
| `store_two_threads` | **violated**: `AcceptedStays` |
| `maintenance` | cutting off and clearing a store with up to three blocks, with crashes: what is left is readable (`AckedReadable`), an emptied store has nothing left (`EmptyIsFresh`), the chain lies in the files in the order of its blocks (`KeepInv`, the inductive invariant) |
| `election` | two nodes in seven situations. Without crashes: repeated and contradicting votes, a tally and a result on all branches; or two trustees, both needed, that import their keys before, while or after the tally is processed and count at different times. With crashes in the middle of a block or an import: double imports, counts that abort, two tallies. `TypeOK`, `ResultsCount`, `TrusteesAgree`, `BackedByChain`, `EndedIsFinal` in all of them, `BlocksAcceptable`, `MirrorsChain` without crashes |
| `import_race` | **violated**: `OnePartialTally` |
| `uninvolved` | **violated**: `EveryNodeAccepts` |
| `partial_abstention` | **violated**: `TalliesUsable` |
| `mining` | two votes of one key brought by two threads, Miners with two workers, a foreign block: `TypeOK`, `QueueServed`, `NoOrphans`, `NoneForgotten`, `VotesInOrder`; and for four sizes of nonces and intervals, which searches end and what they try: `NoncesExhausted` |
| `mining_settled` | workers that give up, also while the others are still being created; a vote and a tally of it, with a clock: `MinerSearches`, and under fairness `Settled` |
| `paillier` | all keys, votes and orders of answers for four pairs of trustees and threshold: `TypeOK`, `SumDecrypts`, `HonestProofsAccepted`, `NoneDropped`, `CoefficientsExact`, `SharesExact` |
| `network` | three nodes and up to four links in twelve situations, among them mutual calls, calls to oneself, pings, circles, full nodes, lost links, ended processes, GUIDs that are not set, competing blocks and nodes that catch up: `TypeOK`, `OneLinkPerPeer`, `KnownStays`, `ImplementsBroadcast`, and under fairness `LinksSettle`, `CallsSucceed`, `Spread`, `Answered` |

### Fairness

* `Settled` holds under weak fairness of `Step(t)` for each thread: one that can
  take a step of its own takes it, as the scheduler of the operating system has
  it. That includes a search, which either finds a nonce or gives up: nobody
  searches for ever. Arriving transactions and blocks, giving up and the clock are
  not fair.
* `LinksSettle`, `CallsSucceed`, `Spread` and `Answered` hold under weak fairness of
  `Progress`: the `io_service` runs every handler that is ready, the thread of
  the heartbeats goes on, and a miner that has flooded a block passes it on. As the
  bounds leave only finitely many steps, this is enough for each handler to
  get its turn. Pings, publications and faults are not fair.

All other properties are safety properties and need no fairness. Deadlock is not
checked: the bounds exhaust blocks, links and transactions, and a program that waits
for its user or its peers is meant to wait.

### The violated runs

* `store_two_threads`. Two threads pass the order check before either sets
  `latestBlock`; both get `BC_OK`, and one of the two blocks is not on the chain.
* `uninvolved`. `TxVote::verify` and `TxTrusteeTally::verify` need the ElectionDB
  entry; a node without a key of the election never gets past the first block
  with a vote.
* `partial_abstention`. A question that everybody abstains from gets no
  answer in a partial tally, but `verify` demands one per question: the election
  has no result.
* `import_race`. The network thread saves a tally; the GUI thread imports a key,
  finds the tally unanswered, answers it and saves the key; the network thread reads
  the keys and answers with it again (`controller.cpp:243`).

### Weaker than one might expect

Some properties are stated as they are because the stronger form does not hold
of the code. A reader who strengthens them meets these behaviours.

The store:

* `RefinesChain` reads a missing `latestBlock` as genesis. After a crash between
  the first two writes of a new database the node starts with a newest block of
  zero and can add nothing (`blockchaindb.h:126`).
* `NeverBuiltOnLost` does not say that an acknowledged block is on the disk: a
  `close()` that fails is not noticed (`blockchaindb.cpp:174`).
* `IndexIsChain` only speaks of stores in which no `addBlock` was cut short. The index
  entry is written first; after a crash before `latestBlock` is saved, `containsBlock` is true of a block that
  is not on the chain, and `receiveBlock` refuses that block for ever
  (`blockchaindb.cpp:154`).
* `maintenance` does not say that the next block fits after `cutOffAfter`:
  `currentLocation` is set to the start of the block that is kept
  (`blockchaindb.cpp:423`). When the kept block is the last of a full file
  and the next file does not exist, the index entries are erased before the failure
  is noticed (`blockchaindb.cpp:417`).

Elections:

* `BackedByChain` is one direction only. A crash after `addBlock` leaves
  transactions unprocessed for good, up to an election the node never learns of
  (`controller.cpp:428`). Nor does it speak of a tally without any vote: `createTrusteeTally`
  gives no transaction, the client publishes it all the same (`controller.cpp:262`) and
  ends there (action `Abort`).
* `EndedIsFinal` lets tallies enter an entry after the end: a partial tally for
  a tally that was ignored brings it back (`controller.cpp:293`).
  Votes may enter too: `TxVote::verify` does not look at `ended`. By
  `ResultsCount` they do not change what a tally counts.
* `ResultsCount` counts the newest vote on the chain, not the one cast last: a
  repeated vote that is mined first loses (`electionmanager.cpp:386`).
* No property says that a trustee answers a tally exactly once. A tally that is
  processed between `onNewPaillierKey` and `PaillierDB::Save` gets no answer
  (`dialogmanagekeys.cpp:221`), one processed during the import may get two
  (`import_race`), and so does every tally once a key was imported twice, since
  `PaillierDB::Save` does not look for duplicates. Two answers of one key may be all
  that the threshold asks for; combining them divides by zero on every node that
  counts (`paillier.cpp:787`, action `Abort`). `MirrorsChain` leaves out the nodes to
  which that has happened: they stop in the middle of a block. So does
  `BlocksAcceptable`: such a node may lack the entry that a check asks for.

Mining:

* `NoneForgotten` and `Settled` have a way out, `rejected`: the transactions of an
  own block that `receiveBlock` rejects are in no queue any more. That happens
  when a foreign block comes in after the worker has read the newest block and the
  worker finds its nonce before the network thread has told the Miner
  (`miner.cpp:57`), when the network thread reads `m` while it is NULL
  (`miner.cpp:414`), when the newest block is younger than the time the worker
  has fixed before it read it (`miner.cpp:108`), and when the queue still held
  what a foreign block had brought meanwhile (`miner.cpp:358`).
* All properties of `Mining` end where a thread uses a deleted Miner
  (`miner.cpp:340`): workers are interrupted and not joined.
* `VotesInOrder` is about the blocks of this node: two votes of one key in
  the queues of different nodes are mined in any order.
* `NoncesExhausted` promises an end to the searches that start away from the wrap
  (`SafeStarts`), and says nothing of the others. Of the nonces it says that none is tried
  twice and that those away from the wrap are tried; the interval that reaches the wrap and the
  start itself are left open. The comment at `Miner` promises more: a search counts up until it
  is at its start again (`miner.h:56`; `CountsUp`). It does not: the sum in `consumeNextNonces`
  overflows in the interval that reaches the end of the numbers (`miner.cpp:94`), that interval
  is skipped, and from a few starts (the last 1000 and the first 7 of the 2^32) the end is never
  met, so that the search goes round. `StartsMissed` proves it, section 4. It matters little: a
  nonce that is skipped is as good as any other.

Paillier:

* `SharesExact` is about fourteen trustees at most. The share of a trustee is to be a value of
  the polynomial (`paillier.cpp:205`), whose powers `evaluatePolynomial` takes from `pow`, a
  double (`paillier.cpp:75`). With fifteen trustees who all have to decrypt, 15^14 is rounded, and
  the sum is wrong (`PowersExact(15)` is false). The dialog for a new election does make the
  threshold the number of trustees. `SumDecrypts` has four trustees at most and does not meet
  the limit.
* Numbers are drawn from `0..n-1` where the comments say units of `Z_n`: one
  that is no unit would stop the process in GMP. At 1024 bits this does not happen;
  `Blinding` and `Rho` are units.
* `verificationkey::save` and `partialkey::save` reserve no room for the sign and
  the end of a string (`paillier.h:85`, `paillier.h:228`), unlike the others; what
  GMP writes beyond is undefined and not modelled.

The network:

* `Answered` is about requests that name a block. A new node asks for what follows
  the genesis block, which is no block of any chain: nobody answers
  (`controller.cpp:443`), against the documentation, by which it gets the chain
  from its neighbours. Nor does it get further than its neighbour was: what answers a
  request is not flooded on.
* `CallsSucceed` leaves out nodes that call each other. Each side may close the
  connection it completes second, which may be both; nobody calls again
  (`initialize.h:58`).
* `LinksSettle` lets an end that was lost before the handshake stay open: heartbeats
  only go to connections that are initialized (`heartbeat.h:40`).
* `Spread` promises a block only to the nodes that were level with its miner. A
  node takes the first block of a height; nothing brings two branches together again.
* Nothing is claimed of the limit of connections: it is checked before an
  asynchronous connect and not when that completes, so that the number of connections
  exceeds it by those that were under way (`network.cpp:105`).
* A GUID that is not set (`connection.h:68`) is `None` or `Garbage`; no property needs
  more of it.

### Bounds

| bound | value | why it is enough |
|---|---|---|
| blocks (`BlockChainDB`) | 5, up to 3 in a chain | a competitor at each height, a roll-over with a block after it, shared and no transactions |
| lengths 2-3, `FileSize` 3 | | the second block of a chain ends behind the limit |
| nodes (`VotingLedger`) | 2, with an uninvolved one 3 | one creator, one other; roles on the same or on different nodes |
| `maxBlocks` | 3 to 5 | a result takes four blocks one after the other (election, vote, tally, partial tally: each depends on the processing of the one before); five leave room for a repeated vote, a second tally or a branch |
| `maxVotes` of each key, `maxTallies`, `maxImports` on each node | 0 to 2, by situation | the second is the one that repeats, overtakes or doubles |
| `blockSize` | 1 or 2 | 2 where the order within a block matters |
| `Workers` | 3 at a time | two of the present Miner and one that outlives the last; with three Miners in a row a new worker waits for an old one to end |
| `threads` of a Miner | 2, for liveness 1 | the second is the one that comes too late |
| `Addresses` | 2 | a new Miner may take the place of the deleted one or not |
| `foreign`, `givenUp`, `time` | 0 to 2 | one foreign block is enough to stop a Miner at each step; the situations take these apart because together they take too long |
| `NonceSizes` | 16 to 32 nonces, intervals of 1 to 12 | intervals that divide the number of nonces, that do not, that share a factor with it or none, and a single nonce |
| `Bits`, n | 6, 35 | the smallest for which the code's loops end; two primes, safe and different |
| `Sizes` | 1 of 1, 2 of 3, 3 of 3, 3 of 4 trustees | more answers than needed and just enough; sums over all polynomials with the coefficients 0 and 101 |
| `MaxVotes` (`Paillier`) | 3 | below n; a tie, none and all |
| `MaxServers`, `MaxShares` | 6, 16 | all groups of up to six; powers on both sides of 2^53 |
| nodes (`Flooding`) | 3 | a node in the middle, a circle |
| `MaxLinks` | 4 | a circle and one more, two between two nodes at once |
| `FloodingTTL` | 2 | a ping ends one hop before, at or behind the last node |
| pings, losses, stops, blocks | 0 to 2 by situation | together they take too long; each meets handshakes, floods and the other links at every step |

The safety run of `Mining` uses symmetry (workers, addresses and the two votes are
alike), leaves out of the compared state what a thread at rest does not use
(`Relevant`), and does not look beyond the first use of a deleted Miner
(`Defined`). The liveness runs use none of these.

Constants of each run are in its `.cfg`; trees, roles, ballots and situations are
operators of the `MC` modules. `Crashes`, `DiskFaults` (of the store) and `crashes` (of a
situation of `VotingLedger`) switch faults on. Histories
(`acked`, `torn`, `imports`, `aborted`, `voted`, `results` of `Paillier`, `handled`,
`due`, `asked`, `called`) only serve the properties and bounds.

## 4. What is proved

Thirty-six theorems in eight modules, each for every value of the constants that
meets the named assumptions.

`BlockChainDBProofs`, for any set of blocks, transactions, lengths and any file limit:

| theorem | assumptions | argument |
|---|---|---|
| `TypeCorrect`: `Spec => []TypeOK` | `ChainAssumption`, `ContentAssumption` (hashes have no cycles, lengths are positive) | `TypeOK` with `BusyHasBlock` (a thread inside `addBlock` has a block) is inductive; any number of threads, crashes, failing disks |
| `StoreInvariant`: `Spec => []StoreInv` | also one adding thread and no failing disks | one lemma per action |
| `AcceptedReadable`: `Spec => []AckedReadable` | the same | `StoreInv` implies it |
| `ImplementsChain`: `Spec => RefinesChain` | the same | every step moves the tip to a child of it or leaves it |
| `SpaceLeft`: `Spec => []Extendable` | the same | `StoreInv` with `SpaceInv` |
| `FilesBounded`: `Spec => []BlockFilesBounded` | the same | these with `LimitInv` |
| `IndexExact`: `Spec => []IndexIsChain` | the same | `StoreInv` with `ChainInv` |
| `AcceptedForGood`: `Spec => []AcceptedStays` | the same | `StoreInv` with `ChainInv`; `store_two_threads` refutes it for two threads |
| `LostNotBuiltUpon`: `Spec => []NeverBuiltOnLost` | the first two, and `Disjoint`: two threads bring different blocks | `LostInv`, for any number of threads, with crashes and failing disks |

`AckedReadable` is not inductive: from a state in which an acknowledged block is
readable but a file's length is wrong, or the index leads to where the next block will
be written, one step destroys it. `StoreInv` adds

* `FilesInv`: the records of a file lie within its length and at different places;
* `AckedInv`: an acknowledged block and its transactions are indexed at a place
  that holds it, *and its height is at most that of the newest block on disk*,
  which is why no later block, being higher, can overwrite its index entry;
* `HeadInv`: how far the keys on disk lag behind memory;
* `AddInv(t)`: what a thread has established at each step, in particular that no
  acknowledged block shares a transaction with the one being added, so that no
  locator is redirected.

`Extendable` needs more, since it is about the file *after* the last one, and about a
location that is behind. `SpaceInv` says that every location, on the disk, in memory
and in a thread's hands, is the end of what is written (`Ends`), with nothing in the files
after it, as long as no `close()` was torn; of the disk it says so while the program is
down, of a thread at the steps in which the code relies on it (`SpaceOf`).

`LimitInv` says of the same locations that they fit: at most `FileSize` where the next
block will be written, so that the roll-over comes in time. The limit holds as long as
nothing was cut short; after a crash a file may happen to end exactly where a location
behind the limit expects it to.

`ChainInv` says at each step of `addBlock` which blocks and transactions the index has:
those of the chain that ends in the newest block, and of the block being added what has
been written so far. It needs `Ancestry`, which is recursive. `Descent` is the same without
recursion, the blocks of every set that is closed under parents; it solves the equation of
`Ancestry`, so that this may be unfolded (`AncestryUnfold`).

`LostInv` gives up all that. Threads interleave, disks fail, a file may be written over: what
remains is that a complete block stays at its place and keeps its index entry
(`Grows`), and that a thread past the two checks has a parent that can be read (`LostAt`).
`Disjoint` holds as long as the miner adds its own blocks and the network thread those of
others. Should a neighbour send a block back while its own miner is still adding it, the second
index entry may lead to a place that a failing disk never fills.

The assumption of one thread is needed, as `store_two_threads` shows; that of the
disk is, since a failing `close()` loses acknowledged blocks.

`BlockChainMaintenanceProofs`, for one thread and disks that do not fail, with crashes and
restarts, from the same assumptions:

| theorem | argument |
|---|---|
| `ChainKept`: `MaintenanceSpec => [](TypeOK /\ StoreInv /\ KeepInv)` | one lemma for each action of `BlockChainDB`, `CutOffAfter` and `Clear` |
| `AcceptedReadableAfterCuts`: `MaintenanceSpec => []AckedReadable` | `StoreInv` implies it |
| `ClearedIsFresh`: `MaintenanceSpec => []EmptyIsFresh` | `Fresh`, a part of `KeepInv` |

`StoreInv` alone is not kept by `CutOffAfter`: it lets an acknowledged block lie anywhere, also
behind the cut. `KeepInv` says where the blocks are.

* Acknowledged blocks are on the chain that ends in the newest block of the disk, and
  `ChainHeld`: each block of that chain lies *behind* its ancestors (`Before`). A
  cut removes the files and bytes behind the start of the second block, hence nothing of the
  blocks before it. The block that is kept has exactly one child on the chain (`Successor`),
  which is the one the code finds.
* `LastFile`: no file follows the one the next block goes to, so that the code removes all
  it has to, and `clear` leaves none.
* `Behind(t)`: what a thread in `addBlock` is about to write comes behind the chain.
* `Intact`: a `cutOffAfter` that fails has erased the entry of the newest block. From then on
  nothing can be added (`receiveBlock` does not find the parent), and what is said of the
  chain is claimed no longer; the acknowledged blocks that are left stay readable all the same.
* `Fresh`: a store without a chain has no entries and no files until a thread writes to it.

`FloodingProofs`, for any nodes, any number of links and any set of situations:

| theorem | argument |
|---|---|
| `NetworkTypes`: `Spec => []TypeOK` | `LinkTypes`, `DataTypes`, and `WireInv`: what is on each wire is a message of one of six kinds with a TTL that is set |
| `OneLink`: `Spec => []OneLinkPerPeer` | part of the inductive invariant, with `EndsInv`: how far the two ends of a link can be apart, and that an introduction comes first and once |
| `KnownConnectionsStay`: `Spec => KnownStays` | a node only closes the connection on which it just got an introduction, and by `WireInv` one that is known gets no more of these |
| `ImplementsAbstract`: `Spec => ImplementsBroadcast` | `HandledInv`: a transaction on a wire was handled by some node, and a node that handled it has its id |

The invariant is `Inv == LinkTypes /\ DataTypes /\ WireInv /\ EndsInv /\
OneLinkPerPeer /\ HandledInv`; every action has a lemma of its own.

`VotingLedgerProofs`, for any nodes, elections, keys, thresholds and situations that
meet `LedgerAssumption`, with crashes and aborts:

| theorem | argument |
|---|---|
| `LedgerTypes`: `Spec => []TypeOK` | `Inv` implies it |
| `EntriesBacked`: `Spec => []BackedByChain` | part of `Inv` |
| `EndStays`: `Spec => EndedIsFinal` | by `Inv` the entry of an election exists before anything changes it, and no action takes back its end or its results (`Finality`) |

`BackedByChain` is not inductive: it is about entries, and what an action writes to an entry
comes from a transaction that waits in `pending`, from a block, or from the chain.
`Inv` is `Shapes`, `PublishedInv`, `BlocksInv`, `KeysInv` and for each node

* `ChainOK`: the tally of a partial tally on the chain is on the chain too, which
  `VerifyTrusteeTally` saw to when the block was accepted;
* `PendingOK`: what waits is on the chain, each transaction once, and an election that
  waits has no entry yet;
* `EntriesOK`: an entry has the shape of its election (`Manager`), and everything it says
  is in a transaction on the chain (`Backed`).

`AnsweringOK` goes with it: what a node is about to answer is a tally on its chain.

Chains and the sets of what was published and found only grow (`Grows`), so that a step
that leaves an entry alone keeps it backed; one lemma per action does the rest.

Also in `VotingLedgerProofs`, from the same assumption: `SameSums`, that is
`Spec => []TrusteesAgree`. Partial tallies only combine when the trustees have multiplied
the same ballots, while each counts its own chain at a time of its own.

* `PathsInv`: a chain is linked by `previous`, so that two chains with a block in
  common are equal up to it (`SamePrefix`); a transaction is in one block of a chain
  (`Once`); a tally is on no chain without its election and its last block
  (`TalliesOK`, which `VerifyTally` sees to).
* Hence a node that has the tally has the whole path that is counted, and the count is a
  function of that path: `SameCount` says that it is equal on every such node and that no
  later block changes it.
* `SumsInv`: every partial tally that was published says what each node that has its
  tally counts. Two of them are therefore equal.

`VotingResultsProofs`, from the same assumption:

| theorem | argument |
|---|---|
| `ResultsCounted`: `Spec => []ResultsCount` | `ResultsInv`: a result is what every node counts for its tally; and `CountedAreNewest` |
| `EntriesMirror`: `Spec => []MirrorsChain` | `MirrorsInv` implies it |
| `MinedAccepted`: `Spec => []BlocksAcceptable` | `MirrorsInv` for the miner's and the other node, and `CheckedInv` |

* `BlockRules`: a block has at most `blockSize` transactions and one vote per key, and
  stays on the chain of its miner.
* `CheckedInv`: what the check of a transaction asks for is in *earlier* blocks of
  every chain that has it: the election, the last block of a tally with a vote in it, the
  tally of a partial tally. A tally counts at its own last block, so that votes
  which come later never matter.
* The result: the code walks back from the last block and skips the keys it
  has met (`getAllVotes`). By `CountedAreNewest` it meets the newest vote of every voter
  and no other, and the ballots that are multiplied are as many as voters. `Combined`
  takes the sums of the partial tally with the least server number; by `SumsInv` they
  are those of any other, hence what the node counts itself.
* `MirrorsInv`, without crashes and for nodes that have not aborted: an entry
  says (`Says`) what is on the chain and *no longer waits* in `pending` (`ProcessedOf`), and all
  that waits is of the newest block. When nothing waits this is `MirrorsChain`. It needs
  `CheckedInv`: a partial tally finds its tally processed, because that is in an
  earlier block.

`LedgerAssumption` says that the numbers of the decryption servers are natural numbers (`id`,
`paillier.h:218`), of which the least is chosen.

`NoncesProofs`, for any number of nonces and any number of them, smaller, that are taken at
once (the code has 2^32 and 1000):

| theorem | argument |
|---|---|
| `TriesEachOnce`: `EachOnce(size)` | `TriedNever`, `TriedOnce` |
| `EndsFrom`: `SearchEnds(size)` | `StopsIf` |
| `StartsMissed`: no search ends that starts outside `SafeStarts(size)`; `~CountsUp(size)` | `StopsOnlyIf` |

`Counter`, the course of `nonceCounter`, is recursive; `CounterCourse` unfolds it.

* `EachOnce` is about the two rounds of a search that starts well away from the wrap. In the first
  the intervals follow the start, one length apart, up to the wrap, and the interval that reaches it
  is tried by nobody; the second begins behind the wrap and ends at the start (`FirstRoundIs`,
  `SecondRoundIs`, `RoundsExist`). Each round is a `Row` of numbers at equal distance, so that a nonce is
  in one of its intervals at most (`RowOne`), and `Places` says in which.
* `SearchEnds` and `StartsMissed` together are about every start (`EndsAsStated`). A counter
  that never comes to its start goes round for ever, a rotation by the length of an interval (`Rotation`), and by Bezout's identity
  it passes every number that differs from its beginning by a multiple of the greatest common
  divisor (`GcdIs`, `Bezout`, `Visits`): also one that lies less than an interval before the start, from
  where it does come to the start (`StopsIf`). For the first few starts no such number
  exists: the remainder by the divisor never changes, so that the counter stays above the start
  (`Skips`); and for the last ones the interval that would end at the start reaches the wrap
  (`StopsOnlyIf`).

`MiningProofs`, for any transactions, callers, workers, addresses and situations, from
`MiningAssumption`:

| theorem | the part of the invariant |
|---|---|
| `TypesHold`: `Spec => []TypeOK` | `Types`; `FlowInv`: where each kind of thread can be, and that `lock` belongs to the thread that constructs a Miner; `AcceptedInv`: queue, Miners and blocks hold what was accepted, each once, and it verifies ever after |
| `NoWorkerOrphaned`: `Spec => []NoOrphans` | `OrphanInv`: the same, also of a worker that has found a block |
| `QueueIsServed`: `Spec => []QueueServed` | `ServedInv`: a Miner runs, or a thread is on its way to `runIfPossible` |
| `NothingForgotten`: `Spec => []NoneForgotten` | `KeptInv`: whoever ends a Miner has settled what it worked on before, and a block that was handed to `receiveBlock` is on the chain or rejected |
| `VotesMinedInOrder`: `Spec => []VotesInOrder` | `OrderInv`: of two votes of one key the second leaves the queue only when the first has gone for good (`TakenLast`); a worker that still has the first in its block builds on a chain without the second (`Apart`) |
| `RunningMinerSearches`: `Spec => []MinerSearches` | `SearchersInv`: `threadsDone` is the number of the Miner's workers that have ended, and one of its workers has not |
| `NoncesAlwaysExhausted`: `Spec => []NoncesExhausted` | no invariant: `EndsFrom` and `TriesEachOnce` for the numbers of `NonceSizes` |

`Inv == Threaded /\ AcceptedInv /\ Undamaged` is inductive. `Threaded` (`Types`, `FlowInv`,
`OrphanInv`, `ServedInv`) and `AcceptedInv` hold always; `Undamaged`, that is `OwnersInv`,
`KeptInv`, `OrderInv` and `SearchersInv`, until a deleted Miner is used. `OwnersInv` is what
makes the rest possible: `Run` makes strangers (`stale`) of all threads that know
the Miner it deletes, so that those who are none know the present one, and the worker
that publishes a block has raised `newBlockFound`, by which the call of
`onNewBlockFromNetwork` that its own block causes returns early. A lemma per part and
action does the rest, from lemmas on what each action does to the Miners and
what `ReAdded`, `Append` and `Without` do to a queue.

`PaillierProofs`, for keys of any size, any number of trustees and any threshold, any sets from
which is drawn and any size of the hash, from the assumptions of `Paillier`: bounds are
numbers, what is drawn is not negative, a threshold is between 1 and the number of trustees, and
`BlindingAssumption`, that the `r` of an encryption is a unit modulo n. The code draws that one
without looking; one that is not a unit would give a factor of n away.

| theorem | argument |
|---|---|
| `HonestProofsAlwaysAccepted`: `Spec => []HonestProofsAccepted` | `EncProofVerifies`, `DecProofVerifies`, and what an archive gives back (`BallotTravels`, `PartialTravels`) |
| `NoBallotDropped`: `Spec => []NoneDropped` | `LexTotal`: of two different tuples of numbers one is less |
| `PaillierTypes`: `Spec => []TypeOK` | a product of units is a unit, and no unit is 0 (`UnitNonzero`); a combination is a remainder of n (`CombiningType`) |

`PaillierInv` is inductive. `HonestProofsAccepted` alone is not: the proof of a partial
decryption is about the product of the ballots, and a negative exponent asks for the inverse
of it. So `BallotsInv` adds that ballots are units modulo n^2, `PartialsInv` that partial
decryptions are and that there is one of each trustee, and `KeyInv` how a key, its
verification keys and its shares belong together: the verification key of a trustee is `v`
to the power of the factorial times the share.

* A ballot has two answers, the true one and a simulated one, whose number `f` is drawn and may
  exceed the hash `e`. The true one is `d = (e - f) % n`, with a correction by the quotient of
  `e - f`, which GMP rounds towards zero: of a negative difference it is one too large. `Answered`
  shows that it does not matter, because `n + 1` is 1 modulo n; `CommitmentOpens`
  that the commitment of the true answer, computed from the proof, is the power of
  `rho` that went into the hash.
* A partial decryption is checked with a power of `z = r + s * e * delta` and one of `-e`.
  `OriginalReturns` shows that they give what went into the hash.

Below them lie the laws of powers and congruences, for the recursive `Power` as the model
defines it, that is by squaring (`PowerPlus`, `PowerProduct`, `PowerPower`, `PowerRaised`), and of
Euclid's algorithm (`BezoutIs`, `InvertIs`, `UnitSquare`).

### Data that is defined by recursion

`LeastNumber` (`NoncesProofs`, `BlockChainMaintenanceProofs`, `VotingResultsProofs`), that a
set of numbers that is not empty has a least one, stands in for induction: what fails for some
number fails for a first one. A recursive function is unfolded by showing that its
equation has a solution: `KeptExists` (the steps of `std::remove`), `AncestryUnfold` and
`CounterCourse` do that, and `Solvable` in `PaillierProofs` for any recursion that descends in
the natural numbers. `AncestryDescent` says that the solution is the only one.

### Only model-checked

`SumDecrypts`, `CoefficientsExact` and `SharesExact` of `Paillier`. That the combination is the sum
needs the order of the group modulo n^2 (Euler's theorem), the binomial theorem and Lagrange's
interpolation with coefficients that are whole numbers, inductions over products and sums
whose length is a constant; and for what number of trustees the shares are exact is a matter of the
53 bits of a double. TLC evaluates these over the numbers of the run.

Liveness (`Settled`, `LinksSettle`, `CallsSucceed`, `Spread`, `Answered`) and `ENABLED` are out
of the provers' reach.

## 5. Plan

Done, in this order: `AcceptedChain`, `BlockChainDB`, `BlockChainMaintenance`,
`BlockChainDBProofs`; `VotingLedger`; `Mining`; `Nonces`; `Paillier`; `Connections`, `Flooding`,
`Broadcast`; `FloodingProofs`, `VotingLedgerProofs`; `MiningProofs`,
`VotingResultsProofs`; `BlockChainMaintenanceProofs`, `NoncesProofs`; `PaillierProofs`.

Left:

1. `Mining` composed with `Flooding`: the way of a transaction from a queue into
   the chains of all nodes.
2. Two threads in `processTx*`, one of which loses the other's change of an entry
   (`controller.cpp:202`).

## 6. Not modelled

* **Keys** are constants: generating, exporting and deleting signature keys, and the
  vectors of `store.h` beyond the PaillierDB's. Importing a Paillier key is modelled.
* **Forms of the GUI**: the wizard and the dialogs beyond the checks of their buttons.
  `Election::operator==`, which compares `probableEndingTime` with itself
  (`election.h:217`), is called by no step of the protocol.
* **Serialization** except the archives of `paillier.h`: other Boost archives give back
  what was written, and matter by the length of a block only. `export.h`.
* **OpenSSL, LevelDB, GMP, Boost** are taken to do what they document. Signatures are those
  of honest clients, the proof of work of a found block is right; the checks of both pass.
* `print()`, logging, `settings`, `helper`, `main`: no state of the protocol.
* **Of the connections**: the sizes of writes, hence that `Write` overwrites `dataOut`
  while an earlier write still reads it (`connection.cpp:98`); `remote_endpoint()` in log
  lines, which throws when the peer has reset the connection (`connection.cpp:109`,
  `connection.cpp:164`, `network.cpp:66`); the minute after which an id is forgotten
  (`duplicate.h:50`). A heartbeat that arrives has no effect, in the code as in the model.
