---------------------------- MODULE BlockChainDB ----------------------------
(***************************************************************************)
(* The block store of one node (database/blockchaindb.cpp) together with   *)
(* the part of Controller::receiveBlock that reads it before it calls      *)
(* addBlock.  Blocks live in append-only block files; a LevelDB index maps *)
(* a block to its position and a transaction to the position of its block, *)
(* and two further keys hold the hash of the newest block and the place    *)
(* the next block goes to.  Both are also cached in memory.                *)
(*                                                                         *)
(* addBlock is modelled step by step, because                              *)
(*   - boost::mutex::scoped_lock(db.mutex) in it is a temporary that       *)
(*     releases the mutex in the same statement, so that the network       *)
(*     thread and a miner thread interleave inside addBlock, and           *)
(*   - every LevelDB write is separate: the process may stop between any   *)
(*     two of them.                                                        *)
(***************************************************************************)
EXTENDS Integers, FiniteSets

CONSTANTS
    Threads,        \* the threads that call receiveBlock
    From,           \* From[t]: the blocks that reach thread t
    Blocks,         \* the blocks the node may receive, each standing for its hash
    Genesis,        \* Settings::HASH_GENESIS_BLOCK
    NoHash,         \* the default-constructed uint256
    Transactions,   \* transaction hashes
    Parent,         \* Parent[b]: header.hashPrevBlock of b
    Height,         \* Height[b]: distance of b from its root (not stored by the code)
    Txs,            \* Txs[b]: transactions of b
    Size,           \* Size[b]: length of b in its serialized form
    FileSize,       \* Settings::CHAIN_BLOCK_FILE_SIZE
    Crashes,        \* TRUE iff the process may stop at any time
    DiskFaults      \* TRUE iff writing to a block file may fail

Hashes == Blocks \cup {Genesis, NoHash}

\* A hash cannot contain itself: the parent relation is well-founded, which
\* the heights express.
ASSUME ChainAssumption ==
    /\ Genesis \notin Blocks
    /\ NoHash \notin Blocks \cup {Genesis}
    /\ Parent \in [Blocks -> Blocks \cup {Genesis}]
    /\ Height \in [Hashes -> Nat]
    /\ Height[Genesis] = 0 /\ Height[NoHash] = 0
    /\ \A b \in Blocks : Height[b] = Height[Parent[b]] + 1

ASSUME ContentAssumption ==
    /\ Txs \in [Blocks -> SUBSET Transactions]
    /\ Size \in [Blocks -> Nat \ {0}]
    /\ FileSize \in Nat
    /\ From \in [Threads -> SUBSET Blocks]
    /\ Crashes \in BOOLEAN /\ DiskFaults \in BOOLEAN

VARIABLES
    stage,              \* "down", the steps of the constructor, or "up"
    latestBlock,        \* memory: hash of the newest block
    currentLocation,    \* memory: place of the next block
    genesisStored,      \* disk: the key "genesisBlock" exists
    dLatest,            \* disk: value of the key "latestBlock"
    dLocation,          \* disk: value of the key "currentLocation"
    info,               \* disk: the ("bl", hash) entries
    locators,           \* disk: the ("l", hash) entries
    files,              \* disk: the block files by id
    pc,                 \* where each thread is inside receiveBlock
    blk,                \* the block a thread is adding
    at,                 \* file id and tellp() of the stream a thread opened
    todo,               \* transactions whose locator a thread has still to save
    acked,              \* history: blocks for which addBlock returned BC_OK
    torn                \* history: an addBlock was cut short after it began to write

memory == <<latestBlock, currentLocation>>
keys   == <<genesisStored, dLatest, dLocation>>
index  == <<info, locators>>
local  == <<blk, at, todo>>
vars   == <<stage, memory, keys, index, files, pc, local, acked, torn>>

-----------------------------------------------------------------------------
(* Values *)

Locator == [id : Nat, pos : Nat]
Origin  == [id |-> 0, pos |-> 0]

\* A block file: its length and the complete blocks in it with their positions.
Record    == [pos : Nat, block : Blocks]
BlockFile == [len : Nat, recs : SUBSET Record]
EmptyFile == [len |-> 0, recs |-> {}]

Put(f, k, v) == [x \in DOMAIN f \cup {k} |-> IF x = k THEN v ELSE f[x]]
Without(f, S) == [x \in DOMAIN f \ S |-> f[x]]

\* The block b, or only its first n bytes, appended to a file.
Appended(f, b) ==
    [len |-> f.len + Size[b], recs |-> f.recs \cup {[pos |-> f.len, block |-> b]}]
Extended(f, n) == [f EXCEPT !.len = @ + n]

Steps == {"idle", "order", "open", "info", "locators", "write", "close",
          "latest", "location"}

-----------------------------------------------------------------------------
(* Reading *)

\* getBlock(const Locator&): the set of blocks that deserialize at loc, empty
\* when the file is missing or holds no block there (BC_NOT_FOUND, BC_FILE_CORRUPT).
BlocksAt(loc) ==
    IF loc.id \in DOMAIN files
    THEN {r.block : r \in {s \in files[loc.id].recs : s.pos = loc.pos}}
    ELSE {}

\* containsBlock, containsTransaction
ContainsBlock(h) == h \in DOMAIN info
ContainsTransaction(tx) == tx \in DOMAIN locators

\* getBlock(const uint256&)
GetBlock(h) == IF ContainsBlock(h) THEN BlocksAt(info[h].locator) ELSE {}

\* getTransaction: the blocks the transaction's locator leads to that contain it
GetTransaction(tx) ==
    IF ContainsTransaction(tx)
    THEN {b \in BlocksAt(locators[tx]) : tx \in Txs[b]}
    ELSE {}

\* Mutant of GetLatestBlock: does not read the block
GetLatestHash == {latestBlock}

\* getLatestBlock: the hash of the block it returns, BC_IS_EMPTY read as genesis
GetLatestBlock == IF latestBlock = Genesis THEN {Genesis} ELSE GetBlock(latestBlock)

-----------------------------------------------------------------------------
(* Start and stop *)

Init ==
    /\ stage = "down"
    /\ latestBlock = NoHash /\ currentLocation = Origin
    /\ genesisStored = FALSE /\ dLatest = NoHash /\ dLocation = Origin
    /\ info = [b \in {} |-> Origin] /\ locators = [t \in {} |-> Origin]
    /\ files = [i \in {} |-> EmptyFile]
    /\ pc = [t \in Threads |-> "idle"]
    /\ blk = [t \in Threads |-> NoHash]
    /\ at = [t \in Threads |-> Origin]
    /\ todo = [t \in Threads |-> {}]
    /\ acked = {} /\ torn = FALSE

\* Mutant of Construct: takes every database for a new one
ConstructAnew ==
    /\ stage = "down"
    /\ stage' = "initLatest"
    /\ latestBlock' = Genesis /\ currentLocation' = Origin
    /\ genesisStored' = TRUE
    /\ UNCHANGED <<dLatest, dLocation, index, files, pc, local, acked, torn>>

\* The constructor: a new database gets its first keys, in three writes; an
\* old one is loaded.  Reading a key that is missing leaves the default value,
\* which dLatest and dLocation hold until they are first written.
Construct ==
    /\ stage = "down"
    /\ IF genesisStored
       THEN /\ stage' = "up"
            /\ latestBlock' = dLatest /\ currentLocation' = dLocation
            /\ UNCHANGED genesisStored
       ELSE /\ stage' = "initLatest"
            /\ latestBlock' = Genesis /\ currentLocation' = Origin
            /\ genesisStored' = TRUE
    /\ UNCHANGED <<dLatest, dLocation, index, files, pc, local, acked, torn>>

InitLatest ==
    /\ stage = "initLatest"
    /\ stage' = "initLocation" /\ dLatest' = latestBlock
    /\ UNCHANGED <<memory, genesisStored, dLocation, index, files, pc, local, acked, torn>>

InitLocation ==
    /\ stage = "initLocation"
    /\ stage' = "up" /\ dLocation' = currentLocation
    /\ UNCHANGED <<memory, genesisStored, dLatest, index, files, pc, local, acked, torn>>

\* The process stops; what a stream still buffers is lost.
Stop ==
    /\ Crashes
    /\ stage # "down"
    /\ stage' = "down"
    /\ latestBlock' = NoHash /\ currentLocation' = Origin
    /\ torn' = (torn \/ \E t \in Threads : pc[t] \notin {"idle", "order", "open"})
    /\ pc' = [t \in Threads |-> "idle"]
    /\ UNCHANGED <<keys, index, local, acked>>

Crash == Stop /\ UNCHANGED files

\* The same, when a close() under way has written a part of the block.
CrashInClose(t) ==
    /\ pc[t] = "close"
    /\ Stop
    /\ \E n \in 1 .. Size[blk[t]] - 1 :
         files' = [files EXCEPT ![at[t].id] = Extended(@, n)]

-----------------------------------------------------------------------------
(* Adding a block *)

\* Moves thread t from one step to the next, or back to "idle" when
\* addBlock returns.
GoTo(t, from, to) ==
    /\ stage = "up"
    /\ pc[t] = from
    /\ pc' = [pc EXCEPT ![t] = to]

\* The checks of Controller::receiveBlock that read the store.  Time, proof of
\* work and the transactions' own verification do not depend on it.
ReceiveBlock(t, b) ==
    /\ b \in From[t]
    /\ GoTo(t, "idle", "order")
    /\ Parent[b] \in GetLatestBlock
    /\ ~ContainsBlock(b)
    /\ \A tx \in Txs[b] : ~ContainsTransaction(tx)
    /\ blk' = [blk EXCEPT ![t] = b]
    /\ UNCHANGED <<stage, memory, keys, index, files, at, todo, acked, torn>>

\* "check if this block is in order": addBlock compares again, with what
\* latestBlock is by now.
CheckOrder(t) ==
    /\ GoTo(t, "order", IF latestBlock = Parent[blk[t]] THEN "open" ELSE "idle")
    /\ UNCHANGED <<stage, memory, keys, index, files, local, acked, torn>>

\* Mutant of OpenBlockFile: does not compare the end of the file
OpenUnchecked(t) ==
    LET id == currentLocation.id
        new == id \notin DOMAIN files
        end == IF new THEN 0 ELSE files[id].len
    IN  /\ GoTo(t, "open", "info")
        /\ files' = IF new THEN Put(files, id, EmptyFile) ELSE files
        /\ at' = [at EXCEPT ![t] = [id |-> id, pos |-> end]]
        /\ UNCHANGED <<stage, memory, keys, index, blk, todo, acked, torn>>

\* Opens the current block file, creating it when it does not exist, and
\* returns BC_FILE_CORRUPT unless it ends where the next block should start.
OpenBlockFile(t) ==
    LET id == currentLocation.id
        new == id \notin DOMAIN files
        end == IF new THEN 0 ELSE files[id].len
        pos == IF new THEN 0 ELSE currentLocation.pos
    IN  /\ GoTo(t, "open", IF end = pos THEN "info" ELSE "idle")
        /\ files' = IF new THEN Put(files, id, EmptyFile) ELSE files
        /\ currentLocation' = [currentLocation EXCEPT !.pos = pos]
        /\ at' = [at EXCEPT ![t] = [id |-> id, pos |-> end]]
        /\ UNCHANGED <<stage, latestBlock, keys, index, blk, todo, acked, torn>>

\* Mutant of SaveBlockInfo: uses latestBlock as the key before it is assigned
SaveInfoOfLatest(t) ==
    /\ GoTo(t, "info", IF Txs[blk[t]] = {} THEN "write" ELSE "locators")
    /\ info' = Put(info, latestBlock, [locator |-> currentLocation, preHash |-> Parent[blk[t]]])
    /\ latestBlock' = blk[t]
    /\ todo' = [todo EXCEPT ![t] = Txs[blk[t]]]
    /\ UNCHANGED <<stage, currentLocation, keys, locators, files, blk, at, acked, torn>>

\* saveBlockInfo, then the new latestBlock (in memory only)
SaveBlockInfo(t) ==
    /\ GoTo(t, "info", IF Txs[blk[t]] = {} THEN "write" ELSE "locators")
    /\ info' = Put(info, blk[t], [locator |-> currentLocation, preHash |-> Parent[blk[t]]])
    /\ latestBlock' = blk[t]
    /\ todo' = [todo EXCEPT ![t] = Txs[blk[t]]]
    /\ UNCHANGED <<stage, currentLocation, keys, locators, files, blk, at, acked, torn>>

\* saveLocator of one transaction; the order is that of the transactions' hashes
SaveLocator(t) ==
    \E tx \in todo[t] :
        /\ GoTo(t, "locators", IF todo[t] = {tx} THEN "write" ELSE "locators")
        /\ locators' = Put(locators, tx, currentLocation)
        /\ todo' = [todo EXCEPT ![t] = @ \ {tx}]
        /\ UNCHANGED <<stage, memory, keys, info, files, blk, at, acked, torn>>

\* Mutant of WriteBlock: does not move the location behind the block
WriteInPlace(t) ==
    /\ GoTo(t, "write", "close")
    /\ UNCHANGED <<stage, memory, keys, index, files, local, acked, torn>>

\* Serializes the block into the stream's buffer; tellp() then counts what is
\* still buffered from where this stream was opened.
WriteBlock(t) ==
    /\ GoTo(t, "write", "close")
    /\ currentLocation' = [currentLocation EXCEPT !.pos = at[t].pos + Size[blk[t]]]
    /\ UNCHANGED <<stage, latestBlock, keys, index, files, local, acked, torn>>

\* The serialization throws: addBlock returns BC_FILE_CORRUPT, and what the
\* buffer holds reaches the file when the stream is destroyed.
WriteBlockFails(t) ==
    /\ DiskFaults
    /\ GoTo(t, "write", "idle")
    /\ \E n \in 0 .. Size[blk[t]] - 1 :
         files' = [files EXCEPT ![at[t].id] = Extended(@, n)]
    /\ torn' = TRUE
    /\ UNCHANGED <<stage, memory, keys, index, local, acked>>

\* Mutant of Rolled: one file for everything
NeverRolled(loc) == loc

\* id++ when the next block should start a new file
Rolled(loc) == IF loc.pos > FileSize THEN [loc EXCEPT !.id = @ + 1] ELSE loc

\* close() appends the buffer to the end the file has now (the stream was
\* opened with ios_base::app).
CloseBlockFile(t) ==
    /\ GoTo(t, "close", "latest")
    /\ files' = [files EXCEPT ![at[t].id] = Appended(@, blk[t])]
    /\ currentLocation' = Rolled(currentLocation)
    /\ UNCHANGED <<stage, latestBlock, keys, index, local, acked, torn>>

\* close() cannot write all of it; addBlock does not look at the stream's state.
CloseBlockFileFails(t) ==
    /\ DiskFaults
    /\ GoTo(t, "close", "latest")
    /\ \E n \in 0 .. Size[blk[t]] - 1 :
         files' = [files EXCEPT ![at[t].id] = Extended(@, n)]
    /\ currentLocation' = Rolled(currentLocation)
    /\ torn' = TRUE
    /\ UNCHANGED <<stage, latestBlock, keys, index, local, acked>>

\* Mutant of SaveLatest: forgets the newest block
SkipLatest(t) ==
    /\ GoTo(t, "latest", "location")
    /\ UNCHANGED <<stage, memory, keys, index, files, local, acked, torn>>

\* saveMetaData: two writes
SaveLatest(t) ==
    /\ GoTo(t, "latest", "location")
    /\ dLatest' = latestBlock
    /\ UNCHANGED <<stage, memory, genesisStored, dLocation, index, files, local, acked, torn>>

SaveLocation(t) ==
    /\ GoTo(t, "location", "idle")
    /\ dLocation' = currentLocation
    /\ acked' = acked \cup {blk[t]}
    /\ UNCHANGED <<stage, memory, genesisStored, dLatest, index, files, local, torn>>

AddBlock(t) ==
    \/ CheckOrder(t)
    \/ OpenBlockFile(t)
    \/ SaveBlockInfo(t)
    \/ SaveLocator(t)
    \/ WriteBlock(t)
    \/ WriteBlockFails(t)
    \/ CloseBlockFile(t)
    \/ CloseBlockFileFails(t)
    \/ SaveLatest(t)
    \/ SaveLocation(t)

Start == Construct \/ InitLatest \/ InitLocation

Next ==
    \/ Start
    \/ Crash
    \/ \E t \in Threads : CrashInClose(t)
    \/ \E t \in Threads, b \in Blocks : ReceiveBlock(t, b)
    \/ \E t \in Threads : AddBlock(t)

Spec == Init /\ [][Next]_vars

-----------------------------------------------------------------------------
(* Properties *)

BlockInfo == [locator : Locator, preHash : Hashes]

\* The values every variable keeps (the type invariant).
TypeOK ==
    /\ stage \in {"down", "initLatest", "initLocation", "up"}
    /\ latestBlock \in Hashes /\ dLatest \in Hashes
    /\ currentLocation \in Locator /\ dLocation \in Locator
    /\ genesisStored \in BOOLEAN
    /\ DOMAIN info \subseteq Blocks /\ \A b \in DOMAIN info : info[b] \in BlockInfo
    /\ DOMAIN locators \subseteq Transactions
    /\ \A tx \in DOMAIN locators : locators[tx] \in Locator
    /\ DOMAIN files \subseteq Nat /\ \A i \in DOMAIN files : files[i] \in BlockFile
    /\ pc \in [Threads -> Steps]
    /\ blk \in [Threads -> Hashes]
    /\ at \in [Threads -> Locator]
    /\ todo \in [Threads -> SUBSET Transactions]
    /\ acked \subseteq Blocks
    /\ torn \in BOOLEAN

\* The blocks from the first one after the genesis block up to h.
Ancestry[h \in Hashes] == IF h \in Blocks THEN {h} \cup Ancestry[Parent[h]] ELSE {}

Idle == stage = "up" /\ \A t \in Threads : pc[t] = "idle"

\* A block for which addBlock returned BC_OK is found by its hash and by each
\* of its transactions, whatever is added, and however often the process is
\* stopped in the middle of adding something, afterwards.
AckedReadable ==
    \A b \in acked :
        /\ GetBlock(b) = {b}
        /\ \A tx \in Txs[b] : GetTransaction(tx) # {}

\* As long as no addBlock was cut short, the index names exactly the blocks
\* and transactions of the chain that ends in the newest block, and the
\* stored newest block is the one in memory.
IndexIsChain ==
    Idle /\ ~torn =>
        /\ DOMAIN info = Ancestry[latestBlock]
        /\ DOMAIN locators = UNION {Txs[b] : b \in Ancestry[latestBlock]}
        /\ dLatest = latestBlock

\* As long as no addBlock was cut short, the next block goes to the end of
\* its file: addBlock does not refuse it with BC_FILE_CORRUPT.
Extendable ==
    Idle /\ ~torn =>
        \/ currentLocation.id \notin DOMAIN files
        \/ files[currentLocation.id].len = currentLocation.pos

\* What lies in a file does not overlap; and as long as no addBlock was cut
\* short, no block starts behind the limit of a block file.  (After a crash a
\* file may happen to end where a location behind the limit expects it to.)
BlockFilesBounded ==
    \A i \in DOMAIN files : \A r \in files[i].recs :
        /\ ~torn => r.pos <= FileSize
        /\ r.pos + Size[r.block] <= files[i].len
        /\ \A s \in files[i].recs : s # r => \/ s.pos + Size[s.block] <= r.pos
                                            \/ r.pos + Size[r.block] <= s.pos

\* A block that a failing disk lost although addBlock returned BC_OK is never
\* built upon: no later block is accepted after it.
NeverBuiltOnLost ==
    \A b \in acked : Parent[b] \in Blocks => GetBlock(Parent[b]) = {Parent[b]}

\* The chain on disk only grows, one block in order at a time, across
\* crashes and restarts: the store implements AcceptedChain.
Chain == INSTANCE AcceptedChain WITH tip <- IF dLatest = NoHash THEN Genesis ELSE dLatest
RefinesChain == Chain!Spec

\* documentation.tex:91, an accepted block can neither be deleted nor changed:
\* it stays part of the chain.
AcceptedStays == Idle => acked \subseteq Ancestry[latestBlock]

-----------------------------------------------------------------------------
(* The inductive invariant behind AckedReadable and RefinesChain, for one    *)
(* thread and disks that do not fail.                                        *)

Busy(t, steps) == pc[t] \in steps

\* The complete block b lies at loc.
Stored(b, loc) ==
    /\ loc.id \in DOMAIN files
    /\ [pos |-> loc.pos, block |-> b] \in files[loc.id].recs

\* The index leads from b, and from each of the transactions of S, to loc.
Indexed(b, S, loc) ==
    /\ b \in DOMAIN info /\ info[b].locator = loc
    /\ \A tx \in S : tx \in DOMAIN locators /\ locators[tx] = loc

FilesInv ==
    \A i \in DOMAIN files : \A r \in files[i].recs :
        /\ r.pos + Size[r.block] <= files[i].len
        /\ \A s \in files[i].recs : s.pos = r.pos => s = r

AckedInv ==
    \A b \in acked :
        /\ Height[b] <= Height[dLatest]
        /\ b \in DOMAIN info
        /\ Indexed(b, Txs[b], info[b].locator)
        /\ Stored(b, info[b].locator)

\* How far the keys on disk may lag behind memory.
HeadInv ==
    /\ ~genesisStored => dLatest = NoHash /\ stage = "down"
    /\ stage = "initLatest" => dLatest = NoHash /\ latestBlock = Genesis
    /\ stage = "initLocation" => dLatest = Genesis /\ latestBlock = Genesis
    /\ stage # "up" => \A t \in Threads : pc[t] = "idle"
    /\ \A t \in Threads :
        stage = "up" /\ Busy(t, {"idle", "order", "open", "info"}) => latestBlock = dLatest

\* What thread t has established at each step of addBlock.
AddInv(t) ==
    /\ ~Busy(t, {"idle"}) =>
         /\ blk[t] \in Blocks
         /\ \A b \in acked : Txs[b] \cap Txs[blk[t]] = {}
    /\ ~Busy(t, {"idle", "order", "location"}) => dLatest = Parent[blk[t]]
    /\ Busy(t, {"locators", "write", "close", "latest"}) => latestBlock = blk[t]
    /\ Busy(t, {"location"}) => latestBlock = blk[t] /\ dLatest = blk[t]
    /\ Busy(t, {"info", "locators", "write"}) => currentLocation = at[t]
    /\ Busy(t, {"info", "locators", "write", "close"}) =>
         at[t].id \in DOMAIN files /\ files[at[t].id].len = at[t].pos
    /\ Busy(t, {"locators"}) =>
         /\ todo[t] \subseteq Txs[blk[t]]
         /\ Indexed(blk[t], Txs[blk[t]] \ todo[t], at[t])
    /\ Busy(t, {"write", "close", "latest", "location"}) =>
         Indexed(blk[t], Txs[blk[t]], at[t])
    /\ Busy(t, {"latest", "location"}) => Stored(blk[t], at[t])

\* The inductive strengthening of AckedReadable.
StoreInv ==
    /\ FilesInv
    /\ AckedInv
    /\ HeadInv
    /\ \A t \in Threads : AddInv(t)
=============================================================================
