------------------------ MODULE BlockChainMaintenance ------------------------
(***************************************************************************)
(* cutOffAfter and clear of BlockChainDB.  The program itself calls        *)
(* neither: they are there for tests/test_blockchain.cpp, which runs them  *)
(* on one thread between calls of addBlock, so that each is one action on  *)
(* an idle store.  Restarts come between any two steps.                    *)
(***************************************************************************)
EXTENDS BlockChainDB

\* The blocks getAllBlocks(h) reads behind h, when every read succeeds.
After(h) == Ancestry[latestBlock] \ Ancestry[h]

\* getAllBlocks(h) returns BC_OK: h is on the chain and everything from h to
\* the newest block can be read.
AllReadable(h) ==
    /\ h \in Ancestry[latestBlock]
    /\ \A b \in After(h) \cup {h} : GetBlock(b) = {b}

\* Mutant of SuperfluousIds: leaves the first one
SuperfluousButFirst(id) == id + 2 .. currentLocation.id

\* The files with ids above id are removed from currentLocation.id downwards;
\* the first one that is missing ends cutOffAfter with BC_FILE_CORRUPT.
SuperfluousIds(id) == id + 1 .. currentLocation.id
MissingIds(id) == SuperfluousIds(id) \ DOMAIN files
RemovedIds(id) ==
    {i \in SuperfluousIds(id) : \A m \in MissingIds(id) : m < i}

\* Mutant of Truncated: off by one
TruncatedShort(f, n) ==
    [len |-> n - 1, recs |-> {r \in f.recs : r.pos + Size[r.block] <= n - 1}]

\* The first n bytes of a block file.
Truncated(f, n) == [len |-> n, recs |-> {r \in f.recs : r.pos + Size[r.block] <= n}]

CutOffAfter(h) ==
    LET start == info[h].locator
        second == CHOOSE b \in After(h) : Parent[b] = h
        sameFile == info[second].locator.id = start.id
        failed == MissingIds(start.id) # {}
        kept == Without(files, RemovedIds(start.id))
    IN  /\ Idle
        /\ h # latestBlock /\ ContainsBlock(h) /\ AllReadable(h)
        /\ info' = Without(info, After(h))
        /\ locators' = Without(locators, UNION {Txs[b] : b \in After(h)})
        /\ IF failed
           THEN /\ files' = kept
                /\ UNCHANGED <<memory, dLatest, dLocation>>
           ELSE /\ latestBlock' = h /\ dLatest' = h
                /\ currentLocation' = Rolled(start) /\ dLocation' = Rolled(start)
                /\ files' = IF sameFile
                            THEN [kept EXCEPT ![start.id] =
                                    Truncated(@, info[second].locator.pos)]
                            ELSE kept
        /\ acked' = acked \ After(h)
        /\ UNCHANGED <<stage, genesisStored, pc, local, torn>>

\* Mutant of Clear: leaves the locators of the transactions
ClearBlocks ==
    /\ Idle
    /\ files' = Without(files, 0 .. currentLocation.id)
    /\ info' = Without(info, DOMAIN info)
    /\ latestBlock' = Genesis /\ dLatest' = Genesis
    /\ currentLocation' = Origin /\ dLocation' = Origin
    /\ acked' = {}
    /\ UNCHANGED <<stage, genesisStored, locators, pc, local, torn>>

\* Removes every block file, every index entry, and starts again at genesis.
Clear ==
    /\ Idle
    /\ files' = Without(files, 0 .. currentLocation.id)
    /\ info' = Without(info, DOMAIN info)
    /\ locators' = Without(locators, DOMAIN locators)
    /\ latestBlock' = Genesis /\ dLatest' = Genesis
    /\ currentLocation' = Origin /\ dLocation' = Origin
    /\ acked' = {}
    /\ UNCHANGED <<stage, genesisStored, pc, local, torn>>

MaintenanceNext ==
    \/ Next
    \/ \E h \in Blocks : CutOffAfter(h)
    \/ Clear

MaintenanceSpec == Init /\ [][MaintenanceNext]_vars

-----------------------------------------------------------------------------
(* Properties *)

\* A store whose chain is empty, for the first time or after clear, has no
\* index entry and no bytes left of former blocks: it accepts them again.
EmptyIsFresh ==
    Idle /\ ~torn /\ latestBlock = Genesis =>
        DOMAIN info = {} /\ DOMAIN locators = {} /\ DOMAIN files = {}

-----------------------------------------------------------------------------
(* The inductive invariant behind both, for one thread and disks that do not *)
(* fail, with StoreInv.                                                      *)

\* The newest block of the disk has its entry, if there is a block: what a
\* cutOffAfter that fails takes away.
Intact == dLatest \in Blocks => dLatest \in DOMAIN info

\* The index leads from b and its transactions to b.
Held(b) ==
    /\ b \in DOMAIN info
    /\ Indexed(b, Txs[b], info[b].locator)
    /\ Stored(b, info[b].locator)

\* The block b ends before loc, or lies in a file before that of loc.
Before(b, loc) ==
    \/ info[b].locator.id < loc.id
    \/ info[b].locator.id = loc.id /\ info[b].locator.pos + Size[b] <= loc.pos

\* The chain lies in the files in the order of its blocks.
ChainHeld ==
    Intact => \A c \in Ancestry[dLatest] :
                 Held(c) /\ \A b \in Ancestry[Parent[c]] : Before(b, info[c].locator)

\* No block file follows the one the next block goes to.
LastFile ==
    /\ \A i \in DOMAIN files : i <= dLocation.id
    /\ ~genesisStored => dLocation = Origin
    /\ stage \in {"initLatest", "initLocation"} => currentLocation = Origin /\ dLocation = Origin
    /\ stage = "up" => dLocation.id <= currentLocation.id

\* What thread t has established at each step of addBlock: the new block lies
\* behind the chain and repeats none of its transactions.
Behind(t) ==
    /\ ~Busy(t, {"idle"}) => Intact
    /\ ~Busy(t, {"idle", "location"}) =>
         \A b \in Ancestry[dLatest] : Txs[b] \cap Txs[blk[t]] = {}
    /\ Busy(t, {"info", "locators", "write", "close", "latest"}) =>
         \A b \in Ancestry[dLatest] : Before(b, at[t])
    /\ stage = "up" /\ ~Busy(t, {"latest", "location"}) => currentLocation.id = dLocation.id
    /\ Busy(t, {"info", "locators", "write", "close", "latest", "location"}) =>
         at[t].id = dLocation.id

\* A store without a chain is empty until a block is being written to it.
Fresh ==
    ~torn /\ dLatest \notin Blocks /\ (\A t \in Threads : Busy(t, {"idle", "order", "open"})) =>
        DOMAIN info = {} /\ DOMAIN locators = {} /\ DOMAIN files = {}

KeepInv ==
    /\ acked \subseteq Ancestry[dLatest]
    /\ ChainHeld
    /\ LastFile
    /\ Fresh
    /\ \A t \in Threads : Behind(t)
=============================================================================
