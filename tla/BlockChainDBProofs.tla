-------------------------- MODULE BlockChainDBProofs --------------------------
(***************************************************************************)
(* Proofs about BlockChainDB.  Type correctness holds for any number of    *)
(* threads, and so does that no block is built on a lost one.  The rest    *)
(* holds when one thread adds blocks and the disk does not fail, with      *)
(* crashes and restarts at any point: accepted blocks stay readable and    *)
(* part of the chain, the chain on disk is AcceptedChain, the next block   *)
(* has room, and the index names exactly the chain.                        *)
(***************************************************************************)
EXTENDS BlockChainDB, TLAPS

\* A thread inside receiveBlock has a block in its hands.
BusyHasBlock == \A t \in Threads : pc[t] # "idle" => blk[t] \in Blocks

-----------------------------------------------------------------------------
(* Type correctness *)

\* A block file stays one when a block is appended.
LEMMA AppendedType ==
    ASSUME NEW f \in BlockFile, NEW b \in Blocks
    PROVE  Appended(f, b) \in BlockFile
  BY ContentAssumption DEF Appended, BlockFile, Record

\* A block file stays one when bytes are appended.
LEMMA ExtendedType ==
    ASSUME NEW f \in BlockFile, NEW n \in Nat
    PROVE  Extended(f, n) \in BlockFile
  BY DEF Extended, BlockFile

\* The initial state is of the right type.
LEMMA TypeInit == Init => TypeOK /\ BusyHasBlock
  <1> SUFFICES ASSUME Init
               PROVE  TypeOK /\ BusyHasBlock
    OBVIOUS
  <1>1. /\ DOMAIN info = {} /\ DOMAIN locators = {} /\ DOMAIN files = {}
        /\ pc \in [Threads -> Steps] /\ todo \in [Threads -> SUBSET Transactions]
    BY DEF Init, Steps
  <1>2. QED
    BY <1>1 DEF Init, TypeOK, BusyHasBlock, Hashes, Locator, Origin

\* Every step keeps the types, and a busy thread keeps its block.
LEMMA TypeStep == TypeOK /\ BusyHasBlock /\ [Next]_vars => TypeOK' /\ BusyHasBlock'
  <1> SUFFICES ASSUME TypeOK, BusyHasBlock, [Next]_vars
               PROVE  TypeOK' /\ BusyHasBlock'
    OBVIOUS
  <1> USE DEF TypeOK, BusyHasBlock
  <1>1. CASE Start
    <2>1. CASE Construct
      <3>1. CASE genesisStored
        BY <2>1, <3>1 DEF Construct, local, index
      <3>2. CASE ~genesisStored
        BY <2>1, <3>2 DEF Construct, local, index, Hashes, Locator, Origin
      <3>3. QED
        BY <3>1, <3>2
    <2>2. CASE InitLatest
      BY <2>2 DEF InitLatest, local, memory, index
    <2>3. CASE InitLocation
      BY <2>3 DEF InitLocation, local, memory, index
    <2>4. QED
      BY <1>1, <2>1, <2>2, <2>3 DEF Start
  <1>2. CASE Crash
    BY <1>2 DEF Crash, Stop, local, keys, index, Steps, Hashes, Locator, Origin
  <1>3. ASSUME NEW t \in Threads, CrashInClose(t)
        PROVE  TypeOK' /\ BusyHasBlock'
    <2>1. \A i \in DOMAIN files' : files'[i] \in BlockFile
      BY <1>3, ContentAssumption, ExtendedType DEF CrashInClose
    <2>2. DOMAIN files' \subseteq Nat
      BY <1>3 DEF CrashInClose
    <2>3. QED
      BY <1>3, <2>1, <2>2
      DEF CrashInClose, Stop, local, keys, index, Steps, Hashes, Locator, Origin
  <1>4. ASSUME NEW t \in Threads, NEW b \in Blocks, ReceiveBlock(t, b)
        PROVE  TypeOK' /\ BusyHasBlock'
    BY <1>4 DEF ReceiveBlock, GoTo, Steps, memory, keys, index, Hashes
  <1>5. ASSUME NEW t \in Threads, AddBlock(t)
        PROVE  TypeOK' /\ BusyHasBlock'
    <2> USE <1>5
    <2>1. CASE CheckOrder(t)
      BY <2>1 DEF CheckOrder, GoTo, Steps, memory, keys, index, local
    <2>2. CASE OpenBlockFile(t)
      <3>1. /\ currentLocation' \in Locator
            /\ at' \in [Threads -> Locator]
            /\ DOMAIN files' \subseteq Nat
            /\ \A i \in DOMAIN files' : files'[i] \in BlockFile
        BY <2>2 DEF OpenBlockFile, Locator, BlockFile, EmptyFile, Put
      <3>2. QED
        BY <2>2, <3>1 DEF OpenBlockFile, GoTo, Steps, keys, index
    <2>3. CASE SaveBlockInfo(t)
      <3>0. pc[t] # "idle"
        BY <2>3 DEF SaveBlockInfo, GoTo
      <3>1. /\ DOMAIN info' \subseteq Blocks
            /\ \A b \in DOMAIN info' : info'[b] \in BlockInfo
        BY <2>3, <3>0, ChainAssumption DEF SaveBlockInfo, Put, BlockInfo, Hashes
      <3>2. QED
        BY <2>3, <3>0, <3>1, ContentAssumption DEF SaveBlockInfo, GoTo, Steps, keys, Hashes
    <2>4. CASE SaveLocator(t)
      <3>1. PICK tx \in todo[t] :
              /\ locators' = Put(locators, tx, currentLocation)
              /\ todo' = [todo EXCEPT ![t] = @ \ {tx}]
              /\ GoTo(t, "locators", IF todo[t] = {tx} THEN "write" ELSE "locators")
              /\ UNCHANGED <<stage, memory, keys, info, files, blk, at, acked, torn>>
        BY <2>4 DEF SaveLocator
      <3>2. /\ DOMAIN locators' \subseteq Transactions
            /\ \A x \in DOMAIN locators' : locators'[x] \in Locator
        BY <3>1 DEF Put
      <3>3. QED
        BY <3>1, <3>2 DEF GoTo, Steps, keys, memory
    <2>5. CASE WriteBlock(t)
      <3>0. pc[t] # "idle"
        BY <2>5 DEF WriteBlock, GoTo
      <3>1. currentLocation' \in Locator
        BY <2>5, <3>0, ContentAssumption DEF WriteBlock, Locator
      <3>2. QED
        BY <2>5, <3>1 DEF WriteBlock, GoTo, Steps, keys, index, local
    <2>6. CASE WriteBlockFails(t)
      <3>0. pc[t] # "idle"
        BY <2>6 DEF WriteBlockFails, GoTo
      <3>1. /\ DOMAIN files' \subseteq Nat
            /\ \A i \in DOMAIN files' : files'[i] \in BlockFile
        BY <2>6, <3>0, ContentAssumption, ExtendedType DEF WriteBlockFails
      <3>2. QED
        BY <2>6, <3>1 DEF WriteBlockFails, GoTo, Steps, memory, keys, index, local
    <2>7. CASE CloseBlockFile(t)
      <3>0. pc[t] # "idle"
        BY <2>7 DEF CloseBlockFile, GoTo
      <3>1. /\ DOMAIN files' \subseteq Nat
            /\ \A i \in DOMAIN files' : files'[i] \in BlockFile
        BY <2>7, <3>0, AppendedType DEF CloseBlockFile
      <3>2. currentLocation' \in Locator
        BY <2>7 DEF CloseBlockFile, Rolled, Locator
      <3>3. QED
        BY <2>7, <3>1, <3>2 DEF CloseBlockFile, GoTo, Steps, keys, index, local
    <2>8. CASE CloseBlockFileFails(t)
      <3>0. pc[t] # "idle"
        BY <2>8 DEF CloseBlockFileFails, GoTo
      <3>1. /\ DOMAIN files' \subseteq Nat
            /\ \A i \in DOMAIN files' : files'[i] \in BlockFile
        BY <2>8, <3>0, ContentAssumption, ExtendedType DEF CloseBlockFileFails
      <3>2. currentLocation' \in Locator
        BY <2>8 DEF CloseBlockFileFails, Rolled, Locator
      <3>3. QED
        BY <2>8, <3>1, <3>2 DEF CloseBlockFileFails, GoTo, Steps, keys, index, local
    <2>9. CASE SaveLatest(t)
      BY <2>9 DEF SaveLatest, GoTo, Steps, memory, index, local
    <2>10. CASE SaveLocation(t)
      BY <2>10 DEF SaveLocation, GoTo, Steps, memory, index, local
    <2>11. QED
      BY <2>1, <2>2, <2>3, <2>4, <2>5, <2>6, <2>7, <2>8, <2>9, <2>10 DEF AddBlock
  <1>6. CASE UNCHANGED vars
    BY <1>6 DEF vars, memory, keys, index, local
  <1>7. QED
    BY <1>1, <1>2, <1>3, <1>4, <1>5, <1>6 DEF Next

\* The inductive invariant behind TypeCorrect.
LEMMA Typing == Spec => [](TypeOK /\ BusyHasBlock)
  BY TypeInit, TypeStep, PTL DEF Spec

\* Every variable of the store keeps its type, for any number of threads,
\* with crashes and with failing disks.
THEOREM TypeCorrect == Spec => []TypeOK
  BY Typing, PTL

-----------------------------------------------------------------------------
(* The safety of accepted blocks, for one thread and disks that do not fail *)

OneThread(io) == Threads = {io} /\ ~DiskFaults

\* AddInv only speaks of the variables below.
LEMMA AddInvUnchanged ==
    ASSUME NEW t \in Threads, AddInv(t), acked' = acked,
           UNCHANGED <<latestBlock, currentLocation, dLatest, info, locators, files, pc, local>>
    PROVE  AddInv(t)'
  BY DEF AddInv, Busy, Indexed, Stored, local

\* FilesInv only speaks of the block files.
LEMMA FilesInvUnchanged == FilesInv /\ UNCHANGED files => FilesInv'
  BY DEF FilesInv

\* AckedInv only speaks of the acknowledged blocks, the index, the
\* stored newest block and the block files.
LEMMA AckedInvUnchanged ==
    AckedInv /\ UNCHANGED <<dLatest, index, files, acked>> => AckedInv'
  BY DEF AckedInv, Indexed, Stored, index

\* Nothing but a longer file: what is stored stays where it is.
LEMMA ExtendedFiles ==
    ASSUME TypeOK, FilesInv, NEW i \in DOMAIN files, NEW n \in Nat,
           files' = [files EXCEPT ![i] = Extended(@, n)]
    PROVE  /\ FilesInv'
           /\ \A b \in Blocks, loc \in Locator : Stored(b, loc) => Stored(b, loc)'
  <1>1. \A j \in DOMAIN files : /\ files'[j].recs = files[j].recs
                               /\ files'[j].len \in Nat
                               /\ files'[j].len >= files[j].len
    BY DEF Extended, TypeOK, BlockFile
  <1>2. FilesInv'
    <2> SUFFICES ASSUME NEW j \in DOMAIN files, NEW r \in files[j].recs
                 PROVE  /\ r.pos + Size[r.block] <= files'[j].len
                        /\ \A s \in files[j].recs : s.pos = r.pos => s = r
      BY <1>1 DEF FilesInv
    <2>1. r.pos \in Nat /\ Size[r.block] \in Nat /\ files[j].len \in Nat
      BY ContentAssumption DEF TypeOK, BlockFile, Record
    <2>2. QED
      BY <1>1, <2>1 DEF FilesInv
  <1>3. QED
    BY <1>1, <1>2 DEF Stored

\* close() adds one complete block behind the others: it is stored
\* where its file ended, and what was stored before stays where it is.
LEMMA AppendedFiles ==
    ASSUME TypeOK, FilesInv, NEW i \in DOMAIN files, NEW b \in Blocks,
           files' = [files EXCEPT ![i] = Appended(@, b)]
    PROVE  /\ FilesInv'
           /\ \A c \in Blocks, loc \in Locator : Stored(c, loc) => Stored(c, loc)'
  <1> DEFINE new == [pos |-> files[i].len, block |-> b]
  <1>1. /\ files'[i].recs = files[i].recs \cup {new}
        /\ files'[i].len = files[i].len + Size[b]
        /\ \A j \in DOMAIN files : j # i => files'[j] = files[j]
        /\ DOMAIN files' = DOMAIN files
    BY DEF Appended
  <1>2. \A j \in DOMAIN files : /\ files[j].len \in Nat
                               /\ \A r \in files[j].recs : r.pos \in Nat /\ Size[r.block] \in Nat \ {0}
    BY ContentAssumption DEF TypeOK, BlockFile, Record
  <1>3. ASSUME NEW j \in DOMAIN files, NEW r \in files'[j].recs
        PROVE  /\ r.pos + Size[r.block] <= files'[j].len
               /\ \A s \in files'[j].recs : s.pos = r.pos => s = r
    <2>1. CASE j # i
      BY <1>1, <1>3, <2>1 DEF FilesInv
    <2>2. CASE j = i
      <3>1. \A s \in files[i].recs : s.pos + Size[s.block] <= files[i].len /\ s.pos < files[i].len
        BY <1>2 DEF FilesInv
      <3>2. Size[b] \in Nat
        BY ContentAssumption
      <3>3. CASE r = new
        BY <1>1, <1>2, <2>2, <3>1, <3>2, <3>3
      <3>4. CASE r \in files[i].recs
        <4>1. r.pos + Size[r.block] <= files'[j].len
          BY <1>1, <1>2, <2>2, <3>1, <3>2, <3>4
        <4>2. \A s \in files'[j].recs : s.pos = r.pos => s = r
          BY <1>1, <1>2, <2>2, <3>1, <3>4 DEF FilesInv
        <4>3. QED
          BY <4>1, <4>2
      <3>5. QED
        BY <1>1, <1>3, <2>2, <3>3, <3>4
    <2>3. QED
      BY <2>1, <2>2
  <1>4. FilesInv'
    BY <1>1, <1>3 DEF FilesInv
  <1>5. QED
    BY <1>1, <1>4 DEF Stored

\* The initial state satisfies StoreInv.
LEMMA StoreInit == Init => StoreInv
  BY DEF Init, StoreInv, FilesInv, AckedInv, HeadInv, AddInv, Busy

\* The writes of the constructor preserve StoreInv.
LEMMA StartStep ==
    ASSUME NEW io, OneThread(io), TypeOK, BusyHasBlock, StoreInv, Start
    PROVE  StoreInv'
  <1> USE DEF StoreInv
  <1>1. pc[io] = "idle"
    BY DEF Start, Construct, InitLatest, InitLocation, HeadInv, OneThread
  <1>2. FilesInv'
    BY FilesInvUnchanged DEF Start, Construct, InitLatest, InitLocation
  <1>3. AckedInv'
    <2>1. CASE InitLatest
      <3>1. dLatest = NoHash /\ dLatest' = Genesis
        BY <2>1 DEF InitLatest, HeadInv
      <3>2. Height[dLatest] = Height[dLatest']
        BY <3>1, ChainAssumption
      <3>3. QED
        BY <2>1, <3>2 DEF InitLatest, AckedInv, Indexed, Stored, index
    <2>2. CASE ~InitLatest
      BY <2>2, AckedInvUnchanged DEF Start, Construct, InitLocation
    <2>3. QED
      BY <2>1, <2>2
  <1>4. HeadInv'
    <2>1. pc' = pc /\ pc'[io] = "idle"
      BY <1>1 DEF Start, Construct, InitLatest, InitLocation
    <2>2. CASE Construct
      BY <2>1, <2>2 DEF Construct, HeadInv, OneThread, Busy
    <2>3. CASE InitLatest
      BY <2>1, <2>3 DEF InitLatest, HeadInv, OneThread, Busy, memory
    <2>4. CASE InitLocation
      BY <2>1, <2>4 DEF InitLocation, HeadInv, OneThread, Busy, memory
    <2>5. QED
      BY <2>2, <2>3, <2>4 DEF Start
  <1>5. AddInv(io)'
    BY <1>1 DEF Start, Construct, InitLatest, InitLocation, AddInv, Busy, OneThread
  <1>6. QED
    BY <1>2, <1>3, <1>4, <1>5 DEF OneThread

\* A process that stops, even within close(), preserves StoreInv.
LEMMA StopStep ==
    ASSUME NEW io, OneThread(io), TypeOK, BusyHasBlock, StoreInv,
           Crash \/ CrashInClose(io)
    PROVE  StoreInv'
  <1> USE DEF StoreInv
  <1>1. io \in Threads /\ Stop
    BY DEF OneThread, Crash, CrashInClose
  <1>2. pc'[io] = "idle" /\ stage' = "down"
    BY <1>1 DEF Stop
  <1>3. /\ FilesInv'
        /\ \A b \in Blocks, loc \in Locator : Stored(b, loc) => Stored(b, loc)'
    <2>1. CASE Crash
      BY <2>1, FilesInvUnchanged DEF Crash, Stored
    <2>2. CASE CrashInClose(io)
      <3>1. PICK n \in 1 .. Size[blk[io]] - 1 :
              files' = [files EXCEPT ![at[io].id] = Extended(@, n)]
        BY <2>2 DEF CrashInClose
      <3>2. at[io].id \in DOMAIN files /\ n \in Nat
        <4>1. at[io].id \in DOMAIN files
          BY <1>1, <2>2 DEF CrashInClose, AddInv, Busy
        <4>2. Size[blk[io]] \in Nat
          BY <1>1, <2>2, ContentAssumption DEF CrashInClose, BusyHasBlock
        <4>3. QED
          BY <4>1, <4>2, <3>1
      <3>3. QED
        BY <3>1, <3>2, ExtendedFiles
    <2>3. QED
      BY <2>1, <2>2
  <1>4. AckedInv'
    <2>1. \A b \in acked : b \in Blocks /\ info[b].locator \in Locator
      BY DEF TypeOK, AckedInv, BlockInfo
    <2>2. QED
      BY <1>1, <1>3, <2>1 DEF Stop, AckedInv, Indexed, index, keys
  <1>5. HeadInv'
    BY <1>1, <1>2 DEF Stop, HeadInv, OneThread, keys
  <1>6. AddInv(io)'
    BY <1>2 DEF AddInv, Busy
  <1>7. QED
    BY <1>3, <1>4, <1>5, <1>6 DEF OneThread

\* Acknowledged blocks have entries in the index that lead to a location.
LEMMA AckedLocated ==
    ASSUME TypeOK, AckedInv
    PROVE  \A b \in acked : b \in Blocks /\ b \in DOMAIN info /\ info[b].locator \in Locator
  BY DEF TypeOK, AckedInv, BlockInfo

\* The checks of receiveBlock preserve StoreInv: a block that passes
\* them shares no transaction with an acknowledged one.
LEMMA ReceiveStep ==
    ASSUME NEW io, OneThread(io), TypeOK, BusyHasBlock, StoreInv,
           NEW b \in Blocks, ReceiveBlock(io, b)
    PROVE  StoreInv'
  <1> USE DEF StoreInv
  <1>1. /\ io \in Threads /\ stage = "up" /\ pc[io] = "idle"
        /\ pc'[io] = "order" /\ blk'[io] = b
    BY DEF OneThread, ReceiveBlock, GoTo, TypeOK
  <1>2. FilesInv' /\ AckedInv'
    BY FilesInvUnchanged, AckedInvUnchanged DEF ReceiveBlock, keys, index
  <1>3. HeadInv'
    BY <1>1 DEF ReceiveBlock, HeadInv, OneThread, Busy, keys, memory
  <1>4. \A a \in acked : Txs[a] \cap Txs[b] = {}
    BY DEF ReceiveBlock, ContainsTransaction, AckedInv, Indexed
  <1>5. AddInv(io)'
    BY <1>1, <1>4 DEF AddInv, Busy, ReceiveBlock
  <1>6. QED
    BY <1>2, <1>3, <1>5 DEF OneThread

\* The order check preserves StoreInv: it establishes that the newest
\* block is the predecessor.
LEMMA CheckOrderStep ==
    ASSUME NEW io, OneThread(io), TypeOK, BusyHasBlock, StoreInv, CheckOrder(io)
    PROVE  StoreInv'
  <1> USE DEF StoreInv
  <1>1. /\ io \in Threads /\ stage = "up" /\ pc[io] = "order"
        /\ pc'[io] = IF latestBlock = Parent[blk[io]] THEN "open" ELSE "idle"
        /\ UNCHANGED <<stage, memory, keys, index, files, local, acked>>
    BY DEF OneThread, CheckOrder, GoTo, TypeOK
  <1>2. latestBlock = dLatest
    BY <1>1 DEF HeadInv, Busy
  <1>3. FilesInv' /\ AckedInv'
    BY <1>1, FilesInvUnchanged, AckedInvUnchanged DEF keys
  <1>4. HeadInv'
    BY <1>1, <1>2 DEF HeadInv, OneThread, Busy, keys, memory
  <1>5. AddInv(io)'
    BY <1>1, <1>2 DEF AddInv, Busy, local, keys
  <1>6. QED
    BY <1>3, <1>4, <1>5 DEF OneThread

\* Opening the block file preserves StoreInv: it establishes that the
\* file ends where the next block goes.
LEMMA OpenStep ==
    ASSUME NEW io, OneThread(io), TypeOK, BusyHasBlock, StoreInv, OpenBlockFile(io)
    PROVE  StoreInv'
  <1> USE DEF StoreInv
  <1> DEFINE id == currentLocation.id
             new == id \notin DOMAIN files
  <1>1. /\ io \in Threads /\ stage = "up" /\ pc[io] = "open"
        /\ pc'[io] \in {"info", "idle"}
        /\ UNCHANGED <<stage, latestBlock, keys, index, blk, todo, acked>>
    BY DEF OneThread, OpenBlockFile, GoTo, TypeOK
  <1>2. latestBlock = dLatest
    BY <1>1 DEF HeadInv, Busy
  <1>3. /\ \A i \in DOMAIN files : i \in DOMAIN files' /\ files'[i] = files[i]
        /\ \A i \in DOMAIN files' : i \notin DOMAIN files => i = id /\ files'[i] = EmptyFile
        /\ id \in DOMAIN files'
    <2>1. CASE new
      BY <2>1 DEF OpenBlockFile, Put
    <2>2. CASE ~new
      BY <2>2 DEF OpenBlockFile
    <2>3. QED
      BY <2>1, <2>2
  <1>4. FilesInv'
    BY <1>3 DEF FilesInv, EmptyFile
  <1>5. AckedInv'
    BY <1>1, <1>3 DEF AckedInv, Indexed, Stored, keys, index
  <1>6. HeadInv'
    BY <1>1, <1>2 DEF HeadInv, OneThread, Busy, keys
  <1>7. pc'[io] = "info" =>
          /\ currentLocation' = at'[io]
          /\ at'[io].id = id /\ files'[id].len = at'[io].pos
    <2> SUFFICES ASSUME pc'[io] = "info"
                 PROVE  /\ currentLocation' = at'[io]
                        /\ at'[io].id = id /\ files'[id].len = at'[io].pos
      OBVIOUS
    <2>1. currentLocation = [id |-> id, pos |-> currentLocation.pos]
      BY DEF TypeOK, Locator
    <2>2. CASE new
      BY <1>1, <2>1, <2>2, <1>3 DEF OpenBlockFile, GoTo, TypeOK, EmptyFile
    <2>3. CASE ~new
      BY <1>1, <2>1, <2>3, <1>3 DEF OpenBlockFile, GoTo, TypeOK
    <2>4. QED
      BY <2>2, <2>3
  <1>8. AddInv(io)'
    BY <1>1, <1>3, <1>7 DEF AddInv, Busy, keys
  <1>9. QED
    BY <1>4, <1>5, <1>6, <1>8 DEF OneThread

\* Saving the block's entry preserves StoreInv: it overwrites no entry
\* of an acknowledged block, which is not as high in the chain.
LEMMA SaveBlockInfoStep ==
    ASSUME NEW io, OneThread(io), TypeOK, BusyHasBlock, StoreInv, SaveBlockInfo(io)
    PROVE  StoreInv'
  <1> USE DEF StoreInv
  <1>1. /\ io \in Threads /\ stage = "up" /\ pc[io] = "info"
        /\ pc'[io] = IF Txs[blk[io]] = {} THEN "write" ELSE "locators"
        /\ latestBlock' = blk[io] /\ todo'[io] = Txs[blk[io]]
        /\ UNCHANGED <<stage, currentLocation, keys, locators, files, blk, at, acked>>
    BY DEF OneThread, SaveBlockInfo, GoTo, TypeOK
  <1>2. /\ \A a \in DOMAIN info : a \in DOMAIN info' /\ (a # blk[io] => info'[a] = info[a])
        /\ blk[io] \in DOMAIN info' /\ info'[blk[io]].locator = currentLocation
    BY DEF SaveBlockInfo, Put
  <1>3. blk[io] \in Blocks /\ dLatest = Parent[blk[io]]
    BY <1>1 DEF BusyHasBlock, AddInv, Busy
  <1>4. blk[io] \notin acked
    <2>1. /\ Height[blk[io]] = Height[dLatest] + 1
          /\ Height[dLatest] \in Nat
      BY <1>3, ChainAssumption DEF TypeOK
    <2>2. QED
      BY <2>1 DEF AckedInv
  <1>5. FilesInv'
    BY <1>1, FilesInvUnchanged
  <1>6. AckedInv'
    BY ZenonT(60), <1>1, <1>2, <1>4 DEF AckedInv, Indexed, Stored, keys
  <1>7. HeadInv'
    BY <1>1 DEF HeadInv, OneThread, Busy, keys
  <1>8. AddInv(io)'
    BY <1>1, <1>2, <1>3 DEF AddInv, Busy, Indexed, keys
  <1>9. QED
    BY <1>5, <1>6, <1>7, <1>8 DEF OneThread

\* Saving a locator preserves StoreInv: the transaction is in no
\* acknowledged block.
LEMMA SaveLocatorStep ==
    ASSUME NEW io, OneThread(io), TypeOK, BusyHasBlock, StoreInv, SaveLocator(io)
    PROVE  StoreInv'
  <1> USE DEF StoreInv
  <1>1. PICK tx \in todo[io] :
          /\ GoTo(io, "locators", IF todo[io] = {tx} THEN "write" ELSE "locators")
          /\ locators' = Put(locators, tx, currentLocation)
          /\ todo' = [todo EXCEPT ![io] = @ \ {tx}]
          /\ UNCHANGED <<stage, memory, keys, info, files, blk, at, acked>>
    BY DEF SaveLocator
  <1>2. /\ io \in Threads /\ stage = "up" /\ pc[io] = "locators"
        /\ pc'[io] = IF todo[io] = {tx} THEN "write" ELSE "locators"
        /\ todo'[io] = todo[io] \ {tx}
    BY <1>1 DEF OneThread, GoTo, TypeOK
  <1>3. /\ \A x \in DOMAIN locators : x \in DOMAIN locators' /\ (x # tx => locators'[x] = locators[x])
        /\ tx \in DOMAIN locators' /\ locators'[tx] = currentLocation
    BY <1>1 DEF Put
  <1>4. tx \in Txs[blk[io]] /\ currentLocation = at[io]
    BY <1>2 DEF AddInv, Busy
  <1>5. \A a \in acked : tx \notin Txs[a]
    BY <1>2, <1>4 DEF AddInv, Busy
  <1>6. FilesInv'
    BY <1>1, FilesInvUnchanged
  <1>7. AckedInv'
    BY <1>1, <1>3, <1>5 DEF AckedInv, Indexed, Stored, keys
  <1>8. HeadInv'
    BY <1>1, <1>2 DEF HeadInv, OneThread, Busy, keys, memory
  <1>9. AddInv(io)'
    <2>1. /\ todo[io] \subseteq Txs[blk[io]]
          /\ blk[io] \in DOMAIN info /\ info[blk[io]].locator = at[io]
          /\ \A x \in Txs[blk[io]] \ todo[io] : x \in DOMAIN locators /\ locators[x] = at[io]
      BY <1>2 DEF AddInv, Busy, Indexed
    <2>2. \A x \in Txs[blk[io]] \ (todo[io] \ {tx}) :
            x \in DOMAIN locators' /\ locators'[x] = at[io]
      BY <1>3, <1>4, <2>1
    <2>3. Indexed(blk[io], Txs[blk[io]] \ todo[io], at[io])'
      BY <1>1, <1>2, <2>1, <2>2 DEF Indexed
    <2>4. todo[io] = {tx} => Indexed(blk[io], Txs[blk[io]], at[io])'
      BY <1>1, <2>1, <2>2 DEF Indexed
    <2>5. todo'[io] \subseteq Txs[blk'[io]]
      BY <1>1, <1>2, <2>1
    <2>6. QED
      BY <1>1, <1>2, <2>3, <2>4, <2>5 DEF AddInv, Busy, keys, memory
  <1>10. QED
    BY <1>6, <1>7, <1>8, <1>9 DEF OneThread

\* Serializing into the buffer preserves StoreInv.
LEMMA WriteStep ==
    ASSUME NEW io, OneThread(io), TypeOK, BusyHasBlock, StoreInv, WriteBlock(io)
    PROVE  StoreInv'
  <1> USE DEF StoreInv
  <1>1. /\ io \in Threads /\ stage = "up" /\ pc[io] = "write" /\ pc'[io] = "close"
        /\ UNCHANGED <<stage, latestBlock, keys, index, files, local, acked>>
    BY DEF OneThread, WriteBlock, GoTo, TypeOK
  <1>2. FilesInv' /\ AckedInv'
    BY <1>1, FilesInvUnchanged, AckedInvUnchanged DEF keys
  <1>3. HeadInv'
    BY <1>1 DEF HeadInv, OneThread, Busy, keys
  <1>4. AddInv(io)'
    BY <1>1 DEF AddInv, Busy, Indexed, keys, index, local
  <1>5. QED
    BY <1>2, <1>3, <1>4 DEF OneThread

\* close() preserves StoreInv: the block is then where its entries lead.
LEMMA CloseStep ==
    ASSUME NEW io, OneThread(io), TypeOK, BusyHasBlock, StoreInv, CloseBlockFile(io)
    PROVE  StoreInv'
  <1> USE DEF StoreInv
  <1>1. /\ io \in Threads /\ stage = "up" /\ pc[io] = "close" /\ pc'[io] = "latest"
        /\ files' = [files EXCEPT ![at[io].id] = Appended(@, blk[io])]
        /\ UNCHANGED <<stage, latestBlock, keys, index, local, acked>>
    BY DEF OneThread, CloseBlockFile, GoTo, TypeOK
  <1>2. /\ at[io].id \in DOMAIN files /\ files[at[io].id].len = at[io].pos
        /\ blk[io] \in Blocks /\ at[io] \in Locator
    BY <1>1 DEF AddInv, Busy, TypeOK
  <1>3. /\ FilesInv'
        /\ \A c \in Blocks, loc \in Locator : Stored(c, loc) => Stored(c, loc)'
    BY <1>1, <1>2, AppendedFiles
  <1>4. AckedInv'
    <2>1. /\ acked' = acked /\ info' = info /\ locators' = locators /\ dLatest' = dLatest
      BY <1>1 DEF index, keys
    <2>2. QED
      BY <1>3, <2>1, AckedLocated DEF AckedInv, Indexed
  <1>5. HeadInv'
    BY <1>1 DEF HeadInv, OneThread, Busy, keys
  <1>6. Stored(blk[io], at[io])'
    <2>1. blk'[io] = blk[io] /\ at'[io] = at[io]
      BY <1>1 DEF local
    <2>2. [pos |-> at[io].pos, block |-> blk[io]] \in files'[at[io].id].recs
      BY <1>1, <1>2 DEF Appended
    <2>3. QED
      BY <1>1, <1>2, <2>1, <2>2 DEF Stored
  <1>7. AddInv(io)'
    BY <1>1, <1>6 DEF AddInv, Busy, Indexed, keys, index, local
  <1>8. QED
    BY <1>3, <1>4, <1>5, <1>7 DEF OneThread

\* Saving the newest block preserves StoreInv: heights only grow.
LEMMA SaveLatestStep ==
    ASSUME NEW io, OneThread(io), TypeOK, BusyHasBlock, StoreInv, SaveLatest(io)
    PROVE  /\ StoreInv'
           /\ dLatest = Parent[blk[io]] /\ dLatest' = blk[io] /\ blk[io] \in Blocks
  <1> USE DEF StoreInv
  <1>1. /\ io \in Threads /\ stage = "up" /\ pc[io] = "latest" /\ pc'[io] = "location"
        /\ dLatest' = latestBlock
        /\ UNCHANGED <<stage, memory, genesisStored, index, files, local, acked>>
    BY DEF OneThread, SaveLatest, GoTo, TypeOK
  <1>2. /\ blk[io] \in Blocks /\ dLatest = Parent[blk[io]] /\ latestBlock = blk[io]
    BY <1>1 DEF AddInv, Busy
  <1>3. FilesInv'
    BY <1>1, FilesInvUnchanged
  <1>4. AckedInv'
    <2>1. /\ Height[dLatest'] = Height[dLatest] + 1
          /\ Height[dLatest] \in Nat
      BY <1>1, <1>2, ChainAssumption DEF TypeOK
    <2>2. \A b \in acked : Height[b] \in Nat /\ Height[b] <= Height[dLatest]
      BY ChainAssumption DEF AckedInv, TypeOK, Hashes
    <2>3. \A b \in acked : Height[b] <= Height[dLatest']
      BY <2>1, <2>2
    <2>4. QED
      BY <1>1, <2>3 DEF AckedInv, Indexed, Stored, index
  <1>5. HeadInv'
    BY <1>1 DEF HeadInv, OneThread, Busy, memory
  <1>6. AddInv(io)'
    BY <1>1, <1>2 DEF AddInv, Busy, Indexed, Stored, index, local, memory
  <1>7. QED
    BY <1>1, <1>2, <1>3, <1>4, <1>5, <1>6 DEF OneThread

\* The last write preserves StoreInv: the block it acknowledges is
\* indexed and stored.
LEMMA SaveLocationStep ==
    ASSUME NEW io, OneThread(io), TypeOK, BusyHasBlock, StoreInv, SaveLocation(io)
    PROVE  StoreInv'
  <1> USE DEF StoreInv
  <1>1. /\ io \in Threads /\ stage = "up" /\ pc[io] = "location" /\ pc'[io] = "idle"
        /\ acked' = acked \cup {blk[io]}
        /\ UNCHANGED <<stage, memory, genesisStored, dLatest, index, files, local>>
    BY DEF OneThread, SaveLocation, GoTo, TypeOK
  <1>2. /\ blk[io] \in Blocks /\ latestBlock = blk[io] /\ dLatest = blk[io]
        /\ Indexed(blk[io], Txs[blk[io]], at[io]) /\ Stored(blk[io], at[io])
    BY <1>1 DEF AddInv, Busy
  <1>3. FilesInv'
    BY <1>1, FilesInvUnchanged
  <1>4. AckedInv'
    <2>1. Height[blk[io]] <= Height[dLatest]
      BY <1>2, ChainAssumption DEF Hashes
    <2>2. QED
      BY <1>1, <1>2, <2>1 DEF AckedInv, Indexed, Stored, index
  <1>5. HeadInv'
    BY <1>1, <1>2 DEF HeadInv, OneThread, Busy, memory
  <1>6. AddInv(io)'
    BY <1>1 DEF AddInv, Busy
  <1>7. QED
    BY <1>3, <1>4, <1>5, <1>6 DEF OneThread

\* Every step of addBlock preserves StoreInv.
LEMMA AddStep ==
    ASSUME NEW io, OneThread(io), TypeOK, BusyHasBlock, StoreInv, AddBlock(io)
    PROVE  StoreInv'
  BY CheckOrderStep, OpenStep, SaveBlockInfoStep, SaveLocatorStep, WriteStep, CloseStep,
     SaveLatestStep, SaveLocationStep
  DEF AddBlock, WriteBlockFails, CloseBlockFileFails, OneThread

\* Every step of the store preserves StoreInv.
LEMMA StoreStep ==
    ASSUME NEW io, OneThread(io), TypeOK, BusyHasBlock, StoreInv, [Next]_vars
    PROVE  StoreInv'
  <1>1. CASE UNCHANGED vars
    <2>1. FilesInv' /\ AckedInv' /\ HeadInv'
      BY <1>1, FilesInvUnchanged, AckedInvUnchanged
      DEF vars, StoreInv, HeadInv, Busy, memory, keys, index, local
    <2>2. AddInv(io)'
      BY <1>1, AddInvUnchanged DEF vars, StoreInv, OneThread, memory, keys, index
    <2>3. QED
      BY <2>1, <2>2 DEF StoreInv, OneThread
  <1>2. CASE Next
    BY <1>2, StartStep, StopStep, ReceiveStep, AddStep DEF Next, OneThread
  <1>3. QED
    BY <1>1, <1>2

\* In a file no two blocks start at one position, so that the position the
\* index leads to holds the block itself and nothing else.
LEMMA StoredIsRead ==
    ASSUME FilesInv, NEW b, NEW loc, Stored(b, loc)
    PROVE  BlocksAt(loc) = {b}
  BY DEF FilesInv, Stored, BlocksAt

\* What StoreInv says of the acknowledged blocks makes them readable.
LEMMA StoreReadable == TypeOK /\ StoreInv => AckedReadable
  <1> SUFFICES ASSUME TypeOK, StoreInv, NEW b \in acked
               PROVE  /\ GetBlock(b) = {b}
                      /\ \A tx \in Txs[b] : GetTransaction(tx) # {}
    BY DEF AckedReadable
  <1>1. /\ b \in DOMAIN info /\ Indexed(b, Txs[b], info[b].locator)
        /\ Stored(b, info[b].locator) /\ FilesInv
    BY DEF StoreInv, AckedInv
  <1>2. BlocksAt(info[b].locator) = {b}
    BY <1>1, StoredIsRead
  <1>3. QED
    BY <1>1, <1>2 DEF GetBlock, ContainsBlock, GetTransaction, ContainsTransaction, Indexed

\* With one thread and a disk that does not fail, StoreInv is inductive.
THEOREM StoreInvariant ==
    ASSUME NEW io, OneThread(io)
    PROVE  Spec => []StoreInv
  <1>1. TypeOK /\ BusyHasBlock /\ StoreInv /\ [Next]_vars => StoreInv'
    BY StoreStep
  <1>2. QED
    BY <1>1, StoreInit, Typing, PTL DEF Spec

\* A block for which addBlock returned BC_OK can be read by its hash and by
\* each of its transactions ever after, however often the process is stopped
\* while it adds another one.
THEOREM AcceptedReadable ==
    ASSUME NEW io, OneThread(io)
    PROVE  Spec => []AckedReadable
  BY StoreInvariant, StoreReadable, Typing, PTL

-----------------------------------------------------------------------------
(* The store implements an append-only chain *)

Tip == IF dLatest = NoHash THEN Genesis ELSE dLatest

\* Every step that changes the stored newest block appends a child of it.
LEMMA TipStep ==
    ASSUME NEW io, OneThread(io), TypeOK, BusyHasBlock, StoreInv, [Next]_vars
    PROVE  Chain!Next \/ UNCHANGED Tip
  <1> USE DEF Tip
  <1>1. CASE InitLatest
    BY <1>1 DEF InitLatest, StoreInv, HeadInv
  <1>2. CASE SaveLatest(io)
    <2>1. dLatest = Parent[blk[io]] /\ dLatest' = blk[io] /\ blk[io] \in Blocks
      BY <1>2, SaveLatestStep
    <2>2. dLatest # NoHash /\ dLatest' # NoHash
      BY <2>1, ChainAssumption
    <2>3. QED
      BY <2>1, <2>2 DEF Chain!Next, Chain!Accept
  <1>3. CASE ~InitLatest /\ ~SaveLatest(io)
    <2>1. UNCHANGED dLatest
      BY <1>3 DEF OneThread, Next, Start, Construct, InitLocation, Crash, CrashInClose, Stop,
         ReceiveBlock, AddBlock, CheckOrder, OpenBlockFile, SaveBlockInfo, SaveLocator,
         WriteBlock, WriteBlockFails, CloseBlockFile, CloseBlockFileFails, SaveLocation,
         vars, keys
    <2>2. QED
      BY <2>1
  <1>4. QED
    BY <1>1, <1>2, <1>3

\* The detailed store implements AcceptedChain: what the disk calls the newest
\* block only moves from a block to one of its children, across any crashes.
THEOREM ImplementsChain ==
    ASSUME NEW io, OneThread(io)
    PROVE  Spec => RefinesChain
  <1>1. Init => Chain!Init
    BY DEF Init, Chain!Init
  <1>2. TypeOK /\ BusyHasBlock /\ StoreInv /\ [Next]_vars =>
          Chain!Next \/ UNCHANGED (IF dLatest = NoHash THEN Genesis ELSE dLatest)
    BY TipStep DEF Tip
  <1>3. QED
    BY <1>1, <1>2, StoreInvariant, Typing, PTL DEF Spec, RefinesChain, Chain!Spec

-----------------------------------------------------------------------------
(* Where the next block goes: it has room, for one thread *)

\* A block can be added at loc, and its file is the last one.
Ends(loc) ==
    /\ loc.id \in DOMAIN files => files[loc.id].len = loc.pos
    /\ \A i \in DOMAIN files : i <= loc.id

\* Where thread t is, the location in memory or the one on disk is the end.
SpaceOf(t) ==
    /\ Busy(t, {"idle", "order", "open"}) => Ends(dLocation) /\ Ends(currentLocation)
    /\ Busy(t, {"info", "locators", "write", "close"}) => \A i \in DOMAIN files : i <= at[t].id
    /\ Busy(t, {"close"}) => currentLocation = [at[t] EXCEPT !.pos = @ + Size[blk[t]]]
    /\ Busy(t, {"latest", "location"}) => Ends(currentLocation)

SpaceInv ==
    /\ ~genesisStored => dLocation = Origin
    /\ stage \in {"initLatest", "initLocation"} => currentLocation = Origin /\ dLocation = Origin
    /\ ~torn /\ stage # "up" => Ends(dLocation)
    /\ ~torn /\ stage = "up" => \A t \in Threads : SpaceOf(t)

-----------------------------------------------------------------------------
(* SpaceInv is inductive *)

\* What SpaceOf says of a thread rests on the variables below.
LEMMA SpaceUnchanged ==
    ASSUME NEW t \in Threads, SpaceOf(t),
           UNCHANGED <<currentLocation, dLocation, files, pc, at, blk>>
    PROVE  SpaceOf(t)'
  BY DEF SpaceOf, Ends, Busy

\* An empty directory has room at its origin.
LEMMA SpaceInit == Init => SpaceInv
  BY DEF Init, SpaceInv, Ends, Origin

\* The constructor finds the end of the files where it was written last.
LEMMA SpaceStart ==
    ASSUME NEW io, OneThread(io), TypeOK, StoreInv, SpaceInv, Start
    PROVE  SpaceInv'
  <1>1. pc[io] = "idle" /\ io \in Threads /\ pc' = pc /\ files' = files /\ torn' = torn
    BY DEF Start, Construct, InitLatest, InitLocation, StoreInv, HeadInv, OneThread
  <1>2. CASE Construct
    <2>1. CASE genesisStored
      <3>1. /\ stage' = "up" /\ currentLocation' = dLocation /\ dLocation' = dLocation
            /\ genesisStored' /\ stage = "down"
        BY <1>2, <2>1 DEF Construct
      <3>2. ~torn => Ends(dLocation)'
        BY <1>1, <3>1 DEF SpaceInv, Ends
      <3>3. ~torn => SpaceOf(io)'
        BY <1>1, <3>1, <3>2 DEF SpaceOf, Busy, Ends
      <3>4. QED
        BY <1>1, <3>1, <3>3 DEF SpaceInv, OneThread
    <2>2. CASE ~genesisStored
      BY <1>1, <1>2, <2>2 DEF Construct, SpaceInv, Ends
    <2>3. QED
      BY <2>1, <2>2
  <1>3. CASE InitLatest
    BY <1>1, <1>3 DEF InitLatest, SpaceInv, Ends, memory
  <1>4. CASE InitLocation
    <2>1. /\ stage = "initLocation" /\ stage' = "up"
          /\ dLocation' = Origin /\ currentLocation' = Origin /\ dLocation = Origin
          /\ genesisStored' = genesisStored
      BY <1>4 DEF InitLocation, SpaceInv, memory
    <2>2. ~torn => SpaceOf(io)'
      BY <1>1, <2>1 DEF SpaceInv, SpaceOf, Busy, Ends
    <2>3. QED
      BY <1>1, <2>1, <2>2 DEF SpaceInv, OneThread
  <1>5. QED
    BY <1>2, <1>3, <1>4 DEF Start

\* A process that stops while a block file and the location on disk differ
\* counts as one that cut an addBlock short.
LEMMA SpaceStop ==
    ASSUME NEW io, OneThread(io), TypeOK, StoreInv, SpaceInv, Crash \/ CrashInClose(io)
    PROVE  SpaceInv'
  <1>1. io \in Threads /\ Stop
    BY DEF OneThread, Crash, CrashInClose
  <1>2. stage' = "down" /\ dLocation' = dLocation /\ genesisStored' = genesisStored
    BY <1>1 DEF Stop, keys
  <1>3. ASSUME ~torn'
        PROVE  Ends(dLocation)'
    <2>1. ~torn /\ pc[io] \in {"idle", "order", "open"}
      BY <1>1, <1>3 DEF Stop
    <2>2. files' = files
      BY <2>1 DEF Crash, CrashInClose
    <2>3. Ends(dLocation)
      BY <1>1, <2>1 DEF SpaceInv, SpaceOf, Busy, TypeOK
    <2>4. QED
      BY <1>2, <2>2, <2>3 DEF Ends
  <1>4. QED
    BY <1>2, <1>3 DEF SpaceInv

\* The steps of addBlock: the block starts where its file ends, the location
\* moves behind it before it is there, and to the next file when it is rolled.
LEMMA SpaceAdd ==
    ASSUME NEW io, OneThread(io), TypeOK, BusyHasBlock, StoreInv, SpaceInv,
           AddBlock(io) \/ \E b \in Blocks : ReceiveBlock(io, b), ~torn
    PROVE  SpaceOf(io)'
  <1> DEFINE loc == currentLocation
  <1>1. io \in Threads /\ stage = "up" /\ SpaceOf(io) /\ AddInv(io)
    BY DEF OneThread, SpaceInv, StoreInv, AddBlock, ReceiveBlock, CheckOrder, OpenBlockFile,
       SaveBlockInfo, SaveLocator, WriteBlock, WriteBlockFails, CloseBlockFile,
       CloseBlockFileFails, SaveLatest, SaveLocation, GoTo
  <1>2. pc \in [Threads -> Steps] /\ at \in [Threads -> Locator] /\ loc \in Locator
    BY DEF TypeOK
  <1>3. ASSUME NEW b \in Blocks, ReceiveBlock(io, b)
        PROVE  SpaceOf(io)'
    BY <1>1, <1>2, <1>3 DEF ReceiveBlock, GoTo, SpaceOf, Busy, Ends, memory, keys
  <1>4. CASE CheckOrder(io)
    BY <1>1, <1>2, <1>4 DEF CheckOrder, GoTo, SpaceOf, Busy, Ends, memory, keys, local
  <1>5. CASE OpenBlockFile(io)
    <2>1. pc[io] = "open" /\ Ends(loc)
      BY <1>1, <1>5 DEF OpenBlockFile, GoTo, SpaceOf, Busy
    <2>2. pc'[io] = "info"
      BY <1>1, <1>2, <1>5, <2>1 DEF OpenBlockFile, GoTo, Ends
    <2>3. at'[io].id = loc.id
      BY <1>1, <1>2, <1>5 DEF OpenBlockFile
    <2>4. \A i \in DOMAIN files' : i <= loc.id
      BY <1>2, <1>5, <2>1 DEF OpenBlockFile, Ends, Put, Locator
    <2>5. QED
      BY <2>2, <2>3, <2>4 DEF SpaceOf, Busy
  <1>6. CASE SaveBlockInfo(io)
    <2>1. pc[io] = "info" /\ pc'[io] \in {"write", "locators"} /\ files' = files /\ at' = at
      BY <1>1, <1>2, <1>6 DEF SaveBlockInfo, GoTo
    <2>2. QED
      BY <1>1, <2>1 DEF SpaceOf, Busy
  <1>7. CASE SaveLocator(io)
    <2>1. pc[io] = "locators" /\ pc'[io] \in {"write", "locators"} /\ files' = files /\ at' = at
      BY <1>1, <1>2, <1>7 DEF SaveLocator, GoTo
    <2>2. QED
      BY <1>1, <2>1 DEF SpaceOf, Busy
  <1>8. CASE WriteBlock(io)
    <2>1. /\ pc[io] = "write" /\ pc'[io] = "close" /\ files' = files /\ at' = at /\ blk' = blk
          /\ loc' = [loc EXCEPT !.pos = at[io].pos + Size[blk[io]]]
      BY <1>1, <1>2, <1>8 DEF WriteBlock, GoTo, local
    <2>2. loc = at[io]
      BY <1>1, <2>1 DEF AddInv, Busy
    <2>3. QED
      BY <1>1, <1>2, <2>1, <2>2 DEF SpaceOf, Busy, Locator
  <1>9. CASE CloseBlockFile(io)
    <2>1. /\ pc[io] = "close" /\ pc'[io] = "latest"
          /\ files' = [files EXCEPT ![at[io].id] = Appended(@, blk[io])]
          /\ loc' = Rolled(loc)
      BY <1>1, <1>2, <1>9 DEF CloseBlockFile, GoTo
    <2>2. /\ at[io].id \in DOMAIN files /\ files[at[io].id].len = at[io].pos
          /\ loc = [at[io] EXCEPT !.pos = @ + Size[blk[io]]]
          /\ \A i \in DOMAIN files : i <= at[io].id
      BY <1>1, <2>1 DEF AddInv, SpaceOf, Busy
    <2>3. /\ DOMAIN files' = DOMAIN files /\ DOMAIN files \subseteq Nat
          /\ files'[at[io].id].len = at[io].pos + Size[blk[io]]
      BY <2>1, <2>2 DEF Appended, TypeOK
    <2>4. /\ loc.id = at[io].id /\ loc.pos = at[io].pos + Size[blk[io]]
          /\ loc.id \in Nat
      BY <1>1, <1>2, <2>2 DEF Locator
    <2>5. loc' = loc \/ loc'.id = loc.id + 1
      BY <1>2, <2>1 DEF Rolled, Locator
    <2>6. Ends(loc)'
      <3>1. CASE loc' = loc
        BY <2>2, <2>3, <2>4, <3>1 DEF Ends
      <3>2. CASE loc'.id = loc.id + 1
        <4>1. \A i \in DOMAIN files' : i \in Nat /\ i <= loc.id
          BY <2>2, <2>3, <2>4
        <4>2. \A i \in DOMAIN files' : i <= loc'.id /\ i # loc'.id
          BY <2>4, <3>2, <4>1
        <4>3. QED
          BY <4>2 DEF Ends
      <3>3. QED
        BY <2>5, <3>1, <3>2
    <2>7. QED
      BY <2>1, <2>6 DEF SpaceOf, Busy
  <1>10. CASE SaveLatest(io)
    BY <1>1, <1>2, <1>10 DEF SaveLatest, GoTo, SpaceOf, Busy, Ends, memory
  <1>11. CASE SaveLocation(io)
    BY <1>1, <1>2, <1>11 DEF SaveLocation, GoTo, SpaceOf, Busy, Ends, memory
  <1>12. QED
    BY <1>3, <1>4, <1>5, <1>6, <1>7, <1>8, <1>9, <1>10, <1>11
    DEF AddBlock, WriteBlockFails, CloseBlockFileFails, OneThread

\* Every step of the store preserves SpaceInv.
LEMMA SpaceStep ==
    ASSUME NEW io, OneThread(io), TypeOK, BusyHasBlock, StoreInv, SpaceInv, [Next]_vars
    PROVE  SpaceInv'
  <1>1. CASE AddBlock(io) \/ \E b \in Blocks : ReceiveBlock(io, b)
    <2>1. stage = "up" /\ stage' = "up" /\ torn' = torn /\ genesisStored' = genesisStored
      BY <1>1 DEF AddBlock, ReceiveBlock, CheckOrder, OpenBlockFile, SaveBlockInfo, SaveLocator,
         WriteBlock, WriteBlockFails, CloseBlockFile, CloseBlockFileFails, SaveLatest,
         SaveLocation, GoTo, OneThread, keys
    <2>2. genesisStored
      BY <2>1 DEF StoreInv, HeadInv
    <2>3. QED
      BY <1>1, <2>1, <2>2, SpaceAdd DEF SpaceInv, OneThread
  <1>2. CASE UNCHANGED vars
    <2>1. SpaceOf(io) => SpaceOf(io)'
      BY <1>2, SpaceUnchanged DEF vars, memory, keys, local, OneThread
    <2>2. QED
      BY <1>2, <2>1 DEF SpaceInv, Ends, vars, memory, keys, OneThread
  <1>3. QED
    BY <1>1, <1>2, SpaceStart, SpaceStop DEF Next, OneThread

\* An accepted block never makes the store refuse the next one: as long as no
\* addBlock was cut short, the next block goes to the end of its file, across
\* restarts and from one block file to the next (one thread, a disk that does
\* not fail, blocks of any size).
THEOREM SpaceLeft ==
    ASSUME NEW io, OneThread(io)
    PROVE  Spec => []Extendable
  <1>1. TypeOK /\ BusyHasBlock /\ StoreInv /\ SpaceInv /\ [Next]_vars => SpaceInv'
    BY SpaceStep
  <1>2. SpaceInv => Extendable
    BY DEF SpaceInv, SpaceOf, Extendable, Idle, Busy, Ends, OneThread
  <1>3. QED
    BY <1>1, <1>2, SpaceInit, StoreInvariant, Typing, PTL DEF Spec

-----------------------------------------------------------------------------
(* The limit of a block file *)

\* Behind the limit no file has been begun.
Fits(loc) == loc.pos > FileSize => loc.id \notin DOMAIN files

Apart ==
    \A i \in DOMAIN files : \A r, s \in files[i].recs :
        s # r => \/ s.pos + Size[s.block] <= r.pos
                 \/ r.pos + Size[r.block] <= s.pos

Limited == \A i \in DOMAIN files : \A r \in files[i].recs : r.pos <= FileSize

FitsFor(t) ==
    /\ Busy(t, {"idle", "order", "open"}) => Fits(dLocation) /\ Fits(currentLocation)
    /\ Busy(t, {"info", "locators", "write", "close"}) => at[t].pos <= FileSize
    /\ Busy(t, {"latest", "location"}) => Fits(currentLocation)

\* The inductive strengthening of BlockFilesBounded.
LimitInv ==
    /\ Apart
    /\ ~torn => Limited
    /\ ~torn /\ stage # "up" => Fits(dLocation)
    /\ ~torn /\ stage = "up" => \A t \in Threads : FitsFor(t)

LEMMA LimitInit == Init => LimitInv
  BY ContentAssumption DEF Init, LimitInv, Apart, Limited, Fits, Origin

\* The block files keep their records: so do the two properties of them.
LEMMA SameRecords ==
    ASSUME \A i \in DOMAIN files' : files'[i].recs # {} => i \in DOMAIN files /\ files'[i].recs = files[i].recs
    PROVE  (Apart => Apart') /\ (Limited => Limited')
  BY DEF Apart, Limited

\* The constructor reads a location that fits, or sets the origin.
LEMMA LimitStart ==
    ASSUME NEW io, OneThread(io), TypeOK, StoreInv, SpaceInv, LimitInv, Start
    PROVE  LimitInv'
  <1>1. pc[io] = "idle" /\ io \in Threads /\ pc' = pc /\ files' = files /\ torn' = torn
    BY DEF Start, Construct, InitLatest, InitLocation, StoreInv, HeadInv, OneThread
  <1>2. (Apart => Apart') /\ (Limited => Limited')
    BY <1>1 DEF Apart, Limited
  <1>3. Fits(Origin)'
    BY ContentAssumption DEF Fits, Origin
  <1>4. CASE Construct /\ genesisStored
    BY <1>1, <1>2, <1>4 DEF Construct, LimitInv, FitsFor, Fits, Busy, OneThread
  <1>5. CASE Construct /\ ~genesisStored
    BY <1>1, <1>2, <1>3, <1>5 DEF Construct, LimitInv, SpaceInv, Fits
  <1>6. CASE InitLatest
    BY <1>1, <1>2, <1>6 DEF InitLatest, LimitInv, Fits, memory
  <1>7. CASE InitLocation
    <2>1. stage' = "up" /\ dLocation' = Origin /\ currentLocation' = Origin
      BY <1>7 DEF InitLocation, SpaceInv, memory
    <2>2. FitsFor(io)'
      BY <1>1, <1>3, <2>1 DEF FitsFor, Busy, Fits
    <2>3. QED
      BY <1>1, <1>2, <2>1, <2>2 DEF LimitInv, OneThread
  <1>8. QED
    BY <1>4, <1>5, <1>6, <1>7 DEF Start

LEMMA LimitStop ==
    ASSUME NEW io, OneThread(io), TypeOK, StoreInv, SpaceInv, LimitInv, Crash \/ CrashInClose(io)
    PROVE  LimitInv'
  <1>1. io \in Threads /\ Stop
    BY DEF OneThread, Crash, CrashInClose
  <1>2. stage' = "down" /\ dLocation' = dLocation
    BY <1>1 DEF Stop, keys
  <1>3. DOMAIN files' = DOMAIN files /\ \A i \in DOMAIN files : files'[i].recs = files[i].recs
    <2>1. \A i \in DOMAIN files : files[i] \in BlockFile
      BY DEF TypeOK
    <2>2. CASE Crash
      BY <2>2 DEF Crash
    <2>3. CASE CrashInClose(io)
      BY <2>1, <2>3 DEF CrashInClose, Extended, BlockFile
    <2>4. QED
      BY <2>2, <2>3
  <1>4. (Apart => Apart') /\ (Limited => Limited')
    BY <1>3, SameRecords
  <1>5. ASSUME ~torn'
        PROVE  Fits(dLocation)'
    <2>1. ~torn /\ pc[io] \in {"idle", "order", "open"}
      BY <1>1, <1>5 DEF Stop
    <2>2. Fits(dLocation)
      BY <1>1, <2>1 DEF LimitInv, FitsFor, Busy, TypeOK
    <2>3. QED
      BY <1>2, <1>3, <2>2 DEF Fits
  <1>6. ~torn' => ~torn
    BY <1>1 DEF Stop
  <1>7. QED
    BY <1>2, <1>4, <1>5, <1>6 DEF LimitInv

\* close() puts the block behind the others.
LEMMA ApartAppended ==
    ASSUME TypeOK, FilesInv, Apart, NEW i \in DOMAIN files, NEW b \in Blocks,
           files' = [files EXCEPT ![i] = Appended(@, b)]
    PROVE  Apart'
  <1> DEFINE new == [pos |-> files[i].len, block |-> b]
  <1>1. /\ files'[i].recs = files[i].recs \cup {new}
        /\ \A j \in DOMAIN files : j # i => files'[j] = files[j]
        /\ DOMAIN files' = DOMAIN files
    BY DEF Appended
  <1>2. \A r \in files[i].recs : r.pos + Size[r.block] <= new.pos
    BY DEF FilesInv
  <1>3. ASSUME NEW r \in files'[i].recs, NEW s \in files'[i].recs, s # r
        PROVE  s.pos + Size[s.block] <= r.pos \/ r.pos + Size[r.block] <= s.pos
    <2>1. CASE r = new
      BY <1>1, <1>2, <1>3, <2>1
    <2>2. CASE s = new
      BY <1>1, <1>2, <1>3, <2>2
    <2>3. CASE r \in files[i].recs /\ s \in files[i].recs
      BY <1>3, <2>3 DEF Apart
    <2>4. QED
      BY <1>1, <2>1, <2>2, <2>3
  <1>4. QED
    BY <1>1, <1>3 DEF Apart

\* A block is put where its file ends, which is not behind the limit.
LEMMA LimitedAppended ==
    ASSUME NEW i \in DOMAIN files, NEW b, Limited, files[i].len <= FileSize,
           files' = [files EXCEPT ![i] = Appended(@, b)]
    PROVE  Limited'
  <1>1. /\ files'[i].recs = files[i].recs \cup {[pos |-> files[i].len, block |-> b]}
        /\ \A j \in DOMAIN files : j # i => files'[j] = files[j]
        /\ DOMAIN files' = DOMAIN files
    BY DEF Appended
  <1>2. QED
    BY <1>1 DEF Limited

\* The steps of addBlock: a file is opened anew or ends before the limit, and
\* a location behind the limit belongs to a file that is still to be begun.
LEMMA LimitAdd ==
    ASSUME NEW io, OneThread(io), TypeOK, BusyHasBlock, StoreInv, SpaceInv, LimitInv,
           AddBlock(io) \/ \E b \in Blocks : ReceiveBlock(io, b), ~torn
    PROVE  Apart' /\ Limited' /\ FitsFor(io)'
  <1> DEFINE loc == currentLocation
  <1>1. /\ io \in Threads /\ stage = "up" /\ FitsFor(io) /\ SpaceOf(io) /\ AddInv(io)
        /\ Apart /\ Limited
    BY DEF OneThread, SpaceInv, StoreInv, LimitInv, AddBlock, ReceiveBlock, CheckOrder, OpenBlockFile,
       SaveBlockInfo, SaveLocator, WriteBlock, WriteBlockFails, CloseBlockFile,
       CloseBlockFileFails, SaveLatest, SaveLocation, GoTo
  <1>2. pc \in [Threads -> Steps] /\ at \in [Threads -> Locator] /\ loc \in Locator /\ FileSize \in Nat
    BY ContentAssumption DEF TypeOK
  <1>3. UNCHANGED files => Apart' /\ Limited'
    BY <1>1 DEF Apart, Limited
  <1>4. ASSUME NEW b \in Blocks, ReceiveBlock(io, b)
        PROVE  UNCHANGED files /\ FitsFor(io)'
    BY <1>1, <1>2, <1>4 DEF ReceiveBlock, GoTo, FitsFor, Busy, Fits, memory, keys
  <1>5. CASE CheckOrder(io)
    <2>1. UNCHANGED files /\ FitsFor(io)'
      BY <1>1, <1>2, <1>5 DEF CheckOrder, GoTo, FitsFor, Busy, Fits, memory, keys, local
    <2>2. QED
      BY <1>3, <2>1
  <1>6. CASE OpenBlockFile(io)
    <2>1. pc[io] = "open" /\ Fits(loc) /\ Ends(loc)
      BY <1>1, <1>6 DEF OpenBlockFile, GoTo, FitsFor, SpaceOf, Busy
    <2>2. pc'[io] = "info"
      BY <1>1, <1>2, <1>6, <2>1 DEF OpenBlockFile, GoTo, Ends
    <2>3. at'[io].pos = IF loc.id \notin DOMAIN files THEN 0 ELSE loc.pos
      BY <1>1, <1>2, <1>6, <2>1 DEF OpenBlockFile, Ends
    <2>4. at'[io].pos <= FileSize
      BY <1>2, <2>1, <2>3 DEF Fits, Locator
    <2>5. Apart' /\ Limited'
      <3>1. \A i \in DOMAIN files' : files'[i].recs # {} =>
              i \in DOMAIN files /\ files'[i].recs = files[i].recs
        BY <1>6 DEF OpenBlockFile, Put, EmptyFile
      <3>2. QED
        BY <1>1, <3>1, SameRecords
    <2>6. QED
      BY <2>2, <2>4, <2>5 DEF FitsFor, Busy
  <1>7. CASE SaveBlockInfo(io)
    <2>1. pc[io] = "info" /\ pc'[io] \in {"write", "locators"} /\ files' = files /\ at' = at
      BY <1>1, <1>2, <1>7 DEF SaveBlockInfo, GoTo
    <2>2. QED
      BY <1>1, <1>3, <2>1 DEF FitsFor, Busy
  <1>8. CASE SaveLocator(io)
    <2>1. pc[io] = "locators" /\ pc'[io] \in {"write", "locators"} /\ files' = files /\ at' = at
      BY <1>1, <1>2, <1>8 DEF SaveLocator, GoTo
    <2>2. QED
      BY <1>1, <1>3, <2>1 DEF FitsFor, Busy
  <1>9. CASE WriteBlock(io)
    <2>1. pc[io] = "write" /\ pc'[io] = "close" /\ files' = files /\ at' = at
      BY <1>1, <1>2, <1>9 DEF WriteBlock, GoTo, local
    <2>2. QED
      BY <1>1, <1>3, <2>1 DEF FitsFor, Busy
  <1>10. CASE CloseBlockFile(io)
    <2>1. /\ pc[io] = "close" /\ pc'[io] = "latest"
          /\ files' = [files EXCEPT ![at[io].id] = Appended(@, blk[io])]
          /\ loc' = Rolled(loc)
      BY <1>1, <1>2, <1>10 DEF CloseBlockFile, GoTo
    <2>2. /\ at[io].id \in DOMAIN files /\ files[at[io].id].len = at[io].pos
          /\ loc = [at[io] EXCEPT !.pos = @ + Size[blk[io]]]
          /\ \A i \in DOMAIN files : i <= at[io].id
          /\ at[io].pos <= FileSize /\ blk[io] \in Blocks
      BY <1>1, <2>1 DEF AddInv, SpaceOf, FitsFor, Busy
    <2>3. Apart' /\ Limited'
      BY <1>1, <2>1, <2>2, ApartAppended, LimitedAppended DEF StoreInv
    <2>4. DOMAIN files' = DOMAIN files /\ DOMAIN files \subseteq Nat
      BY <2>1 DEF TypeOK
    <2>5. loc.id = at[io].id /\ loc.id \in Nat
      BY <1>1, <1>2, <2>2 DEF Locator
    <2>6. Fits(loc)'
      <3>1. CASE loc.pos > FileSize
        <4>1. loc'.id = loc.id + 1
          BY <1>2, <2>1, <3>1 DEF Rolled, Locator
        <4>2. QED
          BY <2>2, <2>4, <2>5, <4>1 DEF Fits
      <3>2. CASE ~(loc.pos > FileSize)
        BY <2>1, <3>2 DEF Rolled, Fits
      <3>3. QED
        BY <3>1, <3>2
    <2>7. QED
      BY <2>1, <2>3, <2>6 DEF FitsFor, Busy
  <1>11. CASE SaveLatest(io)
    <2>1. UNCHANGED files /\ FitsFor(io)'
      BY <1>1, <1>2, <1>11 DEF SaveLatest, GoTo, FitsFor, Busy, Fits, memory
    <2>2. QED
      BY <1>3, <2>1
  <1>12. CASE SaveLocation(io)
    <2>1. UNCHANGED files /\ FitsFor(io)'
      BY <1>1, <1>2, <1>12 DEF SaveLocation, GoTo, FitsFor, Busy, Fits, memory
    <2>2. QED
      BY <1>3, <2>1
  <1>13. QED
    BY <1>3, <1>4, <1>5, <1>6, <1>7, <1>8, <1>9, <1>10, <1>11, <1>12
    DEF AddBlock, WriteBlockFails, CloseBlockFileFails, OneThread

\* Blocks stay apart whatever addBlock does, also after it was cut short.
LEMMA ApartAdd ==
    ASSUME NEW io, OneThread(io), TypeOK, BusyHasBlock, StoreInv, Apart,
           AddBlock(io) \/ \E b \in Blocks : ReceiveBlock(io, b)
    PROVE  Apart'
  <1>1. CASE CloseBlockFile(io)
    <2>1. pc[io] = "close" /\ io \in Threads
      BY <1>1 DEF CloseBlockFile, GoTo, OneThread
    <2>2. at[io].id \in DOMAIN files /\ blk[io] \in Blocks
      BY <2>1 DEF StoreInv, AddInv, Busy
    <2>3. QED
      BY <1>1, <2>2, ApartAppended DEF CloseBlockFile, StoreInv
  <1>2. CASE OpenBlockFile(io)
    <2>1. \A i \in DOMAIN files' : files'[i].recs # {} =>
            i \in DOMAIN files /\ files'[i].recs = files[i].recs
      BY <1>2 DEF OpenBlockFile, Put, EmptyFile
    <2>2. QED
      BY <2>1, SameRecords
  <1>3. CASE ~CloseBlockFile(io) /\ ~OpenBlockFile(io)
    <2>1. UNCHANGED files
      BY <1>3 DEF AddBlock, ReceiveBlock, CheckOrder, SaveBlockInfo, SaveLocator, WriteBlock,
         WriteBlockFails, CloseBlockFileFails, SaveLatest, SaveLocation, OneThread
    <2>2. QED
      BY <2>1 DEF Apart
  <1>4. QED
    BY <1>1, <1>2, <1>3

\* Every step of the store preserves LimitInv.
LEMMA LimitStep ==
    ASSUME NEW io, OneThread(io), TypeOK, BusyHasBlock, StoreInv, SpaceInv, LimitInv, [Next]_vars
    PROVE  LimitInv'
  <1>1. CASE AddBlock(io) \/ \E b \in Blocks : ReceiveBlock(io, b)
    <2>1. stage' = "up" /\ torn' = torn
      BY <1>1 DEF AddBlock, ReceiveBlock, CheckOrder, OpenBlockFile, SaveBlockInfo, SaveLocator,
         WriteBlock, WriteBlockFails, CloseBlockFile, CloseBlockFileFails, SaveLatest,
         SaveLocation, GoTo, OneThread
    <2>2. ~torn => Limited' /\ FitsFor(io)'
      BY <1>1, LimitAdd
    <2>3. Apart'
      BY <1>1, ApartAdd DEF LimitInv
    <2>4. QED
      BY <2>1, <2>2, <2>3 DEF LimitInv, OneThread
  <1>2. CASE UNCHANGED vars
    BY <1>2 DEF LimitInv, Apart, Limited, FitsFor, Fits, Busy, vars, memory, keys, local
  <1>3. QED
    BY <1>1, <1>2, LimitStart, LimitStop DEF Next, OneThread

\* No two blocks of a block file overlap, and as long as no addBlock was cut
\* short a new file is begun in time: none starts behind CHAIN_BLOCK_FILE_SIZE.
THEOREM FilesBounded ==
    ASSUME NEW io, OneThread(io)
    PROVE  Spec => []BlockFilesBounded
  <1>1. TypeOK /\ BusyHasBlock /\ StoreInv /\ SpaceInv /\ LimitInv /\ [Next]_vars => LimitInv'
    BY LimitStep
  <1>2. TypeOK /\ BusyHasBlock /\ StoreInv /\ SpaceInv /\ [Next]_vars => SpaceInv'
    BY SpaceStep
  <1>3. StoreInv /\ LimitInv => BlockFilesBounded
    BY DEF StoreInv, FilesInv, LimitInv, Apart, Limited, BlockFilesBounded
  <1>4. QED
    BY <1>1, <1>2, <1>3, SpaceInit, LimitInit, StoreInvariant, Typing, PTL DEF Spec

-----------------------------------------------------------------------------
(* Chains *)

\* The blocks of every set that contains h and the parents of its blocks:
\* those from h down to the genesis block.
Descent(h) ==
    {b \in Blocks : \A S \in SUBSET Hashes :
        h \in S /\ (\A c \in S \cap Blocks : Parent[c] \in S) => b \in S}

LEMMA DescentBlock ==
    ASSUME NEW h \in Blocks
    PROVE  Descent(h) = {h} \cup Descent(Parent[h])
  <1>1. ASSUME NEW b \in Descent(h), b # h, NEW S \in SUBSET Hashes,
               Parent[h] \in S, \A c \in S \cap Blocks : Parent[c] \in S
        PROVE  b \in S
    <2>1. /\ S \cup {h} \in SUBSET Hashes
          /\ \A c \in (S \cup {h}) \cap Blocks : Parent[c] \in S \cup {h}
      BY <1>1 DEF Hashes
    <2>2. b \in S \cup {h}
      BY <2>1 DEF Descent
    <2>3. QED
      BY <1>1, <2>2
  <1>2. \A b \in Descent(h) : b # h => b \in Descent(Parent[h])
    BY <1>1 DEF Descent
  <1>3. h \in Descent(h)
    BY DEF Descent
  <1>4. Descent(Parent[h]) \subseteq Descent(h)
    BY DEF Descent
  <1>5. QED
    BY <1>2, <1>3, <1>4

LEMMA DescentRoot ==
    ASSUME NEW h \in Hashes, h \notin Blocks
    PROVE  Descent(h) = {}
  <1>1. {h} \in SUBSET Hashes /\ \A c \in {h} \cap Blocks : Parent[c] \in {h}
    OBVIOUS
  <1>2. QED
    BY <1>1 DEF Descent

\* The recursive definition of Ancestry has a solution, so that it can be unfolded.
LEMMA AncestryUnfold ==
    ASSUME NEW h \in Hashes
    PROVE  Ancestry[h] = IF h \in Blocks THEN {h} \cup Ancestry[Parent[h]] ELSE {}
  <1> DEFINE A == [x \in Hashes |-> Descent(x)]
             Solves(f) == f = [x \in Hashes |-> IF x \in Blocks THEN {x} \cup f[Parent[x]] ELSE {}]
  <1>1. \A x \in Blocks : Parent[x] \in Hashes
    BY ChainAssumption DEF Hashes
  <1>2. Solves(A)
    BY <1>1, DescentBlock, DescentRoot DEF Hashes
  <1>3. Ancestry = CHOOSE f : Solves(f)
    BY DEF Ancestry
  <1>4. Solves(Ancestry)
    <2> HIDE DEF A, Solves
    <2> QED BY <1>2, <1>3
  <1>5. QED
    BY <1>4

LEMMA AncestryRoots == Ancestry[NoHash] = {} /\ Ancestry[Genesis] = {}
  BY AncestryUnfold, ChainAssumption DEF Hashes

-----------------------------------------------------------------------------
(* One thread: the index is the chain *)

\* The transactions of the chain that ends in h
TxsOf(h) == UNION {Txs[b] : b \in Ancestry[h]}

\* The index names the blocks of the chain that ends in h, and their transactions.
IndexOf(h) ==
    /\ DOMAIN info = Ancestry[h]
    /\ DOMAIN locators = TxsOf(h)

\* Where thread t is, as long as no addBlock was cut short.
IndexAt(t) ==
    /\ Busy(t, {"idle", "order", "open", "info"}) => IndexOf(dLatest)
    /\ Busy(t, {"locators"}) =>
         /\ DOMAIN info = Ancestry[blk[t]]
         /\ DOMAIN locators = TxsOf(dLatest) \cup (Txs[blk[t]] \ todo[t])
    /\ Busy(t, {"write", "close", "latest", "location"}) => IndexOf(blk[t])

\* The inductive strengthening of IndexIsChain and AcceptedStays: the second
\* part holds whatever was cut short.
ChainInv ==
    /\ ~torn /\ stage # "up" => IndexOf(dLatest)
    /\ ~torn /\ stage = "up" => \A t \in Threads : IndexAt(t)
    /\ acked \subseteq Ancestry[dLatest]

LEMMA ChainInit == Init => ChainInv
  BY AncestryRoots DEF Init, ChainInv, IndexOf, TxsOf

\* The transactions of a chain are those of its newest block and the others.
LEMMA TxsUnfold ==
    ASSUME NEW h \in Blocks
    PROVE  TxsOf(h) = TxsOf(Parent[h]) \cup Txs[h]
  <1>1. Ancestry[h] = {h} \cup Ancestry[Parent[h]]
    BY AncestryUnfold DEF Hashes
  <1>2. QED
    BY <1>1 DEF TxsOf

LEMMA ChainStart ==
    ASSUME NEW io, OneThread(io), TypeOK, StoreInv, ChainInv, Start
    PROVE  ChainInv'
  <1>1. /\ pc[io] = "idle" /\ io \in Threads
        /\ UNCHANGED <<pc, torn, info, locators, acked>>
    BY DEF Start, Construct, InitLatest, InitLocation, StoreInv, HeadInv, OneThread, index
  <1>2. Ancestry[dLatest'] = Ancestry[dLatest]
    <2>1. CASE InitLatest
      BY <2>1, AncestryRoots DEF InitLatest, StoreInv, HeadInv
    <2>2. CASE ~InitLatest
      BY <2>2 DEF Start, Construct, InitLocation
    <2>3. QED
      BY <2>1, <2>2
  <1>3. IndexOf(dLatest) => IndexOf(dLatest)' /\ IndexAt(io)'
    BY <1>1, <1>2 DEF IndexOf, TxsOf, IndexAt, Busy
  <1>4. stage # "up"
    BY DEF Start, Construct, InitLatest, InitLocation
  <1>5. QED
    BY <1>1, <1>2, <1>3, <1>4 DEF ChainInv, OneThread

LEMMA ChainStop ==
    ASSUME NEW io, OneThread(io), TypeOK, ChainInv, Crash \/ CrashInClose(io)
    PROVE  ChainInv'
  <1>1. /\ io \in Threads /\ Stop
        /\ stage' = "down" /\ UNCHANGED <<dLatest, info, locators, acked>>
    BY DEF OneThread, Crash, CrashInClose, Stop, keys, index
  <1>2. ~torn' => ~torn /\ pc[io] \in {"idle", "order", "open"}
    BY <1>1 DEF Stop
  <1>3. ~torn' => IndexOf(dLatest)
    BY <1>1, <1>2 DEF ChainInv, IndexAt, Busy
  <1>4. QED
    BY <1>1, <1>3 DEF ChainInv, IndexOf

\* The steps of addBlock bring one block, and its transactions, into the index.
LEMMA ChainAdd ==
    ASSUME NEW io, OneThread(io), TypeOK, BusyHasBlock, StoreInv, ChainInv,
           AddBlock(io) \/ \E b \in Blocks : ReceiveBlock(io, b)
    PROVE  /\ ~torn => IndexAt(io)'
           /\ acked' \subseteq Ancestry[dLatest']
  <1>1. /\ io \in Threads /\ stage = "up" /\ AddInv(io) /\ HeadInv
        /\ ~torn => IndexAt(io)
        /\ acked \subseteq Ancestry[dLatest]
    BY DEF OneThread, StoreInv, ChainInv, AddBlock, ReceiveBlock, CheckOrder, OpenBlockFile,
       SaveBlockInfo, SaveLocator, WriteBlock, WriteBlockFails, CloseBlockFile,
       CloseBlockFileFails, SaveLatest, SaveLocation, GoTo
  <1>2. pc \in [Threads -> Steps] /\ blk \in [Threads -> Hashes]
    BY DEF TypeOK
  <1>3. CASE CheckOrder(io) \/ OpenBlockFile(io) \/ \E b \in Blocks : ReceiveBlock(io, b)
    <2>1. /\ pc[io] \in {"idle", "order", "open"} /\ pc'[io] \in {"idle", "order", "open", "info"}
          /\ UNCHANGED <<dLatest, info, locators, acked>>
      BY <1>1, <1>2, <1>3 DEF CheckOrder, OpenBlockFile, ReceiveBlock, GoTo, keys, index
    <2>2. QED
      BY <1>1, <2>1 DEF IndexAt, IndexOf, Busy
  <1>4. CASE SaveBlockInfo(io)
    <2>1. /\ pc[io] = "info" /\ pc'[io] = IF Txs[blk[io]] = {} THEN "write" ELSE "locators"
          /\ DOMAIN info' = DOMAIN info \cup {blk[io]}
          /\ todo'[io] = Txs[blk[io]]
          /\ UNCHANGED <<dLatest, locators, blk, acked>>
      BY <1>1, <1>2, <1>4 DEF SaveBlockInfo, GoTo, keys, TypeOK, Put
    <2>2. blk[io] \in Blocks /\ dLatest = Parent[blk[io]]
      BY <1>1, <2>1 DEF AddInv, Busy
    <2>3. /\ Ancestry[blk[io]] = {blk[io]} \cup Ancestry[dLatest]
          /\ TxsOf(blk[io]) = TxsOf(dLatest) \cup Txs[blk[io]]
      BY <2>2, AncestryUnfold, TxsUnfold DEF Hashes
    <2>4. ~torn => IndexOf(dLatest)
      BY <1>1, <2>1 DEF IndexAt, Busy
    <2>5. ~torn => IndexAt(io)'
      <3> SUFFICES ASSUME ~torn PROVE IndexAt(io)'
        OBVIOUS
      <3>1. DOMAIN info' = Ancestry[blk[io]]
        BY <2>1, <2>3, <2>4 DEF IndexOf
      <3>2. DOMAIN locators = TxsOf(dLatest)
        BY <2>4 DEF IndexOf
      <3>3. CASE Txs[blk[io]] = {}
        BY <2>1, <2>3, <3>1, <3>2, <3>3 DEF IndexAt, IndexOf, Busy
      <3>4. CASE Txs[blk[io]] # {}
        BY <2>1, <2>3, <3>1, <3>2, <3>4 DEF IndexAt, Busy
      <3>5. QED
        BY <3>3, <3>4
    <2>6. QED
      BY <1>1, <2>1, <2>5
  <1>5. CASE SaveLocator(io)
    <2>1. PICK tx \in todo[io] :
            /\ GoTo(io, "locators", IF todo[io] = {tx} THEN "write" ELSE "locators")
            /\ locators' = Put(locators, tx, currentLocation)
            /\ todo' = [todo EXCEPT ![io] = @ \ {tx}]
            /\ UNCHANGED <<dLatest, info, blk, acked>>
      BY <1>5 DEF SaveLocator, keys
    <2>2. /\ pc[io] = "locators" /\ pc'[io] = IF todo[io] = {tx} THEN "write" ELSE "locators"
          /\ DOMAIN locators' = DOMAIN locators \cup {tx}
          /\ todo'[io] = todo[io] \ {tx}
      BY <1>1, <1>2, <2>1 DEF GoTo, TypeOK, Put
    <2>3. /\ blk[io] \in Blocks /\ dLatest = Parent[blk[io]] /\ todo[io] \subseteq Txs[blk[io]]
      BY <1>1, <2>2 DEF AddInv, Busy
    <2>4. TxsOf(blk[io]) = TxsOf(dLatest) \cup Txs[blk[io]]
      BY <2>3, TxsUnfold
    <2>5. ~torn => IndexAt(io)'
      <3> SUFFICES ASSUME ~torn PROVE IndexAt(io)'
        OBVIOUS
      <3>1. /\ DOMAIN info' = Ancestry[blk[io]]
            /\ DOMAIN locators = TxsOf(dLatest) \cup (Txs[blk[io]] \ todo[io])
        BY <1>1, <2>1, <2>2 DEF IndexAt, Busy
      <3>2. DOMAIN locators' = TxsOf(dLatest) \cup (Txs[blk[io]] \ todo'[io])
        BY <2>2, <2>3, <3>1
      <3>3. CASE todo[io] = {tx}
        <4>1. pc'[io] = "write" /\ Txs[blk[io]] \ todo'[io] = Txs[blk[io]]
          BY <2>2, <3>3
        <4>2. QED
          BY <2>1, <2>4, <3>1, <3>2, <4>1 DEF IndexAt, IndexOf, Busy
      <3>4. CASE todo[io] # {tx}
        BY <2>1, <2>2, <3>1, <3>2, <3>4 DEF IndexAt, Busy
      <3>5. QED
        BY <3>3, <3>4
    <2>6. QED
      BY <1>1, <2>1, <2>5
  <1>6. CASE WriteBlock(io) \/ CloseBlockFile(io)
    <2>1. /\ pc[io] \in {"write", "close"} /\ pc'[io] \in {"close", "latest"}
          /\ UNCHANGED <<dLatest, info, locators, blk, acked>>
      BY <1>1, <1>2, <1>6 DEF WriteBlock, CloseBlockFile, GoTo, keys, index, local
    <2>2. QED
      BY <1>1, <2>1 DEF IndexAt, IndexOf, Busy
  <1>7. CASE SaveLatest(io)
    <2>1. /\ pc[io] = "latest" /\ pc'[io] = "location" /\ dLatest' = blk[io]
          /\ UNCHANGED <<info, locators, blk, acked>>
      BY <1>1, <1>2, <1>7 DEF SaveLatest, GoTo, index, local, AddInv, Busy
    <2>2. blk[io] \in Blocks /\ dLatest = Parent[blk[io]]
      BY <1>1, <2>1 DEF AddInv, Busy
    <2>3. Ancestry[blk[io]] = {blk[io]} \cup Ancestry[dLatest]
      BY <2>2, AncestryUnfold DEF Hashes
    <2>4. QED
      BY <1>1, <2>1, <2>3 DEF IndexAt, IndexOf, Busy
  <1>8. CASE SaveLocation(io)
    <2>1. /\ pc[io] = "location" /\ pc'[io] = "idle" /\ acked' = acked \cup {blk[io]}
          /\ UNCHANGED <<dLatest, info, locators, blk>>
      BY <1>1, <1>2, <1>8 DEF SaveLocation, GoTo, index, local
    <2>2. blk[io] \in Blocks /\ dLatest = blk[io]
      BY <1>1, <2>1 DEF AddInv, Busy
    <2>3. blk[io] \in Ancestry[dLatest]
      BY <2>2, AncestryUnfold DEF Hashes
    <2>4. QED
      BY <1>1, <2>1, <2>2, <2>3 DEF IndexAt, IndexOf, Busy
  <1>9. QED
    BY <1>3, <1>4, <1>5, <1>6, <1>7, <1>8
    DEF AddBlock, WriteBlockFails, CloseBlockFileFails, OneThread

\* Every step of the store preserves ChainInv.
LEMMA ChainStep ==
    ASSUME NEW io, OneThread(io), TypeOK, BusyHasBlock, StoreInv, ChainInv, [Next]_vars
    PROVE  ChainInv'
  <1>1. CASE AddBlock(io) \/ \E b \in Blocks : ReceiveBlock(io, b)
    <2>1. stage' = "up" /\ torn' = torn
      BY <1>1 DEF AddBlock, ReceiveBlock, CheckOrder, OpenBlockFile, SaveBlockInfo, SaveLocator,
         WriteBlock, WriteBlockFails, CloseBlockFile, CloseBlockFileFails, SaveLatest,
         SaveLocation, GoTo, OneThread
    <2>2. QED
      BY <1>1, <2>1, ChainAdd DEF ChainInv, OneThread
  <1>2. CASE UNCHANGED vars
    BY <1>2 DEF ChainInv, IndexAt, IndexOf, Busy, vars, memory, keys, index, local
  <1>3. QED
    BY <1>1, <1>2, ChainStart, ChainStop DEF Next, OneThread

LEMMA ChainInvariant ==
    ASSUME NEW io, OneThread(io)
    PROVE  Spec => [](StoreInv /\ ChainInv)
  <1>1. TypeOK /\ BusyHasBlock /\ StoreInv /\ ChainInv /\ [Next]_vars => ChainInv'
    BY ChainStep
  <1>2. QED
    BY <1>1, ChainInit, StoreInvariant, Typing, PTL DEF Spec

\* As long as no addBlock was cut short, the index of an idle store names the
\* blocks and transactions of the chain that ends in the newest block and no
\* others, and memory and disk agree on that block (one thread, a disk that
\* does not fail, any number of restarts).
THEOREM IndexExact ==
    ASSUME NEW io, OneThread(io)
    PROVE  Spec => []IndexIsChain
  <1>1. StoreInv /\ ChainInv => IndexIsChain
    BY DEF StoreInv, HeadInv, ChainInv, IndexAt, IndexOf, TxsOf, IndexIsChain, Idle, Busy, OneThread
  <1>2. QED
    BY <1>1, ChainInvariant, PTL

\* With one thread an accepted block stays part of the chain, also after an
\* addBlock was cut short: what two threads break (documentation.tex:91).
THEOREM AcceptedForGood ==
    ASSUME NEW io, OneThread(io)
    PROVE  Spec => []AcceptedStays
  <1>1. StoreInv /\ ChainInv => AcceptedStays
    BY DEF StoreInv, HeadInv, ChainInv, AcceptedStays, Idle, Busy, OneThread
  <1>2. QED
    BY <1>1, ChainInvariant, PTL

-----------------------------------------------------------------------------
(* Any number of threads, failing disks: no block is built on a lost one *)

\* No block reaches the node through two threads: those the miner thread adds
\* are its own, the network thread adds those of others.
Disjoint == \A t, u \in Threads : t # u => From[t] \cap From[u] = {}

Readable(b) == b \in DOMAIN info /\ Stored(b, info[b].locator)
ParentReadable(b) == Parent[b] \in Blocks => Readable(Parent[b])

\* A block that lies in a file has an entry in the index (which may lead
\* somewhere else: two threads in addBlock may use one location).
KnownInv == \A i \in DOMAIN files : \A r \in files[i].recs : r.block \in DOMAIN info

\* What thread t knows of the block it adds and of its parent.  Between the
\* check in receiveBlock and that in addBlock, the newest block may change.
LostAt(t) ==
    /\ Busy(t, {"order", "open", "info"}) => blk[t] \in From[t] \ DOMAIN info
    /\ Busy(t, {"order"}) /\ Parent[blk[t]] \in Blocks =>
         /\ Parent[blk[t]] \in DOMAIN info
         /\ latestBlock = Parent[blk[t]] => Readable(Parent[blk[t]])
    /\ ~Busy(t, {"idle", "order"}) => ParentReadable(blk[t])
    /\ Busy(t, {"locators", "write", "close"}) => blk[t] \in DOMAIN info
    /\ Busy(t, {"info", "locators", "write", "close"}) => at[t].id \in DOMAIN files

\* The inductive strengthening of NeverBuiltOnLost.
LostInv ==
    /\ FilesInv /\ KnownInv
    /\ \A b \in acked : ParentReadable(b)
    /\ stage # "up" => \A t \in Threads : pc[t] = "idle"
    /\ \A t \in Threads : LostAt(t)

LEMMA LostInit == Init => LostInv
  BY DEF Init, LostInv, FilesInv, KnownInv, LostAt, Busy

\* A complete block stays where it is, and so does its entry.
Grows ==
    /\ \A b \in DOMAIN info : b \in DOMAIN info' /\ info'[b] = info[b]
    /\ \A b \in Blocks, loc \in Locator : Stored(b, loc) => Stored(b, loc)'

LEMMA ReadableStays ==
    ASSUME TypeOK, Grows
    PROVE  /\ \A b \in Blocks : Readable(b) => Readable(b)'
           /\ \A b \in Blocks : ParentReadable(b) => ParentReadable(b)'
  <1>1. \A b \in DOMAIN info : b \in Blocks /\ info[b].locator \in Locator
    BY DEF TypeOK, BlockInfo
  <1>2. QED
    BY <1>1 DEF Grows, Readable, ParentReadable

\* What happens to the files in any step leaves what is stored in its place.
LEMMA LostFiles ==
    ASSUME TypeOK, BusyHasBlock, LostInv, Next
    PROVE  /\ FilesInv'
           /\ \A b \in Blocks, loc \in Locator : Stored(b, loc) => Stored(b, loc)'
           /\ DOMAIN files \subseteq DOMAIN files'
           /\ \A i \in DOMAIN files' : \A r \in files'[i].recs :
                \/ i \in DOMAIN files /\ r \in files[i].recs
                \/ \E t \in Threads : CloseBlockFile(t) /\ r.block = blk[t]
  <1> DEFINE Goal == /\ FilesInv'
                     /\ \A b \in Blocks, loc \in Locator : Stored(b, loc) => Stored(b, loc)'
                     /\ DOMAIN files \subseteq DOMAIN files'
                     /\ \A i \in DOMAIN files' : \A r \in files'[i].recs :
                          \/ i \in DOMAIN files /\ r \in files[i].recs
                          \/ \E t \in Threads : CloseBlockFile(t) /\ r.block = blk[t]
  <1>1. CASE UNCHANGED files
    BY <1>1 DEF LostInv, FilesInv, Stored
  <1>2. ASSUME NEW t \in Threads, NEW n \in Nat, at[t].id \in DOMAIN files,
               files' = [files EXCEPT ![at[t].id] = Extended(@, n)]
        PROVE  Goal
    <2>1. /\ FilesInv'
          /\ \A b \in Blocks, loc \in Locator : Stored(b, loc) => Stored(b, loc)'
      BY <1>2, ExtendedFiles DEF LostInv
    <2>2. DOMAIN files' = DOMAIN files /\ \A i \in DOMAIN files : files'[i].recs = files[i].recs
      <3>1. \A i \in DOMAIN files : files[i] \in BlockFile
        BY DEF TypeOK
      <3>2. QED
        BY <1>2, <3>1 DEF Extended, BlockFile
    <2>3. QED
      BY <2>1, <2>2
  <1>3. ASSUME NEW t \in Threads, CrashInClose(t) \/ WriteBlockFails(t) \/ CloseBlockFileFails(t)
        PROVE  Goal
    <2>1. pc[t] \in {"write", "close"} /\ blk[t] \in Blocks
      BY <1>3 DEF CrashInClose, WriteBlockFails, CloseBlockFileFails, GoTo, BusyHasBlock
    <2>2. at[t].id \in DOMAIN files
      BY <2>1 DEF LostInv, LostAt, Busy
    <2>3. Size[blk[t]] \in Nat \ {0}
      BY <2>1, ContentAssumption
    <2>4. \E n \in Nat : files' = [files EXCEPT ![at[t].id] = Extended(@, n)]
      BY <1>3, <2>3 DEF CrashInClose, WriteBlockFails, CloseBlockFileFails
    <2>5. QED
      BY <1>2, <2>2, <2>4
  <1>4. ASSUME NEW t \in Threads, CloseBlockFile(t)
        PROVE  Goal
    <2>1. pc[t] = "close" /\ blk[t] \in Blocks
      BY <1>4 DEF CloseBlockFile, GoTo, BusyHasBlock
    <2>2. at[t].id \in DOMAIN files
      BY <2>1 DEF LostInv, LostAt, Busy
    <2>3. files' = [files EXCEPT ![at[t].id] = Appended(@, blk[t])]
      BY <1>4 DEF CloseBlockFile
    <2>4. /\ FilesInv'
          /\ \A b \in Blocks, loc \in Locator : Stored(b, loc) => Stored(b, loc)'
      BY <2>1, <2>2, <2>3, AppendedFiles DEF LostInv
    <2>5. \A i \in DOMAIN files' : \A r \in files'[i].recs :
            i \in DOMAIN files /\ (r \in files[i].recs \/ r.block = blk[t])
      BY <2>2, <2>3 DEF Appended
    <2>6. QED
      BY <1>4, <2>3, <2>4, <2>5
  <1>5. ASSUME NEW t \in Threads, OpenBlockFile(t)
        PROVE  Goal
    <2>1. /\ \A i \in DOMAIN files : i \in DOMAIN files' /\ files'[i] = files[i]
          /\ \A i \in DOMAIN files' : i \notin DOMAIN files => files'[i] = EmptyFile
      BY <1>5 DEF OpenBlockFile, Put
    <2>2. FilesInv'
      BY <2>1 DEF LostInv, FilesInv, EmptyFile
    <2>3. QED
      BY <2>1, <2>2 DEF Stored, EmptyFile
  <1>6. QED
    BY <1>1, <1>3, <1>4, <1>5
    DEF Next, Start, Construct, InitLatest, InitLocation, Crash, ReceiveBlock, AddBlock, CheckOrder,
        SaveBlockInfo, SaveLocator, WriteBlock, SaveLatest, SaveLocation, index

\* What thread t does to the index: only SaveBlockInfo changes the entries of
\* blocks, and it adds one.
LEMMA LostGrows ==
    ASSUME TypeOK, BusyHasBlock, LostInv, Next
    PROVE  Grows
  <1>1. \A b \in DOMAIN info : b \in DOMAIN info' /\ info'[b] = info[b]
    <2>1. ASSUME NEW t \in Threads, SaveBlockInfo(t)
          PROVE  \A b \in DOMAIN info : b \in DOMAIN info' /\ info'[b] = info[b]
      <3>1. blk[t] \notin DOMAIN info
        BY <2>1 DEF SaveBlockInfo, GoTo, LostInv, LostAt, Busy
      <3>2. QED
        BY <2>1, <3>1 DEF SaveBlockInfo, Put
    <2>2. CASE UNCHANGED info
      BY <2>2
    <2>3. QED
      BY <2>1, <2>2
      DEF Next, Start, Construct, InitLatest, InitLocation, Crash, CrashInClose, Stop, ReceiveBlock,
          AddBlock, CheckOrder, OpenBlockFile, SaveLocator, WriteBlock, WriteBlockFails,
          CloseBlockFile, CloseBlockFileFails, SaveLatest, SaveLocation, index
  <1>2. QED
    BY <1>1, LostFiles DEF Grows

\* What a thread knows is not disturbed while it does nothing itself.
LEMMA LostOther ==
    ASSUME Disjoint, TypeOK, BusyHasBlock, LostInv, Next, Grows, NEW u \in Threads,
           pc'[u] = pc[u], blk'[u] = blk[u], at'[u] = at[u], DOMAIN files \subseteq DOMAIN files',
           \/ UNCHANGED <<latestBlock, info>>
           \/ \E t \in Threads : t # u /\ SaveBlockInfo(t)
    PROVE  LostAt(u)'
  <1>1. LostAt(u) /\ pc[u] \in Steps
    BY DEF LostInv, TypeOK
  <1>2. CASE pc[u] = "idle"
    BY <1>2 DEF LostAt, Busy
  <1>3. CASE pc[u] # "idle"
    <2>1. blk[u] \in Blocks /\ Parent[blk[u]] \in Blocks \cup {Genesis}
      BY <1>3, ChainAssumption DEF BusyHasBlock
    <2>2. Busy(u, {"order", "open", "info"}) => blk[u] \notin DOMAIN info'
      <3>1. ASSUME NEW t \in Threads, t # u, SaveBlockInfo(t), Busy(u, {"order", "open", "info"})
            PROVE  blk[u] \notin DOMAIN info'
        <4>1. blk[t] \in From[t]
          BY <3>1 DEF SaveBlockInfo, GoTo, LostInv, LostAt, Busy
        <4>2. blk[u] \in From[u] /\ blk[u] \notin DOMAIN info
          BY <1>1, <3>1 DEF LostAt
        <4>3. blk[u] # blk[t]
          BY <3>1, <4>1, <4>2 DEF Disjoint
        <4>4. QED
          BY <3>1, <4>2, <4>3 DEF SaveBlockInfo, Put
      <3>2. QED
        BY <1>1, <3>1 DEF LostAt
    <2>3. /\ Readable(Parent[blk[u]]) /\ Parent[blk[u]] \in Blocks => Readable(Parent[blk[u]])'
          /\ ParentReadable(blk[u]) => ParentReadable(blk[u])'
      BY <2>1, ReadableStays
    <2>4. Busy(u, {"order"}) /\ Parent[blk[u]] \in Blocks =>
            /\ Parent[blk[u]] \in DOMAIN info'
            /\ latestBlock' = Parent[blk[u]] => Readable(Parent[blk[u]])'
      <3> SUFFICES ASSUME Busy(u, {"order"}), Parent[blk[u]] \in Blocks
                   PROVE  /\ Parent[blk[u]] \in DOMAIN info'
                          /\ latestBlock' = Parent[blk[u]] => Readable(Parent[blk[u]])'
        OBVIOUS
      <3>1. /\ Parent[blk[u]] \in DOMAIN info
            /\ latestBlock = Parent[blk[u]] => Readable(Parent[blk[u]])
        BY <1>1 DEF LostAt
      <3>2. Parent[blk[u]] \in DOMAIN info'
        BY <3>1 DEF Grows
      <3>3. ASSUME NEW t \in Threads, SaveBlockInfo(t)
            PROVE  latestBlock' # Parent[blk[u]]
        <4>1. latestBlock' = blk[t] /\ blk[t] \notin DOMAIN info
          BY <3>3 DEF SaveBlockInfo, GoTo, LostInv, LostAt, Busy
        <4>2. QED
          BY <3>1, <4>1
      <3>4. QED
        BY <2>3, <3>1, <3>2, <3>3
    <2>5. QED
      BY <1>1, <2>2, <2>3, <2>4 DEF LostAt, Busy, ParentReadable, Grows
  <1>4. QED
    BY <1>2, <1>3

\* The step a thread takes itself: receiveBlock finds the parent or the newest
\* block that leads to it, addBlock finds that the two are one.
LEMMA LostOwn ==
    ASSUME Disjoint, TypeOK, BusyHasBlock, LostInv, Next, Grows, DOMAIN files \subseteq DOMAIN files',
           NEW t \in Threads, AddBlock(t) \/ \E b \in Blocks : ReceiveBlock(t, b)
    PROVE  LostAt(t)'
  <1>1. LostAt(t) /\ FilesInv /\ KnownInv
    BY DEF LostInv
  <1>2. pc \in [Threads -> Steps] /\ blk \in [Threads -> Hashes] /\ at \in [Threads -> Locator]
    BY DEF TypeOK
  <1>3. ASSUME NEW b \in Blocks, ReceiveBlock(t, b)
        PROVE  LostAt(t)'
    <2>1. /\ pc'[t] = "order" /\ blk'[t] = b /\ b \in From[t] \ DOMAIN info
          /\ UNCHANGED <<latestBlock, info, files>>
      BY <1>2, <1>3 DEF ReceiveBlock, GoTo, ContainsBlock, memory, index
    <2>2. ASSUME Parent[b] \in Blocks
          PROVE  /\ Parent[b] \in DOMAIN info
                 /\ latestBlock = Parent[b] => Readable(Parent[b])
      <3>1. Parent[b] \in GetBlock(latestBlock)
        BY <1>3, <2>2, ChainAssumption DEF ReceiveBlock, GetLatestBlock
      <3>2. latestBlock \in DOMAIN info /\ Parent[b] \in BlocksAt(info[latestBlock].locator)
        BY <3>1 DEF GetBlock, ContainsBlock
      <3> DEFINE loc == info[latestBlock].locator
      <3>3. PICK r \in files[loc.id].recs : loc.id \in DOMAIN files /\ r.pos = loc.pos /\ r.block = Parent[b]
        BY <3>2 DEF BlocksAt
      <3>4. Parent[b] \in DOMAIN info
        BY <1>1, <3>3 DEF KnownInv
      <3>5. r = [pos |-> loc.pos, block |-> Parent[b]]
        BY <3>3 DEF TypeOK, BlockFile, Record
      <3>6. Stored(Parent[b], loc)
        BY <3>3, <3>5 DEF Stored
      <3>7. QED
        BY <3>4, <3>6 DEF Readable
    <2>3. Readable(Parent[b])' = Readable(Parent[b])
      BY <2>1 DEF Readable, Stored
    <2>4. QED
      BY <2>1, <2>2, <2>3 DEF LostAt, Busy
  <1>4. CASE AddBlock(t)
    <2>1. pc[t] # "idle" /\ blk[t] \in Blocks /\ blk'[t] = blk[t]
      BY <1>4 DEF AddBlock, CheckOrder, OpenBlockFile, SaveBlockInfo, SaveLocator, WriteBlock,
         WriteBlockFails, CloseBlockFile, CloseBlockFileFails, SaveLatest, SaveLocation, GoTo,
         BusyHasBlock, local
    <2>2. ParentReadable(blk[t]) => ParentReadable(blk[t])'
      BY <2>1, ReadableStays
    <2>4. CASE CheckOrder(t)
      <3>1. /\ pc[t] = "order" /\ pc'[t] = IF latestBlock = Parent[blk[t]] THEN "open" ELSE "idle"
            /\ UNCHANGED <<info, files>>
        BY <1>2, <2>4 DEF CheckOrder, GoTo, index
      <3>2. latestBlock = Parent[blk[t]] => ParentReadable(blk[t])
        BY <1>1, <3>1 DEF LostAt, Busy, ParentReadable
      <3>3. QED
        BY <1>1, <2>1, <2>2, <3>1, <3>2 DEF LostAt, Busy, ParentReadable
    <2>5. CASE OpenBlockFile(t)
      <3>1. /\ pc[t] = "open" /\ pc'[t] \in {"info", "idle"} /\ UNCHANGED info
            /\ at'[t].id \in DOMAIN files'
        BY <1>2, <2>5 DEF OpenBlockFile, GoTo, Put, index
      <3>2. QED
        BY <1>1, <2>1, <2>2, <3>1 DEF LostAt, Busy, ParentReadable
    <2>6. CASE SaveBlockInfo(t)
      <3>1. /\ pc[t] = "info" /\ pc'[t] \in {"write", "locators"} /\ at' = at
            /\ blk[t] \in DOMAIN info'
        BY <1>2, <2>6 DEF SaveBlockInfo, GoTo, Put
      <3>2. QED
        BY <1>1, <2>1, <2>2, <3>1 DEF LostAt, Busy, ParentReadable
    <2>7. CASE SaveLocator(t) \/ WriteBlock(t) \/ WriteBlockFails(t)
      <3>1. /\ pc[t] \in {"locators", "write"} /\ pc'[t] \in {"locators", "write", "close", "idle"}
            /\ at' = at /\ UNCHANGED info
        BY <1>2, <2>7 DEF SaveLocator, WriteBlock, WriteBlockFails, GoTo, index, local
      <3>2. QED
        BY <1>1, <2>1, <2>2, <3>1 DEF LostAt, Busy, ParentReadable
    <2>8. CASE CloseBlockFile(t) \/ CloseBlockFileFails(t) \/ SaveLatest(t) \/ SaveLocation(t)
      <3>1. /\ pc[t] \in {"close", "latest", "location"} /\ pc'[t] \in {"latest", "location", "idle"}
            /\ UNCHANGED info
        BY <1>2, <2>8 DEF CloseBlockFile, CloseBlockFileFails, SaveLatest, SaveLocation, GoTo, index
      <3>2. QED
        BY <1>1, <2>1, <2>2, <3>1 DEF LostAt, Busy, ParentReadable
    <2>9. QED
      BY <1>4, <2>4, <2>5, <2>6, <2>7, <2>8 DEF AddBlock
  <1>5. QED
    BY <1>3, <1>4

\* Every step of the store preserves LostInv.
LEMMA LostStep ==
    ASSUME Disjoint, TypeOK, BusyHasBlock, LostInv, [Next]_vars
    PROVE  LostInv'
  <1>1. CASE UNCHANGED vars
    <2>1. UNCHANGED <<stage, latestBlock, info, files, pc, blk, at, acked>>
      BY <1>1 DEF vars, memory, index, local
    <2>2. \A b : ParentReadable(b)' = ParentReadable(b) /\ Readable(b)' = Readable(b)
      BY <2>1 DEF ParentReadable, Readable, Stored
    <2>3. FilesInv' /\ KnownInv' /\ \A b \in acked' : ParentReadable(b)'
      BY <2>1, <2>2 DEF LostInv, FilesInv, KnownInv
    <2>4. ASSUME NEW t \in Threads PROVE LostAt(t)'
      <3>1. LostAt(t)
        BY DEF LostInv
      <3>2. QED
        BY <2>1, <2>2, <3>1 DEF LostAt, Busy, Readable, Stored, ParentReadable
    <2>5. QED
      BY <2>1, <2>3, <2>4 DEF LostInv
  <1>2. CASE Next
    <2>1. /\ Grows /\ FilesInv' /\ DOMAIN files \subseteq DOMAIN files'
          /\ \A i \in DOMAIN files' : \A r \in files'[i].recs :
                \/ i \in DOMAIN files /\ r \in files[i].recs
                \/ \E t \in Threads : CloseBlockFile(t) /\ r.block = blk[t]
      BY <1>2, LostFiles, LostGrows
    <2>2. KnownInv'
      <3>1. \A t \in Threads : CloseBlockFile(t) => blk[t] \in DOMAIN info
        BY DEF CloseBlockFile, GoTo, LostInv, LostAt, Busy
      <3>2. QED
        BY <2>1, <3>1 DEF KnownInv, LostInv, Grows
    <2>3. \A b \in acked' : ParentReadable(b)'
      <3>1. \A b \in acked : ParentReadable(b)'
        BY <2>1, ReadableStays DEF LostInv, TypeOK
      <3>2. ASSUME NEW t \in Threads, SaveLocation(t), NEW b, b = blk[t]
            PROVE  ParentReadable(b)'
        <4>1. pc[t] = "location" /\ b \in Blocks
          BY <3>2 DEF SaveLocation, GoTo, BusyHasBlock
        <4>2. ParentReadable(b)
          BY <3>2, <4>1 DEF LostInv, LostAt, Busy
        <4>3. QED
          BY <2>1, <4>1, <4>2, ReadableStays DEF LostInv
      <3>3. \A b \in acked' : b \in acked \/ \E t \in Threads : SaveLocation(t) /\ b = blk[t]
        BY <1>2 DEF Next, Start, Construct, InitLatest, InitLocation, Crash, CrashInClose, Stop,
           ReceiveBlock, AddBlock, CheckOrder, OpenBlockFile, SaveBlockInfo, SaveLocator, WriteBlock,
           WriteBlockFails, CloseBlockFile, CloseBlockFileFails, SaveLatest, SaveLocation
      <3>4. QED
        BY <3>1, <3>2, <3>3
    <2>4. CASE Start \/ Crash \/ \E t \in Threads : CrashInClose(t)
      <3>1. \A t \in Threads : pc'[t] = "idle"
        BY <2>4 DEF Start, Construct, InitLatest, InitLocation, Crash, CrashInClose, Stop, LostInv
      <3>2. \A t \in Threads : LostAt(t)'
        BY <3>1 DEF LostAt, Busy
      <3>3. QED
        BY <2>1, <2>2, <2>3, <3>1, <3>2 DEF LostInv
    <2>5. ASSUME NEW t \in Threads, AddBlock(t) \/ \E b \in Blocks : ReceiveBlock(t, b)
          PROVE  LostInv'
      <3>1. stage = "up" /\ stage' = "up"
        BY <2>5 DEF ReceiveBlock, AddBlock, CheckOrder, OpenBlockFile, SaveBlockInfo, SaveLocator,
           WriteBlock, WriteBlockFails, CloseBlockFile, CloseBlockFileFails, SaveLatest,
           SaveLocation, GoTo
      <3>2. ASSUME NEW u \in Threads, u # t
            PROVE  LostAt(u)'
        <4>1. pc'[u] = pc[u] /\ blk'[u] = blk[u] /\ at'[u] = at[u]
          BY <2>5, <3>2 DEF TypeOK, ReceiveBlock, AddBlock, CheckOrder, OpenBlockFile, SaveBlockInfo,
             SaveLocator, WriteBlock, WriteBlockFails, CloseBlockFile, CloseBlockFileFails,
             SaveLatest, SaveLocation, GoTo, local
        <4>2. \/ UNCHANGED <<latestBlock, info>>
              \/ SaveBlockInfo(t)
          BY <2>5 DEF ReceiveBlock, AddBlock, CheckOrder, OpenBlockFile, SaveLocator, WriteBlock,
             WriteBlockFails, CloseBlockFile, CloseBlockFileFails, SaveLatest, SaveLocation,
             memory, index
        <4>3. QED
          BY <1>2, <2>1, <3>2, <4>1, <4>2, LostOther
      <3>3. LostAt(t)'
        BY <1>2, <2>1, <2>5, LostOwn
      <3>4. QED
        BY <2>1, <2>2, <2>3, <3>1, <3>2, <3>3 DEF LostInv
    <2>6. QED
      BY <1>2, <2>4, <2>5 DEF Next
  <1>3. QED
    BY <1>1, <1>2

\* Whatever the disk loses, and however two threads meet within addBlock, no
\* block is accepted on top of one that cannot be read: for any number of
\* threads that bring different blocks, with crashes and failing disks.
THEOREM LostNotBuiltUpon ==
    ASSUME Disjoint
    PROVE  Spec => []NeverBuiltOnLost
  <1>1. TypeOK /\ BusyHasBlock /\ LostInv /\ [Next]_vars => LostInv'
    BY LostStep
  <1>2. LostInv => NeverBuiltOnLost
    BY StoredIsRead DEF LostInv, ParentReadable, Readable, NeverBuiltOnLost, GetBlock, ContainsBlock
  <1>3. QED
    BY <1>1, <1>2, LostInit, Typing, PTL DEF Spec
=============================================================================
