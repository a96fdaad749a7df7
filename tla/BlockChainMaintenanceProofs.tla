---------------------- MODULE BlockChainMaintenanceProofs ----------------------
(***************************************************************************)
(* cutOffAfter and clear leave the rest of the store alone: the blocks     *)
(* that addBlock acknowledged and that were not cut off are read as        *)
(* before, and a store that was cleared is as good as a new one.  For one  *)
(* thread and a disk that does not fail, with restarts at any point.       *)
(***************************************************************************)
EXTENDS BlockChainMaintenance, BlockChainDBProofs, NaturalsInduction, WellFoundedInduction

-----------------------------------------------------------------------------
(* Chains *)

\* A set of numbers has a least one: this stands in for induction.
LEMMA LeastNumber ==
    ASSUME NEW S \in SUBSET Nat, S # {}
    PROVE  \E n \in S : \A k \in S : n <= k
  <1> DEFINE R == OpToRel(<, Nat)
  <1>1. IsWellFoundedOn(R, Nat)
    BY NatLessThanWellFounded
  <1>2. \E x \in S : \A y \in S : ~(<<y, x>> \in R)
    <2> HIDE DEF R
    <2> QED
      BY <1>1, WFMin
  <1>3. \A x, y \in Nat : x < y => <<x, y>> \in R
    BY DEF OpToRel
  <1>4. PICK n \in S : \A y \in S : ~(<<y, n>> \in R)
    BY <1>2
  <1>5. ASSUME NEW k \in S PROVE n <= k
    <2>1. ~(k < n)
      BY <1>3, <1>4
    <2>2. QED
      BY <2>1
  <1>6. QED
    BY <1>5

\* The recursive definition has no other solution than the descent.
LEMMA AncestryDescent ==
    ASSUME NEW h \in Hashes
    PROVE  Ancestry[h] = Descent(h)
  <1> DEFINE S == {Height[x] : x \in {y \in Hashes : Ancestry[y] # Descent(y)}}
  <1>1. SUFFICES ASSUME Ancestry[h] # Descent(h) PROVE FALSE
    OBVIOUS
  <1>2. S \in SUBSET Nat /\ S # {}
    BY <1>1, ChainAssumption
  <1>3. PICK n \in S : \A k \in S : n <= k
    BY <1>2, LeastNumber
  <1>4. PICK x \in Hashes : Ancestry[x] # Descent(x) /\ n = Height[x]
    BY <1>3
  <1>5. x \in Blocks
    BY <1>4, AncestryUnfold, DescentRoot
  <1>6. Parent[x] \in Hashes /\ Height[x] = Height[Parent[x]] + 1 /\ Height[Parent[x]] \in Nat
    BY <1>5, ChainAssumption DEF Hashes
  <1>7. Ancestry[Parent[x]] = Descent(Parent[x])
    <2>1. ASSUME NEW m \in Nat, m = Height[Parent[x]], m \in S
          PROVE  FALSE
      <3>1. n <= m
        BY <1>3, <2>1
      <3>2. n = m + 1
        BY <1>4, <1>6, <2>1
      <3>3. QED
        BY <3>1, <3>2
    <2>2. QED
      BY <1>6, <2>1
  <1>8. QED
    BY <1>4, <1>5, <1>7, AncestryUnfold, DescentBlock

\* A chain holds the chains of its blocks, none of which is above its last one.
LEMMA AncestryClosed ==
    ASSUME NEW h \in Hashes, NEW b \in Ancestry[h]
    PROVE  /\ b \in Blocks
           /\ Ancestry[b] \subseteq Ancestry[h]
           /\ Ancestry[Parent[b]] \subseteq Ancestry[h]
           /\ Height[b] <= Height[h]
  <1>1. Ancestry[h] = Descent(h)
    BY AncestryDescent
  <1>2. b \in Blocks /\ b \in Hashes
    BY <1>1 DEF Descent, Hashes
  <1>3. Ancestry[b] = Descent(b)
    BY <1>2, AncestryDescent
  <1>4. Descent(b) \subseteq Descent(h)
    BY <1>1 DEF Descent
  <1>5. Ancestry[b] = {b} \cup Ancestry[Parent[b]]
    BY <1>2, AncestryUnfold
  <1>6. Height[b] <= Height[h]
    <2> DEFINE S == {x \in Hashes : Height[x] <= Height[h]}
    <2>1. h \in S /\ S \in SUBSET Hashes
      BY ChainAssumption
    <2>2. ASSUME NEW c \in S \cap Blocks
          PROVE  Parent[c] \in S
      <3>1. Parent[c] \in Hashes
        BY ChainAssumption DEF Hashes
      <3>2. Height[c] = Height[Parent[c]] + 1 /\ Height[Parent[c]] \in Nat /\ Height[h] \in Nat
        BY <3>1, ChainAssumption
      <3>3. QED
        BY <3>1, <3>2
    <2>3. b \in S
      <3> HIDE DEF S
      <3> QED BY <1>1, <2>1, <2>2 DEF Descent
    <2>4. QED
      BY <2>3
  <1>7. QED
    BY <1>1, <1>2, <1>3, <1>4, <1>5, <1>6

\* A block is not part of the chain before it.
LEMMA ParentBelow ==
    ASSUME NEW b \in Blocks
    PROVE  /\ Parent[b] \in Hashes
           /\ Ancestry[b] = {b} \cup Ancestry[Parent[b]]
           /\ b \notin Ancestry[Parent[b]]
  <1>1. Parent[b] \in Hashes /\ b \in Hashes
    BY ChainAssumption DEF Hashes
  <1>2. Height[b] = Height[Parent[b]] + 1 /\ Height[Parent[b]] \in Nat
    BY <1>1, ChainAssumption
  <1>3. b \in Ancestry[Parent[b]] => Height[b] <= Height[Parent[b]]
    BY <1>1, AncestryClosed
  <1>4. b \notin Ancestry[Parent[b]]
    BY <1>2, <1>3
  <1>5. QED
    BY <1>1, <1>4, AncestryUnfold

\* A block of a chain that is not its last one has a successor on it.
LEMMA Successor ==
    ASSUME NEW l \in Hashes, NEW h \in Ancestry[l], h # l
    PROVE  \E b \in Ancestry[l] \ Ancestry[h] : Parent[b] = h
  <1> DEFINE S == (Ancestry[l] \ {h}) \cup (Hashes \ Blocks)
  <1>1. h \in Blocks /\ Ancestry[l] = Descent(l) /\ Ancestry[l] \subseteq Blocks
    BY AncestryClosed, AncestryDescent DEF Descent
  <1>2. ASSUME \A b \in Ancestry[l] : Parent[b] # h
        PROVE  FALSE
    <2>1. S \in SUBSET Hashes
      BY <1>1 DEF Hashes
    <2>2. l \in S
      BY AncestryUnfold
    <2>3. ASSUME NEW c \in S \cap Blocks
          PROVE  Parent[c] \in S
      <3>1. c \in Ancestry[l] /\ Parent[c] # h /\ Parent[c] \in Hashes
        BY <1>2, <2>3, ChainAssumption DEF Hashes
      <3>2. Parent[c] \in Blocks => Parent[c] \in Ancestry[Parent[c]]
        BY ParentBelow
      <3>3. Parent[c] \in Blocks => Parent[c] \in Ancestry[l]
        BY <3>1, <3>2, AncestryClosed
      <3>4. QED
        BY <3>1, <3>3
    <2>4. h \in S
      <3> HIDE DEF S
      <3> QED BY <1>1, <2>1, <2>2, <2>3 DEF Descent
    <2>5. QED
      BY <1>1, <2>4
  <1>3. PICK b \in Ancestry[l] : Parent[b] = h
    BY <1>2
  <1>4. b \notin Ancestry[h]
    <2>1. b \in Blocks
      BY AncestryClosed
    <2>2. Height[b] = Height[h] + 1 /\ Height[h] \in Nat
      BY <1>1, <1>3, <2>1, ChainAssumption DEF Hashes
    <2>3. b \in Ancestry[h] => Height[b] <= Height[h]
      BY <1>1, AncestryClosed DEF Hashes
    <2>4. QED
      BY <2>2, <2>3
  <1>5. QED
    BY <1>3, <1>4

-----------------------------------------------------------------------------
(* What is held stays held *)

\* No transaction is in two of the blocks the index leads to.
LEMMA HeldApart ==
    ASSUME FilesInv, NEW b, NEW c, Held(b), Held(c), b # c
    PROVE  Txs[b] \cap Txs[c] = {}
  <1> SUFFICES ASSUME NEW tx \in Txs[b] \cap Txs[c] PROVE FALSE
    OBVIOUS
  <1>1. info[b].locator = info[c].locator
    BY DEF Held, Indexed
  <1>2. BlocksAt(info[b].locator) = {b} /\ BlocksAt(info[c].locator) = {c}
    BY StoredIsRead DEF Held
  <1>3. QED
    BY <1>1, <1>2

\* A step keeps the entry of b, those of its transactions and b itself.
Undisturbed(b) ==
    /\ b \in DOMAIN info => b \in DOMAIN info' /\ info'[b] = info[b]
    /\ \A tx \in Txs[b] \cap DOMAIN locators :
         tx \in DOMAIN locators' /\ locators'[tx] = locators[tx]
    /\ \A loc \in Locator : loc = info[b].locator /\ Stored(b, loc) => Stored(b, loc)'

LEMMA HeldStays ==
    ASSUME TypeOK, NEW b, Held(b), Undisturbed(b)
    PROVE  Held(b)' /\ info'[b] = info[b]
  <1>1. b \in DOMAIN info' /\ info'[b] = info[b]
    BY DEF Held, Undisturbed
  <1>2. info[b].locator \in Locator
    BY DEF Held, TypeOK, BlockInfo
  <1>3. Stored(b, info[b].locator)'
    <2>1. ASSUME NEW loc, loc = info[b].locator
          PROVE  Stored(b, loc)'
      BY <1>2, <2>1 DEF Held, Undisturbed
    <2>2. QED
      BY <1>1, <2>1 DEF Stored
  <1>4. \A tx \in Txs[b] : tx \in DOMAIN locators' /\ locators'[tx] = info'[b].locator
    BY <1>1 DEF Held, Indexed, Undisturbed
  <1>5. QED
    BY <1>1, <1>3, <1>4 DEF Held, Indexed

\* So does the part of the chain that is kept.
LEMMA ChainStays ==
    ASSUME TypeOK, ChainHeld, Intact, NEW h \in Hashes, Ancestry[h] \subseteq Ancestry[dLatest],
           dLatest' = h, \A b \in Ancestry[h] : Undisturbed(b)
    PROVE  /\ Intact' /\ ChainHeld'
           /\ \A b \in Ancestry[h] : info'[b] = info[b]
  <1>1. \A b \in Ancestry[h] : Held(b)' /\ info'[b] = info[b]
    BY HeldStays DEF ChainHeld
  <1>2. Intact'
    BY <1>1, ParentBelow DEF Intact, Held
  <1>3. ASSUME NEW c \in Ancestry[h], NEW b \in Ancestry[Parent[c]]
        PROVE  Before(b, info[c].locator)'
    <2>1. b \in Ancestry[h]
      BY <1>3, AncestryClosed
    <2>2. Before(b, info[c].locator)
      BY <1>3 DEF ChainHeld
    <2>3. QED
      BY <1>1, <2>1, <2>2 DEF Before
  <1>4. QED
    BY <1>1, <1>2, <1>3 DEF ChainHeld

\* Init and the steps that change nothing
LEMMA KeepInit == Init => KeepInv
  BY AncestryRoots, ChainAssumption
  DEF Init, KeepInv, ChainHeld, LastFile, Fresh, Behind, Busy, Origin

LEMMA KeepUnchanged == KeepInv /\ UNCHANGED vars => KeepInv'
  <1> SUFFICES ASSUME KeepInv, UNCHANGED vars PROVE KeepInv'
    OBVIOUS
  <1>1. UNCHANGED <<stage, latestBlock, currentLocation, genesisStored, dLatest, dLocation, info,
                    locators, files, pc, blk, at, todo, acked, torn>>
    BY DEF vars, memory, keys, index, local
  <1>2. ChainHeld'
    BY <1>1 DEF KeepInv, ChainHeld, Intact, Held, Indexed, Stored, Before
  <1>3. LastFile' /\ Fresh'
    BY <1>1 DEF KeepInv, LastFile, Fresh, Busy
  <1>4. \A t \in Threads : Behind(t)'
    BY <1>1 DEF KeepInv, Behind, Busy, Before, Intact
  <1>5. QED
    BY <1>1, <1>2, <1>3, <1>4 DEF KeepInv

-----------------------------------------------------------------------------
(* Starting, stopping and adding blocks *)

\* The constructor moves no chain.
LEMMA KeepStart ==
    ASSUME NEW io, OneThread(io), TypeOK, StoreInv, KeepInv, Start
    PROVE  KeepInv'
  <1>1. /\ io \in Threads /\ pc[io] = "idle" /\ stage # "up"
        /\ UNCHANGED <<pc, info, locators, files, acked, torn, at, blk>>
    BY DEF Start, Construct, InitLatest, InitLocation, StoreInv, HeadInv, OneThread, index, local
  <1>2. /\ dLatest' = dLatest \/ (dLatest = NoHash /\ dLatest' = Genesis)
        /\ Ancestry[dLatest'] = Ancestry[dLatest]
    <2>1. CASE InitLatest
      BY <2>1, AncestryRoots DEF InitLatest, StoreInv, HeadInv
    <2>2. CASE ~InitLatest
      BY <2>2 DEF Start, Construct, InitLocation
    <2>3. QED
      BY <2>1, <2>2
  <1>3. Intact' = Intact /\ (dLatest' \in Blocks <=> dLatest \in Blocks)
    BY <1>1, <1>2, ChainAssumption DEF Intact
  <1>4. ChainHeld'
    BY <1>1, <1>2, <1>3 DEF KeepInv, ChainHeld, Held, Indexed, Stored, Before
  <1>5. Fresh'
    BY <1>1, <1>3 DEF KeepInv, Fresh, Busy
  <1>6. dLocation' = dLocation
    BY DEF Start, Construct, InitLatest, InitLocation, KeepInv, LastFile
  <1>7. LastFile' /\ (stage' = "up" => currentLocation'.id = dLocation'.id)
    <2>1. dLocation \in Locator
      BY DEF TypeOK
    <2>2. \A i \in DOMAIN files' : i <= dLocation'.id
      BY <1>1, <1>6 DEF KeepInv, LastFile
    <2>3. CASE Construct
      BY <1>6, <2>1, <2>2, <2>3 DEF Construct, KeepInv, LastFile, Locator, Origin
    <2>4. CASE InitLatest
      BY <1>6, <2>1, <2>2, <2>4 DEF InitLatest, KeepInv, LastFile, Locator, memory
    <2>5. CASE InitLocation
      BY <1>6, <2>1, <2>2, <2>5 DEF InitLocation, KeepInv, LastFile, Locator, memory
    <2>6. QED
      BY <2>3, <2>4, <2>5 DEF Start
  <1>8. Behind(io)'
    BY <1>1, <1>7 DEF Behind, Busy
  <1>9. QED
    BY <1>1, <1>2, <1>4, <1>5, <1>7, <1>8 DEF KeepInv, OneThread

\* What is stored when the process stops is stored.
LEMMA KeepStop ==
    ASSUME NEW io, OneThread(io), TypeOK, BusyHasBlock, StoreInv, KeepInv, Crash \/ CrashInClose(io)
    PROVE  KeepInv'
  <1>1. /\ io \in Threads /\ Stop /\ stage' = "down" /\ pc'[io] = "idle"
        /\ UNCHANGED <<genesisStored, dLatest, dLocation, info, locators, acked>>
    BY DEF OneThread, Crash, CrashInClose, Stop, keys, index
  <1>2. /\ DOMAIN files' = DOMAIN files
        /\ \A b \in Blocks, loc \in Locator : Stored(b, loc) => Stored(b, loc)'
        /\ files' = files \/ pc[io] = "close"
    <2>1. CASE Crash
      BY <2>1 DEF Crash, Stored
    <2>2. CASE CrashInClose(io)
      <3>1. /\ pc[io] = "close" /\ blk[io] \in Blocks /\ at[io].id \in DOMAIN files
        BY <1>1, <2>2 DEF CrashInClose, StoreInv, AddInv, Busy, BusyHasBlock
      <3>2. PICK n \in 1 .. Size[blk[io]] - 1 :
              files' = [files EXCEPT ![at[io].id] = Extended(@, n)]
        BY <2>2 DEF CrashInClose
      <3>3. n \in Nat
        BY <3>1, <3>2, ContentAssumption
      <3>4. QED
        BY <3>1, <3>2, <3>3, ExtendedFiles DEF StoreInv
    <2>3. QED
      BY <2>1, <2>2
  <1>3. ChainHeld'
    <2>1. Intact' = Intact
      BY <1>1 DEF Intact
    <2>2. ASSUME Intact PROVE ChainHeld'
      <3>1. \A b \in Ancestry[dLatest] : Undisturbed(b)
        BY <1>1, <1>2, AncestryClosed DEF Undisturbed, TypeOK
      <3>2. QED
        BY <1>1, <2>2, <3>1, ChainStays DEF KeepInv, TypeOK
    <2>3. QED
      BY <2>1, <2>2 DEF ChainHeld
  <1>4. LastFile'
    BY <1>1, <1>2 DEF KeepInv, LastFile
  <1>5. Fresh'
    <2> SUFFICES ASSUME ~torn', dLatest \notin Blocks
                 PROVE  DOMAIN info = {} /\ DOMAIN locators = {} /\ DOMAIN files = {}
      BY <1>1, <1>2 DEF Fresh
    <2>1. ~torn /\ \A t \in Threads : pc[t] \in {"idle", "order", "open"}
      BY <1>1 DEF Stop
    <2>2. QED
      BY <2>1 DEF KeepInv, Fresh, Busy
  <1>6. Behind(io)'
    BY <1>1 DEF Behind, Busy
  <1>7. QED
    BY <1>1, <1>3, <1>4, <1>5, <1>6 DEF KeepInv, OneThread

\* The part of KeepInv a step of addBlock leaves alone that does not disturb
\* the chain.
LEMMA KeepChain ==
    ASSUME TypeOK, KeepInv, Intact, UNCHANGED <<dLatest, acked>>,
           \A b \in Ancestry[dLatest] : Undisturbed(b)
    PROVE  /\ Intact' /\ ChainHeld' /\ acked' \subseteq Ancestry[dLatest']
           /\ \A b \in Ancestry[dLatest] : info'[b] = info[b]
  BY ChainStays DEF KeepInv, TypeOK

\* receiveBlock lets a block pass that repeats no transaction of the index.
LEMMA KeepReceive ==
    ASSUME NEW io, OneThread(io), TypeOK, StoreInv, KeepInv, NEW b \in Blocks, ReceiveBlock(io, b)
    PROVE  KeepInv'
  <1>1. /\ io \in Threads /\ stage = "up" /\ pc[io] = "idle" /\ pc'[io] = "order" /\ blk'[io] = b
        /\ UNCHANGED <<stage, latestBlock, currentLocation, genesisStored, dLatest, dLocation, info,
                       locators, files, at, todo, acked, torn>>
    BY DEF OneThread, ReceiveBlock, GoTo, TypeOK, memory, keys, index
  <1>2. Intact
    <2>1. latestBlock = dLatest
      BY <1>1 DEF StoreInv, HeadInv, Busy
    <2>2. QED
      BY <2>1, ChainAssumption DEF ReceiveBlock, GetLatestBlock, GetBlock, ContainsBlock, Intact
  <1>3. \A a \in Ancestry[dLatest] : Undisturbed(a)
    BY <1>1 DEF Undisturbed, Stored
  <1>4. \A a \in Ancestry[dLatest] : Txs[a] \cap Txs[b] = {}
    BY <1>2 DEF KeepInv, ChainHeld, Held, Indexed, ReceiveBlock, ContainsTransaction
  <1>5. LastFile' /\ Fresh'
    BY <1>1 DEF KeepInv, LastFile, Fresh, Busy, OneThread
  <1>6. Behind(io)'
    <2>1. Intact'
      BY <1>1, <1>2 DEF Intact
    <2>2. currentLocation.id = dLocation.id
      BY <1>1 DEF KeepInv, Behind, Busy
    <2>3. QED
      BY <1>1, <1>4, <2>1, <2>2 DEF Behind, Busy
  <1>7. QED
    BY <1>1, <1>2, <1>3, <1>5, <1>6, KeepChain DEF KeepInv, OneThread

LEMMA KeepCheck ==
    ASSUME NEW io, OneThread(io), TypeOK, StoreInv, KeepInv, CheckOrder(io)
    PROVE  KeepInv'
  <1>1. /\ io \in Threads /\ stage = "up" /\ pc[io] = "order" /\ pc'[io] \in {"open", "idle"}
        /\ UNCHANGED <<stage, latestBlock, currentLocation, genesisStored, dLatest, dLocation, info,
                       locators, files, blk, at, todo, acked, torn>>
    BY DEF OneThread, CheckOrder, GoTo, TypeOK, memory, keys, index, local
  <1>2. Behind(io)
    BY <1>1 DEF KeepInv
  <1>3. Intact
    BY <1>1, <1>2 DEF Behind, Busy
  <1>4. \A a \in Ancestry[dLatest] : Undisturbed(a)
    BY <1>1 DEF Undisturbed, Stored
  <1>5. LastFile' /\ Fresh'
    BY <1>1 DEF KeepInv, LastFile, Fresh, Busy, OneThread
  <1>6. Behind(io)'
    <2>1. Intact'
      BY <1>1, <1>3 DEF Intact
    <2>2. QED
      BY <1>1, <1>2, <2>1 DEF Behind, Busy
  <1>7. QED
    BY <1>1, <1>3, <1>4, <1>5, <1>6, KeepChain DEF KeepInv, OneThread

\* The block file addBlock opens is the last one; it ends behind the chain.
LEMMA KeepOpen ==
    ASSUME NEW io, OneThread(io), TypeOK, StoreInv, KeepInv, OpenBlockFile(io)
    PROVE  KeepInv'
  <1> DEFINE id == currentLocation.id
  <1>1. /\ io \in Threads /\ stage = "up" /\ pc[io] = "open" /\ pc'[io] \in {"info", "idle"}
        /\ UNCHANGED <<stage, latestBlock, genesisStored, dLatest, dLocation, info,
                       locators, blk, todo, acked, torn>>
    BY DEF OneThread, OpenBlockFile, GoTo, TypeOK, keys, index
  <1>2. Behind(io) /\ id = dLocation.id /\ Intact
    BY <1>1 DEF KeepInv, Behind, Busy
  <1>3. /\ \A i \in DOMAIN files : i \in DOMAIN files' /\ files'[i] = files[i]
        /\ \A i \in DOMAIN files' : i \in DOMAIN files \/ i = id
        /\ currentLocation'.id = id /\ at'[io].id = id
        /\ pc'[io] = "idle" => id \in DOMAIN files
        /\ id \in DOMAIN files => at'[io].pos = files[id].len
    <2>1. id \in Nat /\ currentLocation = [id |-> id, pos |-> currentLocation.pos]
          /\ at \in [Threads -> Locator] /\ pc \in [Threads -> Steps]
      BY DEF TypeOK, Locator
    <2>2. CASE id \in DOMAIN files
      BY <1>1, <2>1, <2>2 DEF OpenBlockFile
    <2>3. CASE id \notin DOMAIN files
      <3>1. pc'[io] = "info"
        BY <1>1, <2>1, <2>3 DEF OpenBlockFile, GoTo
      <3>2. QED
        BY <1>1, <2>1, <2>3, <3>1 DEF OpenBlockFile, Put
    <2>4. QED
      BY <2>2, <2>3
  <1>4. \A a \in Ancestry[dLatest] : Undisturbed(a)
    BY <1>1, <1>3 DEF Undisturbed, Stored
  <1>5. LastFile'
    <2>1. id \in Nat
      BY DEF TypeOK, Locator
    <2>2. \A i \in DOMAIN files' : i <= dLocation'.id
      BY <1>1, <1>2, <1>3, <2>1 DEF KeepInv, LastFile
    <2>3. QED
      BY <1>1, <1>2, <1>3, <2>1, <2>2 DEF KeepInv, LastFile, StoreInv, HeadInv
  <1>6. Fresh'
    <2>1. pc'[io] = "idle" => torn \/ dLatest \in Blocks
      BY <1>1, <1>3 DEF KeepInv, Fresh, Busy, OneThread
    <2>2. QED
      BY <1>1, <2>1 DEF Fresh, Busy, OneThread
  <1>7. Behind(io)'
    <2>1. Intact'
      BY <1>1, <1>2 DEF Intact
    <2>2. ASSUME NEW b \in Ancestry[dLatest]
          PROVE  Before(b, at[io])'
      <3> DEFINE loc == info[b].locator
      <3>1. Stored(b, loc) /\ b \in DOMAIN info
        BY <1>2 DEF KeepInv, ChainHeld, Held
      <3>2. loc.id \in DOMAIN files /\ loc.id <= id /\ loc.id \in Nat /\ id \in Nat
        BY <1>2, <3>1 DEF KeepInv, LastFile, Stored, TypeOK, Locator
      <3>3. loc.pos + Size[b] <= files[loc.id].len
        BY <3>1 DEF StoreInv, FilesInv, Stored
      <3>4. CASE loc.id = id
        BY <1>1, <1>3, <3>2, <3>3, <3>4 DEF Before
      <3>5. CASE loc.id # id
        BY <1>1, <1>3, <3>2, <3>5 DEF Before
      <3>6. QED
        BY <3>4, <3>5
    <2>3. QED
      BY <1>1, <1>2, <1>3, <2>1, <2>2 DEF Behind, Busy
  <1>8. QED
    BY <1>1, <1>2, <1>4, <1>5, <1>6, <1>7, KeepChain DEF KeepInv, OneThread

\* The entry of the new block is no entry of the chain.
LEMMA KeepInfo ==
    ASSUME NEW io, OneThread(io), TypeOK, StoreInv, KeepInv, SaveBlockInfo(io)
    PROVE  KeepInv'
  <1>1. /\ io \in Threads /\ stage = "up" /\ pc[io] = "info" /\ pc'[io] \in {"locators", "write"}
        /\ UNCHANGED <<stage, currentLocation, genesisStored, dLatest, dLocation,
                       locators, files, blk, at, acked, torn>>
    BY DEF OneThread, SaveBlockInfo, GoTo, TypeOK, keys
  <1>2. /\ Behind(io) /\ Intact
        /\ blk[io] \in Blocks /\ dLatest = Parent[blk[io]]
    BY <1>1 DEF KeepInv, StoreInv, AddInv, Behind, Busy
  <1>3. \A a \in DOMAIN info : a # blk[io] => a \in DOMAIN info' /\ info'[a] = info[a]
    BY DEF SaveBlockInfo, Put
  <1>4. \A a \in Ancestry[dLatest] : Undisturbed(a)
    BY <1>1, <1>2, <1>3, ParentBelow DEF Undisturbed, Stored
  <1>5. LastFile' /\ Fresh'
    BY <1>1 DEF KeepInv, LastFile, Fresh, Busy, OneThread
  <1>6. Intact' /\ \A b \in Ancestry[dLatest] : info'[b] = info[b]
    BY <1>1, <1>2, <1>4, KeepChain
  <1>7. Behind(io)'
    BY <1>1, <1>2, <1>6 DEF Behind, Busy, Before
  <1>8. QED
    BY <1>1, <1>2, <1>4, <1>5, <1>7, KeepChain DEF KeepInv, OneThread

\* Neither is the entry of one of its transactions.
LEMMA KeepLocator ==
    ASSUME NEW io, OneThread(io), TypeOK, StoreInv, KeepInv, SaveLocator(io)
    PROVE  KeepInv'
  <1>1. PICK tx \in todo[io] :
          /\ GoTo(io, "locators", IF todo[io] = {tx} THEN "write" ELSE "locators")
          /\ locators' = Put(locators, tx, currentLocation)
          /\ UNCHANGED <<stage, memory, keys, info, files, blk, at, acked, torn>>
    BY DEF SaveLocator
  <1>2. /\ io \in Threads /\ stage = "up" /\ pc[io] = "locators" /\ pc'[io] \in {"locators", "write"}
        /\ UNCHANGED <<stage, currentLocation, genesisStored, dLatest, dLocation,
                       info, files, blk, at, acked, torn>>
    BY <1>1 DEF OneThread, GoTo, TypeOK, keys, memory
  <1>3. Behind(io) /\ Intact /\ tx \in Txs[blk[io]]
    BY <1>1, <1>2 DEF KeepInv, StoreInv, AddInv, Behind, Busy
  <1>4. \A x \in DOMAIN locators : x # tx => x \in DOMAIN locators' /\ locators'[x] = locators[x]
    BY <1>1 DEF Put
  <1>5. \A a \in Ancestry[dLatest] : tx \notin Txs[a]
    BY <1>2, <1>3 DEF Behind, Busy
  <1>6. \A a \in Ancestry[dLatest] : Undisturbed(a)
    BY <1>2, <1>4, <1>5 DEF Undisturbed, Stored
  <1>7. LastFile' /\ Fresh'
    BY <1>2 DEF KeepInv, LastFile, Fresh, Busy, OneThread
  <1>8. Intact' /\ \A b \in Ancestry[dLatest] : info'[b] = info[b]
    BY <1>2, <1>3, <1>6, KeepChain
  <1>9. Behind(io)'
    BY <1>2, <1>3, <1>8 DEF Behind, Busy, Before
  <1>10. QED
    BY <1>2, <1>3, <1>6, <1>7, <1>9, KeepChain DEF KeepInv, OneThread

LEMMA KeepWrite ==
    ASSUME NEW io, OneThread(io), TypeOK, StoreInv, KeepInv, WriteBlock(io)
    PROVE  KeepInv'
  <1>1. /\ io \in Threads /\ stage = "up" /\ pc[io] = "write" /\ pc'[io] = "close"
        /\ currentLocation'.id = currentLocation.id
        /\ UNCHANGED <<stage, genesisStored, dLatest, dLocation, info,
                       locators, files, blk, at, acked, torn>>
    BY DEF OneThread, WriteBlock, GoTo, TypeOK, keys, index, local, Locator
  <1>2. Behind(io) /\ Intact
    BY <1>1 DEF KeepInv, Behind, Busy
  <1>3. \A a \in Ancestry[dLatest] : Undisturbed(a)
    BY <1>1 DEF Undisturbed, Stored
  <1>4. LastFile' /\ Fresh'
    BY <1>1 DEF KeepInv, LastFile, Fresh, Busy, OneThread, StoreInv, HeadInv
  <1>5. Behind(io)'
    BY <1>1, <1>2 DEF Behind, Busy, Before, Intact
  <1>6. QED
    BY <1>1, <1>2, <1>3, <1>4, <1>5, KeepChain DEF KeepInv, OneThread

LEMMA KeepClose ==
    ASSUME NEW io, OneThread(io), TypeOK, StoreInv, KeepInv, CloseBlockFile(io)
    PROVE  KeepInv'
  <1>1. /\ io \in Threads /\ stage = "up" /\ pc[io] = "close" /\ pc'[io] = "latest"
        /\ files' = [files EXCEPT ![at[io].id] = Appended(@, blk[io])]
        /\ currentLocation' = Rolled(currentLocation)
        /\ UNCHANGED <<stage, genesisStored, dLatest, dLocation, info,
                       locators, blk, at, acked, torn>>
    BY DEF OneThread, CloseBlockFile, GoTo, TypeOK, keys, index, local
  <1>2. /\ Behind(io) /\ Intact /\ currentLocation.id = dLocation.id
        /\ blk[io] \in Blocks /\ at[io].id \in DOMAIN files
    BY <1>1 DEF KeepInv, StoreInv, AddInv, Behind, Busy
  <1>3. \A b \in Blocks, loc \in Locator : Stored(b, loc) => Stored(b, loc)'
    BY <1>1, <1>2, AppendedFiles DEF StoreInv
  <1>4. \A a \in Ancestry[dLatest] : Undisturbed(a)
    BY <1>1, <1>3, AncestryClosed DEF Undisturbed, TypeOK
  <1>5. LastFile' /\ Fresh'
    <2>1. dLocation.id \in Nat /\ currentLocation'.id >= dLocation.id
      BY <1>1, <1>2 DEF TypeOK, Rolled, Locator
    <2>2. QED
      BY <1>1, <2>1 DEF KeepInv, LastFile, Fresh, Busy, OneThread, StoreInv, HeadInv
  <1>6. Behind(io)'
    BY <1>1, <1>2 DEF Behind, Busy, Before, Intact
  <1>7. QED
    BY <1>1, <1>2, <1>4, <1>5, <1>6, KeepChain DEF KeepInv, OneThread

\* The new block becomes the end of the chain.
LEMMA KeepLatest ==
    ASSUME NEW io, OneThread(io), TypeOK, StoreInv, KeepInv, SaveLatest(io)
    PROVE  KeepInv'
  <1>1. /\ io \in Threads /\ stage = "up" /\ pc[io] = "latest" /\ pc'[io] = "location"
        /\ dLatest' = latestBlock
        /\ UNCHANGED <<stage, currentLocation, genesisStored, dLocation, info,
                       locators, files, blk, at, acked, torn>>
    BY DEF OneThread, SaveLatest, GoTo, TypeOK, index, local, memory
  <1>2. /\ Behind(io) /\ Intact
        /\ blk[io] \in Blocks /\ dLatest = Parent[blk[io]] /\ latestBlock = blk[io]
        /\ Indexed(blk[io], Txs[blk[io]], at[io]) /\ Stored(blk[io], at[io])
    BY <1>1 DEF KeepInv, StoreInv, AddInv, Behind, Busy
  <1>3. Ancestry[blk[io]] = {blk[io]} \cup Ancestry[dLatest]
    BY <1>2, ParentBelow
  <1>4. blk[io] \in DOMAIN info /\ info[blk[io]].locator = at[io] /\ Held(blk[io])
    BY <1>2 DEF Indexed, Held
  <1>5. ASSUME NEW c \in Ancestry[blk[io]]
        PROVE  Held(c) /\ \A b \in Ancestry[Parent[c]] : Before(b, info[c].locator)
    <2>1. CASE c = blk[io]
      BY <1>1, <1>2, <1>4, <2>1 DEF Behind, Busy
    <2>2. CASE c \in Ancestry[dLatest]
      BY <1>2, <2>2 DEF KeepInv, ChainHeld
    <2>3. QED
      BY <1>3, <1>5, <2>1, <2>2
  <1>6. ChainHeld' /\ Intact'
    BY <1>1, <1>2, <1>4, <1>5 DEF ChainHeld, Intact, Held, Indexed, Stored, Before
  <1>7. LastFile' /\ Fresh'
    BY <1>1 DEF KeepInv, LastFile, Fresh, Busy, OneThread, StoreInv, HeadInv
  <1>8. Behind(io)'
    BY <1>1, <1>2, <1>6 DEF Behind, Busy
  <1>9. acked' \subseteq Ancestry[dLatest']
    BY <1>1, <1>2, <1>3 DEF KeepInv
  <1>10. QED
    BY <1>6, <1>7, <1>8, <1>9 DEF KeepInv, OneThread

LEMMA KeepLocation ==
    ASSUME NEW io, OneThread(io), TypeOK, StoreInv, KeepInv, SaveLocation(io)
    PROVE  KeepInv'
  <1>1. /\ io \in Threads /\ stage = "up" /\ pc[io] = "location" /\ pc'[io] = "idle"
        /\ dLocation' = currentLocation /\ acked' = acked \cup {blk[io]}
        /\ UNCHANGED <<stage, currentLocation, genesisStored, dLatest, info,
                       locators, files, blk, at, torn>>
    BY DEF OneThread, SaveLocation, GoTo, TypeOK, index, local, memory
  <1>2. Behind(io) /\ Intact /\ blk[io] \in Blocks /\ dLatest = blk[io]
    BY <1>1 DEF KeepInv, StoreInv, AddInv, Behind, Busy
  <1>3. blk[io] \in Ancestry[dLatest]
    BY <1>2, ParentBelow
  <1>4. ChainHeld' /\ Intact'
    BY <1>1, <1>2 DEF KeepInv, ChainHeld, Intact, Held, Indexed, Stored, Before
  <1>5. LastFile'
    <2>1. dLocation.id \in Nat /\ currentLocation.id \in Nat /\ DOMAIN files \subseteq Nat
      BY DEF TypeOK, Locator
    <2>2. \A i \in DOMAIN files' : i <= dLocation'.id
      BY <1>1, <2>1 DEF KeepInv, LastFile
    <2>3. genesisStored
      BY <1>1 DEF StoreInv, HeadInv
    <2>4. QED
      BY <1>1, <2>1, <2>2, <2>3 DEF LastFile
  <1>6. Fresh'
    BY <1>1, <1>2 DEF Fresh
  <1>7. Behind(io)'
    BY <1>1 DEF Behind, Busy
  <1>8. QED
    BY <1>1, <1>3, <1>4, <1>5, <1>6, <1>7 DEF KeepInv, OneThread

\* Every step of the store itself preserves KeepInv.
LEMMA KeepStep ==
    ASSUME NEW io, OneThread(io), TypeOK, BusyHasBlock, StoreInv, KeepInv, Next
    PROVE  KeepInv'
  BY KeepStart, KeepStop, KeepReceive, KeepCheck, KeepOpen, KeepInfo, KeepLocator, KeepWrite,
     KeepClose, KeepLatest, KeepLocation
  DEF Next, AddBlock, OneThread, WriteBlockFails, CloseBlockFileFails

-----------------------------------------------------------------------------
(* Cutting off and clearing *)

\* What CutOffAfter finds: an idle store whose chain is intact and holds h.
LEMMA CutFound ==
    ASSUME NEW io, OneThread(io), TypeOK, StoreInv, KeepInv, NEW h \in Blocks, CutOffAfter(h)
    PROVE  /\ io \in Threads /\ stage = "up" /\ pc[io] = "idle" /\ genesisStored
           /\ latestBlock = dLatest /\ currentLocation.id = dLocation.id
           /\ dLatest \in Blocks /\ h \in Ancestry[dLatest] /\ h # dLatest /\ h \in DOMAIN info
           /\ dLatest \in After(h) /\ Intact
           /\ \A b \in Ancestry[dLatest] : Held(b)
  <1>1. io \in Threads /\ stage = "up" /\ pc[io] = "idle"
    BY DEF OneThread, CutOffAfter, Idle
  <1>2. latestBlock = dLatest /\ genesisStored /\ currentLocation.id = dLocation.id
    BY <1>1 DEF StoreInv, HeadInv, KeepInv, Behind, Busy
  <1>3. h \in Ancestry[dLatest] /\ h # dLatest /\ h \in DOMAIN info
        /\ \A b \in After(h) : GetBlock(b) = {b}
    BY <1>2 DEF CutOffAfter, AllReadable, ContainsBlock
  <1>4. dLatest \in Hashes /\ Height[h] <= Height[dLatest]
    BY <1>3, AncestryClosed DEF TypeOK
  <1>5. dLatest \in Blocks
    BY <1>3, <1>4, AncestryUnfold
  <1>6. dLatest \in Ancestry[dLatest] /\ dLatest \notin Ancestry[h]
    <2>1. dLatest \in Ancestry[dLatest]
      BY <1>5, ParentBelow
    <2>2. PICK b \in Ancestry[dLatest] \ Ancestry[h] : Parent[b] = h
      BY <1>3, <1>4, Successor
    <2>3. b \in Blocks /\ Height[b] <= Height[dLatest]
      BY <1>4, <2>2, AncestryClosed
    <2>4. Height[b] = Height[h] + 1 /\ Height[h] \in Nat /\ Height[dLatest] \in Nat
      BY <1>4, <2>2, <2>3, ChainAssumption DEF Hashes
    <2>5. dLatest \in Ancestry[h] => Height[dLatest] <= Height[h]
      BY AncestryClosed DEF Hashes
    <2>6. QED
      BY <2>1, <2>3, <2>4, <2>5
  <1>7. dLatest \in After(h)
    BY <1>2, <1>6 DEF After
  <1>8. Intact
    BY <1>3, <1>7 DEF Intact, GetBlock, ContainsBlock
  <1>9. QED
    BY <1>1, <1>2, <1>3, <1>5, <1>7, <1>8 DEF KeepInv, ChainHeld

\* The first block that is cut off starts behind all that are kept.
LEMMA CutSecond ==
    ASSUME NEW io, OneThread(io), TypeOK, StoreInv, KeepInv, NEW h \in Blocks, CutOffAfter(h),
           NEW second, second = CHOOSE b \in After(h) : Parent[b] = h
    PROVE  /\ second \in After(h) /\ second \in DOMAIN info
           /\ \A b \in Ancestry[h] : Before(b, info[second].locator)
           /\ \A b \in Ancestry[h] : info[b].locator.id <= info[h].locator.id
  <1>1. /\ latestBlock = dLatest /\ h \in Ancestry[dLatest] /\ h # dLatest /\ Intact
        /\ \A b \in Ancestry[dLatest] : Held(b)
    BY CutFound
  <1>2. \E b \in After(h) : Parent[b] = h
    BY <1>1, Successor DEF After, TypeOK
  <1>3. second \in After(h) /\ Parent[second] = h
    BY <1>2
  <1>4. second \in Ancestry[dLatest]
    BY <1>1, <1>3 DEF After
  <1>5. \A b \in Ancestry[h] : Before(b, info[second].locator)
    BY <1>1, <1>3, <1>4 DEF KeepInv, ChainHeld
  <1>6. \A b \in Ancestry[h] : b = h \/ Before(b, info[h].locator)
    BY <1>1, ParentBelow DEF KeepInv, ChainHeld
  <1>7. \A b \in Ancestry[h] : info[b].locator.id <= info[h].locator.id
    <2>1. info[h].locator.id \in Nat
      BY <1>1 DEF Held, TypeOK, BlockInfo, Locator
    <2>2. \A b \in Ancestry[h] : info[b].locator.id \in Nat
      BY <1>1, AncestryClosed DEF Held, TypeOK, BlockInfo, Locator
    <2>3. QED
      BY <1>6, <2>1, <2>2 DEF Before
  <1>8. second \in DOMAIN info
    BY <1>1, <1>4 DEF Held
  <1>9. QED
    BY <1>3, <1>5, <1>7, <1>8

\* Whether or not all files could be removed: only files behind the one h lies
\* in are, and that one only loses what follows the chain up to h.
LEMMA CutFiles ==
    ASSUME NEW io, OneThread(io), TypeOK, StoreInv, KeepInv, NEW h \in Blocks, CutOffAfter(h)
    PROVE  /\ DOMAIN files' \subseteq DOMAIN files
           /\ \A i \in DOMAIN files' :
                /\ files'[i] \in BlockFile /\ files'[i].recs \subseteq files[i].recs
                /\ \A r \in files'[i].recs : r.pos + Size[r.block] <= files'[i].len
           /\ \A b \in Ancestry[h] : Undisturbed(b)
           /\ dLatest' # dLatest => \A i \in DOMAIN files' : i <= info[h].locator.id
  <1> DEFINE start == info[h].locator
             second == CHOOSE b \in After(h) : Parent[b] = h
             place == info[second].locator
             kept == Without(files, RemovedIds(start.id))
  <1>1. /\ dLatest \in Blocks /\ h \in Ancestry[dLatest] /\ h \in DOMAIN info
        /\ latestBlock = dLatest /\ currentLocation.id = dLocation.id
        /\ \A b \in Ancestry[dLatest] : Held(b)
    BY CutFound
  <1>2. /\ second \in After(h) /\ second \in DOMAIN info
        /\ \A b \in Ancestry[h] : Before(b, place) /\ info[b].locator.id <= start.id
    BY CutSecond
  <1>3. start \in Locator /\ place \in Locator
    BY <1>1, <1>2 DEF TypeOK, BlockInfo
  <1>4. \A i \in DOMAIN files : i \in Nat /\ i <= currentLocation.id /\ files[i] \in BlockFile
    BY <1>1 DEF TypeOK, KeepInv, LastFile
  <1>5. \A i \in RemovedIds(start.id) : i \in Int /\ i > start.id
    BY <1>3 DEF RemovedIds, SuperfluousIds, Locator, TypeOK
  <1>6. /\ DOMAIN kept = DOMAIN files \ RemovedIds(start.id)
        /\ \A i \in DOMAIN kept : kept[i] = files[i]
    BY DEF Without
  <1>7. MissingIds(start.id) = {} => \A i \in DOMAIN kept : i <= start.id
    BY <1>3, <1>4, <1>6 DEF RemovedIds, SuperfluousIds, Locator, TypeOK
  <1>8. /\ DOMAIN files' = DOMAIN kept
        /\ \A i \in DOMAIN kept :
             \/ files'[i] = files[i]
             \/ i = start.id /\ place.id = start.id /\ files'[i] = Truncated(files[i], place.pos)
        /\ dLatest' # dLatest => MissingIds(start.id) = {}
    <2>1. CASE MissingIds(start.id) # {}
      <3>1. files' = kept /\ dLatest' = dLatest
        BY <2>1 DEF CutOffAfter
      <3>2. QED
        BY <1>6, <3>1
    <2>2. CASE MissingIds(start.id) = {}
      <3>1. files' = IF place.id = start.id
                     THEN [kept EXCEPT ![start.id] = Truncated(@, place.pos)] ELSE kept
        BY <2>2 DEF CutOffAfter
      <3>2. QED
        <4> HIDE DEF start, place, kept
        <4> QED BY <1>6, <2>2, <3>1
    <2>3. QED
      BY <2>1, <2>2
  <1>9. ASSUME NEW f \in BlockFile, NEW n \in Nat
        PROVE  /\ Truncated(f, n) \in BlockFile /\ Truncated(f, n).recs \subseteq f.recs
               /\ \A r \in Truncated(f, n).recs : r.pos + Size[r.block] <= n
    BY DEF Truncated, BlockFile
  <1>10. ASSUME NEW i \in DOMAIN files'
         PROVE  /\ files'[i] \in BlockFile /\ files'[i].recs \subseteq files[i].recs
                /\ \A r \in files'[i].recs : r.pos + Size[r.block] <= files'[i].len
    <2>1. i \in DOMAIN files /\ files[i] \in BlockFile
      BY <1>4, <1>6, <1>8
    <2>2. CASE files'[i] = files[i]
      BY <2>1, <2>2 DEF StoreInv, FilesInv
    <2>3. CASE files'[i] = Truncated(files[i], place.pos)
      <3>1. place.pos \in Nat /\ files'[i].len = place.pos
        BY <1>3, <2>3 DEF Locator, Truncated
      <3>2. QED
        <4> HIDE DEF place
        <4> QED BY <1>9, <2>1, <2>3, <3>1
    <2>4. QED
      BY <1>8, <2>2, <2>3
  <1>11. ASSUME NEW b \in Ancestry[h]
         PROVE  Undisturbed(b)
    <2>1. Held(b) /\ b \in Ancestry[dLatest] /\ b \notin After(h) /\ b \in Blocks
      BY <1>1, AncestryClosed DEF After, TypeOK
    <2>2. b \in DOMAIN info' /\ info'[b] = info[b]
      BY <2>1 DEF CutOffAfter, Without, Held
    <2>3. ASSUME NEW tx \in Txs[b] \cap DOMAIN locators
          PROVE  tx \in DOMAIN locators' /\ locators'[tx] = locators[tx]
      <3>1. \A c \in After(h) : Held(c) /\ c # b
        BY <1>1, <2>1 DEF After
      <3>2. \A c \in After(h) : tx \notin Txs[c]
        BY <2>1, <3>1, HeldApart DEF StoreInv
      <3>3. QED
        BY <3>2 DEF CutOffAfter, Without
    <2>4. ASSUME NEW loc \in Locator, loc = info[b].locator, Stored(b, loc)
          PROVE  Stored(b, loc)'
      <3>1. Stored(b, loc) /\ loc \in Locator /\ loc.id <= start.id /\ Before(b, place)
        BY <1>2, <2>4
      <3>2. loc.id \in DOMAIN files'
        BY <1>3, <1>5, <1>6, <1>8, <3>1 DEF Stored, Locator
      <3>3. [pos |-> loc.pos, block |-> b] \in files'[loc.id].recs
        <4>1. CASE files'[loc.id] = files[loc.id]
          BY <3>1, <4>1 DEF Stored
        <4>2. CASE /\ loc.id = start.id /\ place.id = start.id
                   /\ files'[loc.id] = Truncated(files[loc.id], place.pos)
          <5>1. loc.pos + Size[b] <= place.pos
            BY <1>3, <2>4, <3>1, <4>2 DEF Before, Locator
          <5>2. QED
            BY <3>1, <4>2, <5>1 DEF Stored, Truncated
        <4>3. QED
          BY <1>8, <3>2, <4>1, <4>2
      <3>4. QED
        BY <3>2, <3>3 DEF Stored
    <2>5. QED
      BY <2>2, <2>3, <2>4 DEF Undisturbed
  <1>12. QED
    BY <1>4, <1>6, <1>7, <1>8, <1>10, <1>11

\* A block that was acknowledged and is not cut off is on the chain up to h.
LEMMA CutAcked ==
    ASSUME NEW io, OneThread(io), TypeOK, StoreInv, KeepInv, NEW h \in Blocks, CutOffAfter(h)
    PROVE  acked' \subseteq Ancestry[h] /\ acked' \subseteq acked
  BY CutFound DEF CutOffAfter, After, KeepInv

LEMMA CutType ==
    ASSUME NEW io, OneThread(io), TypeOK, BusyHasBlock, StoreInv, KeepInv, NEW h \in Blocks,
           CutOffAfter(h)
    PROVE  TypeOK' /\ BusyHasBlock'
  <1>1. UNCHANGED <<stage, genesisStored, pc, blk, at, todo, torn>>
    BY DEF CutOffAfter, local
  <1>2. /\ DOMAIN info' \subseteq Blocks /\ \A b \in DOMAIN info' : info'[b] \in BlockInfo
        /\ DOMAIN locators' \subseteq Transactions
        /\ \A tx \in DOMAIN locators' : locators'[tx] \in Locator
    BY DEF CutOffAfter, Without, TypeOK
  <1>3. DOMAIN files' \subseteq Nat /\ \A i \in DOMAIN files' : files'[i] \in BlockFile
    BY CutFiles DEF TypeOK
  <1>4. acked' \subseteq Blocks
    BY CutAcked DEF TypeOK
  <1>5. /\ latestBlock' \in Hashes /\ dLatest' \in Hashes
        /\ currentLocation' \in Locator /\ dLocation' \in Locator
    <2>1. info[h].locator \in Locator
      BY CutFound DEF TypeOK, BlockInfo
    <2>2. Rolled(info[h].locator) \in Locator
      BY <2>1 DEF Rolled, Locator
    <2>3. QED
      BY <2>2 DEF CutOffAfter, TypeOK, memory, Hashes
  <1>6. QED
    BY <1>1, <1>2, <1>3, <1>4, <1>5 DEF TypeOK, BusyHasBlock

LEMMA CutStore ==
    ASSUME NEW io, OneThread(io), TypeOK, BusyHasBlock, StoreInv, KeepInv, NEW h \in Blocks,
           CutOffAfter(h)
    PROVE  StoreInv'
  <1>1. /\ io \in Threads /\ stage = "up" /\ pc[io] = "idle" /\ genesisStored
        /\ latestBlock = dLatest /\ h \in Ancestry[dLatest]
        /\ \A b \in Ancestry[dLatest] : Held(b)
        /\ UNCHANGED <<stage, genesisStored, pc>>
    BY CutFound DEF CutOffAfter
  <1>2. FilesInv'
    <2>1. \A i \in DOMAIN files' :
            /\ i \in DOMAIN files /\ files'[i].recs \subseteq files[i].recs
            /\ \A r \in files'[i].recs : r.pos + Size[r.block] <= files'[i].len
      BY CutFiles
    <2>2. QED
      BY <2>1 DEF StoreInv, FilesInv
  <1>3. AckedInv'
    <2>1. ASSUME NEW b \in acked'
          PROVE  Held(b)' /\ Height[b] <= Height[dLatest']
      <3>1. b \in Ancestry[h] /\ b \in Ancestry[dLatest]
        BY CutAcked, <1>1, AncestryClosed DEF TypeOK
      <3>2. Held(b)'
        BY <1>1, <3>1, CutFiles, HeldStays
      <3>3. dLatest' = h \/ dLatest' = dLatest
        BY DEF CutOffAfter
      <3>4. QED
        BY <3>1, <3>2, <3>3, AncestryClosed DEF TypeOK, Hashes
    <2>2. QED
      BY <2>1 DEF AckedInv, Held
  <1>4. latestBlock' = dLatest'
    BY <1>1 DEF CutOffAfter, memory
  <1>5. HeadInv'
    BY <1>1, <1>4 DEF HeadInv
  <1>6. AddInv(io)'
    BY <1>1 DEF AddInv, Busy
  <1>7. QED
    BY <1>2, <1>3, <1>5, <1>6 DEF StoreInv, OneThread

LEMMA CutKeep ==
    ASSUME NEW io, OneThread(io), TypeOK, BusyHasBlock, StoreInv, KeepInv, NEW h \in Blocks,
           CutOffAfter(h)
    PROVE  KeepInv'
  <1>1. /\ io \in Threads /\ stage = "up" /\ pc[io] = "idle" /\ genesisStored
        /\ latestBlock = dLatest /\ h \in Ancestry[dLatest] /\ dLatest \in Blocks /\ h # dLatest
        /\ dLatest \in After(h) /\ Intact /\ h \in DOMAIN info
        /\ currentLocation.id = dLocation.id
        /\ UNCHANGED <<stage, genesisStored, pc>>
    BY CutFound DEF CutOffAfter
  <1>2. Ancestry[h] \subseteq Ancestry[dLatest] /\ h \in Hashes
    BY <1>1, AncestryClosed DEF TypeOK, Hashes
  <1>3. /\ DOMAIN files' \subseteq DOMAIN files
        /\ \A b \in Ancestry[h] : Undisturbed(b)
        /\ dLatest' # dLatest => \A i \in DOMAIN files' : i <= info[h].locator.id
    BY CutFiles
  <1>4. dLatest' \in Blocks
    BY <1>1 DEF CutOffAfter
  <1>5. Fresh' /\ Behind(io)' /\ acked' \subseteq Ancestry[h] 
    <2>1. currentLocation'.id = dLocation'.id
      BY <1>1 DEF CutOffAfter, memory
    <2>2. QED
      BY <1>1, <1>4, <2>1, CutAcked DEF Fresh, Behind, Busy
  <1>6. CASE dLatest' = h
    <2>1. ChainHeld'
      BY <1>1, <1>2, <1>3, <1>6, ChainStays DEF KeepInv
    <2>2. LastFile'
      <3>1. info[h].locator \in Locator
        BY <1>1 DEF TypeOK, BlockInfo
      <3>2. dLocation' = Rolled(info[h].locator) /\ currentLocation' = dLocation'
        BY <1>1, <1>6 DEF CutOffAfter
      <3>3. dLocation'.id \in Nat /\ dLocation'.id >= info[h].locator.id
        BY <3>1, <3>2 DEF Rolled, Locator
      <3>4. DOMAIN files' \subseteq Nat
        BY <1>3 DEF TypeOK
      <3>5. \A i \in DOMAIN files' : i <= dLocation'.id
        BY <1>1, <1>3, <1>6, <3>1, <3>3, <3>4 DEF Locator
      <3>6. QED
        BY <1>1, <3>2, <3>3, <3>5 DEF LastFile
    <2>3. QED
      BY <1>5, <1>6, <2>1, <2>2 DEF KeepInv, OneThread
  <1>7. CASE dLatest' # h
    <2>1. UNCHANGED <<dLatest, dLocation, currentLocation>>
      BY <1>7 DEF CutOffAfter, memory
    <2>2. ~Intact'
      BY <1>1, <2>1 DEF CutOffAfter, Without, Intact
    <2>3. LastFile'
      BY <1>1, <1>3, <2>1 DEF KeepInv, LastFile
    <2>4. QED
      BY <1>2, <1>5, <2>1, <2>2, <2>3 DEF KeepInv, ChainHeld, OneThread
  <1>8. QED
    BY <1>6, <1>7

\* clear leaves nothing: no file follows the one the next block goes to.
LEMMA Cleared ==
    ASSUME NEW io, OneThread(io), TypeOK, BusyHasBlock, StoreInv, KeepInv, Clear
    PROVE  TypeOK' /\ BusyHasBlock' /\ StoreInv' /\ KeepInv'
  <1>1. /\ io \in Threads /\ stage = "up" /\ pc[io] = "idle"
        /\ UNCHANGED <<stage, genesisStored, pc, blk, at, todo, torn>>
        /\ DOMAIN info' = {} /\ DOMAIN locators' = {}
        /\ latestBlock' = Genesis /\ dLatest' = Genesis
        /\ currentLocation' = Origin /\ dLocation' = Origin /\ acked' = {}
    BY DEF OneThread, Clear, Idle, local, Without
  <1>2. genesisStored /\ currentLocation.id = dLocation.id
    BY <1>1 DEF StoreInv, HeadInv, KeepInv, Behind, Busy
  <1>3. DOMAIN files' = {}
    <2>1. \A i \in DOMAIN files : i \in Nat /\ i <= currentLocation.id
      BY <1>2 DEF TypeOK, KeepInv, LastFile
    <2>2. currentLocation.id \in Nat
      BY DEF TypeOK, Locator
    <2>3. QED
      BY <2>1, <2>2 DEF Clear, Without
  <1>4. TypeOK' /\ BusyHasBlock'
    BY <1>1, <1>3 DEF TypeOK, BusyHasBlock, Hashes, Origin, Locator
  <1>5. StoreInv'
    <2>1. FilesInv' /\ AckedInv'
      BY <1>1, <1>3 DEF FilesInv, AckedInv
    <2>2. HeadInv' /\ AddInv(io)'
      BY <1>1, <1>2 DEF HeadInv, AddInv, Busy
    <2>3. QED
      BY <1>1, <2>1, <2>2 DEF StoreInv, OneThread
  <1>6. KeepInv'
    <2>1. ChainHeld' /\ acked' \subseteq Ancestry[dLatest']
      BY <1>1, AncestryRoots DEF ChainHeld
    <2>2. LastFile' /\ Fresh'
      BY <1>1, <1>2, <1>3 DEF LastFile, Fresh, Origin
    <2>3. Behind(io)'
      BY <1>1 DEF Behind, Busy
    <2>4. QED
      BY <2>1, <2>2, <2>3 DEF KeepInv, OneThread
  <1>7. QED
    BY <1>4, <1>5, <1>6

-----------------------------------------------------------------------------
(* The theorems *)

MaintenanceInv == TypeOK /\ BusyHasBlock /\ StoreInv /\ KeepInv

LEMMA MaintenanceStep ==
    ASSUME NEW io, OneThread(io), MaintenanceInv, [MaintenanceNext]_vars
    PROVE  MaintenanceInv'
  <1>1. CASE Next
    BY <1>1, TypeStep, StoreStep, KeepStep DEF MaintenanceInv
  <1>2. CASE UNCHANGED vars
    BY <1>2, TypeStep, StoreStep, KeepUnchanged DEF MaintenanceInv
  <1>3. ASSUME NEW h \in Blocks, CutOffAfter(h) PROVE MaintenanceInv'
    BY <1>3, CutType, CutStore, CutKeep DEF MaintenanceInv
  <1>4. CASE Clear
    BY <1>4, Cleared DEF MaintenanceInv
  <1>5. QED
    BY <1>1, <1>2, <1>3, <1>4 DEF MaintenanceNext

\* Through any additions, cuts, clearings and restarts the chain of a store lies
\* in its files in the order of its blocks, the index leads to each of them,
\* and no file follows the one the next block goes to; only a cutOffAfter that
\* found a file missing leaves a chain whose end is gone.
THEOREM ChainKept ==
    ASSUME NEW io, OneThread(io)
    PROVE  MaintenanceSpec => [](TypeOK /\ StoreInv /\ KeepInv)
  <1>1. Init => MaintenanceInv
    BY TypeInit, StoreInit, KeepInit DEF MaintenanceInv
  <1>2. MaintenanceInv /\ [MaintenanceNext]_vars => MaintenanceInv'
    BY MaintenanceStep
  <1>3. MaintenanceInv => TypeOK /\ StoreInv /\ KeepInv
    BY DEF MaintenanceInv
  <1>4. QED
    BY <1>1, <1>2, <1>3, PTL DEF MaintenanceSpec

\* A block that addBlock acknowledged and cutOffAfter and clear did not take
\* away is read by its hash and by each of its transactions: cutting off removes
\* no file, no byte and no entry of the blocks before the cut, even when it
\* fails in the middle.
THEOREM AcceptedReadableAfterCuts ==
    ASSUME NEW io, OneThread(io)
    PROVE  MaintenanceSpec => []AckedReadable
  BY ChainKept, StoreReadable, PTL

\* A store whose chain is empty, for the first time or after clear, holds
\* nothing that would make it refuse or misread a block.
THEOREM ClearedIsFresh ==
    ASSUME NEW io, OneThread(io)
    PROVE  MaintenanceSpec => []EmptyIsFresh
  <1>1. StoreInv /\ KeepInv => EmptyIsFresh
    <2> SUFFICES ASSUME StoreInv, KeepInv, Idle, ~torn, latestBlock = Genesis
                 PROVE  DOMAIN info = {} /\ DOMAIN locators = {} /\ DOMAIN files = {}
      BY DEF EmptyIsFresh
    <2>1. dLatest \notin Blocks
      BY ChainAssumption DEF StoreInv, HeadInv, Idle, Busy, OneThread
    <2>2. QED
      BY <2>1 DEF KeepInv, Fresh, Idle, Busy
  <1>2. QED
    BY <1>1, ChainKept, PTL
=============================================================================
