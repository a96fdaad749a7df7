---------------------------- MODULE FloodingProofs ----------------------------
(***************************************************************************)
(* Proofs about Flooding, for any nodes, any number of links and any       *)
(* situations: types, one connection per peer, connections that stay, and  *)
(* the refinement of Broadcast.                                            *)
(***************************************************************************)
EXTENDS Flooding, SequenceTheorems, TLAPS

-----------------------------------------------------------------------------
(* Messages *)

\* A TTL on the way, and before Write or Flood has set it
Ttl == {Infinite} \cup 1 .. FloodingTTL
AnyTtl == {NotSet, Infinite} \cup 0 .. FloodingTTL

Infos(T) == [kind : {"info"}, id : {None}, ttl : T]
Heartbeats(T) == [kind : {"heartbeat"}, id : {None}, ttl : T]
Pings(T) == [kind : {"ping"}, id : {<<"ping", n>> : n \in Node}, ttl : T, address : Node \cup {None}]
Requests(T) == [kind : {"request"}, id : {None}, ttl : T, block : Seq(Node)]
BlockMessages(T) == [kind : {"block"}, id : Seq(Node) \cup {None}, ttl : T, block : Seq(Node)]
TransactionMessages(T, P) ==
    {[kind |-> "transaction", id |-> tx, ttl |-> t, tx |-> tx] : tx \in P, t \in T}

\* P are the transactions that are on their way.
Others(T, P) ==
    UNION {Heartbeats(T), Pings(T), Requests(T), BlockMessages(T), TransactionMessages(T, P)}
Messages(T, P) == Infos(T) \cup Others(T, P)

\* The wires when the ends U expect that the other side introduces itself and
\* the ends Q have not heard of it yet: an introduction comes first and once.
Wires(P, U, Q) ==
    {w \in [End -> Seq(Messages(Ttl, P))] :
        /\ \A e \in End : w[e] # <<>> => Tail(w[e]) \in Seq(Others(Ttl, P))
        /\ \A e \in End \ U : w[e] \in Seq(Others(Ttl, P))
        /\ \A e \in Q : w[e] = <<>>}

\* The other end of an end is an end of its own.
LEMMA OtherEnd ==
    ASSUME NEW e \in End
    PROVE  Other(e) \in End /\ Other(Other(e)) = e /\ Other(e) # e
  BY DEF Other, End

\* Facts about TTLs.
LEMMA Ttls ==
    /\ 1 \in Ttl /\ 1 \in 1 .. FloodingTTL /\ FloodingTTL \in 1 .. FloodingTTL
    /\ Infinite \in AnyTtl /\ NotSet \in AnyTtl /\ Ttl \subseteq AnyTtl
  BY ConnectionsAssumption DEF Ttl, AnyTtl, Infinite, NotSet

\* A message is written with a TTL that is set.
LEMMA StampedInfo ==
    ASSUME NEW msg \in Infos(AnyTtl), ~Dropped(msg)
    PROVE  Stamped(msg, 1) \in Infos(Ttl)
  BY Ttls, ConnectionsAssumption DEF Infos, Stamped, Dropped, Ttl, AnyTtl, Infinite, NotSet

\* ... and so it is with all the others.
LEMMA StampedOther ==
    ASSUME NEW P, NEW msg \in Others(AnyTtl, P)
    PROVE  /\ ~Dropped(msg) => Stamped(msg, 1) \in Others(Ttl, P)
           /\ Stamped(msg, FloodingTTL) \in Others(AnyTtl, P)
  <1> USE Ttls, ConnectionsAssumption DEF Stamped, Dropped, Ttl, AnyTtl, Infinite, NotSet
  <1>1. CASE msg \in Heartbeats(AnyTtl)
    BY <1>1 DEF Heartbeats, Others
  <1>2. CASE msg \in Pings(AnyTtl)
    BY <1>2 DEF Pings, Others
  <1>3. CASE msg \in Requests(AnyTtl)
    BY <1>3 DEF Requests, Others
  <1>4. CASE msg \in BlockMessages(AnyTtl)
    BY <1>4 DEF BlockMessages, Others
  <1>5. CASE msg \in TransactionMessages(AnyTtl, P)
    BY <1>5 DEF TransactionMessages, Others
  <1>6. QED
    BY <1>1, <1>2, <1>3, <1>4, <1>5 DEF Others

\* Reading a message counts its TTL down and leaves the rest.
LEMMA ReadOther ==
    ASSUME NEW P, NEW msg \in Others(Ttl, P)
    PROVE  /\ ReadMessage(msg) \in Others(AnyTtl, P)
           /\ ReadMessage(msg).kind = msg.kind
           /\ ReadMessage(msg) \in Pings(AnyTtl) <=> msg \in Pings(Ttl)
  <1> USE ConnectionsAssumption DEF ReadMessage, Ttl, AnyTtl, Infinite, NotSet
  <1>1. CASE msg \in Heartbeats(Ttl)
    BY <1>1 DEF Heartbeats, Others, Pings
  <1>2. CASE msg \in Pings(Ttl)
    BY <1>2 DEF Pings, Others
  <1>3. CASE msg \in Requests(Ttl)
    BY <1>3 DEF Requests, Others, Pings
  <1>4. CASE msg \in BlockMessages(Ttl)
    BY <1>4 DEF BlockMessages, Others, Pings
  <1>5. CASE msg \in TransactionMessages(Ttl, P)
    BY <1>5 DEF TransactionMessages, Others, Pings
  <1>6. QED
    BY <1>1, <1>2, <1>3, <1>4, <1>5 DEF Others

\* A heartbeat is a message.
LEMMA HeartbeatType == ASSUME NEW P PROVE Heartbeat \in Others(Ttl, P)
  BY Ttls DEF Heartbeat, Others, Heartbeats

-----------------------------------------------------------------------------
(* Writing and reading *)

\* One wire: an introduction comes first, and Other messages follow.
Ordered(P) ==
    {s \in Seq(Messages(Ttl, P)) : s # <<>> => Tail(s) \in Seq(Others(Ttl, P))}

\* A wire without introductions is ordered.
LEMMA OthersOrdered ==
    ASSUME NEW P, NEW s \in Seq(Others(Ttl, P))
    PROVE  s \in Ordered(P)
  <1>1. s \in Seq(Messages(Ttl, P))
    BY SeqMonotonic, Others(Ttl, P) \subseteq Messages(Ttl, P) DEF Messages
  <1>2. s # <<>> => Tail(s) \in Seq(Others(Ttl, P))
    BY HeadTailProperties
  <1>3. QED
    BY <1>1, <1>2 DEF Ordered

\* A message that is no introduction may follow.
LEMMA AppendOrdered ==
    ASSUME NEW P, NEW s \in Ordered(P), NEW x \in Others(Ttl, P)
    PROVE  Append(s, x) \in Ordered(P)
  <1>1. x \in Messages(Ttl, P) /\ s \in Seq(Messages(Ttl, P))
    BY DEF Messages, Ordered
  <1>2. Append(s, x) \in Seq(Messages(Ttl, P))
    BY <1>1, AppendProperties
  <1>3. CASE s = <<>>
    <2>1. Tail(Append(s, x)) = <<>>
      BY <1>3
    <2>2. QED
      BY <1>2, <2>1, EmptySeq DEF Ordered
  <1>4. CASE s # <<>>
    <2>1. Tail(Append(s, x)) = Append(Tail(s), x)
      BY <1>1, <1>4, HeadTailAppend
    <2>2. Append(Tail(s), x) \in Seq(Others(Ttl, P))
      BY <1>4, AppendProperties DEF Ordered
    <2>3. QED
      BY <1>2, <2>1, <2>2 DEF Ordered
  <1>5. QED
    BY <1>3, <1>4

\* ... and so may several.
LEMMA ConcatOrdered ==
    ASSUME NEW P, NEW s \in Ordered(P), NEW t \in Seq(Others(Ttl, P))
    PROVE  s \o t \in Ordered(P)
  <1>1. t \in Seq(Messages(Ttl, P)) /\ s \in Seq(Messages(Ttl, P))
    BY OthersOrdered DEF Ordered
  <1>2. s \o t \in Seq(Messages(Ttl, P))
    BY <1>1, ConcatProperties
  <1>3. CASE s = <<>>
    BY <1>1, <1>3, OthersOrdered, ConcatEmptySeq
  <1>4. CASE s # <<>>
    <2>1. Tail(s) \o t \in Seq(Others(Ttl, P))
      BY <1>4, ConcatProperties DEF Ordered
    <2>2. Tail(s \o t) = Tail(s) \o t
      BY <1>1, <1>4
    <2>3. QED
      BY <1>2, <2>1, <2>2 DEF Ordered
  <1>5. QED
    BY <1>3, <1>4

\* The wires by their definition, one wire at a time.
LEMMA WiresOrdered ==
    ASSUME NEW P, NEW U, NEW Q, NEW w
    PROVE  w \in Wires(P, U, Q) <=>
             /\ w \in [End -> Ordered(P)]
             /\ \A e \in End \ U : w[e] \in Seq(Others(Ttl, P))
             /\ \A e \in Q : w[e] = <<>>
  BY DEF Wires, Ordered

\* Something unacknowledged may be on any wire.
LEMMA HeartbeatWire ==
    ASSUME NEW P
    PROVE  <<Heartbeat>> \in Seq(Others(Ttl, P)) /\ <<Heartbeat>> \in Ordered(P)
  <1>1. ASSUME NEW S, NEW x \in S PROVE <<x>> \in Seq(S)
    OBVIOUS
  <1>2. <<Heartbeat>> \in Seq(Others(Ttl, P))
    BY <1>1, HeartbeatType
  <1>3. QED
    BY <1>2, OthersOrdered

\* More transactions, more ends that expect an introduction, and fewer silent
\* ones only allow more.
LEMMA WiresWeaken ==
    ASSUME NEW P, NEW U, NEW Q, NEW P1, NEW U1, NEW Q1, NEW w \in Wires(P, U, Q),
           P \subseteq P1, U \subseteq U1, Q1 \subseteq Q
    PROVE  w \in Wires(P1, U1, Q1)
  <1>1. Others(Ttl, P) \subseteq Others(Ttl, P1)
    BY DEF Others, TransactionMessages
  <1>2. Messages(Ttl, P) \subseteq Messages(Ttl, P1)
    BY <1>1 DEF Messages
  <1>3. /\ Seq(Others(Ttl, P)) \subseteq Seq(Others(Ttl, P1))
        /\ Seq(Messages(Ttl, P)) \subseteq Seq(Messages(Ttl, P1))
    BY <1>1, <1>2, SeqMonotonic
  <1>4. QED
    BY <1>3 DEF Wires

\* Write keeps the order of the wires when it writes no introduction, and the
\* silence of ends whose other side does not write.
LEMMA WriteWires ==
    ASSUME NEW P, NEW U, NEW Q \in SUBSET End, NEW w \in Wires(P, U, Q),
           NEW E, \A e \in Q : Other(e) \notin E,
           NEW msg \in Others(AnyTtl, P)
    PROVE  Write(w, E, msg) \in Wires(P, U, Q)
  <1> DEFINE v == Write(w, E, msg)
  <1>1. \A e \in End : w[e] \in Ordered(P)
    BY WiresOrdered
  <1>2. <<Heartbeat>> \in Seq(Others(Ttl, P)) /\ <<Heartbeat>> \in Ordered(P)
    BY HeartbeatWire
  <1>3. ASSUME NEW e \in End
        PROVE  /\ v[e] \in Ordered(P)
               /\ e \notin U => v[e] \in Seq(Others(Ttl, P))
    <2>1. CASE Other(e) \notin E \/ Dropped(msg)
      BY <2>1, <1>1, WiresOrdered DEF Write
    <2>2. CASE ~(Other(e) \notin E \/ Dropped(msg)) /\ Unreachable(e)
      BY <2>2, <1>2 DEF Write
    <2>3. CASE ~(Other(e) \notin E \/ Dropped(msg)) /\ ~Unreachable(e)
      <3>1. Stamped(msg, 1) \in Others(Ttl, P)
        BY <2>3, StampedOther
      <3>2. v[e] = Append(w[e], Stamped(msg, 1))
        BY <2>3 DEF Write
      <3>3. v[e] \in Ordered(P)
        BY <1>1, <3>1, <3>2, AppendOrdered
      <3>4. e \notin U => w[e] \in Seq(Others(Ttl, P))
        BY WiresOrdered
      <3>5. e \notin U => v[e] \in Seq(Others(Ttl, P))
        BY <3>1, <3>2, <3>4, AppendProperties
      <3>6. QED
        BY <3>3, <3>5
    <2>4. QED
      BY <2>1, <2>2, <2>3
  <1>4. ASSUME NEW e \in Q PROVE v[e] = <<>>
    BY WiresOrdered DEF Write
  <1>5. v \in [End -> Ordered(P)]
    BY <1>3 DEF Write
  <1>6. QED
    BY <1>3, <1>4, <1>5, WiresOrdered

\* So does Flood.
LEMMA FloodWires ==
    ASSUME NEW P, NEW U, NEW Q \in SUBSET End, NEW w \in Wires(P, U, Q),
           NEW n, \A e \in Q : state[Other(e)] # "open",
           NEW msg \in Others(AnyTtl, P), NEW exclude
    PROVE  Flood(w, n, msg, exclude) \in Wires(P, U, Q)
  <1>1. Stamped(msg, FloodingTTL) \in Others(AnyTtl, P)
    BY StampedOther
  <1>2. \A e \in Q : Other(e) \notin {f \in Connections(n) : IsInitialized(f)} \ {exclude}
    BY DEF Connections
  <1>3. QED
    BY <1>1, <1>2, WriteWires DEF Flood

\* Closing and breaking leave at most something unacknowledged.
LEMMA CeasedWires ==
    ASSUME NEW P, NEW U, NEW Q \in SUBSET End, NEW w \in Wires(P, U, Q), NEW E
    PROVE  Ceased(w, E) \in Wires(P, U, Q)
  <1>1. <<Heartbeat>> \in Seq(Others(Ttl, P)) /\ <<Heartbeat>> \in Ordered(P)
    BY HeartbeatWire
  <1>2. ASSUME NEW e \in End
        PROVE  /\ Ceased(w, E)[e] \in Ordered(P)
               /\ e \notin U => Ceased(w, E)[e] \in Seq(Others(Ttl, P))
    <2>1. w[e] \in Ordered(P) /\ (e \notin U => w[e] \in Seq(Others(Ttl, P)))
      BY WiresOrdered
    <2>2. QED
      BY <1>1, <2>1 DEF Ceased
  <1>3. ASSUME NEW e \in Q PROVE Ceased(w, E)[e] = <<>>
    BY WiresOrdered DEF Ceased
  <1>4. Ceased(w, E) \in [End -> Ordered(P)]
    BY <1>2 DEF Ceased
  <1>5. QED
    BY <1>2, <1>3, <1>4, WiresOrdered

\* What is left of a wire that is read has no introduction in it.
LEMMA RestWires ==
    ASSUME NEW P, NEW U, NEW Q \in SUBSET End, wire \in Wires(P, U, Q),
           NEW e \in End, wire[e] # <<>>
    PROVE  /\ Rest(e) \in Wires(P, U \ {e}, Q)
           /\ Rest(e) \in Wires(P, U, Q)
           /\ Head(wire[e]) \in Messages(Ttl, P)
           /\ e \notin Q
  <1>1. Tail(wire[e]) \in Seq(Others(Ttl, P)) /\ wire[e] \in Seq(Messages(Ttl, P))
    BY DEF Wires
  <1>2. Tail(wire[e]) \in Ordered(P)
    BY <1>1, OthersOrdered
  <1>3. e \notin Q /\ Head(wire[e]) \in Messages(Ttl, P)
    BY <1>1, HeadTailProperties DEF Wires
  <1>4. Rest(e) \in Wires(P, U \ {e}, Q)
    <2>1. /\ wire \in [End -> Ordered(P)]
          /\ \A f \in End \ U : wire[f] \in Seq(Others(Ttl, P))
          /\ \A f \in Q : wire[f] = <<>>
      BY WiresOrdered
    <2>2. Rest(e) = [f \in End |-> IF f = e THEN Tail(wire[e]) ELSE wire[f]]
      BY <2>1 DEF Rest
    <2>3. Rest(e) \in [End -> Ordered(P)]
      BY <1>2, <2>1, <2>2
    <2>4. \A f \in End \ (U \ {e}) : Rest(e)[f] \in Seq(Others(Ttl, P))
      BY <1>1, <2>1, <2>2
    <2>5. \A f \in Q : Rest(e)[f] = <<>>
      BY <1>3, <2>1, <2>2
    <2>6. QED
      BY <2>3, <2>4, <2>5, WiresOrdered
  <1>5. QED
    BY <1>3, <1>4, WiresWeaken

-----------------------------------------------------------------------------
(* The invariant *)

States == {"unmade", "connecting", "waiting", "open", "removed", "closed", "failed"}
Early == {"unmade", "connecting", "waiting"}

\* Ends that do not know the other side yet, and those whose other side has not
\* written anything.
Unknown == {e \in End : guid[e] \notin Node}
Silent == {e \in End : state[Other(e)] \in Early}

Published == {tx \in Transactions : \E n \in Node : handled[n][tx] > 0}

LinkTypes ==
    /\ plan \in Plans /\ up \subseteq Node /\ lost \subseteq Link
    /\ node \in [End -> Node \cup {None}]
    /\ state \in [End -> States]
    /\ guid \in [End -> Node \cup {None, Garbage}]
    /\ DOMAIN seen = Node

DataTypes ==
    /\ chain \in [Node -> Seq(Node)] /\ own \in [Node -> Seq(Node)]
    /\ handled \in [Node -> [Transactions -> Nat]]

WireInv == wire \in Wires(Published, Unknown, Silent)

EndsInv ==
    /\ \A e \in End : state[e] = "unmade" <=> node[e] \notin Node
    /\ \A e \in End : state[e] = "unmade" => state[Other(e)] = "unmade"
    /\ \A e \in End : state[e] \in Early => guid[e] \notin Node
    /\ Silent \subseteq Unknown

HandledInv ==
    /\ \A n \in Node, tx \in Transactions : handled[n][tx] > 0 => tx \in seen[n]
    /\ \A n \in Node : \A tx \in plan.transactions[n] :
         tx \notin Published /\ \A m \in Node \ {n} : tx \notin plan.transactions[m]

Inv == LinkTypes /\ DataTypes /\ WireInv /\ EndsInv /\ OneLinkPerPeer /\ HandledInv

\* The invariant holds initially.
LEMMA InvInit == Init => Inv
  <1> SUFFICES ASSUME Init PROVE Inv
    OBVIOUS
  <1> USE DEF Init, ConnectionsInit
  <1>1. plan \in Plans
    BY FloodingAssumption
  <1>2. LinkTypes
    BY <1>1 DEF LinkTypes, States
  <1>3. DataTypes
    BY <1>1 DEF DataTypes, Plans
  <1>4. EndsInv
    BY ConnectionsAssumption, OtherEnd DEF EndsInv, Silent, Unknown
  <1>5. WireInv
    <2>1. \A P : <<>> \in Seq(Messages(Ttl, P)) /\ <<>> \in Seq(Others(Ttl, P))
      BY EmptySeq
    <2>2. wire \in [End -> Seq(Messages(Ttl, Published))]
      BY <2>1
    <2>3. Silent \subseteq End
      BY DEF Silent
    <2>4. QED
      BY <2>1, <2>2, <2>3 DEF WireInv, Wires
  <1>6. OneLinkPerPeer
    BY DEF OneLinkPerPeer
  <1>7. HandledInv
    BY <1>1, FloodingAssumption DEF HandledInv, Published, Plans
  <1>8. QED
    BY <1>2, <1>3, <1>4, <1>5, <1>6, <1>7 DEF Inv

\* Ends go on from what they are, and open after nothing but an early state.
LEMMA EndsKept ==
    ASSUME LinkTypes, EndsInv, OneLinkPerPeer, UNCHANGED <<node, guid>>,
           state' \in [End -> States],
           \A e \in End : /\ state'[e] = "unmade" <=> state[e] = "unmade"
                          /\ state'[e] \in Early => state[e] \in Early
                          /\ state'[e] = "open" => state[e] \in Early \cup {"open"}
    PROVE  EndsInv' /\ OneLinkPerPeer' /\ Silent' \subseteq Silent /\ Unknown' = Unknown
  <1>1. Unknown' = Unknown /\ Silent' \subseteq Silent
    BY OtherEnd DEF Unknown, Silent
  <1>2. EndsInv'
    BY <1>1, OtherEnd DEF EndsInv
  <1>3. OneLinkPerPeer'
    BY DEF OneLinkPerPeer, EndsInv, Early
  <1>4. QED
    BY <1>1, <1>2, <1>3

\* A new connection begins with two early ends that know nobody, unless nobody
\* is there.
LEMMA ConnectStep ==
    ASSUME LinkTypes, EndsInv, OneLinkPerPeer,
           NEW n \in Node, NEW m \in Node, Connect(n, m)
    PROVE  /\ node' \in [End -> Node \cup {None}] /\ state' \in [End -> States]
           /\ guid' \in [End -> Node \cup {None, Garbage}]
           /\ EndsInv' /\ OneLinkPerPeer'
           /\ Silent' \subseteq Silent /\ Unknown \subseteq Unknown'
           /\ \A e \in End : state[e] # "unmade" => state'[e] = state[e] /\ guid'[e] = guid[e]
  <1>1. PICK l \in Link :
          /\ state[<<l, "out">>] = "unmade"
          /\ node' = [node EXCEPT ![<<l, "out">>] = n, ![<<l, "in">>] = m]
          /\ state' = [state EXCEPT ![<<l, "out">>] = "connecting",
                                    ![<<l, "in">>] = IF m \in up THEN "waiting" ELSE "failed"]
          /\ \E g, h \in plan.unset :
                guid' = [guid EXCEPT ![<<l, "out">>] = g, ![<<l, "in">>] = h]
    BY DEF Connect, Unmade
  <1> DEFINE o == <<l, "out">>
             i == <<l, "in">>
  <1>2. o \in End /\ i \in End /\ o # i /\ Other(o) = i /\ Other(i) = o
    BY DEF End, Other
  <1>3. \A e \in End : e # o /\ e # i => Other(e) # o /\ Other(e) # i
    BY <1>2, OtherEnd
  <1>4. PICK g \in {None, Garbage}, h \in {None, Garbage} :
          guid' = [guid EXCEPT ![o] = g, ![i] = h]
    BY <1>1 DEF LinkTypes, Plans
  <1>5. g \notin Node /\ h \notin Node
    BY ConnectionsAssumption
  <1>6. state[o] = "unmade" /\ state[i] = "unmade"
    BY <1>1, <1>2 DEF EndsInv
  <1> HIDE DEF o, i
  <1>7. /\ node' \in [End -> Node \cup {None}] /\ state' \in [End -> States]
        /\ guid' \in [End -> Node \cup {None, Garbage}]
    BY <1>1, <1>2, <1>4 DEF o, i, LinkTypes, States
  <1>8. /\ state'[o] = "connecting" /\ state'[i] \in {"waiting", "failed"}
        /\ guid'[o] = g /\ guid'[i] = h /\ node'[o] = n /\ node'[i] = m
        /\ \A e \in End : e # o /\ e # i =>
              state'[e] = state[e] /\ guid'[e] = guid[e] /\ node'[e] = node[e]
    BY <1>1, <1>2, <1>4 DEF o, i, LinkTypes
  <1>9. Silent' \subseteq Silent
    BY <1>2, <1>3, <1>6, <1>8, OtherEnd DEF Silent, Early
  <1>10. Unknown \subseteq Unknown' /\ o \in Unknown' /\ i \in Unknown'
    BY <1>2, <1>5, <1>8 DEF Unknown
  <1>11. EndsInv'
    <2>1. Silent' \subseteq Unknown'
      BY <1>9, <1>10 DEF EndsInv
    <2>2. \A e \in End : state'[e] = "unmade" <=> node'[e] \notin Node
      BY <1>8 DEF EndsInv
    <2>3. \A e \in End : state'[e] = "unmade" => state'[Other(e)] = "unmade"
      BY <1>3, <1>8, OtherEnd DEF EndsInv
    <2>4. \A e \in End : state'[e] \in Early => guid'[e] \notin Node
      BY <1>5, <1>8 DEF EndsInv
    <2>5. QED
      BY <2>1, <2>2, <2>3, <2>4 DEF EndsInv
  <1>12. OneLinkPerPeer'
    BY <1>8 DEF OneLinkPerPeer
  <1>13. QED
    BY <1>6, <1>7, <1>8, <1>9, <1>10, <1>11, <1>12

\* Nobody handles or publishes a transaction.
LEMMA HandledKept ==
    ASSUME Inv, UNCHANGED handled, DOMAIN seen' = Node,
           plan'.transactions = plan.transactions,
           \A n \in Node : seen[n] \subseteq seen'[n]
    PROVE  HandledInv' /\ Published' = Published
  BY DEF Inv, HandledInv, Published, DataTypes

\* A node only learns which messages it has seen.
LEMMA SeenGrows ==
    ASSUME DOMAIN seen = Node, NEW n, NEW msg, SeenMessage(n, msg)
    PROVE  /\ DOMAIN seen' = Node
           /\ \A m \in Node : seen[m] \subseteq seen'[m]
           /\ n \in Node /\ msg.id # None => msg.id \in seen'[n]
  BY DEF SeenMessage

\* Steps that change nothing but the states of ends, and the wires.
LEMMA StatesStep ==
    ASSUME Inv, UNCHANGED <<up, node, guid, lost, seen, flooding>>,
           plan' \in Plans, plan'.transactions = plan.transactions,
           state' \in [End -> States],
           \A e \in End : /\ state'[e] = "unmade" <=> state[e] = "unmade"
                          /\ state'[e] \in Early => state[e] \in Early
                          /\ state'[e] = "open" => state[e] \in Early \cup {"open"},
           wire' \in Wires(Published, Unknown, Silent')
    PROVE  Inv'
  <1>1. EndsInv' /\ OneLinkPerPeer' /\ Unknown' = Unknown
    BY EndsKept DEF Inv
  <1>2. HandledInv' /\ Published' = Published
    BY HandledKept DEF Inv, LinkTypes, flooding
  <1>3. WireInv'
    BY <1>1, <1>2 DEF WireInv
  <1>4. LinkTypes' /\ DataTypes'
    BY DEF Inv, LinkTypes, DataTypes, flooding
  <1>5. QED
    BY <1>1, <1>2, <1>3, <1>4 DEF Inv

\* An end opens and introduces itself.
LEMMA IntroduceStep ==
    ASSUME Inv, NEW e \in End, state[e] \in {"connecting", "waiting"},
           state' = [state EXCEPT ![e] = "open"],
           wire' = Write(wire, {e}, PeerInfo),
           UNCHANGED <<plan, up, node, guid, lost, seen, flooding>>
    PROVE  Inv'
  <1> DEFINE f == Other(e)
  <1>1. f \in End /\ f # e /\ Other(f) = e /\ \A g \in End \ {f} : Other(g) # e
    BY OtherEnd
  <1>2. f \in Silent /\ f \in Unknown
    BY <1>1 DEF Silent, Early, Inv, EndsInv
  <1>3. wire[f] = <<>>
    BY <1>2 DEF Inv, WireInv, Wires
  <1>4. wire'[f] \in {<<>>, <<Heartbeat>>, <<Stamped(PeerInfo, 1)>>}
    <2>1. ASSUME NEW x PROVE Append(<<>>, x) = <<x>>
      OBVIOUS
    <2>2. \/ wire'[f] = wire[f] \/ wire'[f] = <<Heartbeat>>
          \/ wire'[f] = Append(wire[f], Stamped(PeerInfo, 1))
      BY <1>1 DEF Write
    <2>3. QED
      BY <1>3, <2>1, <2>2
  <1>5. \A g \in End \ {f} : wire'[g] = wire[g]
    BY <1>1 DEF Write
  <1>6. wire'[f] \in Ordered(Published)
    <2>1. Stamped(PeerInfo, 1) \in Messages(Ttl, Published)
      BY Ttls DEF PeerInfo, Stamped, Messages, Infos
    <2>2. Heartbeat \in Messages(Ttl, Published)
      BY HeartbeatType DEF Messages
    <2>3. ASSUME NEW x \in Messages(Ttl, Published)
          PROVE  <<x>> \in Ordered(Published)
      <3>1. <<x>> \in Seq(Messages(Ttl, Published)) /\ Tail(<<x>>) = <<>>
        OBVIOUS
      <3>2. QED
        BY <3>1, EmptySeq DEF Ordered
    <2>4. <<>> \in Ordered(Published)
      BY OthersOrdered, EmptySeq
    <2>5. QED
      BY <1>4, <2>1, <2>2, <2>3, <2>4
  <1>7. Silent' \subseteq Silent \ {f}
    <2>1. state'[e] = "open" /\ \A g \in End \ {e} : state'[g] = state[g]
      BY DEF Inv, LinkTypes
    <2>2. \A g \in End : Other(g) \in End
      BY OtherEnd
    <2>3. QED
      BY <1>1, <2>1, <2>2 DEF Silent, Early
  <1>8. wire' \in Wires(Published, Unknown, Silent')
    <2>1. /\ wire \in [End -> Ordered(Published)]
          /\ \A g \in End \ Unknown : wire[g] \in Seq(Others(Ttl, Published))
          /\ \A g \in Silent : wire[g] = <<>>
      BY WiresOrdered DEF Inv, WireInv
    <2>2. \A g \in End : wire'[g] \in Ordered(Published)
      BY <1>5, <1>6, <2>1
    <2>3. wire' \in [End -> Ordered(Published)]
      BY <2>2 DEF Write
    <2>4. \A g \in End \ Unknown : wire'[g] \in Seq(Others(Ttl, Published))
      BY <1>2, <1>5, <2>1
    <2>5. \A g \in Silent' : wire'[g] = <<>>
      <3>1. Silent \subseteq End
        BY DEF Silent
      <3>2. QED
        BY <1>5, <1>7, <2>1, <3>1
    <2>6. QED
      BY <2>3, <2>4, <2>5, WiresOrdered
  <1>9. QED
    BY <1>8, StatesStep DEF Early, Inv, LinkTypes, States

\* Steps that write no introduction and make no end known.
LEMMA CommonStep ==
    ASSUME Inv, LinkTypes', DataTypes', EndsInv', OneLinkPerPeer', UNCHANGED handled,
           plan'.transactions = plan.transactions,
           \A n \in Node : seen[n] \subseteq seen'[n],
           Silent' \subseteq Silent, Unknown \subseteq Unknown',
           wire' \in Wires(Published, Unknown, Silent)
    PROVE  Inv'
  <1>1. HandledInv' /\ Published' = Published
    BY HandledKept DEF LinkTypes
  <1>2. wire' \in Wires(Published, Unknown', Silent')
    BY WiresWeaken
  <1>3. QED
    BY <1>1, <1>2 DEF Inv, WireInv

\* ... of which those that leave the ends as they are.
LEMMA MessageStep ==
    ASSUME Inv, UNCHANGED <<up, node, state, guid, lost, handled>>,
           plan' \in Plans, plan'.transactions = plan.transactions,
           DOMAIN seen' = Node, \A n \in Node : seen[n] \subseteq seen'[n],
           chain' \in [Node -> Seq(Node)], own' \in [Node -> Seq(Node)],
           wire' \in Wires(Published, Unknown, Silent)
    PROVE  Inv'
  <1>1. /\ LinkTypes' /\ DataTypes' /\ EndsInv' /\ OneLinkPerPeer'
        /\ Silent' = Silent /\ Unknown' = Unknown
    BY DEF Inv, LinkTypes, DataTypes, EndsInv, OneLinkPerPeer, Silent, Unknown
  <1>2. QED
    BY <1>1, CommonStep

\* What follows of the invariant, wherever something is written.
LEMMA InvFacts ==
    ASSUME Inv
    PROVE  /\ Silent \in SUBSET End /\ wire \in Wires(Published, Unknown, Silent)
           /\ \A e \in Silent : state[Other(e)] \notin {"open", "removed"}
           /\ \A e \in End : state[e] \notin Early => node[e] \in Node
  BY DEF Inv, WireInv, Silent, Early, EndsInv

\* What an end that reads finds.
LEMMA ReadsFacts ==
    ASSUME Inv, NEW e \in End, NEW kind, Reads(e, kind)
    PROVE  /\ wire[e] # <<>> /\ Head(wire[e]) \in Messages(Ttl, Published)
           /\ Head(wire[e]).kind = kind
           /\ Rest(e) \in Wires(Published, Unknown \ {e}, Silent)
           /\ Rest(e) \in Wires(Published, Unknown, Silent)
           /\ e \notin Silent /\ node[e] \in Node /\ state[e] \in {"open", "removed"}
  <1>1. wire[e] # <<>> /\ Head(wire[e]).kind = kind /\ state[e] \in {"open", "removed"}
    BY DEF Reads
  <1>2. QED
    BY <1>1, InvFacts, RestWires DEF Early

-----------------------------------------------------------------------------
(* The steps of Connections *)

\* Connections that are made, or fail to be.
LEMMA LinkStepInv ==
    ASSUME Inv, NEW l \in Link, LinkStep(l), UNCHANGED flooding
    PROVE  Inv'
  <1> DEFINE o == <<l, "out">>
             i == <<l, "in">>
  <1>1. o \in End /\ i \in End /\ Other(o) = i /\ Other(i) = o /\ o # i
    BY DEF End, Other
  <1> HIDE DEF o, i
  <1>2. plan \in Plans /\ state \in [End -> States]
    BY DEF Inv, LinkTypes
  <1>3. CASE Connected(l)
    BY <1>1, <1>3, IntroduceStep DEF Connected, o
  <1>4. CASE ConnectFails(l)
    <2>1. /\ state' = [state EXCEPT ![o] = "failed", ![i] = "failed"]
          /\ state[o] = "connecting" /\ UNCHANGED <<plan, up, node, guid, wire, lost, seen>>
      BY <1>1, <1>4 DEF ConnectFails, o
    <2>2. state[i] # "unmade"
      BY <1>1, <2>1 DEF Inv, EndsInv
    <2>3. state' \in [End -> States]
      BY <1>2, <2>1 DEF States
    <2>4. \A e \in End : state'[e] = state[e] \/ (state'[e] = "failed" /\ state[e] # "unmade")
      BY <1>1, <1>2, <2>1, <2>2
    <2>5. EndsInv' /\ OneLinkPerPeer' /\ Silent' \subseteq Silent /\ Unknown' = Unknown
      BY <2>1, <2>3, <2>4, EndsKept DEF Early, Inv
    <2>6. QED
      BY <2>1, <2>3, <2>5, CommonStep, InvFacts DEF Inv, LinkTypes, DataTypes, flooding
  <1>5. CASE Accept(l)
    <2>1. CASE Full(node[i])
      <3>1. /\ state' = [state EXCEPT ![i] = "closed"] /\ wire' = Ceased(wire, {i})
            /\ state[i] = "waiting" /\ UNCHANGED <<plan, up, node, guid, lost, seen>>
        BY <1>5, <2>1 DEF Accept, i
      <3>2. state' \in [End -> States]
        BY <1>2, <3>1 DEF States
      <3>3. EndsInv' /\ OneLinkPerPeer' /\ Silent' \subseteq Silent /\ Unknown' = Unknown
        BY <1>1, <1>2, <3>1, <3>2, EndsKept DEF Early, Inv
      <3>4. wire' \in Wires(Published, Unknown, Silent)
        BY <3>1, CeasedWires, InvFacts
      <3>5. QED
        BY <3>1, <3>2, <3>3, <3>4, CommonStep DEF Inv, LinkTypes, DataTypes, flooding
    <2>2. CASE ~Full(node[i])
      BY <1>1, <1>5, <2>2, IntroduceStep DEF Accept, i
    <2>3. QED
      BY <2>1, <2>2
  <1>6. QED
    BY <1>3, <1>4, <1>5 DEF LinkStep

\* Calls.
LEMMA ConnectInitialInv ==
    ASSUME Inv, NEW n \in Node, ConnectInitial(n), UNCHANGED flooding
    PROVE  Inv'
  <1>1. /\ plan.calls[n] \in Seq(Node) /\ plan.calls[n] # <<>>
        /\ plan' = [plan EXCEPT !.calls[n] = Tail(@)]
        /\ UNCHANGED <<up, wire, lost, seen>>
    BY DEF ConnectInitial, Inv, LinkTypes, Plans
  <1>2. Head(plan.calls[n]) \in Node /\ Tail(plan.calls[n]) \in Seq(Node)
    BY <1>1, HeadTailProperties
  <1>3. plan' \in Plans /\ plan'.transactions = plan.transactions
    BY <1>1, <1>2 DEF Inv, LinkTypes, Plans
  <1>4. CASE Full(n)
    BY <1>1, <1>3, <1>4, MessageStep, InvFacts
       DEF ConnectInitial, flooding, Inv, LinkTypes, DataTypes
  <1>5. CASE ~Full(n)
    <2>1. Connect(n, Head(plan.calls[n]))
      BY <1>5 DEF ConnectInitial
    <2>2. /\ node' \in [End -> Node \cup {None}] /\ state' \in [End -> States]
          /\ guid' \in [End -> Node \cup {None, Garbage}]
          /\ EndsInv' /\ OneLinkPerPeer' /\ Silent' \subseteq Silent /\ Unknown \subseteq Unknown'
      BY <1>2, <2>1, ConnectStep DEF Inv
    <2>3. LinkTypes' /\ DataTypes'
      BY <1>1, <1>3, <2>2 DEF flooding, Inv, LinkTypes, DataTypes
    <2>4. QED
      BY <1>1, <1>3, <2>2, <2>3, CommonStep, InvFacts DEF flooding
  <1>6. QED
    BY <1>4, <1>5

\* Pings that are sent.
LEMMA SendPingInv ==
    ASSUME Inv, NEW n \in Node, SendPing(n), UNCHANGED flooding
    PROVE  Inv'
  <1>1. /\ plan' = [plan EXCEPT !.pings = @ \ {n}] /\ SeenMessage(n, Ping(n))
        /\ wire' = Flood(wire, n, Ping(n), None)
        /\ UNCHANGED <<up, node, state, guid, lost>>
    BY DEF SendPing
  <1>2. plan' \in Plans /\ plan'.transactions = plan.transactions
    BY <1>1 DEF Inv, LinkTypes, Plans
  <1>3. Ping(n) \in Others(AnyTtl, Published)
    <2>1. Ping(n) \in Pings(AnyTtl)
      BY Ttls DEF Ping, Pings
    <2>2. QED
      BY <2>1 DEF Others
  <1>4. wire' \in Wires(Published, Unknown, Silent)
    BY <1>1, <1>3, FloodWires, InvFacts
  <1>5. QED
    BY <1>1, <1>2, <1>4, SeenGrows, MessageStep DEF flooding, Inv, LinkTypes, DataTypes

\* Pings that are received, and the connections they make.
LEMMA ReceivedPingInv ==
    ASSUME Inv, NEW e \in End, ReceivedPing(e), UNCHANGED flooding
    PROVE  Inv'
  <1> DEFINE n == node[e]
             ping == ReadMessage(Head(wire[e]))
             address == IF ping.address = None THEN node[Other(e)] ELSE ping.address
  <1>1. Reads(e, "ping") /\ UNCHANGED <<plan, up, lost>>
    BY DEF ReceivedPing
  <1>2. /\ Head(wire[e]) \in Messages(Ttl, Published) /\ Head(wire[e]).kind = "ping"
        /\ Rest(e) \in Wires(Published, Unknown, Silent) /\ n \in Node
    BY <1>1, ReadsFacts
  <1>3. ping \in Pings(AnyTtl)
    <2>1. Head(wire[e]) \in Pings(Ttl)
      BY <1>2 DEF Messages, Infos, Others, Heartbeats, Requests, BlockMessages, TransactionMessages
    <2>2. QED
      BY <2>1, ReadOther DEF Others
  <1> HIDE DEF n, ping
  <1>4. plan \in Plans /\ plan'.transactions = plan.transactions
    BY <1>1 DEF Inv, LinkTypes
  <1>5. CASE IsDuplicate(n, ping)
    BY <1>1, <1>2, <1>4, <1>5, MessageStep
       DEF ReceivedPing, n, ping, flooding, Inv, LinkTypes, DataTypes
  <1>6. CASE ~IsDuplicate(n, ping)
    <2>1. /\ SeenMessage(n, ping)
          /\ \/ UNCHANGED <<node, state, guid>>
             \/ ping.address # None /\ Connect(n, address)
          /\ wire' = Flood(Rest(e), n, [ping EXCEPT !.address = address], e)
      BY <1>6 DEF ReceivedPing, n, ping
    <2>2. node[Other(e)] \in Node \cup {None}
      BY OtherEnd DEF Inv, LinkTypes
    <2>3. address \in Node \cup {None} /\ (ping.address # None => address \in Node)
      BY <1>3, <2>2 DEF Pings
    <2> HIDE DEF address
    <2>4. [ping EXCEPT !.address = address] \in Others(AnyTtl, Published)
      <3>1. [ping EXCEPT !.address = address] \in Pings(AnyTtl)
        BY <1>3, <2>3 DEF Pings
      <3>2. QED
        BY <3>1 DEF Others
    <2>5. wire' \in Wires(Published, Unknown, Silent)
      BY <1>2, <2>1, <2>4, FloodWires, InvFacts
    <2>6. DOMAIN seen' = Node /\ \A m \in Node : seen[m] \subseteq seen'[m]
      BY <2>1, SeenGrows DEF Inv, LinkTypes
    <2>7. CASE UNCHANGED <<node, state, guid>>
      BY <1>1, <1>4, <2>5, <2>6, <2>7, MessageStep DEF flooding, Inv, DataTypes
    <2>8. CASE ping.address # None /\ Connect(n, address)
      <3>1. /\ node' \in [End -> Node \cup {None}] /\ state' \in [End -> States]
            /\ guid' \in [End -> Node \cup {None, Garbage}]
            /\ EndsInv' /\ OneLinkPerPeer' /\ Silent' \subseteq Silent /\ Unknown \subseteq Unknown'
        BY <1>2, <2>3, <2>8, ConnectStep DEF Inv
      <3>2. LinkTypes' /\ DataTypes'
        BY <1>1, <2>6, <3>1 DEF flooding, Inv, LinkTypes, DataTypes
      <3>3. QED
        BY <1>4, <2>5, <2>6, <3>1, <3>2, CommonStep DEF flooding
    <2>9. QED
      BY <2>1, <2>7, <2>8
  <1>7. QED
    BY <1>5, <1>6

\* Introductions: a node accepts one only where it has no connection to its
\* sender.
LEMMA ReceivedPeerInfoInv ==
    ASSUME Inv, NEW e \in End, ReceivedPeerInfo(e, chain[node[e]]), UNCHANGED flooding
    PROVE  Inv'
  <1> DEFINE n == node[e]
             g == node[Other(e)]
  <1>1. Reads(e, "info") /\ UNCHANGED <<plan, up, node, lost, seen>>
    BY DEF ReceivedPeerInfo
  <1>2. /\ Rest(e) \in Wires(Published, Unknown \ {e}, Silent)
        /\ Rest(e) \in Wires(Published, Unknown, Silent)
        /\ e \notin Silent /\ n \in Node /\ state[e] \in {"open", "removed"}
    BY <1>1, ReadsFacts
  <1>3. g \in Node \cup {None}
    BY OtherEnd DEF Inv, LinkTypes
  <1>4. CASE g = n \/ HasConnection(n, g)
    <2>1. /\ state' = [state EXCEPT ![e] = "closed"] /\ wire' = Ceased(Rest(e), {e})
          /\ UNCHANGED guid
      BY <1>4 DEF ReceivedPeerInfo, Close
    <2>2. state' \in [End -> States] /\ state \in [End -> States]
      BY <2>1 DEF Inv, LinkTypes, States
    <2>3. EndsInv' /\ OneLinkPerPeer' /\ Silent' \subseteq Silent /\ Unknown' = Unknown
      BY <1>1, <1>2, <2>1, <2>2, EndsKept DEF Early, Inv
    <2>4. wire' \in Wires(Published, Unknown, Silent)
      BY <1>2, <2>1, CeasedWires, InvFacts
    <2>5. QED
      BY <1>1, <2>1, <2>2, <2>3, <2>4, CommonStep DEF Inv, LinkTypes, DataTypes, flooding
  <1>5. CASE ~(g = n \/ HasConnection(n, g))
    <2>1. /\ guid' = [guid EXCEPT ![e] = g] /\ UNCHANGED state
          /\ wire' = Write(Rest(e), {e}, BlockRequest(chain[n]))
      BY <1>5 DEF ReceivedPeerInfo
    <2>2. Silent' = Silent /\ Unknown \ {e} \subseteq Unknown'
      BY <2>1 DEF Silent, Unknown, Inv, LinkTypes
    <2>3. BlockRequest(chain[n]) \in Others(AnyTtl, Published)
      <3>1. BlockRequest(chain[n]) \in Requests(AnyTtl)
        BY <1>2, Ttls DEF BlockRequest, Requests, Inv, DataTypes
      <3>2. QED
        BY <3>1 DEF Others
    <2>4. \A f \in Silent : Other(f) \notin {e}
      BY <1>2, InvFacts
    <2>5. wire' \in Wires(Published, Unknown \ {e}, Silent)
      BY <1>2, <2>1, <2>3, <2>4, WriteWires, InvFacts
    <2>6. HandledInv' /\ Published' = Published
      BY <1>1, HandledKept DEF flooding, Inv, LinkTypes
    <2>7. WireInv'
      BY <2>2, <2>5, <2>6, WiresWeaken DEF WireInv
    <2>8. EndsInv'
      <3>1. Silent \subseteq Unknown \ {e}
        BY <1>2 DEF Inv, EndsInv
      <3>2. QED
        BY <1>1, <1>2, <2>1, <2>2, <3>1 DEF EndsInv, Early, Inv, LinkTypes
    <2>9. OneLinkPerPeer'
      <3>1. \A f \in End : state[f] = "open" /\ node[f] = n => guid[f] # g
        BY <1>5 DEF HasConnection, Connections
      <3>2. QED
        BY <1>1, <2>1, <3>1 DEF OneLinkPerPeer, Inv, LinkTypes
    <2>10. LinkTypes' /\ DataTypes'
      BY <1>1, <1>3, <2>1 DEF Inv, LinkTypes, DataTypes, flooding
    <2>11. QED
      BY <2>6, <2>7, <2>8, <2>9, <2>10 DEF Inv
  <1>6. QED
    BY <1>4, <1>5

\* Heartbeats, and connections that fail.
LEMMA ErrorInv ==
    ASSUME Inv, NEW e \in End, SendHeartbeat(e) \/ ReadFails(e) \/ WriteFails(e),
           UNCHANGED flooding
    PROVE  Inv'
  <1>1. CASE SendHeartbeat(e)
    <2>1. /\ state[e] = "open" /\ wire' = Write(wire, {e}, Heartbeat)
          /\ UNCHANGED <<plan, up, node, state, guid, lost, seen>>
      BY <1>1 DEF SendHeartbeat
    <2>2. Heartbeat \in Others(AnyTtl, Published)
      BY Ttls DEF Heartbeat, Heartbeats, Others
    <2>3. \A f \in Silent : Other(f) \notin {e}
      BY <2>1, InvFacts
    <2>4. wire' \in Wires(Published, Unknown, Silent)
      BY <2>1, <2>2, <2>3, WriteWires, InvFacts
    <2>5. QED
      BY <2>1, <2>4, MessageStep DEF Inv, LinkTypes, DataTypes, flooding
  <1>2. CASE ReadFails(e) \/ WriteFails(e)
    <2>1. /\ state[e] = "open" /\ state' = [state EXCEPT ![e] = "removed"]
          /\ UNCHANGED <<plan, up, node, guid, wire, lost, seen>>
      BY <1>2 DEF ReadFails, WriteFails, RemoveConnection
    <2>2. state' \in [End -> States] /\ state \in [End -> States]
      BY <2>1 DEF Inv, LinkTypes, States
    <2>3. EndsInv' /\ OneLinkPerPeer' /\ Silent' \subseteq Silent /\ Unknown' = Unknown
      BY <2>1, <2>2, EndsKept DEF Early, Inv
    <2>4. QED
      BY <2>1, <2>2, <2>3, CommonStep, InvFacts DEF Inv, LinkTypes, DataTypes, flooding
  <1>3. QED
    BY <1>1, <1>2

\* Links that break.
LEMMA LoseInv ==
    ASSUME Inv, NEW l \in Link, Lose(l), UNCHANGED flooding
    PROVE  Inv'
  <1>1. /\ plan.losses > 0 /\ plan' = [plan EXCEPT !.losses = @ - 1]
        /\ lost' = lost \cup {l} /\ wire' = Ceased(wire, {l} \X {"out", "in"})
        /\ UNCHANGED <<up, node, state, guid, seen>>
    BY DEF Lose
  <1>2. plan' \in Plans /\ plan'.transactions = plan.transactions
    <2>1. plan \in Plans /\ plan.losses - 1 \in Nat
      BY <1>1 DEF Inv, LinkTypes, Plans
    <2>2. QED
      BY <1>1, <2>1 DEF Plans
  <1>3. wire' \in Wires(Published, Unknown, Silent)
    BY <1>1, CeasedWires, InvFacts
  <1>4. /\ LinkTypes' /\ DataTypes' /\ EndsInv' /\ OneLinkPerPeer'
        /\ Silent' = Silent /\ Unknown' = Unknown
    BY <1>1, <1>2
       DEF Inv, LinkTypes, DataTypes, EndsInv, OneLinkPerPeer, Silent, Unknown, flooding
  <1>5. QED
    BY <1>1, <1>2, <1>3, <1>4, CommonStep DEF flooding

\* Processes that end.
LEMMA ShutdownInv ==
    ASSUME Inv, NEW n \in Node, Shutdown(n), UNCHANGED flooding
    PROVE  Inv'
  <1> DEFINE mine == {e \in End : node[e] = n /\ state[e] # "failed"}
  <1>1. /\ up' = up \ {n} /\ UNCHANGED <<node, guid, lost, seen>>
        /\ plan' = [plan EXCEPT !.stops = @ \ {n}, !.calls[n] = <<>>]
        /\ state' = [e \in End |-> IF e \in mine THEN "closed" ELSE state[e]]
        /\ wire' = Ceased(wire, mine)
    BY DEF Shutdown
  <1>2. plan' \in Plans /\ plan'.transactions = plan.transactions
    BY <1>1, EmptySeq DEF Inv, LinkTypes, Plans
  <1>3. \A e \in mine : state[e] # "unmade"
    BY DEF Inv, EndsInv
  <1>4. state' \in [End -> States]
    BY <1>1 DEF Inv, LinkTypes, States
  <1>5. EndsInv' /\ OneLinkPerPeer' /\ Silent' \subseteq Silent /\ Unknown' = Unknown
    BY <1>1, <1>3, <1>4, EndsKept DEF Early, Inv
  <1>6. wire' \in Wires(Published, Unknown, Silent)
    BY <1>1, CeasedWires, InvFacts
  <1>7. QED
    BY <1>1, <1>2, <1>4, <1>5, <1>6, CommonStep DEF Inv, LinkTypes, DataTypes, flooding

-----------------------------------------------------------------------------
(* The steps of Flooding *)

\* What a node may handle: it has not yet, and if it does not publish it,
\* another node has.
LEMMA HandleStep ==
    ASSUME Inv, NEW n \in Node, NEW tx \in Transactions, Handle(n, tx)
    PROVE  /\ handled' \in [Node -> [Transactions -> Nat]]
           /\ Published' = Published \cup {tx}
           /\ \A m \in Node, u \in Transactions :
                handled'[m][u] = IF m = n /\ u = tx THEN handled[n][tx] + 1 ELSE handled[m][u]
  <1>1. handled \in [Node -> [Transactions -> Nat]]
    BY DEF Inv, DataTypes
  <1>2. handled' = [handled EXCEPT ![n] = [handled[n] EXCEPT ![tx] = handled[n][tx] + 1]]
    BY DEF Handle
  <1>3. \A m \in Node, u \in Transactions :
          handled'[m][u] = IF m = n /\ u = tx THEN handled[n][tx] + 1 ELSE handled[m][u]
    BY <1>1, <1>2
  <1>4. handled' \in [Node -> [Transactions -> Nat]]
    BY <1>1, <1>2
  <1>5. \A m \in Node, u \in Transactions : handled[m][u] \in Nat
    BY <1>1
  <1>6. Published' = Published \cup {tx}
    BY <1>3, <1>5 DEF Published
  <1>7. QED
    BY <1>3, <1>4, <1>6

\* Transactions that are published.
LEMMA PublishTransactionInv ==
    ASSUME Inv, NEW n \in Node, NEW tx \in Transactions, PublishTransaction(n, tx)
    PROVE  Inv' /\ handled[n][tx] = 0 /\ tx \notin Published
  <1>1. /\ tx \in plan.transactions[n] /\ SeenMessage(n, TransactionMessage(tx)) /\ Handle(n, tx)
        /\ plan' = [plan EXCEPT !.transactions[n] = @ \ {tx}]
        /\ wire' = Flood(wire, n, TransactionMessage(tx), None)
        /\ UNCHANGED <<up, node, state, guid, lost, chain, own>>
    BY DEF PublishTransaction
  <1>2. /\ plan \in Plans /\ plan' \in Plans
        /\ \A m \in Node : plan'.transactions[m] =
              IF m = n THEN plan.transactions[n] \ {tx} ELSE plan.transactions[m]
    BY <1>1 DEF Inv, LinkTypes, Plans
  <1>3. tx \notin Published /\ handled[n][tx] = 0
    <2>1. tx \notin Published
      BY <1>1 DEF Inv, HandledInv
    <2>2. handled[n][tx] \in Nat
      BY DEF Inv, DataTypes
    <2>3. QED
      BY <2>1, <2>2 DEF Published
  <1>4. /\ handled' \in [Node -> [Transactions -> Nat]] /\ Published' = Published \cup {tx}
        /\ \A m \in Node, u \in Transactions :
             handled'[m][u] = IF m = n /\ u = tx THEN handled[n][tx] + 1 ELSE handled[m][u]
    BY <1>1, HandleStep
  <1>5. TransactionMessage(tx) \in Others(AnyTtl, Published')
    <2>1. TransactionMessage(tx) \in TransactionMessages(AnyTtl, Published')
      <3>1. tx \in Published' /\ Infinite \in AnyTtl
        BY <1>4, Ttls
      <3>2. QED
        BY <3>1 DEF TransactionMessage, TransactionMessages
    <2>2. QED
      BY <2>1 DEF Others
  <1>6. wire \in Wires(Published', Unknown, Silent)
    BY <1>4, WiresWeaken, InvFacts
  <1>7. wire' \in Wires(Published', Unknown, Silent)
    BY <1>1, <1>5, <1>6, FloodWires, InvFacts
  <1>8. Unknown' = Unknown /\ Silent' = Silent
    BY <1>1 DEF Unknown, Silent
  <1>9. DOMAIN seen' = Node /\ tx \in seen'[n] /\ \A m \in Node : seen[m] \subseteq seen'[m]
    BY <1>1, SeenGrows, FloodingAssumption DEF Inv, LinkTypes, TransactionMessage
  <1>10. HandledInv'
    <2>1. \A m \in Node, u \in Transactions : handled'[m][u] > 0 => u \in seen'[m]
      BY <1>4, <1>9 DEF Inv, HandledInv
    <2>2. \A m \in Node : \A u \in plan'.transactions[m] :
            u \notin Published' /\ \A k \in Node \ {m} : u \notin plan'.transactions[k]
      BY <1>1, <1>2, <1>4 DEF Inv, HandledInv
    <2>3. QED
      BY <2>1, <2>2 DEF HandledInv
  <1>11. LinkTypes' /\ DataTypes' /\ EndsInv' /\ OneLinkPerPeer'
    BY <1>1, <1>2, <1>4, <1>8, <1>9 DEF Inv, LinkTypes, DataTypes, EndsInv, OneLinkPerPeer
  <1>12. QED
    BY <1>3, <1>7, <1>8, <1>10, <1>11 DEF Inv, WireInv

\* Transactions that are received.
LEMMA ReceivedTransactionInv ==
    ASSUME Inv, NEW e \in End, ReceivedTransaction(e)
    PROVE  /\ Inv'
           /\ \/ UNCHANGED handled
              \/ \E tx \in Published : Handle(node[e], tx) /\ handled[node[e]][tx] = 0
  <1> DEFINE n == node[e]
             msg == ReadMessage(Head(wire[e]))
  <1>1. Reads(e, "transaction") /\ UNCHANGED <<plan, up, node, state, guid, lost, chain, own>>
    BY DEF ReceivedTransaction
  <1>2. /\ Head(wire[e]) \in Messages(Ttl, Published) /\ Head(wire[e]).kind = "transaction"
        /\ Rest(e) \in Wires(Published, Unknown, Silent) /\ n \in Node
    BY <1>1, ReadsFacts
  <1>3. msg \in Others(AnyTtl, Published) /\ msg.tx \in Published /\ msg.id = msg.tx
    <2>1. Head(wire[e]) \in TransactionMessages(Ttl, Published)
      BY <1>2 DEF Messages, Infos, Others, Heartbeats, Requests, BlockMessages, Pings
    <2>2. msg \in Others(AnyTtl, Published)
      BY <2>1, ReadOther DEF Others
    <2>3. msg.tx \in Published /\ msg.id = msg.tx
      BY <2>1 DEF TransactionMessages, ReadMessage
    <2>4. QED
      BY <2>2, <2>3
  <1> HIDE DEF n, msg
  <1>4. CASE IsDuplicate(n, msg)
    <2>1. wire' = Rest(e) /\ UNCHANGED <<seen, handled>>
      BY <1>4 DEF ReceivedTransaction, n, msg
    <2>2. QED
      BY <1>1, <1>2, <2>1, MessageStep DEF Inv, LinkTypes, DataTypes
  <1>5. CASE ~IsDuplicate(n, msg)
    <2>1. SeenMessage(n, msg) /\ Handle(n, msg.tx) /\ wire' = Flood(Rest(e), n, msg, e)
      BY <1>5 DEF ReceivedTransaction, n, msg
    <2>2. msg.tx \in Transactions /\ msg.tx # None
      BY <1>3, FloodingAssumption DEF Published
    <2>3. handled[n][msg.tx] = 0
      <3>1. handled[n][msg.tx] \in Nat /\ ~(handled[n][msg.tx] > 0)
        BY <1>2, <1>3, <1>5, <2>2 DEF IsDuplicate, Inv, HandledInv, DataTypes
      <3>2. QED
        BY <3>1
    <2>4. /\ handled' \in [Node -> [Transactions -> Nat]] /\ Published' = Published
          /\ \A m \in Node, u \in Transactions : handled'[m][u] =
                IF m = n /\ u = msg.tx THEN handled[n][msg.tx] + 1 ELSE handled[m][u]
      <3>1. /\ handled' \in [Node -> [Transactions -> Nat]] /\ Published' = Published \cup {msg.tx}
            /\ \A m \in Node, u \in Transactions : handled'[m][u] =
                  IF m = n /\ u = msg.tx THEN handled[n][msg.tx] + 1 ELSE handled[m][u]
        BY <1>2, <2>1, <2>2, HandleStep
      <3>2. QED
        BY <1>3, <3>1
    <2>5. wire' \in Wires(Published, Unknown, Silent)
      BY <1>2, <1>3, <2>1, FloodWires, InvFacts
    <2>6. DOMAIN seen' = Node /\ msg.tx \in seen'[n] /\ \A m \in Node : seen[m] \subseteq seen'[m]
      BY <1>2, <1>3, <2>1, <2>2, SeenGrows DEF Inv, LinkTypes
    <2>7. HandledInv'
      <3>1. \A m \in Node, u \in Transactions : handled'[m][u] > 0 => u \in seen'[m]
        BY <2>4, <2>6 DEF Inv, HandledInv
      <3>2. QED
        BY <1>1, <2>4, <3>1 DEF Inv, HandledInv
    <2>8. Unknown' = Unknown /\ Silent' = Silent
      BY <1>1 DEF Unknown, Silent
    <2>9. LinkTypes' /\ DataTypes' /\ EndsInv' /\ OneLinkPerPeer'
      BY <1>1, <2>4, <2>6, <2>8 DEF Inv, LinkTypes, DataTypes, EndsInv, OneLinkPerPeer
    <2>10. QED
      BY <1>3, <2>1, <2>3, <2>4, <2>5, <2>7, <2>8, <2>9 DEF Inv, WireInv, n
  <1>6. QED
    BY <1>4, <1>5

\* Blocks that are mined.
LEMMA PublishBlockInv ==
    ASSUME Inv, NEW n \in Node, PublishBlock(n)
    PROVE  Inv'
  <1> DEFINE b == Append(chain[n], n)
             msg == BlockMessage(b, b, Infinite)
  <1>1. /\ plan.blocks[n] > 0 /\ plan' = [plan EXCEPT !.blocks[n] = @ - 1]
        /\ SeenMessage(n, msg) /\ wire' = Flood(wire, n, msg, None)
        /\ own' = [own EXCEPT ![n] = b]
        /\ UNCHANGED <<up, node, state, guid, lost, chain, handled>>
    BY DEF PublishBlock
  <1>2. b \in Seq(Node)
    BY AppendProperties DEF Inv, DataTypes
  <1> HIDE DEF b
  <1>3. msg \in Others(AnyTtl, Published)
    <2>1. msg \in BlockMessages(AnyTtl)
      BY <1>2, Ttls DEF BlockMessage, BlockMessages
    <2>2. QED
      BY <2>1 DEF Others
  <1>4. plan' \in Plans /\ plan'.transactions = plan.transactions
    <2>1. plan \in Plans /\ plan.blocks[n] - 1 \in Nat
      BY <1>1 DEF Inv, LinkTypes, Plans
    <2>2. QED
      BY <1>1, <2>1 DEF Plans
  <1>5. wire' \in Wires(Published, Unknown, Silent)
    BY <1>1, <1>3, FloodWires, InvFacts
  <1>6. DOMAIN seen' = Node /\ \A m \in Node : seen[m] \subseteq seen'[m]
    BY <1>1, SeenGrows DEF Inv, LinkTypes
  <1>7. QED
    BY <1>1, <1>2, <1>4, <1>5, <1>6, MessageStep DEF Inv, DataTypes

\* A node's chain stays one, whatever block it gets.
LEMMA ReceivedType ==
    ASSUME Inv, NEW n \in Node, NEW b \in Seq(Node)
    PROVE  Received(n, b) \in Seq(Node)
  BY DEF Received, Inv, DataTypes

\* Own blocks that are added.
LEMMA DistributeOwnInv ==
    ASSUME Inv, NEW n \in Node, DistributeOwn(n)
    PROVE  Inv'
  <1>1. /\ chain' = [chain EXCEPT ![n] = Received(n, own[n])]
        /\ own' = [own EXCEPT ![n] = <<>>]
        /\ UNCHANGED <<connections, handled>>
    BY DEF DistributeOwn
  <1>2. Received(n, own[n]) \in Seq(Node) /\ <<>> \in Seq(Node)
    BY ReceivedType, EmptySeq DEF Inv, DataTypes
  <1>3. chain' \in [Node -> Seq(Node)] /\ own' \in [Node -> Seq(Node)]
    BY <1>1, <1>2 DEF Inv, DataTypes
  <1>4. QED
    BY <1>1, <1>3, MessageStep, InvFacts DEF Inv, LinkTypes, connections

\* Blocks that are received.
LEMMA ReceivedBlockInv ==
    ASSUME Inv, NEW e \in End, ReceivedBlock(e)
    PROVE  Inv'
  <1> DEFINE n == node[e]
             msg == ReadMessage(Head(wire[e]))
  <1>1. Reads(e, "block") /\ UNCHANGED <<plan, up, node, state, guid, lost, own, handled>>
    BY DEF ReceivedBlock
  <1>2. /\ Head(wire[e]) \in Messages(Ttl, Published) /\ Head(wire[e]).kind = "block"
        /\ Rest(e) \in Wires(Published, Unknown, Silent) /\ n \in Node
    BY <1>1, ReadsFacts
  <1>3. msg \in Others(AnyTtl, Published) /\ msg.block \in Seq(Node)
    <2>1. Head(wire[e]) \in BlockMessages(Ttl)
      BY <1>2 DEF Messages, Infos, Others, Heartbeats, Requests, Pings, TransactionMessages
    <2>2. msg \in Others(AnyTtl, Published)
      BY <2>1, ReadOther DEF Others
    <2>3. msg.block \in Seq(Node)
      BY <2>1 DEF BlockMessages, ReadMessage
    <2>4. QED
      BY <2>2, <2>3
  <1> HIDE DEF n, msg
  <1>4. CASE IsDuplicate(n, msg)
    <2>1. wire' = Rest(e) /\ UNCHANGED <<seen, chain>>
      BY <1>4 DEF ReceivedBlock, n, msg
    <2>2. QED
      BY <1>1, <1>2, <2>1, MessageStep DEF Inv, LinkTypes, DataTypes
  <1>5. CASE ~IsDuplicate(n, msg)
    <2>1. /\ SeenMessage(n, msg) /\ wire' = Flood(Rest(e), n, msg, e)
          /\ chain' = [chain EXCEPT ![n] = Received(n, msg.block)]
      BY <1>5 DEF ReceivedBlock, n, msg
    <2>2. chain' \in [Node -> Seq(Node)]
      BY <1>2, <1>3, <2>1, ReceivedType DEF Inv, DataTypes
    <2>3. wire' \in Wires(Published, Unknown, Silent)
      BY <1>2, <1>3, <2>1, FloodWires, InvFacts
    <2>4. DOMAIN seen' = Node /\ \A m \in Node : seen[m] \subseteq seen'[m]
      BY <2>1, SeenGrows DEF Inv, LinkTypes
    <2>5. QED
      BY <1>1, <2>2, <2>3, <2>4, MessageStep DEF Inv, LinkTypes, DataTypes
  <1>6. QED
    BY <1>4, <1>5

\* The blocks of an answer are chains, and each is written as a message.
LEMMA AnswerType ==
    ASSUME Inv, NEW n \in Node, NEW b \in Seq(Node), ContainsBlock(n, b)
    PROVE  LET blocks == BlocksAfter(n, b)
           IN  [i \in DOMAIN blocks |-> Stamped(BlockMessage(blocks[i], None, NotSet), 1)]
                    \in Seq(Others(Ttl, Published))
  <1> DEFINE blocks == BlocksAfter(n, b)
             k == Len(chain[n]) - Len(b)
  <1>1. chain[n] \in Seq(Node) /\ Len(b) <= Len(chain[n]) /\ Len(b) \in Nat /\ Len(chain[n]) \in Nat
    BY LenProperties DEF ContainsBlock, IsPrefix, Inv, DataTypes
  <1>2. k \in Nat
    BY <1>1
  <1> HIDE DEF k
  <1>3. DOMAIN blocks = 1 .. k
    BY DEF BlocksAfter, k
  <1>4. ASSUME NEW i \in 1 .. k PROVE blocks[i] \in Seq(Node)
    <2>1. \A j \in 1 .. Len(b) + i : chain[n][j] \in Node
      BY <1>1, <1>2, ElementOfSeq DEF k
    <2>2. SubSeq(chain[n], 1, Len(b) + i) \in Seq(Node)
      BY <1>1, <2>1, SubSeqProperties
    <2>3. QED
      BY <2>2 DEF BlocksAfter, k
  <1> HIDE DEF blocks
  <1>5. ASSUME NEW i \in 1 .. k
        PROVE  Stamped(BlockMessage(blocks[i], None, NotSet), 1) \in Others(Ttl, Published)
    <2>1. Stamped(BlockMessage(blocks[i], None, NotSet), 1) \in BlockMessages(Ttl)
      BY <1>4, Ttls DEF Stamped, BlockMessage, BlockMessages
    <2>2. QED
      BY <2>1 DEF Others
  <1>6. [i \in 1 .. k |-> Stamped(BlockMessage(blocks[i], None, NotSet), 1)]
            \in Seq(Others(Ttl, Published))
    BY <1>2, <1>5, IsASeq
  <1>7. QED
    BY <1>3, <1>6 DEF blocks

\* Blocks that are asked for.
LEMMA ReceivedBlockRequestInv ==
    ASSUME Inv, NEW e \in End, ReceivedBlockRequest(e)
    PROVE  Inv'
  <1> DEFINE n == node[e]
             b == Head(wire[e]).block
             f == Other(e)
             blocks == BlocksAfter(n, b)
             answer == [i \in DOMAIN blocks |-> Stamped(BlockMessage(blocks[i], None, NotSet), 1)]
  <1>1. /\ Reads(e, "request")
        /\ UNCHANGED <<plan, up, node, state, guid, lost, seen, chain, own, handled>>
    BY DEF ReceivedBlockRequest
  <1>2. /\ Head(wire[e]) \in Messages(Ttl, Published) /\ Head(wire[e]).kind = "request"
        /\ Rest(e) \in Wires(Published, Unknown, Silent) /\ n \in Node
        /\ state[e] \in {"open", "removed"}
    BY <1>1, ReadsFacts
  <1>3. b \in Seq(Node)
    <2>1. Head(wire[e]) \in Requests(Ttl)
      BY <1>2 DEF Messages, Infos, Others, Heartbeats, BlockMessages, Pings, TransactionMessages
    <2>2. QED
      BY <2>1 DEF Requests
  <1>4. f \in End /\ Other(f) = e
    BY OtherEnd
  <1>5. f \notin Silent
    BY <1>2, <1>4, InvFacts
  <1>6. wire' \in Wires(Published, Unknown, Silent)
    <2>1. CASE ~ContainsBlock(n, b) \/ answer = <<>>
      BY <1>2, <2>1 DEF ReceivedBlockRequest
    <2>2. CASE ~(~ContainsBlock(n, b) \/ answer = <<>>)
      <3>1. answer \in Seq(Others(Ttl, Published))
        BY <1>2, <1>3, <2>2, AnswerType
      <3>2. wire' = [Rest(e) EXCEPT ![f] = IF Unreachable(f) THEN <<Heartbeat>> ELSE @ \o answer]
        BY <2>2 DEF ReceivedBlockRequest
      <3> DEFINE w == Rest(e)
      <3> HIDE DEF answer, f, w
      <3>3. /\ w \in [End -> Ordered(Published)]
            /\ \A g \in End \ Unknown : w[g] \in Seq(Others(Ttl, Published))
            /\ \A g \in Silent : w[g] = <<>>
        BY <1>2, WiresOrdered DEF w
      <3>4. /\ w[f] \o answer \in Ordered(Published)
            /\ f \notin Unknown => w[f] \o answer \in Seq(Others(Ttl, Published))
        BY <1>4, <3>1, <3>3, ConcatOrdered, ConcatProperties
      <3>5. wire' = [g \in End |-> IF g = f THEN IF Unreachable(f) THEN <<Heartbeat>>
                                                ELSE w[f] \o answer
                                   ELSE w[g]]
        BY <3>2, <3>3 DEF w
      <3>6. \A g \in End : /\ wire'[g] \in Ordered(Published)
                           /\ g \notin Unknown => wire'[g] \in Seq(Others(Ttl, Published))
        BY <3>3, <3>4, <3>5, HeartbeatWire
      <3>7. \A g \in Silent : wire'[g] = <<>>
        BY <1>5, <3>3, <3>5 DEF Silent
      <3>8. wire' \in [End -> Ordered(Published)]
        BY <3>5, <3>6
      <3>9. QED
        BY <3>6, <3>7, <3>8, WiresOrdered
    <2>3. QED
      BY <2>1, <2>2
  <1>7. QED
    BY <1>1, <1>6, MessageStep DEF Inv, LinkTypes, DataTypes

-----------------------------------------------------------------------------
(* Theorems *)

\* Every step keeps the invariant.
LEMMA InvStep == Inv /\ [Next]_vars => Inv'
  <1> SUFFICES ASSUME Inv, [Next]_vars PROVE Inv'
    OBVIOUS
  <1>1. CASE UNCHANGED vars
    BY <1>1 DEF vars, connections, flooding, Inv, LinkTypes, DataTypes, WireInv, EndsInv,
       OneLinkPerPeer, HandledInv, Published, Unknown, Silent
  <1>2. CASE Progress
    <2>1. ASSUME NEW e \in End, EndStep(e), UNCHANGED flooding PROVE Inv'
      BY <2>1, ReceivedPeerInfoInv, ReceivedPingInv, ErrorInv DEF EndStep
    <2>2. QED
      BY <1>2, <2>1, ConnectInitialInv, LinkStepInv, ReceivedTransactionInv, ReceivedBlockInv,
         ReceivedBlockRequestInv, DistributeOwnInv DEF Progress
  <1>3. CASE Disturbance
    BY <1>3, SendPingInv, ShutdownInv, LoseInv, PublishBlockInv, PublishTransactionInv
       DEF Disturbance
  <1>4. QED
    BY <1>1, <1>2, <1>3 DEF Next

\* The invariant holds always.
LEMMA Invariance == Spec => []Inv
  BY InvInit, InvStep, PTL DEF Spec

\* Every variable keeps its type, for any number of nodes and links, and a
\* message on its way has a TTL that is set and in range.
THEOREM NetworkTypes == Spec => []TypeOK
  <1>1. Inv => TypeOK
    <2> SUFFICES ASSUME Inv PROVE TypeOK
      OBVIOUS
    <2>1. ASSUME NEW msg \in Messages(Ttl, Published) PROVE msg.ttl \in Ttl
      BY DEF Messages, Infos, Others, Heartbeats, Pings, Requests, BlockMessages,
         TransactionMessages
    <2>2. ASSUME NEW e \in End, NEW i \in 1 .. Len(wire[e]) PROVE wire[e][i].ttl \in Ttl
      <3>1. wire[e] \in Seq(Messages(Ttl, Published))
        BY DEF Inv, WireInv, Wires
      <3>2. QED
        BY <2>1, <3>1, ElementOfSeq
    <2>3. QED
      BY <2>2 DEF TypeOK, Ttl, Inv, LinkTypes, DataTypes, States
  <1>2. QED
    BY <1>1, Invariance, PTL

\* A node never has two connections to a peer it knows, however calls, pings
\* and losses interleave.
THEOREM OneLink == Spec => []OneLinkPerPeer
  <1>1. Inv => OneLinkPerPeer
    BY DEF Inv
  <1>2. QED
    BY <1>1, Invariance, PTL

\* Only a lost link or the end of a process takes a link from two ends that
\* know each other.
LEMMA KnownStep ==
    ASSUME Inv, Next, NEW l \in Link, Linked(l), ~Linked(l)'
    PROVE  l \in lost \/ \E e \in {l} \X {"out", "in"} : node[e] \notin up'
  <1> DEFINE Ends == {l} \X {"out", "in"}
  <1>1. /\ Ends \subseteq End /\ \A e \in Ends : Other(e) \in Ends /\ e[1] = l
        /\ \A e \in End : e[1] = l => e \in Ends
    BY DEF End, Other
  <1>2. \A e \in Ends : state[e] = "open" /\ guid[e] \in Node
    BY DEF Linked
  <1>3. PICK e \in Ends : ~(state'[e] = "open" /\ guid'[e] \in Node)
    BY DEF Linked
  <1> HIDE DEF Ends
  <1>4. state \in [End -> States] /\ guid \in [End -> Node \cup {None, Garbage}]
    BY DEF Inv, LinkTypes
  <1>5. state'[e] # state[e] \/ guid'[e] # guid[e]
    BY <1>2, <1>3
  <1>6. ASSUME NEW n \in Node, NEW m \in Node, Connect(n, m) PROVE FALSE
    BY <1>1, <1>2, <1>5, <1>6, ConnectStep DEF Inv
  <1>7. ASSUME NEW k \in Link, LinkStep(k) PROVE FALSE
    <2>1. k # l
      <3>1. <<l, "out">> \in Ends /\ <<l, "in">> \in Ends
        BY DEF Ends
      <3>2. QED
        BY <1>2, <1>7, <3>1 DEF LinkStep, Connected, ConnectFails, Accept
    <2>2. e[1] = l /\ e \in End
      BY <1>1
    <2>3. e # <<k, "out">> /\ e # <<k, "in">> /\ e # Other(<<k, "out">>)
      BY <2>1, <2>2 DEF Other
    <2>4. QED
      BY <1>4, <1>5, <1>7, <2>2, <2>3 DEF LinkStep, Connected, ConnectFails, Accept
  <1>8. ASSUME NEW n \in Node, ConnectInitial(n) PROVE FALSE
    <2>1. plan.calls[n] \in Seq(Node) /\ plan.calls[n] # <<>>
      BY <1>8 DEF ConnectInitial, Inv, LinkTypes, Plans
    <2>2. Head(plan.calls[n]) \in Node
      BY <2>1, HeadTailProperties
    <2>3. QED
      BY <1>5, <1>6, <1>8, <2>2 DEF ConnectInitial
  <1>9. ASSUME NEW f \in End, EndStep(f) PROVE l \in lost
    <2>1. CASE ReceivedPeerInfo(f, chain[node[f]])
      <3>1. Reads(f, "info")
        BY <2>1 DEF ReceivedPeerInfo
      <3>2. e = f
        BY <1>1, <1>4, <1>5, <2>1 DEF ReceivedPeerInfo, Close
      <3>3. f \notin Unknown /\ wire[f] # <<>> /\ Head(wire[f]).kind = "info"
        BY <1>2, <3>1, <3>2 DEF Unknown, Reads
      <3>4. wire[f] \in Seq(Others(Ttl, Published))
        BY <3>3 DEF Inv, WireInv, Wires
      <3>5. Head(wire[f]) \in Others(Ttl, Published)
        BY <3>3, <3>4, HeadTailProperties
      <3>6. QED
        BY <3>3, <3>5 DEF Others, Heartbeats, Pings, Requests, BlockMessages, TransactionMessages
    <2>2. CASE ReceivedPing(f)
      <3>1. Reads(f, "ping")
        BY <2>2 DEF ReceivedPing
      <3>2. Head(wire[f]) \in Messages(Ttl, Published) /\ Head(wire[f]).kind = "ping" /\ node[f] \in Node
        BY <3>1, ReadsFacts
      <3>3. Head(wire[f]) \in Pings(Ttl)
        BY <3>2 DEF Messages, Infos, Others, Heartbeats, Requests, BlockMessages, TransactionMessages
      <3>4. ReadMessage(Head(wire[f])).address \in Node \cup {None}
        BY <3>3 DEF Pings, ReadMessage
      <3>5. QED
        BY <1>5, <1>6, <2>2, <3>2, <3>4 DEF ReceivedPing
    <2>3. CASE SendHeartbeat(f)
      BY <1>5, <2>3 DEF SendHeartbeat
    <2>4. CASE ReadFails(f) \/ WriteFails(f)
      <3>1. e = f
        BY <1>1, <1>4, <1>5, <2>4 DEF ReadFails, WriteFails, RemoveConnection
      <3>2. Other(f) \in Ends /\ f[1] = l /\ Other(f)[1] = l
        BY <1>1, <3>1
      <3>3. QED
        BY <1>2, <2>4, <3>2 DEF ReadFails, WriteFails, Unreachable
    <2>5. QED
      BY <1>9, <2>1, <2>2, <2>3, <2>4 DEF EndStep
  <1>10. CASE \E n \in Node : Shutdown(n)
    <2>1. PICK n \in Node : Shutdown(n)
      BY <1>10
    <2>2. node[e] = n /\ n \notin up'
      BY <1>1, <1>5, <2>1 DEF Shutdown
    <2>3. QED
      BY <2>2 DEF Ends
  <1>11. QED
    BY <1>5, <1>7, <1>8, <1>9, <1>10
       DEF Next, Progress, Disturbance, SendPing, Lose, PublishBlock, PublishTransaction,
       DistributeOwn, ReceivedTransaction, ReceivedBlock, ReceivedBlockRequest, connections

\* A connection that both ends know outlives every call, ping and introduction
\* between the two nodes.
THEOREM KnownConnectionsStay == Spec => KnownStays
  <1>1. Inv /\ [Next]_vars =>
          [\A l \in Link : Linked(l) /\ ~Linked(l)' =>
              l \in lost \/ \E e \in {l} \X {"out", "in"} : node[e] \notin up']_vars
    BY KnownStep
  <1>2. QED
    BY <1>1, Invariance, PTL DEF Spec, KnownStays

\* Every step of the network is a step of Broadcast, or none.
LEMMA BroadcastStep ==
    ASSUME Inv, Next
    PROVE  Abstract!Next \/ UNCHANGED handled
  <1>1. ASSUME NEW n \in Node, NEW tx \in Transactions, handled[n][tx] = 0, Handle(n, tx)
        PROVE  Abstract!Handle(n, tx)
    BY <1>1 DEF Abstract!Handle, Handle, Inv, DataTypes
  <1>2. \A tx \in Transactions : tx \in Published <=> Abstract!Published(tx)
    BY DEF Published, Abstract!Published
  <1>3. CASE \E n \in Node, tx \in Transactions : PublishTransaction(n, tx)
    <2>1. PICK n \in Node, tx \in Transactions : PublishTransaction(n, tx)
      BY <1>3
    <2>2. handled[n][tx] = 0 /\ tx \notin Published /\ Handle(n, tx)
      BY <2>1, PublishTransactionInv DEF PublishTransaction
    <2>3. QED
      BY <1>1, <1>2, <2>2 DEF Abstract!Next, Abstract!Publish
  <1>4. CASE \E e \in End : ReceivedTransaction(e)
    <2>1. PICK e \in End : ReceivedTransaction(e)
      BY <1>4
    <2>2. node[e] \in Node
      BY <2>1, ReadsFacts DEF ReceivedTransaction
    <2>3. UNCHANGED handled \/ \E tx \in Published :
            Handle(node[e], tx) /\ handled[node[e]][tx] = 0
      BY <2>1, ReceivedTransactionInv
    <2>4. Published \subseteq Transactions
      BY DEF Published
    <2>5. QED
      BY <1>1, <1>2, <2>2, <2>3, <2>4 DEF Abstract!Next, Abstract!Deliver
  <1>5. QED
    BY <1>3, <1>4 DEF Next, Progress, Disturbance, flooding, PublishBlock, DistributeOwn,
       ReceivedBlock, ReceivedBlockRequest

\* Flooding implements Broadcast: no node handles a transaction twice or before
\* somebody has published it, whatever links there are, are made or get lost.
THEOREM ImplementsAbstract == Spec => ImplementsBroadcast
  <1>1. Init => Abstract!Init
    BY DEF Init, Abstract!Init
  <1>2. Inv /\ [Next]_vars => [Abstract!Next]_handled
    BY BroadcastStep DEF vars, flooding
  <1>3. QED
    BY <1>1, <1>2, Invariance, PTL DEF Spec, ImplementsBroadcast, Abstract!Spec
=============================================================================
