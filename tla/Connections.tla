----------------------------- MODULE Connections -----------------------------
(***************************************************************************)
(* The links between nodes: net/connection.*, net/network.*, net/peers.h   *)
(* and the protocols that make and keep them (initialize.h, pingpong.h,    *)
(* heartbeat.h, duplicate.h).  Flooding extends this module by what the    *)
(* nodes exchange over the links.                                          *)
(*                                                                         *)
(* A link is one TCP connection.  Its two ends are two Connection objects, *)
(* each in the process of its node: "out" where Connect was called, "in"   *)
(* where it was accepted.  The handlers of a node run one after the other  *)
(* on the thread of its io_service; initial connects, pings and heartbeats *)
(* come from other threads.  TCP delivers in order; a link may break       *)
(* without notice, which an end learns only when what it has written stays *)
(* unacknowledged.                                                         *)
(***************************************************************************)
EXTENDS Integers, FiniteSets, Sequences

CONSTANTS
    Node,
    None,           \* a nil GUID, an empty address, an id no other message has
    Garbage,        \* what an uninitialized GUID may be
    Situations,     \* who calls, pings, publishes; what may go wrong
    MaxLinks,       \* bound: links ever made
    FloodingTTL     \* Settings::GetFloodingTTL()

Link == 1 .. MaxLinks
End == Link \X {"out", "in"}
Other(e) == <<e[1], IF e[2] = "out" THEN "in" ELSE "out">>

ASSUME ConnectionsAssumption ==
    /\ None \notin Node /\ Garbage \notin Node \cup {None}
    /\ MaxLinks \in Nat /\ FloodingTTL \in Nat \ {0}

VARIABLES
    plan,           \* what is left of the situation
    up,             \* the processes that run
    node,           \* the node of an end
    state,          \* how far an end is
    guid,           \* Connection::guid, by the node that has it
    wire,           \* messages on their way to an end
    lost,           \* the links that are broken
    seen            \* DuplicateProtocol::lastSeen

connections == <<plan, up, node, state, guid, wire, lost, seen>>

-----------------------------------------------------------------------------
(* Peers, and what a connection knows.  An end is unmade, then "connecting"  *)
(* or "waiting" to be accepted, "open" while it is among the connections of  *)
(* its node, "removed" from them after an error, "closed" or "failed".       *)

Connections(n) == {e \in End : node[e] = n /\ state[e] = "open"}
IsInitialized(e) == guid[e] # None
HasEndpoint(n, m) == \E e \in Connections(n) : e[2] = "out" /\ node[Other(e)] = m

\* Mutants of HasConnection: looks at the calls of the node alone; finds the
\* connection that is asked about, too
HasOwnCall(n, g) == \E e \in Connections(n) : e[2] = "out" /\ guid[e] = g
HasAnyLink(n, g) == \E e \in Connections(n) : node[Other(e)] = g

HasConnection(n, g) == \E e \in Connections(n) : guid[e] = g
Full(n) == Cardinality(Connections(n)) >= plan.limit

-----------------------------------------------------------------------------
(* Messages *)

NotSet == -32
Infinite == -64

PeerInfo == [kind |-> "info", id |-> None, ttl |-> NotSet]
Heartbeat == [kind |-> "heartbeat", id |-> None, ttl |-> 1]
Ping(n) == [kind |-> "ping", id |-> <<"ping", n>>, ttl |-> NotSet, address |-> None]
BlockRequest(b) == [kind |-> "request", id |-> None, ttl |-> NotSet, block |-> b]

\* Nothing that is written to this end arrives.
Unreachable(e) == e[1] \in lost \/ state[e] \in {"closed", "failed"}

\* Mutant of Dropped: off by one
DroppedBelow(msg) == msg.ttl \notin {NotSet, Infinite} /\ msg.ttl < 0
Dropped(msg) == msg.ttl \notin {NotSet, Infinite} /\ msg.ttl <= 0
Stamped(msg, ttl) == IF msg.ttl = NotSet THEN [msg EXCEPT !.ttl = ttl] ELSE msg
ReadMessage(msg) == IF msg.ttl = Infinite THEN msg ELSE [msg EXCEPT !.ttl = @ - 1]

\* The wires w after msg is written to the connections E.  What does not arrive
\* only matters as something that is not acknowledged.
Write(w, E, msg) ==
    [e \in End |-> IF Other(e) \notin E \/ Dropped(msg) THEN w[e]
                   ELSE IF Unreachable(e) THEN <<Heartbeat>>
                   ELSE Append(w[e], Stamped(msg, 1))]

Flood(w, n, msg, exclude) ==
    Write(w, {e \in Connections(n) : IsInitialized(e)} \ {exclude}, Stamped(msg, FloodingTTL))

\* The wires w after the ends E are closed, or their links broken.
Ceased(w, E) == [e \in End |-> IF e \in E /\ w[e] # <<>> THEN <<Heartbeat>> ELSE w[e]]

ConnectionsInit ==
    /\ plan \in Situations
    /\ up = Node
    /\ node = [e \in End |-> None]
    /\ state = [e \in End |-> "unmade"]
    /\ guid = [e \in End |-> None]
    /\ wire = [e \in End |-> <<>>]
    /\ lost = {}
    /\ seen = [n \in Node |-> {}]

-----------------------------------------------------------------------------
(* Connecting.  The kernel of the called node completes the connection       *)
(* before either handler runs, so Connected and Accept come in any order.    *)

Unmade == {l \in Link : state[<<l, "out">>] = "unmade"}

Connect(n, m) ==
    \E l \in Unmade :
        /\ \A k \in Unmade : l <= k
        /\ node' = [node EXCEPT ![<<l, "out">>] = n, ![<<l, "in">>] = m]
        /\ state' = [state EXCEPT ![<<l, "out">>] = "connecting",
                                  ![<<l, "in">>] = IF m \in up THEN "waiting" ELSE "failed"]
        /\ \E g, h \in plan.unset : guid' = [guid EXCEPT ![<<l, "out">>] = g, ![<<l, "in">>] = h]

\* The constructor leaves the nodes it calls to main, which goes through the
\* initial peers and logs the exception of Connect.
ConnectInitial(n) ==
    /\ n \in up /\ plan.calls[n] # <<>>
    /\ plan' = [plan EXCEPT !.calls[n] = Tail(@)]
    /\ IF Full(n) THEN UNCHANGED <<node, state, guid>> ELSE Connect(n, Head(plan.calls[n]))
    /\ UNCHANGED <<up, wire, lost, seen>>

\* There is a process at the other side, or was when the connection was made.
Connected(l) ==
    LET e == <<l, "out">>
    IN  /\ state[e] = "connecting" /\ state[Other(e)] # "failed"
        /\ state' = [state EXCEPT ![e] = "open"]
        /\ wire' = Write(wire, {e}, PeerInfo)
        /\ UNCHANGED <<plan, up, node, guid, lost, seen>>

ConnectFails(l) ==
    LET e == <<l, "out">>
    IN  /\ state[e] = "connecting"
        /\ \/ state[Other(e)] = "failed"
           \/ state[Other(e)] = "closed" /\ node[Other(e)] \notin up
        /\ state' = [state EXCEPT ![e] = "failed", ![Other(e)] = "failed"]
        /\ UNCHANGED <<plan, up, node, guid, wire, lost, seen>>

Accept(l) ==
    LET e == <<l, "in">>
    IN  /\ state[e] = "waiting"
        /\ IF Full(node[e])
           THEN /\ state' = [state EXCEPT ![e] = "closed"]
                /\ wire' = Ceased(wire, {e})
           ELSE /\ state' = [state EXCEPT ![e] = "open"]
                /\ wire' = Write(wire, {e}, PeerInfo)
        /\ UNCHANGED <<plan, up, node, guid, lost, seen>>

-----------------------------------------------------------------------------
(* Reading.  A connection that was removed still reads what has arrived.     *)

Reads(e, kind) ==
    /\ state[e] \in {"open", "removed"} /\ e[1] \notin lost
    /\ wire[e] # <<>> /\ Head(wire[e]).kind = kind

Rest(e) == [wire EXCEPT ![e] = Tail(@)]

\* Mutant of Close: closes the connection that was there before, too
CloseAll(e, w) ==
    LET E == {f \in Connections(node[e]) : node[Other(f)] = node[Other(e)]} \cup {e}
    IN  /\ state' = [f \in End |-> IF f \in E THEN "closed" ELSE state[f]]
        /\ wire' = Ceased(w, E)

Close(e, w) ==
    /\ state' = [state EXCEPT ![e] = "closed"]
    /\ wire' = Ceased(w, {e})

\* newest is the newest block of the node.
ReceivedPeerInfo(e, newest) ==
    LET n == node[e]
        g == node[Other(e)]
    IN  /\ Reads(e, "info")
        /\ IF g = n \/ HasConnection(n, g)
           THEN Close(e, Rest(e)) /\ UNCHANGED guid
           ELSE /\ guid' = [guid EXCEPT ![e] = g]
                /\ wire' = Write(Rest(e), {e}, BlockRequest(newest))
                /\ UNCHANGED state
        /\ UNCHANGED <<plan, up, node, lost, seen>>

\* checkDuplicate, with seenMessage.
IsDuplicate(n, msg) == msg.id \in seen[n]
SeenMessage(n, msg) == seen' = [seen EXCEPT ![n] = @ \cup ({msg.id} \ {None})]

SendPing(n) ==
    /\ n \in up \cap plan.pings /\ ~Full(n)
    /\ plan' = [plan EXCEPT !.pings = @ \ {n}]
    /\ SeenMessage(n, Ping(n))
    /\ wire' = Flood(wire, n, Ping(n), None)
    /\ UNCHANGED <<up, node, state, guid, lost>>

ReceivedPing(e) ==
    LET n == node[e]
        ping == ReadMessage(Head(wire[e]))
        address == IF ping.address = None THEN node[Other(e)] ELSE ping.address
    IN  /\ Reads(e, "ping")
        /\ IF IsDuplicate(n, ping)
           THEN wire' = Rest(e) /\ UNCHANGED <<node, state, guid, seen>>
           ELSE /\ SeenMessage(n, ping)
                /\ IF ping.address = None \/ HasEndpoint(n, address) \/ Full(n)
                   THEN UNCHANGED <<node, state, guid>>
                   ELSE Connect(n, address)
                /\ wire' = Flood(Rest(e), n, [ping EXCEPT !.address = address], e)
        /\ UNCHANGED <<plan, up, lost>>

-----------------------------------------------------------------------------
(* Errors.  A heartbeat that arrives has no handler and no effect.           *)

\* Mutant of SendHeartbeat: leaves it to the caller
SendHeartbeatOut(e) ==
    /\ state[e] = "open" /\ IsInitialized(e) /\ e[2] = "out"
    /\ Unreachable(Other(e)) /\ wire[Other(e)] = <<>>
    /\ wire' = Write(wire, {e}, Heartbeat)
    /\ UNCHANGED <<plan, up, node, state, guid, lost, seen>>

SendHeartbeat(e) ==
    /\ state[e] = "open" /\ IsInitialized(e)
    /\ Unreachable(Other(e)) /\ wire[Other(e)] = <<>>
    /\ wire' = Write(wire, {e}, Heartbeat)
    /\ UNCHANGED <<plan, up, node, state, guid, lost, seen>>

RemoveConnection(e) ==
    /\ state' = [state EXCEPT ![e] = "removed"]
    /\ UNCHANGED <<plan, up, node, guid, wire, lost, seen>>

ReadFails(e) ==
    /\ state[e] = "open" /\ wire[e] = <<>>
    /\ state[Other(e)] = "closed" /\ e[1] \notin lost
    /\ RemoveConnection(e)

WriteFails(e) ==
    /\ state[e] = "open"
    /\ Unreachable(Other(e)) /\ wire[Other(e)] # <<>>
    /\ RemoveConnection(e)

Lose(l) ==
    /\ plan.losses > 0 /\ l \notin lost
    /\ \E e \in {l} \X {"out", "in"} : state[e] = "open"
    /\ plan' = [plan EXCEPT !.losses = @ - 1]
    /\ lost' = lost \cup {l}
    /\ wire' = Ceased(wire, {l} \X {"out", "in"})
    /\ UNCHANGED <<up, node, state, guid, seen>>

\* The user ends the program (Shutdown), or the process dies: its sockets close.
Shutdown(n) ==
    LET mine == {e \in End : node[e] = n /\ state[e] # "failed"}
    IN  /\ n \in up \cap plan.stops
        /\ up' = up \ {n}
        /\ plan' = [plan EXCEPT !.stops = @ \ {n}, !.calls[n] = <<>>]
        /\ state' = [e \in End |-> IF e \in mine THEN "closed" ELSE state[e]]
        /\ wire' = Ceased(wire, mine)
        /\ UNCHANGED <<node, guid, lost, seen>>
=============================================================================
