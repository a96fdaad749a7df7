------------------------------- MODULE Flooding -------------------------------
(***************************************************************************)
(* What the nodes tell each other over their Connections: transactions and *)
(* new blocks, flooded to all (net/protocols/transactions.h, blocks.h),    *)
(* and the blocks a node asks for when it meets another                    *)
(* (BlocksProtocol::ReceivedBlockRequest,                                  *)
(* Controller::receiveBlockRequest).                                       *)
(*                                                                         *)
(* A block is the chain that ends with it, and a chain the sequence of the *)
(* nodes that mined its blocks, so that blocks of the same height by       *)
(* different nodes compete.  Genesis is the empty chain.                   *)
(***************************************************************************)
EXTENDS Connections, SequencesExt

CONSTANT Transactions

Plans ==
    [calls : [Node -> Seq(Node)],       \* whom a node calls, in this order
     limit : Nat,                       \* Settings::GetMaxConnections()
     unset : SUBSET {None, Garbage},    \* what an uninitialized GUID is
     pings : SUBSET Node,               \* bound: one ping of each
     losses : Nat,                      \* bound: links that break
     stops : SUBSET Node,               \* bound: processes that end
     chain : [Node -> Seq(Node)],
     blocks : [Node -> Nat],            \* bound: blocks a node mines
     transactions : [Node -> SUBSET Transactions]]

ASSUME FloodingAssumption ==
    /\ None \notin Transactions
    /\ Situations \subseteq Plans
    /\ \A s \in Situations : \A m, n \in Node :
          m # n => s.transactions[m] \cap s.transactions[n] = {}

VARIABLES
    chain,          \* the chain of each node
    own,            \* a block that is flooded and not yet passed to the own node
    handled,        \* history: how often a node handled a transaction
    due,            \* history: whom a transaction or a height has to reach
    asked,          \* history: the height a node was going to be sent
    called          \* history: calls that nothing stands in the way of

flooding == <<chain, own, handled, due, asked>>
vars == <<connections, flooding, called>>

\* Nothing but one call will make a link between a and b.
OnlyCall(a, b) ==
    /\ a # b /\ b \in Range(plan.calls[a]) /\ a \notin Range(plan.calls[b])
    /\ \A i, j \in DOMAIN plan.calls[a] : plan.calls[a][i] = plan.calls[a][j] => i = j
    /\ plan.limit >= MaxLinks /\ plan.pings = {}

\* Mutant of TransactionMessage: to the neighbours only
ShortMessage(tx) == [kind |-> "transaction", id |-> tx, ttl |-> 1, tx |-> tx]
TransactionMessage(tx) == [kind |-> "transaction", id |-> tx, ttl |-> Infinite, tx |-> tx]
BlockMessage(b, id, ttl) == [kind |-> "block", id |-> id, ttl |-> ttl, block |-> b]

Init ==
    /\ ConnectionsInit
    /\ chain = plan.chain
    /\ own = [n \in Node |-> <<>>]
    /\ handled = [n \in Node |-> [tx \in Transactions |-> 0]]
    /\ due = {}
    /\ asked = {}
    /\ called = {x \in Node \X Node : OnlyCall(x[1], x[2])}

-----------------------------------------------------------------------------
(* Who is reached *)

\* Both ends of the link are connections and know each other.
Linked(l) == \A e \in {l} \X {"out", "in"} : state[e] = "open" /\ guid[e] \in Node

Neighbours(S) ==
    {node[Other(e)] : e \in {f \in End : node[f] \in S /\ Linked(f[1]) /\ f[1] \notin lost}}

\* The nodes of S that n reaches by way of nodes of S: those in every set that
\* is closed under taking neighbours.
Reachable(S, n) ==
    {m \in Node : \A T \in SUBSET Node :
        n \in T /\ Neighbours(T) \cap S \subseteq T => m \in T}

-----------------------------------------------------------------------------
(* Transactions *)

Handle(n, tx) == handled' = [handled EXCEPT ![n][tx] = @ + 1]

\* Mutant of PublishTransaction: does not mark its own message
PublishUnseen(n, tx) ==
    /\ n \in up /\ tx \in plan.transactions[n]
    /\ plan' = [plan EXCEPT !.transactions[n] = @ \ {tx}]
    /\ wire' = Flood(wire, n, TransactionMessage(tx), None)
    /\ Handle(n, tx)
    /\ due' = due \cup {<<m, tx>> : m \in Reachable(Node, n)}
    /\ UNCHANGED <<up, node, state, guid, lost, seen, chain, own, asked>>

PublishTransaction(n, tx) ==
    /\ n \in up /\ tx \in plan.transactions[n]
    /\ plan' = [plan EXCEPT !.transactions[n] = @ \ {tx}]
    /\ SeenMessage(n, TransactionMessage(tx))
    /\ wire' = Flood(wire, n, TransactionMessage(tx), None)
    /\ Handle(n, tx)
    /\ due' = due \cup {<<m, tx>> : m \in Reachable(Node, n)}
    /\ UNCHANGED <<up, node, state, guid, lost, chain, own, asked>>

ReceivedTransaction(e) ==
    LET n == node[e]
        msg == ReadMessage(Head(wire[e]))
    IN  /\ Reads(e, "transaction")
        /\ IF IsDuplicate(n, msg)
           THEN wire' = Rest(e) /\ UNCHANGED <<seen, handled>>
           ELSE /\ SeenMessage(n, msg)
                /\ Handle(n, msg.tx)
                /\ wire' = Flood(Rest(e), n, msg, e)
        /\ UNCHANGED <<plan, up, node, state, guid, lost, chain, own, due, asked>>

-----------------------------------------------------------------------------
(* Blocks *)

\* receiveBlock: a block has to follow the newest one.
Received(n, b) == IF b # <<>> /\ Front(b) = chain[n] THEN b ELSE chain[n]

\* A miner floods its block, then passes it to its own node.
PublishBlock(n) ==
    LET b == Append(chain[n], n)
        msg == BlockMessage(b, b, Infinite)
    IN  /\ n \in up /\ plan.blocks[n] > 0 /\ own[n] = <<>>
        /\ plan' = [plan EXCEPT !.blocks[n] = @ - 1]
        /\ SeenMessage(n, msg)
        /\ wire' = Flood(wire, n, msg, None)
        /\ own' = [own EXCEPT ![n] = b]
        /\ due' = due \cup {<<m, Len(b)>> :
                            m \in Reachable({k \in Node : chain[k] = chain[n]}, n)}
        /\ UNCHANGED <<up, node, state, guid, lost, chain, handled, asked>>

DistributeOwn(n) ==
    /\ n \in up /\ own[n] # <<>>
    /\ chain' = [chain EXCEPT ![n] = Received(n, own[n])]
    /\ own' = [own EXCEPT ![n] = <<>>]
    /\ UNCHANGED <<connections, handled, due, asked>>

ReceivedBlock(e) ==
    LET n == node[e]
        msg == ReadMessage(Head(wire[e]))
    IN  /\ Reads(e, "block")
        /\ IF IsDuplicate(n, msg)
           THEN wire' = Rest(e) /\ UNCHANGED <<seen, chain>>
           ELSE /\ SeenMessage(n, msg)
                /\ chain' = [chain EXCEPT ![n] = Received(n, msg.block)]
                /\ wire' = Flood(Rest(e), n, msg, e)
        /\ UNCHANGED <<plan, up, node, state, guid, lost, own, handled, due, asked>>

\* receiveBlockRequest: genesis is no block a chain contains.  The answer
\* begins with the block that was asked about, which is not sent.
ContainsBlock(n, b) == b # <<>> /\ IsPrefix(b, chain[n])

\* Mutant of BlocksAfter: from the newest block back
BlocksBefore(n, b) == [i \in 1 .. Len(chain[n]) - Len(b) |-> SubSeq(chain[n], 1, Len(chain[n]) + 1 - i)]

\* Controller::receiveBlockRequest (getAllBlocks)
BlocksAfter(n, b) == [i \in 1 .. Len(chain[n]) - Len(b) |-> SubSeq(chain[n], 1, Len(b) + i)]

ReceivedBlockRequest(e) ==
    LET n == node[e]
        b == Head(wire[e]).block
        blocks == BlocksAfter(n, b)
        answer == [i \in DOMAIN blocks |-> Stamped(BlockMessage(blocks[i], None, NotSet), 1)]
    IN  /\ Reads(e, "request")
        /\ wire' = IF ~ContainsBlock(n, b) \/ answer = <<>> THEN Rest(e)
                   ELSE [Rest(e) EXCEPT ![Other(e)] =
                            IF Unreachable(Other(e)) THEN <<Heartbeat>> ELSE @ \o answer]
        /\ asked' = IF b = <<>> \/ ~IsPrefix(b, chain[n]) THEN asked
                    ELSE asked \cup {<<node[Other(e)], Len(chain[n])>>}
        /\ UNCHANGED <<plan, up, node, state, guid, lost, seen, chain, own, handled, due>>

-----------------------------------------------------------------------------
(* What happens of itself, and what users, miners and faults do *)

LinkStep(l) == Connected(l) \/ ConnectFails(l) \/ Accept(l)

EndStep(e) ==
    \/ ReceivedPeerInfo(e, chain[node[e]]) \/ ReceivedPing(e)
    \/ SendHeartbeat(e) \/ ReadFails(e) \/ WriteFails(e)

Progress ==
    \/ /\ \/ \E n \in Node : ConnectInitial(n)
          \/ \E l \in Link : LinkStep(l)
          \/ \E e \in End : EndStep(e)
       /\ UNCHANGED flooding
    \/ \E e \in End : ReceivedTransaction(e) \/ ReceivedBlock(e) \/ ReceivedBlockRequest(e)
    \/ \E n \in Node : DistributeOwn(n)

Disturbance ==
    \/ /\ \/ \E n \in Node : SendPing(n) \/ Shutdown(n)
          \/ \E l \in Link : Lose(l)
       /\ UNCHANGED flooding
    \/ \E n \in Node : PublishBlock(n)
    \/ \E n \in Node, tx \in Transactions : PublishTransaction(n, tx)

Next == (Progress \/ Disturbance) /\ UNCHANGED called

Spec == Init /\ [][Next]_vars

\* The io_service runs every handler that is ready, and the threads of the
\* heartbeats and of the miner go on.
FairSpec == Spec /\ WF_vars(Progress /\ UNCHANGED called)

-----------------------------------------------------------------------------
(* Properties *)

\* Type correctness; messages are on their way with a TTL that is set.
TypeOK ==
    /\ up \subseteq Node /\ lost \subseteq Link
    /\ node \in [End -> Node \cup {None}]
    /\ state \in [End -> {"unmade", "connecting", "waiting", "open", "removed", "closed", "failed"}]
    /\ guid \in [End -> Node \cup {None, Garbage}]
    /\ \A e \in End : \A i \in 1 .. Len(wire[e]) :
          wire[e][i].ttl \in {Infinite} \cup 1 .. FloodingTTL
    /\ chain \in [Node -> Seq(Node)] /\ own \in [Node -> Seq(Node)]
    /\ handled \in [Node -> [Transactions -> Nat]]

\* A node has at most one connection to a peer it knows, also while both call
\* each other, pings make connections and lost ones are not noticed yet
\* (ReceivedPeerInfo, HasConnection).
OneLinkPerPeer ==
    \A e, f \in End :
        /\ state[e] = "open" /\ guid[e] \in Node
        /\ state[f] = "open" /\ guid[f] = guid[e] /\ node[f] = node[e]
        => e = f

\* A connection that both ends know stays, whatever other connections between
\* the two are closed; only a lost link or the end of a process ends it.
KnownStays ==
    [][\A l \in Link : Linked(l) /\ ~Linked(l)' =>
          l \in lost \/ \E e \in {l} \X {"out", "in"} : node[e] \notin up']_vars

\* Every link ends up known at both of its ends or given up at both; a lost one
\* is given up by an end that is initialized (heartbeats, errors).
LinksSettle ==
    <>[](\A l \in Link :
        \/ Linked(l) /\ l \notin lost
        \/ \A e \in {l} \X {"out", "in"} :
              state[e] = "open" => l \in lost /\ ~IsInitialized(e))

Faulty == lost # {} \/ up # Node

\* A node that calls another one gets linked with it, if the other does not call
\* back, by itself or for a ping, and both have room.
CallsSucceed ==
    <>[](Faulty \/ \A x \in called :
        \E l \in Link : Linked(l) /\ node[<<l, "out">>] = x[1] /\ node[<<l, "in">>] = x[2])

Has(m, item) == IF item \in Transactions THEN handled[m][item] > 0 ELSE Len(chain[m]) >= item

\* What is published gets to every node that can be reached over links: a
\* transaction to all, a block to those that were level with its miner.
\* (Flood, ReceivedTransaction, ReceivedBlock, the order of messages on links.)
Spread == <>[](Faulty \/ \A x \in due : Has(x[1], x[2]))

\* A node that asks a peer with more blocks gets all of these, while blocks are
\* mined and flooded (ReceivedBlockRequest).
Answered == <>[](Faulty \/ \A x \in asked : Has(x[1], x[2]))

\* The abstract specification, by the number of times a node handled something.
Abstract == INSTANCE Broadcast

\* Flooding implements Broadcast: no node handles a transaction twice, although
\* the links form cycles and messages live for ever.
ImplementsBroadcast == Abstract!Spec
=============================================================================
