------------------------------ MODULE Broadcast ------------------------------
(***************************************************************************)
(* What flooding promises of a transaction: no node handles it twice, and  *)
(* none handles what nobody has published.                                 *)
(***************************************************************************)
EXTENDS Naturals

CONSTANTS Node, Transactions

VARIABLE handled        \* how often a node has handled a transaction

Init == handled = [n \in Node |-> [tx \in Transactions |-> 0]]

Published(tx) == \E n \in Node : handled[n][tx] > 0

Handle(n, tx) ==
    /\ handled[n][tx] = 0
    /\ handled' = [handled EXCEPT ![n][tx] = 1]

\* A transaction has one publisher.
Publish(n, tx) == ~Published(tx) /\ Handle(n, tx)

Deliver(n, tx) == Published(tx) /\ Handle(n, tx)

Next == \E n \in Node, tx \in Transactions : Publish(n, tx) \/ Deliver(n, tx)

Spec == Init /\ [][Next]_handled
=============================================================================
