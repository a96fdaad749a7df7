------------------------------ MODULE MCNetwork ------------------------------
(* Three nodes, and what may happen to them, one situation at a time.        *)
EXTENDS Flooding

CONSTANTS A, B, C, tx1, tx2

Each(x) == [n \in Node |-> x]
Usual == [calls |-> Each(<<>>), limit |-> MaxLinks, unset |-> {None}, pings |-> {}, losses |-> 0,
          stops |-> {}, chain |-> Each(<<A>>), blocks |-> Each(0), transactions |-> Each({})]

Calls(a, b, c) == [n \in Node |-> CASE n = A -> a [] n = B -> b [] n = C -> c]
Line == [Usual EXCEPT !.calls = Calls(<<B>>, <<>>, <<B>>)]
Triangle == [Usual EXCEPT !.calls = Calls(<<B>>, <<C>>, <<A>>)]
Mutual == [Usual EXCEPT !.calls = Calls(<<B>>, <<A>>, <<>>)]
Tx1 == Calls({tx1}, {}, {})

TheSituations == {
    \* two call each other; one is behind, the other mines; GUIDs as memory was
    [Mutual EXCEPT !.chain[A] = <<A, A, A>>, !.blocks[A] = 1, !.unset = {None, Garbage}],
    \* ... and they lose one of their links
    [Mutual EXCEPT !.losses = 1, !.transactions = Tx1],
    \* one calls itself first, and the other one ends
    [Usual EXCEPT !.calls = Calls(<<A, B>>, <<>>, <<B>>), !.stops = {B}, !.transactions = Tx1],
    \* pings make links, also while others are lost
    [Line EXCEPT !.pings = {A, C}],
    [Line EXCEPT !.pings = {A}, !.losses = 1],
    \* floods in a circle, on a line, and when it breaks
    [Triangle EXCEPT !.transactions = Tx1],
    [Line EXCEPT !.transactions = Calls({tx1}, {}, {tx2})],
    [Line EXCEPT !.losses = 1, !.transactions = Tx1],
    \* blocks that compete; a block while a node catches up
    [Usual EXCEPT !.calls[A] = <<B>>, !.blocks = Calls(1, 1, 0)],
    [Line EXCEPT !.chain[A] = <<A, B, C>>, !.chain[B] = <<A, B>>, !.blocks[B] = 1],
    \* no room for two
    [Line EXCEPT !.limit = 1, !.stops = {A}, !.transactions = Calls({}, {}, {tx1})],
    [Line EXCEPT !.limit = 1, !.calls[A] = <<B, C>>]}
=============================================================================
