------------------------------- MODULE MCMining -------------------------------
(* Two votes of one key, or a vote and a tally of it;                         *)
(* the network thread and the GUI thread, three workers at a time.            *)
EXTENDS Mining, TLC

CONSTANTS vote1, vote2, tally, net, gui, w1, w2, w3, a1, a2

TwoVotes == {vote1, vote2}
VoteAndTally == {vote1, tally}
NoKey == {}
OneKey == {<<vote1, vote2>>}
NoNeeds == [tx \in Transactions |-> {}]
TallyNeedsVote == [tx \in Transactions |-> IF tx = tally THEN {vote1} ELSE {}]
NetAndGui == {net, gui}
OneCaller == {net}
Situation(txs, n, f, g, t) ==
    [arriving |-> txs, threads |-> n, foreign |-> f, givenUp |-> g, time |-> t]

\* A block of others among two votes
ForeignBlock == {Situation(TwoVotes, 2, 1, 0, 0)}

\* Both workers of a Miner give up; and a tally that needs the vote, a clock
\* and a single worker that may give up
AbortsAndTally == {Situation({vote1}, 2, 0, 2, 0), Situation(VoteAndTally, 1, 0, 1, 1)}

\* Intervals that meet the end of the nonces, and that never do
SmallSizes == {<<32, 12>>, <<20, 7>>, <<16, 4>>, <<16, 1>>}

ThreeWorkers == {w1, w2, w3}
TwoAddresses == {a1, a2}

\* Workers are alike, and so are addresses and the two votes: the order of
\* the transactions in a set matters only where it holds two of them.
Alike == Permutations(Workers) \cup Permutations(Addresses) \cup Permutations(Transactions)

\* A thread that has ended, or waits for work, uses none of what it knew; the
\* same holds of an address nobody refers to.
Alive(t) == pc[t] \notin {"idle", "ended"}
Known(f, S, none) == [t \in S |-> IF Alive(t) THEN f[t] ELSE none]
Referred == {m} \cup {this[w] : w \in {v \in Workers : Alive(v)}}
                \cup {target[t] : t \in {u \in Threads : pc[u] \in {"create", "requeue", "tearDownOther"}}}
Relevant ==
    <<situation, queue, m, lock, [a \in Referred \ {Nobody} |-> miner[a]], chain, now, pc,
      [t \in Threads |-> IF pc[t] \in {"run", "create", "notify", "requeue", "tearDownOther"}
                         THEN then[t] ELSE "idle"],
      Known(this, Workers, Nobody),
      [t \in Threads |-> IF pc[t] \in {"create", "requeue", "tearDownOther"} THEN target[t] ELSE Nobody],
      Known(block, Threads, NoBlock),
      {w \in interrupted : Alive(w)}, givenUp, accepted, rejected,
      {t \in stale : Alive(t)}, dangling>>

\* All that is claimed is claimed up to the first use of a deleted Miner.
Defined == ~dangling
=============================================================================
