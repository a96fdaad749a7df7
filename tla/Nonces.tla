-------------------------------- MODULE Nonces --------------------------------
(***************************************************************************)
(* How the workers of a Miner share the nonces (miner.cpp: the constructor *)
(* and consumeNextNonces; miner.h:56-61).  They take AtOnce of them at a   *)
(* time, from a random one upwards, until they come back to it.  A nonce   *)
(* is an unsigned int: the counter wraps around.  The workers take turns   *)
(* under the mutex of their Miner, so that which of them takes an interval *)
(* makes no difference, and the intervals are a sequence.                  *)
(***************************************************************************)
EXTENDS Integers, FiniteSets, Sequences, SequencesExt

CONSTANT NonceSizes     \* pairs <<number of nonces, Settings::MINING_NONCES_AT_ONCE>>

ASSUME NoncesAssumption == \A size \in NonceSizes : size[1] \in Nat \ {0} /\ size[2] \in 1 .. size[1] - 1

\* Mutant of UpperBound: an interval that begins at the start is not seen.
UpperBoundPast(size, start, current) ==
    IF start > current /\ start < (current + size[2]) % size[1]
    THEN start
    ELSE (current + size[2]) % size[1]

\* Where an interval that begins at current ends; at the start, the last one.
UpperBound(size, start, current) ==
    IF start >= current /\ start < (current + size[2]) % size[1]
    THEN start
    ELSE (current + size[2]) % size[1]

\* The values of currentNonce, for as many intervals as there are nonces: from
\* then on they repeat.
Counter(size, start) ==
    LET current[i \in 1 .. size[1] + 1] ==
            IF i = 1 THEN (start + 1) % size[1] ELSE UpperBound(size, start, current[i - 1])
    IN  current

\* mineTransactions aborts when an interval is empty, and tries its nonces
\* upwards, which finds none where the counter wraps around.
Ends(size, start) ==
    LET c == Counter(size, start)
    IN  \E i \in 1 .. size[1] : c[i] = c[i + 1]

Tried(size, start, nonce) ==
    LET c == Counter(size, start)
    IN  Cardinality({i \in 1 .. size[1] : c[i] <= nonce /\ nonce < c[i + 1]})

-----------------------------------------------------------------------------
(* What a search has to do *)

Gcd(a, b) == CHOOSE d \in 1 .. b : /\ a % d = 0 /\ b % d = 0
                                   /\ \A x \in d + 1 .. b : a % x # 0 \/ b % x # 0

\* The starts from which the counter does not miss its end: all but an interval
\* before the wrap and the first few behind it (1000 and 7 of 2^32).
SafeStarts(size) == Gcd(size[1], size[2]) - 1 .. size[1] - size[2] - 1

\* A search that begins at one of these comes to its end (consumeNextNonces).
SearchEnds(size) == \A start \in SafeStarts(size) : Ends(size, start)

\* A search that does not begin within an interval of the wrap tries no nonce
\* twice, and all but the start and those of the interval that reaches the wrap
\* (mineTransactions).
EachOnce(size) ==
    \A start \in size[2] .. size[1] - size[2] - 1, nonce \in 0 .. size[1] - 1 :
        LET atWrap == ((size[1] - start - 2) % size[2]) + 1
        IN  /\ Tried(size, start, nonce) <= 1
            /\ nonce \in size[2] - atWrap .. size[1] - atWrap - 1 /\ nonce # start
                 => Tried(size, start, nonce) = 1

\* What the comment at Miner says (miner.h:56-61): whatever the start, the search
\* counts up, over the wrap, through all others, until it is there again.
CountsUp(size) ==
    \A start \in 0 .. size[1] - 1 :
        /\ Ends(size, start)
        /\ \A nonce \in (0 .. size[1] - 1) \ {start} : Tried(size, start, nonce) = 1
=============================================================================
