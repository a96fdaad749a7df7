------------------------------ MODULE Paillier ------------------------------
(***************************************************************************)
(* The threshold encryption of the votes: paillier/*, and its callers in   *)
(* electionmanager.cpp.  A key is generated and shared among the trustees, *)
(* votes are encrypted with a proof that they are 0 or 1, travel as part   *)
(* of a transaction, are multiplied by each trustee, partially decrypted   *)
(* with another proof, and combined once enough trustees have answered.    *)
(*                                                                         *)
(* The numbers are real ones, only small: with Bits = 6 the code's own     *)
(* loop over safe primes ends with 5 and 7, n = 35.  What the code draws   *)
(* at random is drawn from small sets given as constants; the hash is any  *)
(* function of the concatenated digits, here a remainder.                  *)
(***************************************************************************)
EXTENDS Integers, Sequences, FiniteSets, SequencesExt, FiniteSetsExt

CONSTANTS
  Bits,         \* modulusbits (Settings::PAILLIER_BITS is 1024)
  Sizes,        \* pairs <<decryptServers, threshold>> of the keys generated
  Coefficients, \* values drawn for the polynomial that shares the secret
  Blinding,     \* values drawn for r in an encryption: units modulo n
  Rho,          \* values drawn for rho and for the r of a decryption proof
  Simulated,    \* pairs <<e2, v2>> drawn for the simulated half of a proof
  HashSize,     \* the hash of a proof is below this bound
  MaxVotes,     \* bound: votes cast
  MaxServers,   \* bound: trustees for which the coefficients are checked
  MaxShares     \* bound: trustees for which the powers of the shares are checked

ASSUME BoundsAssumption ==
  /\ Bits \in Nat /\ 2 ^ ((Bits \div 2) - 1) \in Nat
  /\ HashSize \in Nat \ {0} /\ MaxVotes \in Nat
  /\ MaxServers \in Nat /\ MaxShares \in 0 .. 16

\* At least one trustee (verifyInputs of the dialog for a new election)
ASSUME SizesAssumption == Sizes \subseteq Nat \X Nat /\ \A s \in Sizes : s[2] \in 1 .. s[1]

\* mpz_urandom* draw no negative numbers.
ASSUME DrawnAssumption ==
  Coefficients \subseteq Nat /\ Blinding \subseteq Nat /\ Rho \subseteq Nat /\ Simulated \subseteq Nat \X Nat

VARIABLES
  pub,      \* the public key, None before it is generated
  shares,   \* partial keys, by trustee
  voted,    \* history: what was voted, 0 or 1
  ballots,  \* std::set of encrypted ballots the trustees read from the chain
  partials, \* partial decryptions in the trustees' tallies
  results   \* history: what the tally was found to be

vars == <<pub, shares, voted, ballots, partials, results>>

None == [n |-> 0]

-----------------------------------------------------------------------------
(* The functions of libgmp the code uses.                                   *)

\* The greatest common divisor of a and b, and two numbers with which it is a
\* combination of a and b.
Bezout(a, b) ==
  LET euclid[p \in Nat \X Nat] ==
        IF p[2] = 0 THEN <<p[1], 1, 0>>
        ELSE LET r == euclid[<<p[2], p[1] % p[2]>>]
             IN <<r[1], r[3], r[2] - (p[1] \div p[2]) * r[3]>>
  IN euclid[<<a, b>>]

Gcd(a, b) == Bezout(a, b)[1]

Invert(a, n) == Bezout(a % n, n)[2] % n

Power(b, e, n) ==
  LET power[i \in Nat] ==
        IF i = 0 THEN 1 % n
        ELSE LET h == power[i \div 2]
             IN IF i % 2 = 0 THEN (h * h) % n ELSE (((h * h) % n) * b) % n
  IN power[e]

\* mpz_powm: a negative exponent takes the inverse of the base.
PowM(b, e, n) == IF e < 0 THEN Power(Invert(b, n), -e, n) ELSE Power(b % n, e, n)

\* mpz_tdiv_q rounds towards zero.
TDiv(a, b) ==
  LET Abs(x) == IF x < 0 THEN -x ELSE x
      q == Abs(a) \div Abs(b)
  IN IF (a < 0) = (b < 0) THEN q ELSE -q

IsPrime(p) == p > 1 /\ \A d \in 2 .. p - 1 : p % d # 0

-----------------------------------------------------------------------------
(* Keys                                                                     *)

\* genSafePrimes: 2 * p1 + 1 with p1 of at most Bits / 2 - 1 bits.
SafePrimes ==
  {2 * p1 + 1 : p1 \in {x \in 0 .. 2 ^ ((Bits \div 2) - 1) - 1 : IsPrime(x) /\ IsPrime(2 * x + 1)}}

\* The pairs at which the loops of paillier_keygen end.
PrimePairs ==
  {pq \in SafePrimes \X SafePrimes :
     LET p == pq[1]  q == pq[2]
     IN  /\ p # q /\ p # (q - 1) \div 2 /\ q # (p - 1) \div 2
         /\ (p * q) \div 2 ^ (Bits - 1) % 2 = 1}

\* paillier_enc does not look whether its r is a unit modulo n: one that is not
\* would be a multiple of p or q, which nobody who does not know them comes upon.
ASSUME BlindingAssumption == \A pq \in PrimePairs, r \in Blinding : Gcd(r, pq[1] * pq[2]) = 1

Factorial[k \in Nat] == IF k = 0 THEN 1 ELSE k * Factorial[k - 1]

\* Mutant of Complete: delta is the factorial of the threshold.
CompleteForThreshold(n, size, v, verification) ==
  LET delta == Factorial[size[2]]
  IN [n |-> n, nSquared |-> n * n, nPlusOne |-> n + 1,
      decryptServers |-> size[1], threshold |-> size[2], delta |-> delta,
      combineSharesConstant |-> Invert(4 * delta * delta, n),
      v |-> v, verificationKeys |-> verification]

\* paillier_pubkey_t::complete: the values that follow from the basic ones.
Complete(n, size, v, verification) ==
  LET delta == Factorial[size[1]]
  IN [n |-> n, nSquared |-> n * n, nPlusOne |-> n + 1,
      decryptServers |-> size[1], threshold |-> size[2], delta |-> delta,
      combineSharesConstant |-> Invert(4 * delta * delta, n),
      v |-> v, verificationKeys |-> verification]

\* complete() throws when the constant has no inverse.
CanComplete(n, size) == Gcd(4 * Factorial[size[1]] * Factorial[size[1]], n) = 1

OddPart[x \in Nat \ {0}] == IF x % 2 = 1 THEN x ELSE OddPart[x \div 2]

\* x to the power of i in two digits of 2^26 and more; the first stops at 2^27.
PowDigits(x, i) ==
  FoldLeft(LAMBDA d, j : <<Min({2 ^ 27, d[1] * x + (d[2] * x) \div 2 ^ 26}), (d[2] * x) % 2 ^ 26>>,
           <<0, 1>>, [j \in 1 .. i |-> j])

\* Mutant of PowIsExact: powf
PowfIsExact(x, i) ==
  LET d == PowDigits(OddPart[x], i) IN d[1] = 0 /\ d[2] < 2 ^ 24

\* pow(x, i) is a double: it holds the integers whose odd part has at most 53
\* bits, and rounds others.
PowIsExact(x, i) == PowDigits(OddPart[x], i)[1] < 2 ^ 27

\* evaluatePolynomial, a[1] being the constant term, where pow is exact
Evaluate(a, x, nm) ==
  LET power[i \in Nat] == IF i = 0 THEN 1 ELSE x * power[i - 1]
      sum[i \in 0 .. Len(a)] == IF i = 0 THEN 0 ELSE sum[i - 1] + a[i] * power[i - 1]
  IN sum[Len(a)] % nm

\* What is archived of a public key, and the key that is read back.
SavedKey(k) ==
  <<k.decryptServers, k.threshold, k.n, k.v, k.verificationKeys>>

LoadedKey(s) == Complete(s[3], <<s[1], s[2]>>, s[4], s[5])

-----------------------------------------------------------------------------
(* Hashes of proofs: concatenated hexadecimal digits.                       *)

\* 16 to the power of the number of digits of x
Digits[x \in Nat] == IF x < 16 THEN 16 ELSE 16 * Digits[x \div 16]

HashMultiple(xs) ==
  LET hash[i \in 0 .. Len(xs)] ==
        IF i = 0 THEN 0 ELSE (hash[i - 1] * Digits[xs[i]] + xs[i]) % HashSize
  IN hash[Len(xs)]

-----------------------------------------------------------------------------
(* Encryption of 0 or 1 with a proof                                        *)

Enc(k, m, r) ==
  (PowM(k.nPlusOne, m, k.nSquared) * PowM(r, k.n, k.nSquared)) % k.nSquared

\* v^n * (g^m / c)^e, what a verifier computes for the plaintext m
Commitment(k, c, m, e, v) ==
  LET power == PowM(k.nPlusOne, m * e, k.nSquared)
      inverse == PowM(c, -e, k.nSquared)
  IN (((PowM(v, k.n, k.nSquared) * power) % k.nSquared) * inverse) % k.nSquared

EncProof(k, index, r, rho, e2, v2) ==
  LET c == Enc(k, index, r)
      simulated == Commitment(k, c, 1 - index, e2, v2)
      real == PowM(rho, k.n, k.nSquared)
      us == IF index = 1 THEN <<simulated, real>> ELSE <<real, simulated>>
      e == HashMultiple(us \o <<c, 0, 1>>)
      e1 == (e - e2) % k.n
      quotient == PowM(k.nPlusOne, TDiv(e - e2, k.n), k.n)
      v1 == (((quotient * PowM(r, e1, k.n)) % k.n) * rho) % k.n
  IN IF index = 1
     THEN [c |-> c, e |-> e, e1 |-> e2, v1 |-> v2, e2 |-> e1, v2 |-> v1]
     ELSE [c |-> c, e |-> e, e1 |-> e1, v1 |-> v1, e2 |-> e2, v2 |-> v2]

VerifyEnc(k, b) ==
  LET e == HashMultiple(<<Commitment(k, b.c, 0, b.e1, b.v1),
                          Commitment(k, b.c, 1, b.e2, b.v2), b.c, 0, 1>>)
  IN e = b.e /\ e % k.n = (b.e1 + b.e2) % k.n

\* The archive of a ballot, and reading it back.
SavedBallot(b) == <<b.c, b.e, b.e1, b.e2, b.v1, b.v2>>

\* Mutant: read back in the order in which the proof names its parts
LoadedByHalves(s) ==
  [c |-> s[1], e |-> s[2], e1 |-> s[3], v1 |-> s[4], e2 |-> s[5], v2 |-> s[6]]

LoadedBallot(s) ==
  [c |-> s[1], e |-> s[2], e1 |-> s[3], e2 |-> s[4], v1 |-> s[5], v2 |-> s[6]]

-----------------------------------------------------------------------------
(* std::set of ballots and of partial decryptions: the operators < compare  *)
(* field by field.                                                          *)

LexLess(s, t) ==
  \E i \in 1 .. Len(s) : s[i] < t[i] /\ \A j \in 1 .. i - 1 : s[j] = t[j]

\* Mutant: ballots are told apart by their hash alone.
HashLess(a, b) == a.e < b.e

BallotLess(a, b) ==
  LexLess(<<a.c, a.e, a.e1, a.e2, a.v1, a.v2>>, <<b.c, b.e, b.e1, b.e2, b.v1, b.v2>>)

PartialLess(a, b) ==
  LexLess(<<a.id, a.decryption, a.c4, a.ci2, a.e, a.z>>,
          <<b.id, b.decryption, b.c4, b.ci2, b.e, b.z>>)

\* An element that is neither less nor greater than one of the set is left out.
BallotInserted(S, b) ==
  IF \E x \in S : ~BallotLess(x, b) /\ ~BallotLess(b, x) THEN S ELSE S \cup {b}

PartialInserted(S, d) ==
  IF \E x \in S : ~PartialLess(x, d) /\ ~PartialLess(d, x) THEN S ELSE S \cup {d}

-----------------------------------------------------------------------------
(* Partial decryption with a proof, and combination                         *)

DecProof(k, share, c, r) ==
  LET c4 == PowM(c, 4, k.nSquared)
      decryption == PowM(c, 2 * k.delta * share.s, k.nSquared)
      ci2 == PowM(decryption, 2, k.nSquared)
      e == HashMultiple(<<PowM(c4, r, k.nSquared), PowM(k.v, r, k.nSquared), c4, ci2>>)
  IN [id |-> share.id, decryption |-> decryption, c4 |-> c4, ci2 |-> ci2,
      e |-> e, z |-> r + share.s * e * k.delta]

VerifyDecryption(k, d) ==
  LET Original(base, image) ==
        (PowM(base, d.z, k.nSquared) * PowM(image, -d.e, k.nSquared)) % k.nSquared
  IN d.e = HashMultiple(<<Original(d.c4, d.ci2), Original(k.v, k.verificationKeys[d.id]),
                          d.c4, d.ci2>>)

SavedPartial(d) == <<d.id, d.decryption, d.c4, d.ci2, d.e, d.z>>

LoadedPartial(s) ==
  [id |-> s[1], decryption |-> s[2], c4 |-> s[3], ci2 |-> s[4], e |-> s[5], z |-> s[6]]

\* Delta times the Lagrange coefficient of the i-th partial decryption,
\* multiplied and divided one factor after the other
Lambda(k, ids, i) ==
  LET lambda[j \in 0 .. Len(ids)] ==
        IF j = 0 THEN k.delta
        ELSE IF j = i THEN lambda[j - 1]
        ELSE TDiv(lambda[j - 1] * (-ids[j]), ids[i] - ids[j])
  IN lambda[Len(ids)]

\* The product of the partial decryptions
CPrime(k, ds) ==
  LET ids == [i \in 1 .. k.threshold |-> ds[i].id]
      Factor(i) == PowM(ds[i].decryption, 2 * Lambda(k, ids, i), k.nSquared)
      cprime[i \in 0 .. k.threshold] ==
        IF i = 0 THEN 1 ELSE (cprime[i - 1] * Factor(i)) % k.nSquared
  IN cprime[k.threshold]

\* Mutant of Combining: the last reduction modulo n is missing.
CombiningUnreduced(k, ds) == ((CPrime(k, ds) - 1) \div k.n) * k.combineSharesConstant

\* paillier_combining, which reads the first threshold partial decryptions
Combining(k, ds) == (((CPrime(k, ds) - 1) \div k.n) * k.combineSharesConstant) % k.n

-----------------------------------------------------------------------------
(* The course of an election                                                *)

Init ==
  /\ pub = None /\ shares = <<>>
  /\ voted = <<>> /\ ballots = {} /\ partials = {} /\ results = {}

\* paillier_keygen, started by the dialog for a new election.  The public key
\* reaches the other nodes as part of the election.
GenerateKey(pq, size, a, r) ==
  LET n == pq[1] * pq[2]
      m == ((pq[1] - 1) \div 2) * ((pq[2] - 1) \div 2)
      d == m * Invert(m, n)
      v == PowM(r, 2, n * n)
      s == [i \in 1 .. size[1] |-> Evaluate(<<d>> \o a, i, n * m)]
      verification == [i \in 1 .. size[1] |-> PowM(v, Factorial[size[1]] * s[i], n * n)]
  IN /\ pub = None
     /\ CanComplete(n, size) /\ Gcd(m, n) = 1 /\ Gcd(r, n) = 1
     /\ pub' = LoadedKey(SavedKey(Complete(n, size, v, verification)))
     /\ shares' = [i \in 1 .. size[1] |-> [id |-> i, s |-> s[i]]]
     /\ UNCHANGED <<voted, ballots, partials, results>>

\* ElectionManager::createVote on one node, ElectionManager::getAllVotes on another.
\* What is drawn does not make two ballots the same.
Vote(answer, r, rho, sim) ==
  LET b == EncProof(pub, answer, r, rho, sim[1], sim[2])
  IN /\ pub # None /\ Len(voted) < MaxVotes
     /\ partials = {} /\ b \notin ballots
     /\ voted' = Append(voted, answer)
     /\ ballots' = BallotInserted(ballots, LoadedBallot(SavedBallot(b)))
     /\ UNCHANGED <<pub, shares, partials, results>>

\* ElectionManager::createTrusteeTally: ballots whose proof is wrong are left out
Sum == FoldSet(LAMBDA b, c : (c * b.c) % pub.nSquared, 1,
               {b \in ballots : VerifyEnc(pub, b)})

TrusteeTally(i, r) ==
  /\ ballots # {} /\ \A d \in partials : d.id # i
  /\ partials' = PartialInserted(partials,
                                 LoadedPartial(SavedPartial(DecProof(pub, shares[i], Sum, r))))
  /\ UNCHANGED <<pub, shares, voted, ballots, results>>

\* The partial decryptions with a right proof
Right == {d \in partials : VerifyDecryption(pub, d)}

\* ElectionManager::tally, with ds the right partial decryptions in the order of their set
Tally(ds) ==
  /\ \A i, j \in DOMAIN ds : i < j => PartialLess(ds[i], ds[j])
  /\ partials # {} /\ Len(ds) >= pub.threshold
  /\ results' = results \cup {Combining(pub, ds)}
  /\ UNCHANGED <<pub, shares, voted, ballots, partials>>

Next ==
  \/ \E pq \in PrimePairs, size \in Sizes, r \in Blinding :
       \E a \in [1 .. size[2] - 1 -> Coefficients] : GenerateKey(pq, size, a, r)
  \/ \E answer \in {0, 1}, r \in Blinding, rho \in Rho, sim \in Simulated :
       Vote(answer, r, rho, sim)
  \/ \E i \in 1 .. Len(shares), r \in Rho : TrusteeTally(i, r)
  \/ \E ds \in [1 .. Cardinality(Right) -> Right] : Tally(ds)

Spec == Init /\ [][Next]_vars

-----------------------------------------------------------------------------
(* Properties                                                               *)

YesVotes == Cardinality({i \in 1 .. Len(voted) : voted[i] = 1})

TypeOK ==
  /\ pub = None \/ /\ shares \in Seq([id : 1 .. pub.decryptServers, s : Nat])
                   /\ \A b \in ballots : b.c \in 1 .. pub.nSquared - 1 /\ b.e < HashSize
  /\ voted \in Seq({0, 1})
  /\ results \subseteq 0 .. pub.n - 1

\* The number that is decrypted from the product of the ballots is the number
\* of votes with answer 1, whichever trustees answered first
\* (electionmanager.cpp:213-291, paillier.cpp:752-808).
SumDecrypts == results \subseteq {YesVotes}

\* A proof made by the code is accepted by the code, after it has travelled,
\* also when the simulated half drew a number above the hash
\* (paillier.cpp:376-510, 530-604, 654-745).
HonestProofsAccepted ==
  /\ \A b \in ballots : VerifyEnc(pub, b)
  /\ \A d \in partials : VerifyDecryption(pub, d)

\* The sets of ballots and of partial decryptions keep all that were cast: the
\* comparison operators tell any two of them apart (comparison.cpp:43-93).
NoneDropped == Cardinality(ballots) = Len(voted)

\* Dividing one factor after the other leaves no remainder: the coefficients
\* are those of Lagrange's formula, for every group of trustees that answers
\* (paillier.cpp:778-791).  Nothing of it depends on n; it is evaluated once,
\* for up to MaxServers trustees.
CoefficientsExact == pub = None =>
  \A l \in 1 .. MaxServers : \A S \in SUBSET (1 .. l) \ {{}} :
    LET ids == SetToSortSeq(S, <)
        k == Complete(1, <<l, Len(ids)>>, 0, <<>>)
        Others(i, f(_)) == FoldSet(LAMBDA j, x : x * f(ids[j]), 1, DOMAIN ids \ {i})
    IN \A i \in DOMAIN ids :
         Lambda(k, ids, i) * Others(i, LAMBDA x : ids[i] - x)
           = Factorial[l] * Others(i, LAMBDA x : -x)

\* The powers in floating point with which the polynomial of l shares is
\* evaluated (paillier.cpp:75), where as many trustees as there are have to decrypt
PowersExact(l) == \A x \in 1 .. l, i \in 0 .. l - 1 : PowIsExact(x, i)

\* Up to fourteen trustees have shares that are values of the polynomial,
\* although its powers are taken in floating point (paillier.cpp:64-83).
SharesExact == pub = None => \A l \in 1 .. MaxShares : l <= 14 => PowersExact(l)
=============================================================================
