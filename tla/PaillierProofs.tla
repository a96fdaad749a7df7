----------------------------- MODULE PaillierProofs -----------------------------
(***************************************************************************)
(* The proofs that the code makes are proofs to the code: every ballot and *)
(* every partial decryption of an honest client passes the check of every  *)
(* other, and none is dropped.  For keys of any size, any trustees and     *)
(* whatever is drawn at random; of the hash only its range is used.        *)
(***************************************************************************)
EXTENDS Paillier, FiniteSetTheorems, NaturalsInduction, WellFoundedInduction, TLAPS

-----------------------------------------------------------------------------
(* Recursion *)

\* A set of numbers has a least one: this stands in for induction.
LEMMA LeastNumber ==
    ASSUME NEW S \in SUBSET Nat, S # {}
    PROVE  \E n \in S : \A k \in S : n <= k
  <1> DEFINE R == OpToRel(<, Nat)
  <1>1. IsWellFoundedOn(R, Nat)
    BY NatLessThanWellFounded
  <1>2. \E x \in S : \A y \in S : ~(<<y, x>> \in R)
    <2> HIDE DEF R
    <2> QED
      BY <1>1, WFMin
  <1>3. \A x, y \in Nat : x < y => <<x, y>> \in R
    BY DEF OpToRel
  <1>4. PICK n \in S : \A y \in S : ~(<<y, n>> \in R)
    BY <1>2
  <1>5. ASSUME NEW k \in S PROVE n <= k
    <2>1. ~(k < n)
      BY <1>3, <1>4
    <2>2. QED
      BY <2>1
  <1>6. QED
    BY <1>5

\* One step of a recursion that ends in B with E and else goes from x to D[x]
Step(B, E, D, G, f, x) == IF x \in B THEN E[x] ELSE G[<<x, f[D[x]]>>]

\* f solves it on what has a rank below n.
Below(X, rank, n) == {x \in X : rank[x] < n}
Solves(X, T, B, E, D, G, f) ==
    f \in [X -> T] /\ \A x \in X : f[x] = Step(B, E, D, G, f, x)

Descends(X, T, B, E, D, G, rank) ==
    /\ E \in [X -> T] /\ D \in [X -> X] /\ rank \in [X -> Nat] /\ G \in [X \X T -> T]
    /\ \A x \in X : x \notin B => rank[D[x]] < rank[x]

LEMMA SolvedBelow ==
    ASSUME NEW X, NEW T, NEW B, NEW E, NEW D, NEW G, NEW rank, Descends(X, T, B, E, D, G, rank),
           NEW n \in Nat
    PROVE  \E f : Solves(Below(X, rank, n), T, B, E, D, G, f)
  <1> DEFINE Has(k) == \E f : Solves(Below(X, rank, k), T, B, E, D, G, f)
             S == {k \in Nat : ~Has(k)}
  <1>1. SUFFICES ASSUME n \in S PROVE FALSE
    OBVIOUS
  <1>2. PICK k \in S : \A j \in S : k <= j
    <2> HIDE DEF Has
    <2> QED BY <1>1, LeastNumber
  <1>3. Has(0)
    <2>1. Below(X, rank, 0) = {}
      BY DEF Below, Descends
    <2> DEFINE g == [x \in {} |-> x]
    <2>2. g \in [{} -> T]
      OBVIOUS
    <2>3. Solves(Below(X, rank, 0), T, B, E, D, G, g)
      BY <2>1, <2>2 DEF Solves
    <2>4. QED
      BY <2>3
  <1>4. PICK m \in Nat : k = m + 1
    <2>1. k # 0
      <3> HIDE DEF Has
      <3> QED BY <1>2, <1>3
    <2>2. k - 1 \in Nat /\ k = (k - 1) + 1
      BY <2>1
    <2>3. QED
      BY <2>2
  <1>5. Has(m)
    <2>1. m \notin S
      <3> HIDE DEF S
      <3> QED BY <1>2, <1>4
    <2> HIDE DEF Has
    <2>2. QED
      BY <2>1
  <1>6. PICK f : Solves(Below(X, rank, m), T, B, E, D, G, f)
    BY <1>5
  <1> DEFINE g == [x \in Below(X, rank, k) |-> Step(B, E, D, G, f, x)]
  <1>7. ASSUME NEW x \in Below(X, rank, k), x \notin B
        PROVE  D[x] \in Below(X, rank, m) /\ D[x] \in Below(X, rank, k)
    <2>1. x \in X /\ D[x] \in X /\ rank[x] \in Nat /\ rank[D[x]] \in Nat /\ rank[D[x]] < rank[x] /\ rank[x] < m + 1
      BY <1>4, <1>7 DEF Below, Descends
    <2>2. QED
      BY <1>4, <2>1 DEF Below
  <1>8. g \in [Below(X, rank, k) -> T]
    <2>1. ASSUME NEW x \in Below(X, rank, k) PROVE Step(B, E, D, G, f, x) \in T
      <3>1. CASE x \in B
        BY <3>1 DEF Step, Descends, Below
      <3>2. CASE x \notin B
        <4>1. f[D[x]] \in T
          BY <1>6, <1>7, <3>2 DEF Solves
        <4>2. x \in X
          BY DEF Below
        <4>3. QED
          BY <3>2, <4>1, <4>2 DEF Step, Descends
      <3>3. QED
        BY <3>1, <3>2
    <2>2. QED
      BY <2>1
  <1>9. ASSUME NEW x \in Below(X, rank, k) PROVE g[x] = Step(B, E, D, G, g, x)
    <2>1. CASE x \in B
      BY <2>1 DEF Step
    <2>2. CASE x \notin B
      <3>1. D[x] \in Below(X, rank, m) /\ D[x] \in Below(X, rank, k)
        BY <1>7, <2>2
      <3>2. f[D[x]] = Step(B, E, D, G, f, D[x])
        BY <1>6, <3>1 DEF Solves
      <3>3. g[D[x]] = f[D[x]]
        BY <3>1, <3>2
      <3>4. g[x] = Step(B, E, D, G, f, x)
        OBVIOUS
      <3> HIDE DEF g
      <3>5. QED
        BY <2>2, <3>3, <3>4 DEF Step
    <2>3. QED
      BY <2>1, <2>2
  <1>10. Has(k)
    <2> HIDE DEF g
    <2> QED BY <1>8, <1>9 DEF Solves
  <1>11. QED
    <2> HIDE DEF Has
    <2> QED BY <1>2, <1>10

\* Two solutions agree where both are defined.
LEMMA SolvedOnce ==
    ASSUME NEW X, NEW T, NEW B, NEW E, NEW D, NEW G, NEW rank, Descends(X, T, B, E, D, G, rank),
           NEW n \in Nat, NEW f, Solves(Below(X, rank, n), T, B, E, D, G, f),
           NEW k \in Nat, NEW g, Solves(Below(X, rank, k), T, B, E, D, G, g),
           NEW x \in Below(X, rank, n), x \in Below(X, rank, k)
    PROVE  f[x] = g[x]
  <1> DEFINE Both == {y \in Below(X, rank, n) : y \in Below(X, rank, k) /\ f[y] # g[y]}
             S == {rank[y] : y \in Both}
  <1>1. SUFFICES ASSUME x \in Both PROVE FALSE
    OBVIOUS
  <1>2. S \in SUBSET Nat /\ S # {}
    BY <1>1 DEF Below, Descends
  <1>3. PICK r \in S : \A s \in S : r <= s
    <2> HIDE DEF S
    <2> QED BY <1>2, LeastNumber
  <1>4. PICK y \in Both : r = rank[y]
    BY <1>3
  <1>5. /\ f[y] = Step(B, E, D, G, f, y) /\ g[y] = Step(B, E, D, G, g, y) /\ f[y] # g[y]
        /\ y \in X /\ rank[y] < n /\ rank[y] < k
    BY <1>4 DEF Solves, Below
  <1>6. y \notin B
    BY <1>5 DEF Step
  <1>7. D[y] \in X /\ rank[D[y]] < rank[y] /\ rank[D[y]] \in Nat /\ rank[y] \in Nat
    BY <1>5, <1>6 DEF Descends
  <1>8. D[y] \in Below(X, rank, n) /\ D[y] \in Below(X, rank, k)
    BY <1>5, <1>7 DEF Below
  <1>9. rank[D[y]] \notin S
    <2> HIDE DEF S
    <2> QED BY <1>3, <1>4, <1>7
  <1>10. f[D[y]] = g[D[y]]
    BY <1>8, <1>9
  <1>11. QED
    BY <1>5, <1>10 DEF Step

\* A recursion that descends has a solution.
LEMMA Solvable ==
    ASSUME NEW X, NEW T, NEW B, NEW E, NEW D, NEW G, NEW rank, Descends(X, T, B, E, D, G, rank)
    PROVE  \E f : Solves(X, T, B, E, D, G, f)
  <1> DEFINE F(n) == CHOOSE f : Solves(Below(X, rank, n), T, B, E, D, G, f)
             h == [x \in X |-> F(rank[x] + 1)[x]]
  <1>1. ASSUME NEW n \in Nat PROVE Solves(Below(X, rank, n), T, B, E, D, G, F(n))
    BY SolvedBelow
  <1>2. ASSUME NEW x \in X PROVE x \in Below(X, rank, rank[x] + 1) /\ rank[x] \in Nat /\ rank[x] + 1 \in Nat
    BY DEF Below, Descends
  <1> HIDE DEF F
  <1>3. ASSUME NEW x \in X PROVE h[x] \in T
    <2>1. F(rank[x] + 1) \in [Below(X, rank, rank[x] + 1) -> T]
      BY <1>1, <1>2 DEF Solves
    <2>2. QED
      BY <1>2, <2>1
  <1>4. ASSUME NEW x \in X PROVE h[x] = Step(B, E, D, G, h, x)
    <2>1. h[x] = Step(B, E, D, G, F(rank[x] + 1), x)
      BY <1>1, <1>2 DEF Solves
    <2>2. CASE x \in B
      BY <2>1, <2>2 DEF Step
    <2>3. CASE x \notin B
      <3>1. D[x] \in X /\ rank[D[x]] < rank[x]
        BY <2>3 DEF Descends
      <3>2. D[x] \in Below(X, rank, rank[x] + 1)
        BY <1>2, <3>1 DEF Below
      <3>3. F(rank[D[x]] + 1)[D[x]] = F(rank[x] + 1)[D[x]]
        BY <1>1, <1>2, <3>1, <3>2, SolvedOnce
      <3>4. h[D[x]] = F(rank[x] + 1)[D[x]]
        BY <3>1, <3>3
      <3> HIDE DEF h
      <3>5. QED
        BY <2>1, <2>3, <3>4 DEF Step
    <2>4. QED
      BY <2>2, <2>3
  <1>5. QED
    <2>1. h \in [X -> T]
      BY <1>3
    <2> HIDE DEF h
    <2>2. QED
      BY <1>4, <2>1 DEF Solves

\* What follows the steps of a recursion that descends stays within its type.
LEMMA StaysTyped ==
    ASSUME NEW X, NEW T, NEW B, NEW E, NEW D, NEW G, NEW rank, Descends(X, T, B, E, D, G, rank),
           NEW f, \A x \in X : x \in B \/ f[D[x]] \in T => f[x] = Step(B, E, D, G, f, x)
    PROVE  \A x \in X : f[x] \in T
  <1> DEFINE Bad == {y \in X : f[y] \notin T}
             S == {rank[y] : y \in Bad}
  <1>1. SUFFICES ASSUME Bad # {} PROVE FALSE
    OBVIOUS
  <1>2. S \in SUBSET Nat /\ S # {}
    BY <1>1 DEF Descends
  <1>3. PICK r \in S : \A s \in S : r <= s
    <2> HIDE DEF S
    <2> QED BY <1>2, LeastNumber
  <1>4. PICK y \in Bad : r = rank[y]
    BY <1>3
  <1>5. y \in X /\ f[y] \notin T
    BY <1>4
  <1>6. CASE y \in B
    BY <1>5, <1>6 DEF Step, Descends
  <1>7. CASE y \notin B
    <2>1. D[y] \in X /\ rank[D[y]] < rank[y] /\ rank[D[y]] \in Nat /\ rank[y] \in Nat
      BY <1>5, <1>7 DEF Descends
    <2>2. rank[D[y]] \notin S
      <3> HIDE DEF S
      <3> QED BY <1>3, <1>4, <2>1
    <2>3. f[D[y]] \in T
      BY <2>1, <2>2
    <2>4. QED
      BY <1>5, <1>7, <2>3 DEF Step, Descends
  <1>8. QED
    BY <1>6, <1>7

-----------------------------------------------------------------------------
(* Congruence modulo M *)

Cong(a, b, M) == \E k \in Int : a = b + k * M

LEMMA CongSame ==
    ASSUME NEW a \in Int, NEW M \in Int
    PROVE  Cong(a, a, M)
  <1>1. a = a + 0 * M /\ 0 \in Int
    OBVIOUS
  <1>2. QED
    BY <1>1 DEF Cong

LEMMA CongBack ==
    ASSUME NEW a \in Int, NEW b \in Int, NEW M \in Int, Cong(a, b, M)
    PROVE  Cong(b, a, M)
  <1>1. PICK k \in Int : a = b + k * M
    BY DEF Cong
  <1>2. -k \in Int /\ b = a + (-k) * M
    BY <1>1
  <1>3. QED
    BY <1>2 DEF Cong

LEMMA CongChain ==
    ASSUME NEW a \in Int, NEW b \in Int, NEW c \in Int, NEW M \in Int, Cong(a, b, M), Cong(b, c, M)
    PROVE  Cong(a, c, M)
  <1>1. PICK k \in Int : a = b + k * M
    BY DEF Cong
  <1>2. PICK l \in Int : b = c + l * M
    BY DEF Cong
  <1>3. k + l \in Int /\ a = c + (k + l) * M
    BY <1>1, <1>2
  <1>4. QED
    BY <1>3 DEF Cong

LEMMA CongPlus ==
    ASSUME NEW a \in Int, NEW b \in Int, NEW c \in Int, NEW d \in Int, NEW M \in Int,
           Cong(a, b, M), Cong(c, d, M)
    PROVE  Cong(a + c, b + d, M)
  <1>1. PICK k \in Int : a = b + k * M
    BY DEF Cong
  <1>2. PICK l \in Int : c = d + l * M
    BY DEF Cong
  <1>3. k + l \in Int /\ a + c = (b + d) + (k + l) * M
    BY <1>1, <1>2
  <1>4. QED
    BY <1>3 DEF Cong

LEMMA CongTimes ==
    ASSUME NEW a \in Int, NEW b \in Int, NEW c \in Int, NEW d \in Int, NEW M \in Int,
           Cong(a, b, M), Cong(c, d, M)
    PROVE  Cong(a * c, b * d, M)
  <1>1. PICK k \in Int : a = b + k * M
    BY DEF Cong
  <1>2. PICK l \in Int : c = d + l * M
    BY DEF Cong
  <1>3. (b + k * M) * (d + l * M) = b * d + (k * d + l * b + k * l * M) * M
    OBVIOUS
  <1>4. k * d + l * b + k * l * M \in Int
    OBVIOUS
  <1>5. QED
    BY <1>1, <1>2, <1>3, <1>4 DEF Cong

LEMMA CongProduct ==
    ASSUME NEW a \in Int, NEW b \in Int, NEW c \in Int, NEW d \in Int, NEW M \in Int,
           Cong(a, b, M), Cong(c, d, M), NEW p \in Int, p = a * c, NEW q \in Int, q = b * d
    PROVE  Cong(p, q, M)
  BY CongTimes

\* The remainder is congruent, and congruent numbers have the same one.
LEMMA CongRemainder ==
    ASSUME NEW a \in Int, NEW M \in Nat \ {0}
    PROVE  a % M \in 0 .. M - 1 /\ Cong(a % M, a, M) /\ Cong(a, a % M, M)
  <1>1. a % M \in 0 .. M - 1 /\ a \div M \in Int /\ a = M * (a \div M) + (a % M)
    OBVIOUS
  <1>2. PICK r \in Int, q \in Int : r = a % M /\ q = a \div M
    BY <1>1
  <1>3. a = r + q * M
    BY <1>1, <1>2
  <1>4. Cong(a, r, M)
    BY <1>3 DEF Cong
  <1>5. Cong(r, a, M)
    BY <1>4, CongBack
  <1>6. QED
    BY <1>1, <1>2, <1>4, <1>5

LEMMA SmallEqual ==
    ASSUME NEW M \in Nat \ {0}, NEW r \in 0 .. M - 1, NEW s \in 0 .. M - 1, NEW k \in Int, r = s + k * M
    PROVE  r = s
  <1>1. k >= 1 => k * M >= M
    OBVIOUS
  <1>2. k <= -1 => k * M <= -M
    OBVIOUS
  <1>3. k = 0 => k * M = 0
    OBVIOUS
  <1>4. PICK x \in Int : x = k * M
    OBVIOUS
  <1>5. QED
    BY <1>1, <1>2, <1>3, <1>4

LEMMA CongEqual ==
    ASSUME NEW a \in Int, NEW b \in Int, NEW M \in Nat \ {0}, Cong(a, b, M)
    PROVE  a % M = b % M
  <1>1. /\ a % M \in 0 .. M - 1 /\ b % M \in 0 .. M - 1 /\ Cong(a % M, a, M) /\ Cong(b, b % M, M)
    BY CongRemainder
  <1>2. PICK r \in 0 .. M - 1, s \in 0 .. M - 1 : r = a % M /\ s = b % M
    BY <1>1
  <1>3. Cong(r, b, M)
    BY <1>1, <1>2, CongChain
  <1>4. Cong(r, s, M)
    BY <1>1, <1>2, <1>3, CongChain
  <1>5. PICK k \in Int : r = s + k * M
    BY <1>4 DEF Cong
  <1>6. QED
    BY <1>2, <1>5, SmallEqual

LEMMA CongSmall ==
    ASSUME NEW M \in Nat \ {0}, NEW a \in 0 .. M - 1, NEW b \in 0 .. M - 1, Cong(a, b, M)
    PROVE  a = b
  BY SmallEqual DEF Cong

-----------------------------------------------------------------------------
(* Powers modulo M *)

\* The i-th power from that of half the exponent
Doubled(b, M, i, h) == IF i % 2 = 0 THEN (h * h) % M ELSE (((h * h) % M) * b) % M

Powers(b, M, p) ==
    /\ p \in [Nat -> 0 .. M - 1]
    /\ p[0] = 1 % M
    /\ \A i \in Nat \ {0} : p[i] = Doubled(b, M, i, p[i \div 2])

LEMMA DoubledType ==
    ASSUME NEW b \in Int, NEW M \in Nat \ {0}, NEW i \in Nat, NEW h \in 0 .. M - 1
    PROVE  Doubled(b, M, i, h) \in 0 .. M - 1
  <1>1. h * h \in Int
    OBVIOUS
  <1>2. (h * h) % M \in 0 .. M - 1
    BY <1>1, CongRemainder
  <1>3. ((h * h) % M) * b \in Int
    BY <1>2
  <1>4. (((h * h) % M) * b) % M \in 0 .. M - 1
    BY <1>3, CongRemainder
  <1>5. QED
    BY <1>2, <1>4 DEF Doubled

\* Power is the solution of its recursive equation.
LEMMA PowerIs ==
    ASSUME NEW b \in Int, NEW M \in Nat \ {0}
    PROVE  \E p : Powers(b, M, p) /\ \A e \in Nat : Power(b, e, M) = p[e]
  <1> DEFINE T == 0 .. M - 1
             E == [i \in Nat |-> 1 % M]
             D == [i \in Nat |-> i \div 2]
             rank == [i \in Nat |-> i]
             G == [q \in Nat \X T |-> Doubled(b, M, q[1], q[2])]
             Eq(p) == p = [i \in Nat |->
                             IF i = 0 THEN 1 % M
                             ELSE LET h == p[i \div 2]
                                  IN IF i % 2 = 0 THEN (h * h) % M ELSE (((h * h) % M) * b) % M]
  <1>1. Descends(Nat, T, {0}, E, D, G, rank)
    <2>1. 1 % M \in T
      BY CongRemainder
    <2>2. \A q \in Nat \X T : q[1] \in Nat /\ q[2] \in T
      OBVIOUS
    <2>3. \A q \in Nat \X T : Doubled(b, M, q[1], q[2]) \in T
      <3> HIDE DEF T
      <3>1. \A i \in Nat, h \in T : Doubled(b, M, i, h) \in T
        BY DoubledType DEF T
      <3>2. QED
        BY <2>2, <3>1
    <2>4. \A i \in Nat : i \div 2 \in Nat /\ (i # 0 => i \div 2 < i)
      OBVIOUS
    <2> HIDE DEF T
    <2>5. E \in [Nat -> T] /\ D \in [Nat -> Nat] /\ rank \in [Nat -> Nat] /\ G \in [Nat \X T -> T]
      BY <2>1, <2>3, <2>4
    <2>6. \A i \in Nat : i \notin {0} => rank[D[i]] < rank[i]
      BY <2>4
    <2> HIDE DEF E, D, G, rank
    <2>7. QED
      BY <2>5, <2>6 DEF Descends
  <1>2. ASSUME NEW p, \A i \in Nat : p[i] \in T, NEW i \in Nat
        PROVE  Step({0}, E, D, G, p, i) = IF i = 0 THEN 1 % M ELSE Doubled(b, M, i, p[i \div 2])
    <2>1. i \div 2 \in Nat
      OBVIOUS
    <2> HIDE DEF T
    <2>2. QED
      BY <1>2, <2>1 DEF Step
  <1>3. PICK f : Solves(Nat, T, {0}, E, D, G, f)
    <2> HIDE DEF T, E, D, G, rank
    <2> QED BY <1>1, Solvable
  <1>4. f \in [Nat -> T] /\ \A i \in Nat : f[i] = IF i = 0 THEN 1 % M ELSE Doubled(b, M, i, f[i \div 2])
    <2>1. f \in [Nat -> T] /\ \A i \in Nat : f[i] = Step({0}, E, D, G, f, i)
      BY <1>3 DEF Solves
    <2> HIDE DEF T, E, D, G
    <2>2. QED
      BY <1>2, <2>1
  <1>5. Eq(f)
    <2> HIDE DEF T
    <2> QED BY <1>4 DEF Doubled
  <1> DEFINE p == CHOOSE g : Eq(g)
  <1>6. Eq(p)
    <2> HIDE DEF Eq
    <2> QED BY <1>5
  <1>7. \A e : Power(b, e, M) = p[e]
    BY DEF Power
  <1> HIDE DEF p
  <1>8. \A i \in Nat : p[i] = IF i = 0 THEN 1 % M ELSE Doubled(b, M, i, p[i \div 2])
    BY <1>6 DEF Doubled
  <1>9. \A i \in Nat : p[i] \in T
    <2>1. ASSUME NEW i \in Nat, i \in {0} \/ p[D[i]] \in T PROVE p[i] = Step({0}, E, D, G, p, i)
      <3>1. CASE i = 0
        BY <1>8, <3>1 DEF Step
      <3>2. CASE i # 0
        <4>1. i \div 2 \in Nat /\ p[i \div 2] \in T
          BY <2>1, <3>2
        <4> HIDE DEF T
        <4>2. QED
          BY <1>8, <3>2, <4>1 DEF Step
      <3>3. QED
        BY <3>1, <3>2
    <2> HIDE DEF T, E, D, G, rank
    <2>2. QED
      BY <1>1, <2>1, StaysTyped
  <1>10. p = [i \in Nat |-> p[i]]
    BY <1>6
  <1>11. Powers(b, M, p)
    <2>1. p \in [Nat -> T]
      BY <1>9, <1>10
    <2>2. QED
      BY <1>8, <2>1 DEF Powers
  <1>12. QED
    BY <1>7, <1>11

LEMMA PowerType ==
    ASSUME NEW b \in Int, NEW M \in Nat \ {0}, NEW e \in Nat
    PROVE  Power(b, e, M) \in 0 .. M - 1 /\ Power(b, e, M) \in Nat /\ Power(b, e, M) \in Int
  <1>1. PICK p : Powers(b, M, p) /\ \A i \in Nat : Power(b, i, M) = p[i]
    BY PowerIs
  <1>2. Power(b, e, M) \in 0 .. M - 1
    BY <1>1 DEF Powers
  <1>3. QED
    BY <1>2

LEMMA PowerZero ==
    ASSUME NEW b \in Int, NEW M \in Nat \ {0}
    PROVE  Power(b, 0, M) = 1 % M /\ Cong(Power(b, 0, M), 1, M)
  <1>1. PICK p : Powers(b, M, p) /\ \A i \in Nat : Power(b, i, M) = p[i]
    BY PowerIs
  <1>2. Power(b, 0, M) = 1 % M
    BY <1>1 DEF Powers
  <1>3. Cong(1 % M, 1, M)
    BY CongRemainder
  <1>4. QED
    BY <1>2, <1>3

\* The square, and the square times the base
LEMMA PowerDouble ==
    ASSUME NEW b \in Int, NEW M \in Nat \ {0}, NEW k \in Nat,
           NEW x \in Int, x = Power(b, k, M), NEW xx \in Int, xx = x * x, NEW xxb \in Int, xxb = xx * b
    PROVE  /\ Cong(Power(b, k + k, M), xx, M)
           /\ Cong(Power(b, k + k + 1, M), xxb, M)
  <1>1. PICK p : Powers(b, M, p) /\ \A i \in Nat : Power(b, i, M) = p[i]
    BY PowerIs
  <1>2. x = p[k]
    BY <1>1
  <1>3. PICK s \in Int : s = xx % M /\ Cong(s, xx, M)
    <2>1. Cong(xx % M, xx, M) /\ xx % M \in 0 .. M - 1
      BY CongRemainder
    <2>2. QED
      BY <2>1
  <1>4. Cong(Power(b, k + k, M), xx, M)
    <2>1. CASE k = 0
      <3>1. Cong(x, 1, M) /\ Power(b, k + k, M) = x
        BY <2>1, PowerZero
      <3>2. Cong(1, x, M)
        BY <3>1, CongBack
      <3>3. Cong(x, x, M)
        BY CongSame
      <3>4. x = 1 * x
        OBVIOUS
      <3>5. Cong(x, xx, M)
        BY <3>2, <3>3, <3>4, CongProduct
      <3>6. QED
        BY <3>1, <3>5
    <2>2. CASE k # 0
      <3>1. k + k \in Nat \ {0} /\ (k + k) \div 2 = k /\ (k + k) % 2 = 0
        BY <2>2
      <3>2. p[k + k] = s
        BY <1>1, <1>2, <1>3, <3>1 DEF Powers, Doubled
      <3>3. QED
        BY <1>1, <1>3, <3>1, <3>2
    <2>3. QED
      BY <2>1, <2>2
  <1>5. Cong(Power(b, k + k + 1, M), xxb, M)
    <2>1. k + k + 1 \in Nat \ {0} /\ (k + k + 1) \div 2 = k /\ (k + k + 1) % 2 # 0
      OBVIOUS
    <2>2. p[k + k + 1] = (s * b) % M
      BY <1>1, <1>2, <1>3, <2>1 DEF Powers, Doubled
    <2>3. PICK sb \in Int : sb = s * b
      OBVIOUS
    <2>4. PICK r \in Int : r = sb % M /\ Cong(r, sb, M)
      <3>1. Cong(sb % M, sb, M) /\ sb % M \in 0 .. M - 1
        BY CongRemainder
      <3>2. QED
        BY <3>1
    <2>5. Cong(b, b, M)
      BY CongSame
    <2>6. Cong(sb, xxb, M)
      BY <1>3, <2>3, <2>5, CongProduct
    <2>7. Cong(r, xxb, M)
      BY <2>4, <2>6, CongChain
    <2>8. QED
      BY <1>1, <2>1, <2>2, <2>3, <2>4, <2>7
  <1>6. QED
    BY <1>4, <1>5

\* One more factor
LEMMA PowerNext ==
    ASSUME NEW b \in Int, NEW M \in Nat \ {0}, NEW e \in Nat
    PROVE  Cong(Power(b, e + 1, M), Power(b, e, M) * b, M)
  <1> DEFINE Next1(i) == Cong(Power(b, i + 1, M), Power(b, i, M) * b, M)
             S == {i \in Nat : ~Next1(i)}
  <1>1. SUFFICES ASSUME e \in S PROVE FALSE
    OBVIOUS
  <1>2. PICK i \in S : \A j \in S : i <= j
    <2> HIDE DEF Next1
    <2> QED BY <1>1, LeastNumber
  <1>3. PICK k \in Nat : i = k + k \/ i = k + k + 1
    <2>1. i \in Nat /\ i \div 2 \in Nat /\ (i = (i \div 2) + (i \div 2) \/ i = (i \div 2) + (i \div 2) + 1)
      OBVIOUS
    <2>2. QED
      BY <2>1
  <1>4. PICK x \in Int : x = Power(b, k, M)
    BY PowerType
  <1>5. PICK xx \in Int, xb \in Int : xx = x * x /\ xb = x * b
    OBVIOUS
  <1>6. PICK xxb \in Int : xxb = xx * b
    OBVIOUS
  <1>7. PICK y \in Int, z \in Int : y = Power(b, i, M) /\ z = Power(b, i + 1, M)
    <2>1. i \in Nat /\ i + 1 \in Nat
      OBVIOUS
    <2>2. QED
      BY <2>1, PowerType
  <1>8. PICK yb \in Int : yb = y * b
    OBVIOUS
  <1>9. Cong(b, b, M)
    BY CongSame
  <1>10. CASE i = k + k
    <2>1. Cong(y, xx, M) /\ Cong(z, xxb, M)
      BY <1>4, <1>5, <1>6, <1>7, <1>10, PowerDouble
    <2>2. Cong(yb, xxb, M)
      BY <1>6, <1>8, <1>9, <2>1, CongProduct
    <2>3. Cong(z, yb, M)
      BY <2>1, <2>2, CongBack, CongChain
    <2>4. QED
      BY <1>2, <1>7, <1>8, <2>3
  <1>11. CASE i = k + k + 1
    <2>1. k \notin S
      <3>1. ~(i <= k)
        BY <1>11
      <3> HIDE DEF S
      <3>2. QED
        BY <1>2, <3>1
    <2>2. PICK w \in Int : w = Power(b, k + 1, M)
      BY PowerType
    <2>3. Cong(w, xb, M)
      BY <1>4, <1>5, <2>1, <2>2
    <2>4. PICK ww \in Int, wwb \in Int : ww = w * w /\ wwb = ww * b
      OBVIOUS
    <2>5. i + 1 = (k + 1) + (k + 1) /\ k + 1 \in Nat
      BY <1>11
    <2>6. Cong(z, ww, M)
      BY <1>7, <2>2, <2>4, <2>5, PowerDouble
    <2>7. Cong(y, xxb, M)
      BY <1>4, <1>5, <1>6, <1>7, <1>11, PowerDouble
    <2>8. PICK q \in Int : q = xxb * b
      OBVIOUS
    <2>9. q = xb * xb
      BY <1>5, <1>6, <2>8
    <2>10. Cong(ww, q, M)
      BY <2>3, <2>4, <2>9, CongProduct
    <2>11. Cong(yb, q, M)
      BY <1>8, <1>9, <2>7, <2>8, CongProduct
    <2>12. Cong(z, yb, M)
      BY <2>6, <2>10, <2>11, CongBack, CongChain
    <2>13. QED
      BY <1>2, <1>7, <1>8, <2>12
  <1>12. QED
    BY <1>3, <1>10, <1>11

LEMMA Induction ==
    ASSUME NEW S, 0 \in S, \A i \in Nat : i \in S => i + 1 \in S
    PROVE  \A i \in Nat : i \in S
  <1> DEFINE R == {i \in Nat : i \notin S}
  <1>1. SUFFICES ASSUME R # {} PROVE FALSE
    OBVIOUS
  <1>2. PICK i \in R : \A j \in R : i <= j
    <2>1. R \in SUBSET Nat
      OBVIOUS
    <2> HIDE DEF R
    <2>2. QED
      BY <1>1, <2>1, LeastNumber
  <1>3. i # 0
    OBVIOUS
  <1>4. i - 1 \in Nat /\ ~(i <= i - 1) /\ i = (i - 1) + 1
    BY <1>3
  <1>5. i - 1 \notin R
    <2> HIDE DEF R
    <2> QED BY <1>2, <1>4
  <1>6. QED
    BY <1>4, <1>5

\* PowerNext with names for what occurs in it
LEMMA PowerOneMore ==
    ASSUME NEW b \in Int, NEW M \in Nat \ {0}, NEW e \in Nat, NEW p \in Int, p = Power(b, e, M),
           NEW q \in Int, q = p * b
    PROVE  \E z \in Int : z = Power(b, e + 1, M) /\ Cong(z, q, M)
  <1>1. Cong(Power(b, e + 1, M), q, M)
    BY PowerNext
  <1>2. e + 1 \in Nat
    OBVIOUS
  <1>3. Power(b, e + 1, M) \in Int
    BY <1>2, PowerType
  <1>4. QED
    BY <1>1, <1>3

LEMMA PowerPlus ==
    ASSUME NEW b \in Int, NEW M \in Nat \ {0}, NEW x \in Nat, NEW y \in Nat,
           NEW p \in Int, p = Power(b, x, M), NEW q \in Int, q = Power(b, y, M), NEW r \in Int, r = p * q
    PROVE  Cong(Power(b, x + y, M), r, M)
  <1> DEFINE Law(i) == \A s \in Int, t \in Int :
                  s = Power(b, i, M) /\ t = p * s => Cong(Power(b, x + i, M), t, M)
             S == {i \in Nat : Law(i)}
  <1>1. 0 \in S
    <2> SUFFICES ASSUME NEW s \in Int, NEW t \in Int, s = Power(b, 0, M), t = p * s
                 PROVE  Cong(Power(b, x + 0, M), t, M)
      OBVIOUS
    <2>1. Cong(1, s, M)
      BY PowerZero, CongBack
    <2>2. Cong(p, p, M)
      BY CongSame
    <2>3. p = p * 1 /\ x + 0 = x
      OBVIOUS
    <2>4. Cong(p, t, M)
      BY <2>1, <2>2, <2>3, CongProduct
    <2>5. QED
      BY <2>3, <2>4
  <1>2. ASSUME NEW i \in Nat, i \in S PROVE i + 1 \in S
    <2> SUFFICES ASSUME NEW s \in Int, NEW t \in Int, s = Power(b, i + 1, M), t = p * s
                 PROVE  Cong(Power(b, x + (i + 1), M), t, M)
      OBVIOUS
    <2>1. PICK u \in Int, v \in Int : u = Power(b, i, M) /\ v = Power(b, x + i, M)
      <3>1. x + i \in Nat
        OBVIOUS
      <3>2. QED
        BY <3>1, PowerType
    <2>2. PICK pu \in Int, ub \in Int, vb \in Int : pu = p * u /\ ub = u * b /\ vb = v * b
      OBVIOUS
    <2>3. Cong(v, pu, M)
      BY <1>2, <2>1, <2>2
    <2>4. Cong(s, ub, M)
      BY <2>1, <2>2, PowerOneMore
    <2>5. PICK z \in Int : z = Power(b, x + (i + 1), M) /\ Cong(z, vb, M)
      <3>1. x + i \in Nat /\ (x + i) + 1 = x + (i + 1)
        OBVIOUS
      <3>2. QED
        BY <2>1, <2>2, <3>1, PowerOneMore
    <2>6. PICK w \in Int : w = pu * b
      OBVIOUS
    <2>7. w = p * ub
      BY <2>2, <2>6
    <2>8. Cong(b, b, M) /\ Cong(p, p, M)
      BY CongSame
    <2>9. Cong(vb, w, M)
      BY <2>2, <2>3, <2>6, <2>8, CongProduct
    <2>10. Cong(t, w, M)
      BY <2>2, <2>4, <2>7, <2>8, CongProduct
    <2>11. Cong(z, t, M)
      BY <2>5, <2>9, <2>10, CongBack, CongChain
    <2>12. QED
      BY <2>5, <2>11
  <1>3. \A i \in Nat : i \in S
    <2> HIDE DEF S
    <2> QED BY <1>1, <1>2, Induction
  <1>4. QED
    BY <1>3

\* Congruent bases have congruent powers.
LEMMA PowerCong ==
    ASSUME NEW b \in Int, NEW c \in Int, NEW M \in Nat \ {0}, Cong(b, c, M), NEW e \in Nat
    PROVE  Cong(Power(b, e, M), Power(c, e, M), M)
  <1> DEFINE S == {i \in Nat : Cong(Power(b, i, M), Power(c, i, M), M)}
  <1>1. 0 \in S
    <2>1. 1 % M \in Int
      BY CongRemainder
    <2>2. Cong(1 % M, 1 % M, M)
      BY <2>1, CongSame
    <2>3. QED
      BY <2>2, PowerZero
  <1>2. ASSUME NEW i \in Nat, i \in S PROVE i + 1 \in S
    <2>1. PICK u \in Int, v \in Int : u = Power(b, i, M) /\ v = Power(c, i, M)
      BY PowerType
    <2>2. PICK ub \in Int, vc \in Int : ub = u * b /\ vc = v * c
      OBVIOUS
    <2>3. PICK y \in Int : y = Power(b, i + 1, M) /\ Cong(y, ub, M)
      BY <2>1, <2>2, PowerOneMore
    <2>4. PICK z \in Int : z = Power(c, i + 1, M) /\ Cong(z, vc, M)
      BY <2>1, <2>2, PowerOneMore
    <2>5. Cong(u, v, M)
      BY <1>2, <2>1
    <2>6. Cong(ub, vc, M)
      BY <2>2, <2>5, CongProduct
    <2>7. Cong(y, z, M)
      BY <2>3, <2>4, <2>6, CongBack, CongChain
    <2>8. QED
      BY <2>3, <2>4, <2>7
  <1>3. \A i \in Nat : i \in S
    <2> HIDE DEF S
    <2> QED BY <1>1, <1>2, Induction
  <1>4. QED
    BY <1>3

\* The power of a product
LEMMA PowerProduct ==
    ASSUME NEW b \in Int, NEW c \in Int, NEW M \in Nat \ {0}, NEW e \in Nat, NEW w \in Int, w = b * c,
           NEW p \in Int, p = Power(b, e, M), NEW q \in Int, q = Power(c, e, M), NEW r \in Int, r = p * q
    PROVE  Cong(Power(w, e, M), r, M)
  <1> DEFINE Law(i) == \A s \in Int, t \in Int, st \in Int :
                  s = Power(b, i, M) /\ t = Power(c, i, M) /\ st = s * t => Cong(Power(w, i, M), st, M)
             S == {i \in Nat : Law(i)}
  <1>1. 0 \in S
    <2> SUFFICES ASSUME NEW s \in Int, NEW t \in Int, NEW st \in Int,
                        s = Power(b, 0, M), t = Power(c, 0, M), st = s * t
                 PROVE  Cong(Power(w, 0, M), st, M)
      OBVIOUS
    <2>1. PICK z \in Int : z = Power(w, 0, M)
      BY PowerType
    <2>2. Cong(s, 1, M) /\ Cong(t, 1, M) /\ Cong(z, 1, M)
      BY <2>1, PowerZero
    <2>3. 1 = 1 * 1
      OBVIOUS
    <2>4. Cong(st, 1, M)
      BY <2>2, <2>3, CongProduct
    <2>5. Cong(z, st, M)
      BY <2>2, <2>4, CongBack, CongChain
    <2>6. QED
      BY <2>1, <2>5
  <1>2. ASSUME NEW i \in Nat, i \in S PROVE i + 1 \in S
    <2> SUFFICES ASSUME NEW s \in Int, NEW t \in Int, NEW st \in Int,
                        s = Power(b, i + 1, M), t = Power(c, i + 1, M), st = s * t
                 PROVE  Cong(Power(w, i + 1, M), st, M)
      OBVIOUS
    <2>1. PICK u \in Int, v \in Int, x \in Int : u = Power(b, i, M) /\ v = Power(c, i, M) /\ x = Power(w, i, M)
      BY PowerType
    <2>2. PICK ub \in Int, vc \in Int, xw \in Int, uv \in Int :
             ub = u * b /\ vc = v * c /\ xw = x * w /\ uv = u * v
      OBVIOUS
    <2>3. Cong(s, ub, M) /\ Cong(t, vc, M)
      BY <2>1, <2>2, PowerOneMore
    <2>4. PICK z \in Int : z = Power(w, i + 1, M) /\ Cong(z, xw, M)
      BY <2>1, <2>2, PowerOneMore
    <2>5. Cong(x, uv, M)
      BY <1>2, <2>1, <2>2
    <2>6. PICK y \in Int : y = uv * w
      OBVIOUS
    <2>7. y = ub * vc
      BY <2>2, <2>6
    <2>8. Cong(w, w, M)
      BY CongSame
    <2>9. Cong(xw, y, M)
      BY <2>2, <2>5, <2>6, <2>8, CongProduct
    <2>10. Cong(st, y, M)
      BY <2>3, <2>7, CongProduct
    <2>11. Cong(z, st, M)
      BY <2>4, <2>9, <2>10, CongBack, CongChain
    <2>12. QED
      BY <2>4, <2>11
  <1>3. \A i \in Nat : i \in S
    <2> HIDE DEF S
    <2> QED BY <1>1, <1>2, Induction
  <1>4. QED
    BY <1>3

\* The power of a power
LEMMA PowerPower ==
    ASSUME NEW b \in Int, NEW M \in Nat \ {0}, NEW x \in Nat, NEW y \in Nat,
           NEW p \in Int, p = Power(b, x, M), NEW n \in Nat, n = x * y
    PROVE  Cong(Power(p, y, M), Power(b, n, M), M)
  <1> DEFINE Law(i) == \A k \in Nat : k = x * i => Cong(Power(p, i, M), Power(b, k, M), M)
             S == {i \in Nat : Law(i)}
  <1>1. 0 \in S
    <2> SUFFICES ASSUME NEW k \in Nat, k = x * 0 PROVE Cong(Power(p, 0, M), Power(b, k, M), M)
      OBVIOUS
    <2>1. k = 0
      OBVIOUS
    <2>2. 1 % M \in Int
      BY CongRemainder
    <2>3. Cong(1 % M, 1 % M, M)
      BY <2>2, CongSame
    <2>4. QED
      BY <2>1, <2>3, PowerZero
  <1>2. ASSUME NEW i \in Nat, i \in S PROVE i + 1 \in S
    <2> SUFFICES ASSUME NEW k \in Nat, k = x * (i + 1)
                 PROVE  Cong(Power(p, i + 1, M), Power(b, k, M), M)
      OBVIOUS
    <2>1. PICK m \in Nat : m = x * i
      OBVIOUS
    <2>2. k = m + x
      BY <2>1
    <2>3. PICK u \in Int, v \in Int, z \in Int : u = Power(p, i, M) /\ v = Power(b, m, M) /\ z = Power(b, k, M)
      BY PowerType
    <2>4. Cong(u, v, M)
      BY <1>2, <2>1, <2>3
    <2>5. PICK up \in Int, vp \in Int : up = u * p /\ vp = v * p
      OBVIOUS
    <2>6. PICK y1 \in Int : y1 = Power(p, i + 1, M) /\ Cong(y1, up, M)
      BY <2>3, <2>5, PowerOneMore
    <2>7. Cong(z, vp, M)
      BY <2>2, <2>3, <2>5, PowerPlus
    <2>8. Cong(p, p, M)
      BY CongSame
    <2>9. Cong(up, vp, M)
      BY <2>4, <2>5, <2>8, CongProduct
    <2>10. Cong(y1, z, M)
      BY <2>6, <2>7, <2>9, CongBack, CongChain
    <2>11. QED
      BY <2>3, <2>6, <2>10
  <1>3. \A i \in Nat : i \in S
    <2> HIDE DEF S
    <2> QED BY <1>1, <1>2, Induction
  <1>4. QED
    BY <1>3

LEMMA PowerOne ==
    ASSUME NEW b \in Int, NEW M \in Nat \ {0}, Cong(b, 1, M), NEW e \in Nat
    PROVE  Cong(Power(b, e, M), 1, M)
  <1> DEFINE S == {i \in Nat : Cong(Power(b, i, M), 1, M)}
  <1>1. 0 \in S
    BY PowerZero
  <1>2. ASSUME NEW i \in Nat, i \in S PROVE i + 1 \in S
    <2>1. PICK u \in Int : u = Power(b, i, M)
      BY PowerType
    <2>2. PICK ub \in Int : ub = u * b
      OBVIOUS
    <2>3. PICK y \in Int : y = Power(b, i + 1, M) /\ Cong(y, ub, M)
      BY <2>1, <2>2, PowerOneMore
    <2>4. Cong(u, 1, M) /\ 1 = 1 * 1
      BY <1>2, <2>1
    <2>5. Cong(ub, 1, M)
      BY <2>2, <2>4, CongProduct
    <2>6. Cong(y, 1, M)
      BY <2>3, <2>5, CongChain
    <2>7. QED
      BY <2>3, <2>6
  <1>3. \A i \in Nat : i \in S
    <2> HIDE DEF S
    <2> QED BY <1>1, <1>2, Induction
  <1>4. QED
    BY <1>3

-----------------------------------------------------------------------------
(* Inverses modulo M *)

Triples == Nat \X Int \X Int

\* One step of Euclid's algorithm, back from the divisor and the remainder
Backwards(a, b, r) == <<r[1], r[3], r[2] - (a \div b) * r[3]>>

Euclid(f) ==
    /\ f \in [Nat \X Nat -> Triples]
    /\ \A a, b \in Nat : f[<<a, b>>] = IF b = 0 THEN <<a, 1, 0>> ELSE Backwards(a, b, f[<<b, a % b>>])

LEMMA BackwardsType ==
    ASSUME NEW a \in Nat, NEW b \in Nat \ {0}, NEW r \in Triples
    PROVE  Backwards(a, b, r) \in Triples
  <1>1. r[1] \in Nat /\ r[2] \in Int /\ r[3] \in Int /\ a \div b \in Int
    BY DEF Triples
  <1>2. PICK x \in Int, y \in Int, q \in Int : x = r[2] /\ y = r[3] /\ q = a \div b
    BY <1>1
  <1>3. x - q * y \in Int
    OBVIOUS
  <1>4. QED
    BY <1>1, <1>2, <1>3 DEF Backwards, Triples

\* Bezout is the solution of its recursive equation.
LEMMA BezoutIs ==
    \E f : Euclid(f) /\ \A a, b \in Nat : Bezout(a, b) = f[<<a, b>>]
  <1> DEFINE X == Nat \X Nat
             B == {p \in X : p[2] = 0}
             E == [p \in X |-> <<p[1], 1, 0>>]
             D == [p \in X |-> IF p[2] = 0 THEN p ELSE <<p[2], p[1] % p[2]>>]
             rank == [p \in X |-> p[2]]
             G == [q \in X \X Triples |-> IF q[1][2] = 0 THEN <<0, 0, 0>> ELSE Backwards(q[1][1], q[1][2], q[2])]
             Eq(f) == f = [p \in Nat \X Nat |->
                             IF p[2] = 0 THEN <<p[1], 1, 0>>
                             ELSE LET r == f[<<p[2], p[1] % p[2]>>]
                                  IN <<r[1], r[3], r[2] - (p[1] \div p[2]) * r[3]>>]
  <1>0. \A p \in X : p[1] \in Nat /\ p[2] \in Nat /\ p = <<p[1], p[2]>>
    OBVIOUS
  <1>1. \A p \in X : p[2] # 0 => <<p[2], p[1] % p[2]>> \in X /\ p[1] % p[2] < p[2]
    BY <1>0
  <1>2. Descends(X, Triples, B, E, D, G, rank)
    <2>1. E \in [X -> Triples]
      BY <1>0 DEF Triples
    <2>2. D \in [X -> X] /\ rank \in [X -> Nat]
      BY <1>0, <1>1
    <2>3. G \in [X \X Triples -> Triples]
      <3>1. <<0, 0, 0>> \in Triples
        BY DEF Triples
      <3>2. \A q \in X \X Triples : q[1] \in X /\ q[2] \in Triples
        OBVIOUS
      <3> HIDE DEF X
      <3>3. ASSUME NEW q \in X \X Triples, q[1][2] # 0 PROVE Backwards(q[1][1], q[1][2], q[2]) \in Triples
        <4>1. q[1][1] \in Nat /\ q[1][2] \in Nat \ {0} /\ q[2] \in Triples
          BY <1>0, <3>2, <3>3
        <4>2. QED
          BY <4>1, BackwardsType
      <3>4. QED
        BY <3>1, <3>3
    <2>4. \A p \in X : p \notin B => rank[D[p]] < rank[p]
      <3> SUFFICES ASSUME NEW p \in X, p \notin B PROVE rank[D[p]] < rank[p]
        OBVIOUS
      <3>1. p[2] # 0
        OBVIOUS
      <3>2. D[p] = <<p[2], p[1] % p[2]>> /\ D[p] \in X
        BY <1>1, <3>1
      <3>3. rank[D[p]] = p[1] % p[2]
        BY <3>2
      <3>4. QED
        BY <1>1, <3>1, <3>3
    <2> HIDE DEF X, B, E, D, G, rank
    <2>5. QED
      BY <2>1, <2>2, <2>3, <2>4 DEF Descends
  <1>3. ASSUME NEW f, NEW p \in X, p \in B \/ f[D[p]] \in Triples
        PROVE  Step(B, E, D, G, f, p) = IF p[2] = 0 THEN <<p[1], 1, 0>>
                                        ELSE Backwards(p[1], p[2], f[<<p[2], p[1] % p[2]>>])
    <2>1. CASE p[2] = 0
      BY <2>1 DEF Step
    <2>2. CASE p[2] # 0
      <3>1. p \notin B /\ D[p] = <<p[2], p[1] % p[2]>>
        BY <2>2
      <3>2. f[D[p]] \in Triples
        BY <1>3, <3>1
      <3>3. <<p, f[D[p]]>> \in X \X Triples
        BY <3>2
      <3>4. G[<<p, f[D[p]]>>] = Backwards(p[1], p[2], f[D[p]])
        BY <2>2, <3>3
      <3> HIDE DEF X, B, E, D, G
      <3>5. QED
        BY <2>2, <3>1, <3>4 DEF Step
    <2>3. QED
      BY <2>1, <2>2
  <1>4. PICK f : Solves(X, Triples, B, E, D, G, f)
    <2> HIDE DEF X, B, E, D, G, rank
    <2> QED BY <1>2, Solvable
  <1>5. ASSUME NEW p \in X
        PROVE  f[p] = IF p[2] = 0 THEN <<p[1], 1, 0>>
                      ELSE Backwards(p[1], p[2], f[<<p[2], p[1] % p[2]>>])
    <2>1. f[p] = Step(B, E, D, G, f, p) /\ (p \notin B => f[D[p]] \in Triples)
      <3>1. D[p] \in X
        BY <1>0, <1>1
      <3> HIDE DEF X, B, E, D, G
      <3>2. QED
        BY <1>4, <3>1 DEF Solves
    <2> HIDE DEF X, B, E, D, G
    <2>2. QED
      BY <1>3, <2>1
  <1>6. Eq(f)
    <2>1. f = [p \in X |-> f[p]]
      <3> HIDE DEF X, B, E, D, G
      <3> QED BY <1>4 DEF Solves
    <2>2. QED
      BY <1>5, <2>1 DEF Backwards
  <1> DEFINE g == CHOOSE h : Eq(h)
  <1>7. Eq(g)
    <2> HIDE DEF Eq
    <2> QED BY <1>6
  <1>8. \A a, b : Bezout(a, b) = g[<<a, b>>]
    BY DEF Bezout
  <1> HIDE DEF g
  <1>9. \A p \in X : g[p] = IF p[2] = 0 THEN <<p[1], 1, 0>>
                            ELSE Backwards(p[1], p[2], g[<<p[2], p[1] % p[2]>>])
    BY <1>7 DEF Backwards
  <1>10. \A p \in X : g[p] \in Triples
    <2>1. ASSUME NEW p \in X, p \in B \/ g[D[p]] \in Triples PROVE g[p] = Step(B, E, D, G, g, p)
      <3> HIDE DEF X, B, E, D, G
      <3> QED BY <1>3, <1>9, <2>1
    <2> HIDE DEF X, B, E, D, G, rank
    <2>2. QED
      BY <1>2, <2>1, StaysTyped
  <1>11. g \in [X -> Triples]
    BY <1>7, <1>10
  <1>12. Euclid(g)
    <2>1. ASSUME NEW a \in Nat, NEW b \in Nat
          PROVE  g[<<a, b>>] = IF b = 0 THEN <<a, 1, 0>> ELSE Backwards(a, b, g[<<b, a % b>>])
      <3>1. <<a, b>> \in X /\ <<a, b>>[1] = a /\ <<a, b>>[2] = b
        OBVIOUS
      <3>2. QED
        BY <1>9, <3>1
    <2>2. QED
      BY <1>11, <2>1 DEF Euclid
  <1>13. QED
    BY <1>8, <1>12

\* g divides a and b, and is a combination of them.
Combines(a, b, g, x, y) ==
    /\ g = a * x + b * y
    /\ \E c, d \in Int : a = g * c /\ b = g * d

LEMMA CombinesBack ==
    ASSUME NEW a \in Nat, NEW b \in Nat \ {0}, NEW q \in Int, NEW r \in Nat, a = b * q + r,
           NEW g \in Nat, NEW x \in Int, NEW y \in Int, Combines(b, r, g, x, y)
    PROVE  Combines(a, b, g, y, x - q * y)
  <1>1. g = b * x + r * y
    BY DEF Combines
  <1>2. PICK c \in Int, d \in Int : b = g * c /\ r = g * d
    BY DEF Combines
  <1>3. r = a - b * q
    OBVIOUS
  <1>4. b * x + (a - b * q) * y = a * y + b * (x - q * y)
    OBVIOUS
  <1>5. g = a * y + b * (x - q * y)
    BY <1>1, <1>3, <1>4
  <1>6. a = (g * c) * q + g * d
    BY <1>2
  <1>7. (g * c) * q + g * d = g * (c * q + d) /\ c * q + d \in Int
    OBVIOUS
  <1>8. QED
    BY <1>2, <1>5, <1>6, <1>7 DEF Combines

LEMMA BezoutCombines ==
    ASSUME NEW a \in Nat, NEW b \in Nat
    PROVE  \E g \in Nat, x \in Int, y \in Int :
              Bezout(a, b)[1] = g /\ Bezout(a, b)[2] = x /\ Combines(a, b, g, x, y)
  <1>1. PICK f : Euclid(f) /\ \A i, j \in Nat : Bezout(i, j) = f[<<i, j>>]
    BY BezoutIs
  <1> DEFINE Good(i, j) == Combines(i, j, f[<<i, j>>][1], f[<<i, j>>][2], f[<<i, j>>][3])
             S == {j \in Nat : \E i \in Nat : ~Good(i, j)}
  <1>2. S = {}
    <2>1. SUFFICES ASSUME S # {} PROVE FALSE
      OBVIOUS
    <2>2. PICK j \in S : \A k \in S : j <= k
      <3>1. S \in SUBSET Nat
        OBVIOUS
      <3> HIDE DEF S
      <3>2. QED
        BY <2>1, <3>1, LeastNumber
    <2>3. PICK i \in Nat : ~Good(i, j)
      OBVIOUS
    <2>4. CASE j = 0
      <3>1. f[<<i, j>>] = <<i, 1, 0>>
        BY <1>1, <2>4 DEF Euclid
      <3>2. i = i * 1 + 0 * 0 /\ i = i * 1 /\ 0 = i * 0
        OBVIOUS
      <3>3. Combines(i, 0, i, 1, 0)
        BY <3>2 DEF Combines
      <3>4. QED
        BY <2>3, <2>4, <3>1, <3>3
    <2>5. CASE j # 0
      <3>1. PICK q \in Int, r \in Nat : q = i \div j /\ r = i % j /\ i = j * q + r /\ r < j
        <4>1. j \in Nat \ {0}
          BY <2>5
        <4>2. i % j \in 0 .. j - 1 /\ i \div j \in Int /\ i = j * (i \div j) + (i % j)
          BY <4>1
        <4>3. QED
          BY <4>2
      <3>2. r \notin S
        <4>1. ~(j <= r)
          BY <3>1
        <4> HIDE DEF S
        <4>2. QED
          BY <2>2, <4>1
      <3>3. Good(j, r)
        BY <3>2
      <3>4. PICK g \in Nat, x \in Int, y \in Int : f[<<j, r>>] = <<g, x, y>>
        <4>1. f[<<j, r>>] \in Triples
          BY <1>1 DEF Euclid
        <4>2. QED
          BY <4>1 DEF Triples
      <3>5. Combines(j, r, g, x, y)
        BY <3>3, <3>4
      <3>6. f[<<i, j>>] = <<g, y, x - q * y>>
        <4>1. f[<<i, j>>] = Backwards(i, j, f[<<j, i % j>>])
          BY <1>1, <2>5 DEF Euclid
        <4>2. f[<<i, j>>] = Backwards(i, j, <<g, x, y>>)
          BY <3>1, <3>4, <4>1
        <4>3. QED
          BY <3>1, <4>2 DEF Backwards
      <3>7. Combines(i, j, g, y, x - q * y)
        BY <2>5, <3>1, <3>5, CombinesBack
      <3>8. QED
        BY <2>3, <3>6, <3>7
    <2>6. QED
      BY <2>4, <2>5
  <1>3. Good(a, b)
    BY <1>2
  <1>4. f[<<a, b>>] \in Triples
    BY <1>1 DEF Euclid
  <1>5. QED
    BY <1>1, <1>3, <1>4 DEF Triples

\* a has an inverse.
Unit(a, M) == \E k \in Int : Cong(a * k, 1, M)

LEMMA UnitProduct ==
    ASSUME NEW a \in Int, NEW b \in Int, NEW M \in Nat \ {0}, Unit(a, M), Unit(b, M), NEW c \in Int, c = a * b
    PROVE  Unit(c, M)
  <1>1. PICK k \in Int : Cong(a * k, 1, M)
    BY DEF Unit
  <1>2. PICK l \in Int : Cong(b * l, 1, M)
    BY DEF Unit
  <1>3. PICK ak \in Int, bl \in Int, kl \in Int : ak = a * k /\ bl = b * l /\ kl = k * l
    OBVIOUS
  <1>4. PICK p \in Int : p = ak * bl
    OBVIOUS
  <1>5. p = c * kl
    BY <1>3, <1>4
  <1>6. Cong(p, 1, M)
    <2>1. Cong(ak, 1, M) /\ Cong(bl, 1, M) /\ 1 = 1 * 1
      BY <1>1, <1>2, <1>3
    <2>2. QED
      BY <1>4, <2>1, CongProduct
  <1>7. QED
    BY <1>5, <1>6 DEF Unit

LEMMA UnitCong ==
    ASSUME NEW a \in Int, NEW b \in Int, NEW M \in Nat \ {0}, Unit(a, M), Cong(b, a, M)
    PROVE  Unit(b, M)
  <1>1. PICK k \in Int : Cong(a * k, 1, M)
    BY DEF Unit
  <1>2. PICK ak \in Int, bk \in Int : ak = a * k /\ bk = b * k
    OBVIOUS
  <1>3. Cong(k, k, M)
    BY CongSame
  <1>4. Cong(bk, ak, M)
    BY <1>2, <1>3, CongProduct
  <1>5. Cong(bk, 1, M)
    BY <1>1, <1>2, <1>4, CongChain
  <1>6. QED
    BY <1>2, <1>5 DEF Unit

\* A power of a unit is one.
LEMMA UnitPower ==
    ASSUME NEW b \in Int, NEW M \in Nat \ {0}, Unit(b, M), NEW e \in Nat
    PROVE  Unit(Power(b, e, M), M)
  <1>1. PICK k \in Int : Cong(b * k, 1, M)
    BY DEF Unit
  <1>2. PICK w \in Int : w = b * k
    OBVIOUS
  <1>3. PICK p \in Int, q \in Int : p = Power(b, e, M) /\ q = Power(k, e, M)
    BY PowerType
  <1>4. PICK r \in Int, z \in Int : r = p * q /\ z = Power(w, e, M)
    <2>1. Power(w, e, M) \in Int
      BY PowerType
    <2>2. p * q \in Int
      OBVIOUS
    <2>3. QED
      BY <2>1, <2>2
  <1>5. Cong(z, r, M)
    BY <1>2, <1>3, <1>4, PowerProduct
  <1>6. Cong(z, 1, M)
    BY <1>1, <1>2, <1>4, PowerOne
  <1>7. Cong(r, 1, M)
    BY <1>5, <1>6, CongBack, CongChain
  <1>8. QED
    BY <1>3, <1>4, <1>7 DEF Unit

LEMMA ProductOne ==
    ASSUME NEW g \in Nat, NEW x \in Int, g * x = 1
    PROVE  g = 1
  <1>1. g # 0
    OBVIOUS
  <1>2. x >= 1
    <2>1. x <= 0 => g * x <= 0
      OBVIOUS
    <2>2. QED
      BY <2>1
  <1>3. g > 1 => g * x > 1
    BY <1>2
  <1>4. QED
    BY <1>1, <1>3

\* Invert finds the inverse, where there is one.
LEMMA InvertIs ==
    ASSUME NEW a \in Int, NEW M \in Nat \ {0}, Unit(a, M)
    PROVE  \E x \in 0 .. M - 1 : x = Invert(a, M) /\ Cong(a * x, 1, M)
  <1>1. PICK r \in Nat : r = a % M /\ Cong(r, a, M) /\ Cong(a, r, M)
    BY CongRemainder
  <1>2. PICK g \in Nat, x \in Int, y \in Int : Bezout(r, M)[2] = x /\ Combines(r, M, g, x, y)
    BY BezoutCombines
  <1>3. PICK c \in Int, d \in Int : r = g * c /\ M = g * d
    BY <1>2 DEF Combines
  <1>4. Unit(r, M)
    BY <1>1, UnitCong
  <1>5. PICK k \in Int, l \in Int : r * k = 1 + l * M
    BY <1>4 DEF Unit, Cong
  <1>6. g * (c * k - d * l) = 1 /\ c * k - d * l \in Int
    <2>1. (g * c) * k = 1 + l * (g * d)
      BY <1>3, <1>5
    <2>2. g * (c * k - d * l) = (g * c) * k - l * (g * d)
      OBVIOUS
    <2>3. (g * c) * k \in Int /\ l * (g * d) \in Int
      OBVIOUS
    <2>4. QED
      BY <2>1, <2>2, <2>3
  <1>7. g = 1
    BY <1>6, ProductOne
  <1>8. PICK rx \in Int : rx = r * x
    OBVIOUS
  <1>9. rx = 1 + (-y) * M /\ -y \in Int
    <2>1. 1 = r * x + M * y
      BY <1>2, <1>7 DEF Combines
    <2>2. (-y) * M = -(M * y) /\ M * y \in Int
      OBVIOUS
    <2>3. QED
      BY <1>8, <2>1, <2>2
  <1>10. Cong(rx, 1, M)
    BY <1>9 DEF Cong
  <1>11. PICK i \in 0 .. M - 1 : i = x % M /\ Cong(i, x, M)
    BY CongRemainder
  <1>12. PICK ai \in Int : ai = a * i
    OBVIOUS
  <1>13. Cong(ai, rx, M)
    BY <1>1, <1>8, <1>11, <1>12, CongProduct
  <1>14. Cong(ai, 1, M)
    BY <1>10, <1>13, CongChain
  <1>15. Invert(a, M) = i
    BY <1>1, <1>2, <1>11 DEF Invert
  <1>16. QED
    BY <1>12, <1>14, <1>15

\* What Gcd finds without a common divisor has an inverse.
LEMMA CoprimeUnit ==
    ASSUME NEW a \in Nat, NEW M \in Nat \ {0}, Gcd(a, M) = 1
    PROVE  Unit(a, M)
  <1>1. PICK g \in Nat, x \in Int, y \in Int : Bezout(a, M)[1] = g /\ Combines(a, M, g, x, y)
    BY BezoutCombines
  <1>2. 1 = a * x + M * y
    BY <1>1 DEF Gcd, Combines
  <1>3. PICK ax \in Int : ax = a * x
    OBVIOUS
  <1>4. ax = 1 + (-y) * M /\ -y \in Int
    <2>1. (-y) * M = -(M * y) /\ M * y \in Int
      OBVIOUS
    <2>2. QED
      BY <1>2, <1>3, <2>1
  <1>5. QED
    BY <1>3, <1>4 DEF Unit, Cong

\* What has an inverse modulo n has one modulo the square of n.
LEMMA UnitSquare ==
    ASSUME NEW a \in Int, NEW n \in Nat \ {0}, Unit(a, n), NEW N \in Nat \ {0}, N = n * n
    PROVE  Unit(a, N)
  <1>1. PICK k \in Int, l \in Int : a * k = 1 + l * n
    BY DEF Unit, Cong
  <1>2. PICK ak \in Int, ln \in Int, lk \in Int : ak = a * k /\ ln = l * n /\ lk = l * k
    OBVIOUS
  <1>3. PICK j \in Int : j = k * (1 - ln)
    OBVIOUS
  <1>4. a * j = ak * (1 - ln)
    BY <1>2, <1>3
  <1>5. a * j = (1 + ln) * (1 - ln)
    BY <1>1, <1>2, <1>4
  <1>6. (1 + ln) * (1 - ln) = 1 - ln * ln
    OBVIOUS
  <1>7. ln * ln = (l * l) * N
    BY <1>2
  <1>8. PICK ll \in Int : ll = l * l
    OBVIOUS
  <1>9. a * j = 1 + (-ll) * N /\ -ll \in Int
    <2>1. (-ll) * N = -(ll * N) /\ ll * N \in Int
      OBVIOUS
    <2>2. QED
      BY <1>5, <1>6, <1>7, <1>8, <2>1
  <1>10. QED
    BY <1>9 DEF Unit, Cong

-----------------------------------------------------------------------------
(* mpz_powm *)

LEMMA PowMNat ==
    ASSUME NEW b \in Int, NEW M \in Nat \ {0}, NEW e \in Nat
    PROVE  \E p \in 0 .. M - 1 : p = PowM(b, e, M) /\ Cong(p, Power(b, e, M), M)
  <1>1. PICK r \in Int : r = b % M /\ Cong(r, b, M)
    <2>1. b % M \in 0 .. M - 1 /\ Cong(b % M, b, M)
      BY CongRemainder
    <2>2. QED
      BY <2>1
  <1>2. Cong(Power(r, e, M), Power(b, e, M), M)
    BY <1>1, PowerCong
  <1>3. ~(e < 0)
    OBVIOUS
  <1>4. PowM(b, e, M) = Power(r, e, M)
    BY <1>1, <1>3 DEF PowM
  <1>5. Power(r, e, M) \in 0 .. M - 1
    BY PowerType
  <1>6. QED
    BY <1>2, <1>4, <1>5

\* A negative exponent undoes the positive one.
LEMMA PowMNegative ==
    ASSUME NEW b \in Int, NEW M \in Nat \ {0}, Unit(b, M), NEW e \in Nat,
           NEW q \in Int, q = Power(b, e, M)
    PROVE  \E p \in 0 .. M - 1 : p = PowM(b, -e, M) /\ Cong(p * q, 1, M)
  <1>1. CASE ~(-e < 0)
    <2>1. -e = e
      BY <1>1
    <2>2. PICK p \in 0 .. M - 1 : p = PowM(b, e, M) /\ Cong(p, q, M)
      BY PowMNat
    <2>3. Cong(q, 1, M)
      <3>1. e = 0
        BY <1>1
      <3>2. QED
        BY <3>1, PowerZero
    <2>4. Cong(p, 1, M)
      BY <2>2, <2>3, CongChain
    <2>5. PICK r \in Int : r = p * q
      OBVIOUS
    <2>6. Cong(r, 1, M)
      <3>1. 1 = 1 * 1
        OBVIOUS
      <3>2. QED
        BY <2>3, <2>4, <2>5, <3>1, CongProduct
    <2>7. QED
      BY <2>1, <2>2, <2>5, <2>6
  <1>2. CASE -e < 0
    <2>1. -e < 0 /\ -(-e) = e
      BY <1>2
    <2>2. PICK x \in 0 .. M - 1 : x = Invert(b, M) /\ Cong(b * x, 1, M)
      BY InvertIs
    <2>3. PICK w \in Int : w = x * b /\ Cong(w, 1, M)
      <3>1. b * x = x * b /\ x * b \in Int
        OBVIOUS
      <3>2. QED
        BY <2>2, <3>1
    <2>4. PICK p \in 0 .. M - 1 : p = Power(x, e, M)
      <3>1. x \in Int
        OBVIOUS
      <3>2. QED
        BY <3>1, PowerType
    <2>5. PICK r \in Int, z \in Int : r = p * q /\ z = Power(w, e, M)
      <3>1. Power(w, e, M) \in Int
        BY PowerType
      <3>2. p * q \in Int
        OBVIOUS
      <3>3. QED
        BY <3>1, <3>2
    <2>6. Cong(z, r, M)
      BY <2>3, <2>4, <2>5, PowerProduct
    <2>7. Cong(z, 1, M)
      BY <2>3, <2>5, PowerOne
    <2>8. Cong(r, 1, M)
      BY <2>6, <2>7, CongBack, CongChain
    <2>9. PowM(b, -e, M) = p
      BY <2>1, <2>2, <2>4 DEF PowM
    <2>10. QED
      BY <2>5, <2>8, <2>9
  <1>3. QED
    BY <1>1, <1>2

\* The powers of x + k * n, with one term more
LEMMA Expanded ==
    ASSUME NEW n \in Int, NEW x \in Int, NEW k \in Int, NEW m \in Int, NEW u \in Int,
           NEW a1 \in Int, NEW a2 \in Int, NEW a3 \in Int, NEW a4 \in Int,
           NEW v \in Int, v = u * x + a4 * (n * n),
           NEW w \in Int, v * x = w + a3 * (n * n),
           NEW Y \in Int, Y = v + (m * k * u) * n + a2 * (n * n)
    PROVE  Y * (x + k * n) + a1 * (n * n)
             = (w + ((m + 1) * k * v) * n)
               + (a3 - m * k * n * a4 + m * k * u * k + a2 * (x + k * n) + a1) * (n * n)
  <1>1. (v + (m * k * u) * n + a2 * (n * n)) * (x + k * n)
          = v * x + (v * k) * n + (m * k * n) * (u * x) + (m * k * u * k) * (n * n) + (a2 * (x + k * n)) * (n * n)
    OBVIOUS
  <1>2. u * x = v - a4 * (n * n)
    OBVIOUS
  <1>3. (m * k * n) * (v - a4 * (n * n)) = (m * k * n) * v - (m * k * n * a4) * (n * n)
    OBVIOUS
  <1>4. Y * (x + k * n)
          = (w + a3 * (n * n)) + (v * k) * n + ((m * k * n) * v - (m * k * n * a4) * (n * n))
            + (m * k * u * k) * (n * n) + (a2 * (x + k * n)) * (n * n)
    BY <1>1, <1>2, <1>3
  <1>5. (w + a3 * (n * n)) + (v * k) * n + ((m * k * n) * v - (m * k * n * a4) * (n * n))
            + (m * k * u * k) * (n * n) + (a2 * (x + k * n)) * (n * n) + a1 * (n * n)
         = (w + ((m + 1) * k * v) * n)
               + (a3 - m * k * n * a4 + m * k * u * k + a2 * (x + k * n) + a1) * (n * n)
    OBVIOUS
  <1>6. QED
    BY <1>4, <1>5

\* Numbers that are congruent modulo n have n-th powers that are congruent modulo
\* the square of n.
LEMMA PowerRaised ==
    ASSUME NEW n \in Nat \ {0}, NEW N \in Nat \ {0}, N = n * n,
           NEW x \in Int, NEW y \in Int, Cong(y, x, n)
    PROVE  Cong(Power(y, n, N), Power(x, n, N), N)
  <1>1. PICK k \in Int : y = x + k * n
    BY DEF Cong
  <1> DEFINE Law(i) == \A u \in Int, v \in Int, Y \in Int :
                u = Power(x, i, N) /\ v = Power(x, i + 1, N) /\ Y = Power(y, i + 1, N)
                  => Cong(Y, v + ((i + 1) * k * u) * n, N)
             S == {i \in Nat : Law(i)}
  <1>2. 0 \in S
    <2> SUFFICES ASSUME NEW u \in Int, NEW v \in Int, NEW Y \in Int, u = Power(x, 0, N),
                        v = Power(x, 0 + 1, N), Y = Power(y, 0 + 1, N)
                 PROVE  Cong(Y, v + ((0 + 1) * k * u) * n, N)
      OBVIOUS
    <2>1. Cong(u, 1, N)
      BY PowerZero
    <2>2. PICK ux \in Int, z \in Int : ux = u * x /\ z = Power(y, 0, N)
      <3>1. Power(y, 0, N) \in Int
        BY PowerType
      <3>2. QED
        BY <3>1
    <2>3. PICK zy \in Int : zy = z * y
      OBVIOUS
    <2>4. Cong(v, ux, N)
      BY <2>2, PowerOneMore
    <2>5. Cong(Y, zy, N)
      BY <2>2, <2>3, PowerOneMore
    <2>6. Cong(z, 1, N)
      BY <2>2, PowerZero
    <2>7. Cong(ux, x, N) /\ Cong(zy, y, N)
      <3>1. x = 1 * x /\ y = 1 * y /\ Cong(x, x, N) /\ Cong(y, y, N)
        BY CongSame
      <3>2. QED
        BY <2>1, <2>2, <2>3, <2>6, <3>1, CongProduct
    <2>8. PICK kn \in Int, ku \in Int : kn = k * n /\ ku = kn * u
      <3>1. PICK kn \in Int : kn = k * n
        OBVIOUS
      <3>2. PICK ku \in Int : ku = kn * u
        OBVIOUS
      <3>3. QED
        BY <3>1, <3>2
    <2>9. Cong(ku, kn, N)
      <3>1. kn = kn * 1 /\ Cong(kn, kn, N)
        BY CongSame
      <3>2. QED
        BY <2>1, <2>8, <3>1, CongProduct
    <2>10. Cong(v, x, N)
      BY <2>4, <2>7, CongChain
    <2>11. Cong(v + ku, x + kn, N)
      BY <2>9, <2>10, CongPlus
    <2>12. Cong(Y, y, N)
      BY <2>5, <2>7, CongChain
    <2>13. PICK s \in Int : s = v + ku
      OBVIOUS
    <2>14. y = x + kn
      BY <1>1, <2>8
    <2>15. Cong(y, s, N)
      BY <2>11, <2>13, <2>14, CongBack
    <2>16. Cong(Y, s, N)
      BY <2>12, <2>15, CongChain
    <2>17. ((0 + 1) * k * u) * n = ku
      BY <2>8
    <2>18. QED
      BY <2>13, <2>16, <2>17
  <1>3. ASSUME NEW i \in Nat, i \in S PROVE i + 1 \in S
    <2> SUFFICES ASSUME NEW v \in Int, NEW w \in Int, NEW Z \in Int, v = Power(x, i + 1, N),
                        w = Power(x, (i + 1) + 1, N), Z = Power(y, (i + 1) + 1, N)
                 PROVE  Cong(Z, w + (((i + 1) + 1) * k * v) * n, N)
      OBVIOUS
    <2>1. PICK m \in Nat : m = i + 1
      OBVIOUS
    <2>2. PICK u \in Int, Y \in Int : u = Power(x, i, N) /\ Y = Power(y, m, N)
      BY PowerType
    <2>3. Cong(Y, v + (m * k * u) * n, N)
      BY <1>3, <2>1, <2>2
    <2>4. PICK a2 \in Int : Y = v + (m * k * u) * n + a2 * (n * n)
      BY <2>3 DEF Cong
    <2>5. PICK vx \in Int, ux \in Int, yy \in Int : vx = v * x /\ ux = u * x /\ yy = Y * y
      OBVIOUS
    <2>6. Cong(v, ux, N)
      BY <2>2, <2>5, PowerOneMore
    <2>7. PICK a4 \in Int : v = u * x + a4 * (n * n)
      BY <2>5, <2>6 DEF Cong
    <2>8. Cong(w, vx, N)
      BY <2>1, <2>5, PowerOneMore
    <2>9. PICK a3 \in Int : v * x = w + a3 * (n * n)
      <3>1. Cong(vx, w, N)
        BY <2>8, CongBack
      <3>2. QED
        BY <2>5, <3>1 DEF Cong
    <2>10. Cong(Z, yy, N)
      BY <2>1, <2>2, <2>5, PowerOneMore
    <2>11. PICK a1 \in Int : Z = Y * y + a1 * (n * n)
      BY <2>5, <2>10 DEF Cong
    <2>12. Y * (x + k * n) + a1 * (n * n)
             = (w + ((m + 1) * k * v) * n)
               + (a3 - m * k * n * a4 + m * k * u * k + a2 * (x + k * n) + a1) * (n * n)
      BY <2>4, <2>7, <2>9, Expanded
    <2>13. PICK j \in Int : j = a3 - m * k * n * a4 + m * k * u * k + a2 * (x + k * n) + a1
      OBVIOUS
    <2>14. Z = (w + ((m + 1) * k * v) * n) + j * N
      BY <1>1, <2>11, <2>12, <2>13
    <2>15. Cong(Z, w + ((m + 1) * k * v) * n, N)
      BY <2>14 DEF Cong
    <2>16. QED
      BY <2>1, <2>15
  <1>4. \A i \in Nat : i \in S
    <2> HIDE DEF S
    <2> QED BY <1>2, <1>3, Induction
  <1>5. PICK i \in Nat : n = i + 1
    <2>1. n - 1 \in Nat /\ n = (n - 1) + 1
      OBVIOUS
    <2>2. QED
      BY <2>1
  <1>6. PICK u \in Int, v \in Int, Y \in Int :
           u = Power(x, i, N) /\ v = Power(x, n, N) /\ Y = Power(y, n, N)
    <2>1. Power(x, i, N) \in Int /\ Power(x, n, N) \in Int /\ Power(y, n, N) \in Int
      BY PowerType
    <2>2. QED
      BY <2>1
  <1>7. Cong(Y, v + (n * k * u) * n, N)
    BY <1>4, <1>5, <1>6
  <1>8. PICK ku \in Int : ku = k * u
    OBVIOUS
  <1>9. (n * k * u) * n = ku * N
    BY <1>8
  <1>10. PICK s \in Int : s = v + ku * N
    OBVIOUS
  <1>11. Cong(s, v, N)
    BY <1>10 DEF Cong
  <1>12. Cong(Y, s, N)
    BY <1>7, <1>9, <1>10
  <1>13. Cong(Y, v, N)
    BY <1>11, <1>12, CongChain
  <1>14. QED
    BY <1>6, <1>13

-----------------------------------------------------------------------------
(* Hashes, factorials and shares are numbers. *)

\* A recursion that counts up from b with G
Counter(X) == X = Nat \/ \E l \in Nat : X = 0 .. l
CountsUp(X, T, b, G, f) ==
    f \in [X -> T] /\ \A i \in X : f[i] = IF i = 0 THEN b ELSE G[<<i, f[i - 1]>>]

LEMMA CountedUp ==
    ASSUME NEW X, Counter(X), NEW T, NEW b \in T, NEW G, G \in [X \X T -> T]
    PROVE  \E f : CountsUp(X, T, b, G, f)
  <1> DEFINE E == [i \in X |-> b]
             D == [i \in X |-> IF i = 0 THEN 0 ELSE i - 1]
             rank == [i \in X |-> i]
  <1>1. \A i \in X : i \in Nat /\ (i # 0 => i - 1 \in X /\ i - 1 < i) /\ 0 \in X
    BY DEF Counter
  <1>2. E \in [X -> T] /\ D \in [X -> X] /\ rank \in [X -> Nat]
    BY <1>1
  <1>3. \A i \in X : i \notin {0} => rank[D[i]] < rank[i]
    BY <1>1
  <1>4. \A i \in X : (i = 0 => E[i] = b) /\ (i # 0 => D[i] = i - 1)
    OBVIOUS
  <1> HIDE DEF E, D, rank
  <1>5. Descends(X, T, {0}, E, D, G, rank)
    BY <1>2, <1>3 DEF Descends
  <1>6. PICK f : Solves(X, T, {0}, E, D, G, f)
    BY <1>5, Solvable
  <1>7. f \in [X -> T] /\ \A i \in X : f[i] = Step({0}, E, D, G, f, i)
    BY <1>6 DEF Solves
  <1>8. \A i \in X : f[i] = IF i = 0 THEN b ELSE G[<<i, f[i - 1]>>]
    BY <1>4, <1>7 DEF Step
  <1>9. QED
    BY <1>7, <1>8 DEF CountsUp

\* What is typed at 0 and stays typed from one number to the next is typed.
LEMMA CountsTyped ==
    ASSUME NEW l \in Nat, NEW f, NEW T, f[0] \in T, \A i \in 1 .. l : f[i - 1] \in T => f[i] \in T
    PROVE  \A i \in 0 .. l : f[i] \in T
  <1> DEFINE S == {i \in Nat : i <= l => f[i] \in T}
  <1>1. 0 \in S
    OBVIOUS
  <1>2. ASSUME NEW i \in Nat, i \in S PROVE i + 1 \in S
    <2>1. i + 1 \in Nat
      OBVIOUS
    <2>2. ASSUME i + 1 <= l PROVE f[i + 1] \in T
      <3>1. PICK j \in 1 .. l : j = i + 1 /\ j - 1 = i
        BY <2>2
      <3>2. f[i] \in T
        BY <1>2, <2>2
      <3>3. f[j - 1] \in T => f[j] \in T
        OBVIOUS
      <3>4. QED
        BY <3>1, <3>2, <3>3
    <2>3. QED
      BY <2>1, <2>2
  <1> HIDE DEF S
  <1>3. \A i \in Nat : i \in S
    BY <1>1, <1>2, Induction
  <1>4. QED
    BY <1>3 DEF S

LEMMA FactorialType ==
    ASSUME NEW l \in Nat
    PROVE  Factorial[l] \in Nat
  <1> DEFINE G == [q \in Nat \X Nat |-> q[1] * q[2]]
             Eq(f) == f = [k \in Nat |-> IF k = 0 THEN 1 ELSE k * f[k - 1]]
             p == CHOOSE f : Eq(f)
  <1>1. G \in [Nat \X Nat -> Nat]
    OBVIOUS
  <1>2. PICK f \in [Nat -> Nat] : \A i \in Nat : f[i] = IF i = 0 THEN 1 ELSE G[<<i, f[i - 1]>>]
    <2>1. Counter(Nat)
      BY DEF Counter
    <2>2. 1 \in Nat
      OBVIOUS
    <2> HIDE DEF G
    <2>3. PICK f : CountsUp(Nat, Nat, 1, G, f)
      BY <1>1, <2>1, <2>2, CountedUp
    <2>4. QED
      BY <2>3 DEF CountsUp
  <1>3. Eq(f)
    <2>1. \A i \in Nat : i # 0 => i - 1 \in Nat /\ G[<<i, f[i - 1]>>] = i * f[i - 1]
      OBVIOUS
    <2> HIDE DEF G
    <2>2. QED
      BY <1>2, <2>1
  <1>4. Eq(p)
    <2> HIDE DEF Eq
    <2>1. QED BY <1>3
  <1>5. Factorial = p
    BY DEF Factorial
  <1> HIDE DEF p
  <1>6. p[0] = 1 /\ \A i \in Nat \ {0} : p[i] = i * p[i - 1]
    BY <1>4
  <1>7. ASSUME NEW i \in 1 .. l, p[i - 1] \in Nat PROVE p[i] \in Nat
    <2>1. p[i] = i * p[i - 1] /\ i \in Nat
      BY <1>6
    <2>2. PICK a \in Nat : a = p[i - 1]
      BY <1>7
    <2>3. i * a \in Nat
      BY <2>1
    <2>4. QED
      BY <2>1, <2>2, <2>3
  <1>8. \A i \in 0 .. l : p[i] \in Nat
    BY <1>6, <1>7, CountsTyped
  <1>9. QED
    BY <1>5, <1>8

LEMMA DigitsType ==
    ASSUME NEW l \in Nat
    PROVE  Digits[l] \in Nat
  <1> DEFINE B == 0 .. 15
             E == [i \in Nat |-> 16]
             D == [i \in Nat |-> i \div 16]
             rank == [i \in Nat |-> i]
             G == [q \in Nat \X Nat |-> 16 * q[2]]
             Eq(f) == f = [x \in Nat |-> IF x < 16 THEN 16 ELSE 16 * f[x \div 16]]
             p == CHOOSE f : Eq(f)
  <1>1. \A i \in Nat : i \div 16 \in Nat /\ (i \notin B => i \div 16 < i)
    OBVIOUS
  <1>2. \A i \in Nat : i \in B <=> i < 16
    OBVIOUS
  <1>3. Descends(Nat, Nat, B, E, D, G, rank)
    <2>1. E \in [Nat -> Nat] /\ D \in [Nat -> Nat] /\ rank \in [Nat -> Nat] /\ G \in [Nat \X Nat -> Nat]
      BY <1>1
    <2>2. \A i \in Nat : i \notin B => rank[D[i]] < rank[i]
      BY <1>1
    <2> HIDE DEF B, E, D, G, rank
    <2>3. QED
      BY <2>1, <2>2 DEF Descends
  <1>4. ASSUME NEW f, NEW i \in Nat, i \in B \/ f[i \div 16] \in Nat
        PROVE  Step(B, E, D, G, f, i) = IF i < 16 THEN 16 ELSE 16 * f[i \div 16]
    <2>1. i < 16 \/ <<i, f[i \div 16]>> \in Nat \X Nat
      BY <1>2, <1>4
    <2>2. D[i] = i \div 16 /\ E[i] = 16
      OBVIOUS
    <2>3. i < 16 \/ G[<<i, f[i \div 16]>>] = 16 * f[i \div 16]
      BY <2>1
    <2> HIDE DEF B, D, E, G
    <2>4. QED
      BY <1>2, <2>2, <2>3 DEF Step
  <1>5. PICK f : Solves(Nat, Nat, B, E, D, G, f)
    <2> HIDE DEF B, E, D, G, rank
    <2>1. QED BY <1>3, Solvable
  <1>6. Eq(f)
    <2>1. f \in [Nat -> Nat] /\ \A i \in Nat : f[i] = Step(B, E, D, G, f, i)
      BY <1>5 DEF Solves
    <2> HIDE DEF B, E, D, G
    <2>2. \A i \in Nat : f[i] = IF i < 16 THEN 16 ELSE 16 * f[i \div 16]
      BY <1>1, <1>4, <2>1
    <2>3. QED
      BY <2>1, <2>2
  <1>7. Eq(p)
    <2> HIDE DEF Eq
    <2>1. QED BY <1>6
  <1>8. Digits = p
    BY DEF Digits
  <1> HIDE DEF p
  <1>9. \A i \in Nat : p[i] = IF i < 16 THEN 16 ELSE 16 * p[i \div 16]
    BY <1>7
  <1>10. \A i \in Nat : i \in B \/ p[D[i]] \in Nat => p[i] = Step(B, E, D, G, p, i)
    <2>1. \A i \in Nat : D[i] = i \div 16
      OBVIOUS
    <2> HIDE DEF B, E, D, G
    <2>2. QED
      BY <1>4, <1>9, <2>1
  <1>11. \A i \in Nat : p[i] \in Nat
    <2> HIDE DEF B, E, D, G, rank
    <2>1. QED BY <1>3, <1>10, StaysTyped
  <1>12. QED
    BY <1>8, <1>11

LEMMA HashType ==
    ASSUME NEW xs \in Seq(Nat), HashSize \in Nat \ {0}
    PROVE  HashMultiple(xs) \in 0 .. HashSize - 1
  <1> DEFINE X == 0 .. Len(xs)
             T == 0 .. HashSize - 1
             Next1(i, h) == (h * Digits[xs[i]] + xs[i]) % HashSize
             G == [q \in X \X T |-> IF q[1] = 0 THEN 0 ELSE Next1(q[1], q[2])]
             Eq(f) == f = [i \in X |-> IF i = 0 THEN 0 ELSE (f[i - 1] * Digits[xs[i]] + xs[i]) % HashSize]
             p == CHOOSE f : Eq(f)
  <1>0. Len(xs) \in Nat /\ 0 \in T /\ \A i \in 1 .. Len(xs) : xs[i] \in Nat
    OBVIOUS
  <1>1. ASSUME NEW i \in 1 .. Len(xs), NEW h \in T PROVE Next1(i, h) \in T
    <2>1. PICK x \in Nat : x = xs[i]
      BY <1>0
    <2>2. PICK d \in Nat : d = Digits[x]
      BY DigitsType
    <2>3. h * d + x \in Int
      OBVIOUS
    <2>4. (h * d + x) % HashSize \in 0 .. HashSize - 1
      BY <2>3, CongRemainder
    <2>5. QED
      BY <2>1, <2>2, <2>4
  <1>2. \A i \in X : i \in Nat /\ (i # 0 => i \in 1 .. Len(xs) /\ i - 1 \in X)
    BY <1>0
  <1> HIDE DEF Next1, T
  <1>3. G \in [X \X T -> T]
    <2>1. \A q \in X \X T : q[1] \in X /\ q[2] \in T
      OBVIOUS
    <2> HIDE DEF X
    <2>2. \A q \in X \X T : (IF q[1] = 0 THEN 0 ELSE Next1(q[1], q[2])) \in T
      BY <1>0, <1>1, <1>2, <2>1
    <2>3. QED
      BY <2>2
  <1>4. PICK f \in [X -> T] : \A i \in X : f[i] = IF i = 0 THEN 0 ELSE G[<<i, f[i - 1]>>]
    <2>1. Counter(X)
      BY <1>0 DEF Counter
    <2> HIDE DEF G, X
    <2>2. PICK f : CountsUp(X, T, 0, G, f)
      BY <1>0, <1>3, <2>1, CountedUp
    <2>3. QED
      BY <2>2 DEF CountsUp
  <1>5. \A i \in X : f[i] = IF i = 0 THEN 0 ELSE Next1(i, f[i - 1])
    <2> HIDE DEF X
    <2>1. \A i \in X : i # 0 => G[<<i, f[i - 1]>>] = Next1(i, f[i - 1])
      BY <1>2, <1>4
    <2> HIDE DEF G
    <2>2. QED
      BY <1>4, <2>1
  <1>6. Eq(f)
    <2> HIDE DEF X
    <2>1. QED
      BY <1>5 DEF Next1
  <1>7. Eq(p)
    <2> HIDE DEF Eq
    <2>1. QED BY <1>6
  <1>8. HashMultiple(xs) = p[Len(xs)]
    BY DEF HashMultiple
  <1> HIDE DEF p
  <1>9. \A i \in X : p[i] = IF i = 0 THEN 0 ELSE Next1(i, p[i - 1])
    <2> HIDE DEF X
    <2>1. QED
      BY <1>7 DEF Next1
  <1>10. p[0] \in T
    BY <1>0, <1>9
  <1>11. ASSUME NEW i \in 1 .. Len(xs), p[i - 1] \in T PROVE p[i] \in T
    <2>1. i \in X /\ i # 0
      BY <1>0
    <2> HIDE DEF X
    <2>2. QED
      BY <1>1, <1>9, <1>11, <2>1
  <1>12. \A i \in 0 .. Len(xs) : p[i] \in T
    BY <1>0, <1>10, <1>11, CountsTyped
  <1>13. QED
    BY <1>0, <1>8, <1>12 DEF T

LEMMA EvaluateType ==
    ASSUME NEW a \in Seq(Nat), NEW x \in Nat, NEW nm \in Nat \ {0}
    PROVE  Evaluate(a, x, nm) \in Nat
  <1> DEFINE X == 0 .. Len(a)
             P == [q \in Nat \X Nat |-> x * q[2]]
             EqP(f) == f = [i \in Nat |-> IF i = 0 THEN 1 ELSE x * f[i - 1]]
             power == CHOOSE f : EqP(f)
             G == [q \in X \X Nat |-> IF q[1] = 0 THEN 0 ELSE q[2] + a[q[1]] * power[q[1] - 1]]
             EqS(f) == f = [i \in X |-> IF i = 0 THEN 0 ELSE f[i - 1] + a[i] * power[i - 1]]
             sum == CHOOSE f : EqS(f)
  <1>1. \E f : EqP(f)
    <2>1. P \in [Nat \X Nat -> Nat] /\ Counter(Nat) /\ 1 \in Nat
      BY DEF Counter
    <2>2. PICK f : CountsUp(Nat, Nat, 1, P, f)
      <3> HIDE DEF P
      <3>1. QED BY <2>1, CountedUp
    <2>3. f \in [Nat -> Nat] /\ \A i \in Nat : f[i] = IF i = 0 THEN 1 ELSE P[<<i, f[i - 1]>>]
      BY <2>2 DEF CountsUp
    <2>4. \A i, h \in Nat : P[<<i, h>>] = x * h
      OBVIOUS
    <2>5. \A i \in Nat : i # 0 => i - 1 \in Nat
      OBVIOUS
    <2> HIDE DEF P
    <2>6. \A i \in Nat : f[i] = IF i = 0 THEN 1 ELSE x * f[i - 1]
      BY <2>3, <2>4, <2>5
    <2>7. f = [i \in Nat |-> f[i]]
      BY <2>3
    <2>8. EqP(f)
      BY <2>6, <2>7
    <2> HIDE DEF EqP
    <2>9. QED
      BY <2>8
  <1>2. EqP(power)
    <2> HIDE DEF EqP
    <2>1. QED BY <1>1
  <1> HIDE DEF power
  <1>3. power[0] = 1 /\ \A i \in Nat \ {0} : power[i] = x * power[i - 1]
    BY <1>2
  <1>4. ASSUME NEW l \in Nat PROVE power[l] \in Nat
    <2>1. ASSUME NEW i \in 1 .. l, power[i - 1] \in Nat PROVE power[i] \in Nat
      <3>1. power[i] = x * power[i - 1]
        BY <1>3
      <3>2. PICK h \in Nat : h = power[i - 1]
        BY <2>1
      <3>3. x * h \in Nat
        OBVIOUS
      <3>4. QED
        BY <3>1, <3>2, <3>3
    <2>2. power[0] \in Nat
      BY <1>3
    <2>3. \A i \in 0 .. l : power[i] \in Nat
      BY <2>1, <2>2, CountsTyped
    <2>4. QED
      BY <2>3
  <1>5. Len(a) \in Nat /\ \A i \in 1 .. Len(a) : a[i] \in Nat
    OBVIOUS
  <1>6. ASSUME NEW i \in 1 .. Len(a), NEW h \in Nat PROVE h + a[i] * power[i - 1] \in Nat
    <2>1. PICK y \in Nat : y = a[i]
      BY <1>5
    <2>2. i - 1 \in Nat
      OBVIOUS
    <2>3. PICK z \in Nat : z = power[i - 1]
      BY <1>4, <2>2
    <2>4. h + y * z \in Nat
      OBVIOUS
    <2>5. QED
      BY <2>1, <2>3, <2>4
  <1>7. \A i \in X : i \in Nat /\ (i # 0 => i \in 1 .. Len(a) /\ i - 1 \in X)
    BY <1>5
  <1>8. \E f : EqS(f)
    <2>1. G \in [X \X Nat -> Nat]
      <3>1. \A q \in X \X Nat : q[1] \in X /\ q[2] \in Nat
        OBVIOUS
      <3> HIDE DEF X
      <3>2. \A q \in X \X Nat : (IF q[1] = 0 THEN 0 ELSE q[2] + a[q[1]] * power[q[1] - 1]) \in Nat
        BY <1>6, <1>7, <3>1
      <3>3. QED
        BY <3>2
    <2>2. Counter(X)
      BY <1>5 DEF Counter
    <2>3. PICK f : CountsUp(X, Nat, 0, G, f)
      <3> HIDE DEF G, X
      <3>1. QED BY <2>1, <2>2, CountedUp
    <2>4. f \in [X -> Nat] /\ \A i \in X : f[i] = IF i = 0 THEN 0 ELSE G[<<i, f[i - 1]>>]
      BY <2>3 DEF CountsUp
    <2>5. \A i \in X : i # 0 => G[<<i, f[i - 1]>>] = f[i - 1] + a[i] * power[i - 1]
      <3> HIDE DEF X
      <3>1. QED BY <1>7, <2>4
    <2> HIDE DEF G, X
    <2>6. \A i \in X : f[i] = IF i = 0 THEN 0 ELSE f[i - 1] + a[i] * power[i - 1]
      BY <2>4, <2>5
    <2>7. f = [i \in X |-> f[i]]
      BY <2>4
    <2>8. EqS(f)
      BY <2>6, <2>7
    <2> HIDE DEF EqS
    <2>9. QED
      BY <2>8
  <1>9. EqS(sum)
    <2> HIDE DEF EqS
    <2>1. QED BY <1>8
  <1>10. Evaluate(a, x, nm) = sum[Len(a)] % nm
    BY DEF Evaluate, power
  <1> HIDE DEF sum
  <1>11. sum[0] = 0 /\ \A i \in 1 .. Len(a) : sum[i] = sum[i - 1] + a[i] * power[i - 1]
    <2>1. 0 \in X /\ \A i \in 1 .. Len(a) : i \in X /\ i # 0
      BY <1>5
    <2> HIDE DEF X
    <2>2. \A i \in X : sum[i] = IF i = 0 THEN 0 ELSE sum[i - 1] + a[i] * power[i - 1]
      BY <1>9
    <2>3. sum[0] = 0
      BY <2>1, <2>2
    <2>4. ASSUME NEW i \in 1 .. Len(a) PROVE sum[i] = sum[i - 1] + a[i] * power[i - 1]
      BY <2>1, <2>2
    <2>5. QED
      BY <2>3, <2>4
  <1>12. ASSUME NEW i \in 1 .. Len(a), sum[i - 1] \in Nat PROVE sum[i] \in Nat
    BY <1>6, <1>11, <1>12
  <1>13. \A i \in 0 .. Len(a) : sum[i] \in Nat
    <2>1. 0 \in Nat
      OBVIOUS
    <2>2. QED
      BY <1>5, <1>11, <1>12, <2>1, CountsTyped
  <1>14. PICK y \in Nat : y = sum[Len(a)]
    BY <1>5, <1>13
  <1>15. y % nm \in 0 .. nm - 1
    BY CongRemainder
  <1>16. QED
    BY <1>10, <1>14, <1>15

-----------------------------------------------------------------------------
(* mpz_powm with the numbers of a key *)

\* An integer power of a unit is a number, and a unit.
LEMMA PowMType ==
    ASSUME NEW b \in Int, NEW M \in Nat \ {0}, NEW e \in Int, e >= 0 \/ Unit(b, M)
    PROVE  PowM(b, e, M) \in 0 .. M - 1
  <1>1. CASE e >= 0
    <2>1. e \in Nat
      BY <1>1
    <2>2. QED
      BY <2>1, PowMNat
  <1>2. CASE ~(e >= 0)
    <2>1. PICK d \in Nat : e = -d
      <3>1. -e \in Nat /\ e = -(-e)
        BY <1>2
      <3>2. QED
        BY <3>1
    <2>2. PICK q \in Int : q = Power(b, d, M)
      BY PowerType
    <2>3. QED
      BY <1>2, <2>1, <2>2, PowMNegative
  <1>3. QED
    BY <1>1, <1>2

LEMMA PowMUnit ==
    ASSUME NEW b \in Int, NEW M \in Nat \ {0}, NEW e \in Nat, Unit(b, M)
    PROVE  Unit(PowM(b, e, M), M)
  <1>1. PICK p \in 0 .. M - 1 : p = PowM(b, e, M) /\ Cong(p, Power(b, e, M), M)
    BY PowMNat
  <1>2. PICK q \in Int : q = Power(b, e, M)
    BY PowerType
  <1>3. Unit(q, M)
    BY <1>2, UnitPower
  <1>4. QED
    BY <1>1, <1>2, <1>3, UnitCong

\* A power of a number that leaves 1 leaves 1.
LEMMA PowMOne ==
    ASSUME NEW b \in Int, NEW M \in Nat \ {0}, Cong(b, 1, M), NEW e \in Int
    PROVE  \E p \in 0 .. M - 1 : p = PowM(b, e, M) /\ Cong(p, 1, M)
  <1>1. CASE e >= 0
    <2>1. e \in Nat
      BY <1>1
    <2>2. PICK p \in 0 .. M - 1 : p = PowM(b, e, M) /\ Cong(p, Power(b, e, M), M)
      BY <2>1, PowMNat
    <2>3. PICK q \in Int : q = Power(b, e, M) /\ Cong(q, 1, M)
      BY <2>1, PowerOne, PowerType
    <2>4. Cong(p, 1, M)
      BY <2>2, <2>3, CongChain
    <2>5. QED
      BY <2>2, <2>4
  <1>2. CASE ~(e >= 0)
    <2>1. PICK d \in Nat : e = -d
      <3>1. -e \in Nat /\ e = -(-e)
        BY <1>2
      <3>2. QED
        BY <3>1
    <2>2. PICK q \in Int : q = Power(b, d, M) /\ Cong(q, 1, M)
      BY PowerOne, PowerType
    <2>3. Unit(b, M)
      <3>1. b * 1 = b
        OBVIOUS
      <3>2. QED
        BY <3>1 DEF Unit
    <2>4. PICK p \in 0 .. M - 1 : p = PowM(b, -d, M) /\ Cong(p * q, 1, M)
      BY <2>2, <2>3, PowMNegative
    <2>5. PICK r \in Int : r = p * q
      OBVIOUS
    <2>6. Cong(r, p, M)
      <3>1. p = p * 1 /\ Cong(p, p, M)
        BY CongSame
      <3>2. QED
        BY <2>2, <2>5, <3>1, CongProduct
    <2>7. Cong(p, 1, M)
      BY <2>4, <2>5, <2>6, CongBack, CongChain
    <2>8. QED
      BY <2>1, <2>4, <2>7
  <1>3. QED
    BY <1>1, <1>2

\* What is congruent modulo a multiple of n is congruent modulo n.
LEMMA CongDivides ==
    ASSUME NEW a \in Int, NEW b \in Int, NEW n \in Nat \ {0}, NEW N \in Nat \ {0}, N = n * n, Cong(a, b, N)
    PROVE  Cong(a, b, n)
  <1>1. PICK k \in Int : a = b + k * N
    BY DEF Cong
  <1>2. k * N = (k * n) * n /\ k * n \in Int
    OBVIOUS
  <1>3. QED
    BY <1>1, <1>2 DEF Cong

LEMMA PowerDivides ==
    ASSUME NEW b \in Int, NEW n \in Nat \ {0}, NEW N \in Nat \ {0}, N = n * n, NEW e \in Nat
    PROVE  Cong(Power(b, e, N), Power(b, e, n), n)
  <1> DEFINE S == {i \in Nat : Cong(Power(b, i, N), Power(b, i, n), n)}
  <1>1. 0 \in S
    <2>1. PICK u \in Int : u = Power(b, 0, N) /\ Cong(u, 1, N)
      BY PowerZero, PowerType
    <2>2. PICK v \in Int : v = Power(b, 0, n) /\ Cong(v, 1, n)
      BY PowerZero, PowerType
    <2>3. Cong(u, 1, n)
      BY <2>1, CongDivides
    <2>4. Cong(u, v, n)
      BY <2>2, <2>3, CongBack, CongChain
    <2>5. QED
      BY <2>1, <2>2, <2>4
  <1>2. ASSUME NEW i \in Nat, i \in S PROVE i + 1 \in S
    <2>1. PICK u \in Int : u = Power(b, i, N)
      BY PowerType
    <2>2. PICK v \in Int : v = Power(b, i, n)
      BY PowerType
    <2>3. PICK ub \in Int, vb \in Int : ub = u * b /\ vb = v * b
      OBVIOUS
    <2>4. PICK y \in Int : y = Power(b, i + 1, N) /\ Cong(y, ub, N)
      BY <2>1, <2>3, PowerOneMore
    <2>5. PICK z \in Int : z = Power(b, i + 1, n) /\ Cong(z, vb, n)
      BY <2>2, <2>3, PowerOneMore
    <2>6. Cong(u, v, n) /\ Cong(b, b, n)
      BY <1>2, <2>1, <2>2, CongSame
    <2>7. Cong(ub, vb, n)
      BY <2>3, <2>6, CongProduct
    <2>8. Cong(y, ub, n)
      BY <2>4, CongDivides
    <2>9. Cong(y, vb, n)
      BY <2>7, <2>8, CongChain
    <2>10. Cong(y, z, n)
      BY <2>5, <2>9, CongBack, CongChain
    <2>11. i + 1 \in Nat
      OBVIOUS
    <2>12. QED
      BY <2>4, <2>5, <2>10, <2>11
  <1> HIDE DEF S
  <1>3. \A i \in Nat : i \in S
    BY <1>1, <1>2, Induction
  <1>4. QED
    BY <1>3 DEF S

-----------------------------------------------------------------------------
(* Encryption *)

\* The numbers of a public key that encryption uses
Numbers(k, n, N) == n \in Nat \ {0} /\ N \in Nat \ {0} /\ N = n * n /\ k.n = n /\ k.nSquared = N /\ k.nPlusOne = n + 1

LEMMA GeneratorUnit ==
    ASSUME NEW n \in Nat \ {0}, NEW N \in Nat \ {0}, N = n * n
    PROVE  Unit(n + 1, N) /\ Cong(n + 1, 1, n)
  <1>1. (n + 1) * (1 - n) = 1 + (-1) * (n * n) /\ 1 - n \in Int /\ -1 \in Int
    OBVIOUS
  <1>2. Cong((n + 1) * (1 - n), 1, N)
    BY <1>1 DEF Cong
  <1>3. Unit(n + 1, N)
    BY <1>1, <1>2 DEF Unit
  <1>4. n + 1 = 1 + 1 * n /\ 1 \in Int
    OBVIOUS
  <1>5. Cong(n + 1, 1, n)
    BY <1>4 DEF Cong
  <1>6. QED
    BY <1>3, <1>5

LEMMA EncUnit ==
    ASSUME NEW k, NEW n, NEW N, Numbers(k, n, N), NEW m \in Nat, NEW r \in Int, Unit(r, n)
    PROVE  /\ Enc(k, m, r) \in 0 .. N - 1 /\ Unit(Enc(k, m, r), N)
           /\ \E q \in Int : q = Power(n + 1, m, N) * Power(r, n, N) /\ Cong(Enc(k, m, r), q, N)
  <1>1. n \in Nat \ {0} /\ N \in Nat \ {0} /\ N = n * n /\ n \in Nat /\ n + 1 \in Int
    BY DEF Numbers
  <1>2. Unit(n + 1, N) /\ Unit(r, N)
    BY <1>1, GeneratorUnit, UnitSquare
  <1>3. PICK g \in Int : g = PowM(n + 1, m, N) /\ Cong(g, Power(n + 1, m, N), N)
    <2>1. PICK g1 \in Int : g1 = n + 1
      BY <1>1
    <2>2. \E g \in 0 .. N - 1 : g = PowM(g1, m, N) /\ Cong(g, Power(g1, m, N), N)
      BY <1>1, PowMNat
    <2>3. QED
      BY <2>1, <2>2
  <1>4. PICK h \in Int : h = PowM(r, n, N) /\ Cong(h, Power(r, n, N), N)
    BY <1>1, PowMNat
  <1>5. Unit(g, N) /\ Unit(h, N)
    BY <1>1, <1>2, <1>3, <1>4, PowMUnit
  <1>6. PICK G \in Int : G = Power(n + 1, m, N)
    BY <1>1, PowerType
  <1>7. PICK H \in Int : H = Power(r, n, N)
    BY <1>1, PowerType
  <1>8. PICK gh \in Int, q \in Int : gh = g * h /\ q = G * H
    OBVIOUS
  <1>9. Cong(gh, q, N) /\ Unit(gh, N)
    BY <1>1, <1>3, <1>4, <1>5, <1>6, <1>7, <1>8, CongProduct, UnitProduct
  <1>10. PICK c \in 0 .. N - 1 : c = gh % N /\ Cong(c, gh, N)
    BY <1>1, CongRemainder
  <1>11. c = Enc(k, m, r)
    BY <1>3, <1>4, <1>8, <1>10 DEF Enc, Numbers
  <1>12. Unit(c, N) /\ Cong(c, q, N)
    BY <1>1, <1>9, <1>10, UnitCong, CongChain
  <1>13. QED
    BY <1>6, <1>7, <1>8, <1>11, <1>12

LEMMA CommitmentType ==
    ASSUME NEW k, NEW n, NEW N, Numbers(k, n, N), NEW c \in Int, Unit(c, N),
           NEW m \in Nat, NEW e \in Nat, NEW v \in Int
    PROVE  Commitment(k, c, m, e, v) \in 0 .. N - 1
  <1>1. n \in Nat \ {0} /\ N \in Nat \ {0} /\ N = n * n /\ n \in Nat /\ n + 1 \in Int
    BY DEF Numbers
  <1>2. PICK me \in Nat : me = m * e
    OBVIOUS
  <1>3. PICK d \in Int : d = -e
    OBVIOUS
  <1>4. PICK x \in Int : x = PowM(v, n, N)
    BY <1>1, PowMNat
  <1>5. PICK y \in Int : y = PowM(n + 1, me, N)
    <2>1. PICK g \in Int : g = n + 1
      BY <1>1
    <2>2. \E p \in 0 .. N - 1 : p = PowM(g, me, N) /\ Cong(p, Power(g, me, N), N)
      BY <1>1, PowMNat
    <2>3. QED
      BY <2>1, <2>2
  <1>6. PICK z \in Int : z = PowM(c, d, N)
    BY <1>1, PowMType
  <1>7. PICK xy \in Int : xy = (x * y) % N
    <2>1. x * y \in Int
      OBVIOUS
    <2>2. QED
      BY <1>1, <2>1, CongRemainder
  <1>8. xy * z \in Int
    OBVIOUS
  <1>9. (xy * z) % N \in 0 .. N - 1
    BY <1>1, <1>8, CongRemainder
  <1>10. QED
    BY <1>2, <1>3, <1>4, <1>5, <1>6, <1>7, <1>9 DEF Commitment, Numbers

\* What the proof commits to is what the verifier computes from it.
LEMMA CommitmentOpens ==
    ASSUME NEW k, NEW n, NEW N, Numbers(k, n, N), NEW m \in Nat, NEW r \in Int, Unit(r, n),
           NEW rho \in Int, NEW e \in Nat, NEW v \in Int,
           Cong(v, Power(r, e, n) * rho, n)
    PROVE  Commitment(k, Enc(k, m, r), m, e, v) = PowM(rho, n, N)
  <1>1. n \in Nat \ {0} /\ N \in Nat \ {0} /\ N = n * n /\ n \in Nat /\ n + 1 \in Int
    BY DEF Numbers
  <1>2. PICK me \in Nat, ne \in Nat, d \in Int : me = m * e /\ ne = n * e /\ ne = e * n /\ d = -e
    BY <1>1
  <1>3. PICK c \in 0 .. N - 1, q \in Int : /\ c = Enc(k, m, r) /\ Unit(c, N)
                                      /\ q = Power(n + 1, m, N) * Power(r, n, N) /\ Cong(c, q, N)
    BY EncUnit
  <1>4. PICK G \in Int : G = Power(n + 1, m, N)
    BY <1>1, PowerType
  <1>5. PICK R \in Int : R = Power(r, n, N)
    BY <1>1, PowerType
  <1>6. PICK a \in Int : a = Power(n + 1, me, N)
    BY <1>1, PowerType
  <1>7. PICK s \in Int : s = Power(r, ne, N)
    BY <1>1, PowerType
  <1>8. PICK H \in Int : H = Power(rho, n, N)
    BY <1>1, PowerType
  <1>9. PICK C \in Int : C = Power(c, e, N)
    BY <1>1, PowerType
  \* the power of the encrypted vote
  <1>10. PICK as \in Int : as = a * s /\ Cong(C, as, N)
    <2>1. q = G * R
      BY <1>3, <1>4, <1>5
    <2>2. PICK Ge \in Int : Ge = Power(G, e, N)
      BY <1>1, PowerType
    <2>3. PICK Re \in Int : Re = Power(R, e, N)
      BY <1>1, PowerType
    <2>4. Cong(Ge, a, N) /\ Cong(Re, s, N)
      BY <1>1, <1>2, <1>4, <1>5, <1>6, <1>7, <2>2, <2>3, PowerPower
    <2>5. PICK GR \in Int, as \in Int : GR = Ge * Re /\ as = a * s
      OBVIOUS
    <2>6. PICK Q \in Int : Q = Power(q, e, N)
      BY <1>1, PowerType
    <2>7. Cong(Q, GR, N)
      BY <1>1, <2>1, <2>2, <2>3, <2>5, <2>6, PowerProduct
    <2>8. Cong(GR, as, N)
      BY <1>1, <2>4, <2>5, CongProduct
    <2>9. Cong(C, Q, N)
      BY <1>1, <1>3, <1>9, <2>6, PowerCong
    <2>10. N \in Int
      BY <1>1
    <2>11. Cong(C, GR, N)
      BY <2>7, <2>9, <2>10, CongChain
    <2>12. Cong(C, as, N)
      BY <2>8, <2>10, <2>11, CongChain
    <2>13. QED
      BY <2>5, <2>12
  \* the power of the number that was sent for it
  <1>11. PICK V \in Int, sH \in Int : V = PowM(v, n, N) /\ sH = s * H /\ Cong(V, sH, N)
    <2>1. PICK x \in Int : x = Power(r, e, N)
      BY <1>1, PowerType
    <2>2. PICK y \in Int : y = Power(r, e, n)
      BY <1>1, PowerType
    <2>3. PICK w \in Int, yr \in Int : w = x * rho /\ yr = y * rho
      OBVIOUS
    <2>4. Cong(v, w, n)
      <3>1. Cong(y, x, n) /\ Cong(rho, rho, n) /\ n \in Int
        BY <1>1, <2>1, <2>2, PowerDivides, CongBack, CongSame
      <3>2. Cong(yr, w, n)
        BY <2>3, <3>1, CongProduct
      <3>3. Cong(v, yr, n)
        BY <2>2, <2>3
      <3>4. QED
        BY <3>1, <3>2, <3>3, CongChain
    <2>5. PICK V \in Int : V = PowM(v, n, N) /\ Cong(V, Power(v, n, N), N)
      BY <1>1, PowMNat
    <2>6. PICK vn \in Int : vn = Power(v, n, N)
      BY <1>1, PowerType
    <2>7. PICK wn \in Int : wn = Power(w, n, N)
      BY <1>1, PowerType
    <2>8. PICK xn \in Int : xn = Power(x, n, N)
      BY <1>1, PowerType
    <2>9. Cong(vn, wn, N)
      BY <1>1, <2>4, <2>6, <2>7, PowerRaised
    <2>10. Cong(xn, s, N)
      BY <1>1, <1>2, <1>7, <2>1, <2>8, PowerPower
    <2>11. PICK xH \in Int, sH \in Int : xH = xn * H /\ sH = s * H
      OBVIOUS
    <2>12. Cong(wn, xH, N)
      BY <1>1, <1>8, <2>3, <2>7, <2>8, <2>11, PowerProduct
    <2>13. Cong(xH, sH, N)
      <3>1. Cong(H, H, N)
        BY <1>1, CongSame
      <3>2. QED
        BY <1>1, <2>10, <2>11, <3>1, CongProduct
    <2>14. N \in Int
      BY <1>1
    <2>15. Cong(V, wn, N)
      BY <2>5, <2>6, <2>9, <2>14, CongChain
    <2>16. Cong(V, xH, N)
      BY <2>12, <2>14, <2>15, CongChain
    <2>17. Cong(V, sH, N)
      BY <2>13, <2>14, <2>16, CongChain
    <2>18. QED
      BY <2>5, <2>11, <2>17
  <1>12. PICK p \in Int : p = PowM(n + 1, me, N) /\ Cong(p, a, N)
    BY <1>1, <1>6, PowMNat
  <1>13. PICK z \in Int : z = PowM(c, d, N) /\ Cong(z * C, 1, N)
    BY <1>1, <1>2, <1>3, <1>9, PowMNegative
  <1>14. PICK Vp \in Int, t \in Int : Vp = V * p /\ t = Vp % N /\ Cong(t, Vp, N)
    <2>1. PICK Vp \in Int : Vp = V * p
      OBVIOUS
    <2>2. Vp % N \in 0 .. N - 1 /\ Cong(Vp % N, Vp, N)
      BY <1>1, CongRemainder
    <2>3. QED
      BY <2>1, <2>2
  <1>15. PICK tz \in Int, X \in 0 .. N - 1 : tz = t * z /\ X = tz % N /\ Cong(X, tz, N)
    <2>1. PICK tz \in Int : tz = t * z
      OBVIOUS
    <2>2. tz % N \in 0 .. N - 1 /\ Cong(tz % N, tz, N)
      BY <1>1, CongRemainder
    <2>3. QED
      BY <2>1, <2>2
  <1>16. X = Commitment(k, Enc(k, m, r), m, e, v)
    BY <1>2, <1>3, <1>11, <1>12, <1>13, <1>14, <1>15 DEF Commitment, Numbers
  <1>17. Cong(X, H, N)
    <2>0. N \in Int
      BY <1>1
    <2>1. PICK sHa \in Int : sHa = sH * a /\ sHa = H * as
      <3>1. sH * a = H * as
        BY <1>10, <1>11
      <3>2. sH * a \in Int
        OBVIOUS
      <3>3. QED
        BY <3>1, <3>2
    <2>2. Cong(Vp, sHa, N)
      BY <1>11, <1>12, <1>14, <2>0, <2>1, CongProduct
    <2>3. PICK HC \in Int : HC = H * C
      OBVIOUS
    <2>4. Cong(HC, sHa, N)
      <3>1. Cong(H, H, N)
        BY <2>0, CongSame
      <3>2. QED
        BY <1>10, <2>0, <2>1, <2>3, <3>1, CongProduct
    <2>5. Cong(t, sHa, N)
      BY <1>14, <2>0, <2>1, <2>2, CongChain
    <2>6. Cong(t, HC, N)
      BY <2>0, <2>4, <2>5, CongBack, CongChain
    <2>7. PICK HCz \in Int, zC \in Int : HCz = HC * z /\ zC = z * C
      OBVIOUS
    <2>8. Cong(tz, HCz, N)
      <3>1. Cong(z, z, N)
        BY <2>0, CongSame
      <3>2. QED
        BY <1>15, <2>0, <2>6, <2>7, <3>1, CongProduct
    <2>9. HCz = H * zC
      BY <2>3, <2>7
    <2>10. Cong(HCz, H, N)
      <3>1. Cong(H, H, N) /\ Cong(zC, 1, N) /\ H = H * 1
        BY <1>13, <2>0, <2>7, CongSame
      <3>2. QED
        BY <2>0, <2>9, <3>1, CongProduct
    <2>11. Cong(X, HCz, N)
      BY <1>15, <2>0, <2>8, CongChain
    <2>12. QED
      BY <2>0, <2>10, <2>11, CongChain
  <1>18. PICK h \in 0 .. N - 1 : h = PowM(rho, n, N) /\ Cong(h, H, N)
    BY <1>1, <1>8, PowMNat
  <1>19. Cong(X, h, N)
    BY <1>1, <1>17, <1>18, CongBack, CongChain
  <1>20. QED
    BY <1>1, <1>16, <1>18, <1>19, CongSmall

LEMMA TDivType ==
    ASSUME NEW a \in Int, NEW b \in Int, b # 0
    PROVE  TDiv(a, b) \in Int
  <1>1. PICK x \in Int : x = IF a < 0 THEN -a ELSE a
    OBVIOUS
  <1>2. PICK y \in Int : y = IF b < 0 THEN -b ELSE b
    OBVIOUS
  <1>3. y > 0
    BY <1>2
  <1>4. PICK q \in Int : q = x \div y
    BY <1>3
  <1>5. TDiv(a, b) = IF (a < 0) = (b < 0) THEN q ELSE -q
    BY <1>1, <1>2, <1>4 DEF TDiv
  <1>6. -q \in Int
    OBVIOUS
  <1>7. CASE (a < 0) = (b < 0)
    BY <1>5, <1>7
  <1>8. CASE ~((a < 0) = (b < 0))
    BY <1>5, <1>6, <1>8
  <1>9. QED
    BY <1>7, <1>8

\* The half of the proof that belongs to the vote
Answers(n, r, rho, e, f, t, d, v) ==
    d = (e - f) % n /\ v = (((PowM(n + 1, t, n) * PowM(r, d, n)) % n) * rho) % n

LEMMA Answered ==
    ASSUME NEW n \in Nat \ {0}, NEW r \in Int, Unit(r, n), NEW rho \in Int, NEW e \in Nat, NEW f \in Nat,
           NEW t \in Int, NEW d, NEW v, Answers(n, r, rho, e, f, t, d, v)
    PROVE  /\ d \in Nat /\ v \in 0 .. n - 1 /\ Cong(v, Power(r, d, n) * rho, n)
           /\ e % n = (d + f) % n
  <1>1. n + 1 \in Int /\ e - f \in Int /\ n \in Int
    OBVIOUS
  <1>2. d \in 0 .. n - 1 /\ Cong(d, e - f, n)
    BY <1>1, CongRemainder DEF Answers
  <1>3. PICK p \in Int : p = PowM(n + 1, t, n) /\ Cong(p, 1, n)
    <2>1. Cong(n + 1, 1, n)
      <3>1. n + 1 = 1 + 1 * n /\ 1 \in Int
        OBVIOUS
      <3>2. QED
        BY <3>1 DEF Cong
    <2>2. PICK g \in Int : g = n + 1 /\ Cong(g, 1, n)
      BY <1>1, <2>1
    <2>3. \E p \in 0 .. n - 1 : p = PowM(g, t, n) /\ Cong(p, 1, n)
      BY <2>2, PowMOne
    <2>4. QED
      BY <2>2, <2>3
  <1>4. PICK q \in Int, x \in Int : q = PowM(r, d, n) /\ x = Power(r, d, n) /\ Cong(q, x, n)
    <2>1. d \in Nat
      BY <1>2
    <2>2. PICK q \in 0 .. n - 1 : q = PowM(r, d, n) /\ Cong(q, Power(r, d, n), n)
      BY <2>1, PowMNat
    <2>3. PICK x \in Int : x = Power(r, d, n)
      BY <2>1, PowerType
    <2>4. QED
      BY <2>2, <2>3
  <1>5. PICK pq \in Int, s \in Int : pq = p * q /\ s = pq % n /\ Cong(s, pq, n)
    <2>1. PICK pq \in Int : pq = p * q
      OBVIOUS
    <2>2. pq % n \in 0 .. n - 1 /\ Cong(pq % n, pq, n)
      BY CongRemainder
    <2>3. QED
      BY <2>1, <2>2
  <1>6. Cong(s, x, n)
    <2>1. x = 1 * x
      OBVIOUS
    <2>2. Cong(pq, x, n)
      BY <1>1, <1>3, <1>4, <1>5, <2>1, CongProduct
    <2>3. QED
      BY <1>1, <1>5, <2>2, CongChain
  <1>7. PICK sr \in Int, xr \in Int : sr = s * rho /\ xr = x * rho
    OBVIOUS
  <1>8. Cong(sr, xr, n)
    BY <1>1, <1>6, <1>7, CongSame, CongProduct
  <1>9. v = sr % n
    BY <1>3, <1>4, <1>5, <1>7 DEF Answers
  <1>10. v \in 0 .. n - 1 /\ Cong(v, sr, n)
    BY <1>9, CongRemainder
  <1>11. Cong(v, xr, n)
    BY <1>1, <1>8, <1>10, CongChain
  <1>12. e % n = (d + f) % n
    <2>1. PICK k \in Int : d = (e - f) + k * n
      BY <1>2 DEF Cong
    <2>2. PICK g \in Int : g = d + f
      BY <1>2
    <2>3. g = e + k * n
      BY <1>2, <2>1, <2>2
    <2>4. Cong(g, e, n)
      BY <2>3 DEF Cong
    <2>5. g % n = e % n
      BY <2>4, CongEqual
    <2>6. QED
      BY <2>2, <2>5
  <1>13. QED
    BY <1>2, <1>4, <1>7, <1>10, <1>11, <1>12

Ballot == [c : Nat, e : 0 .. HashSize - 1, e1 : Nat, v1 : Nat, e2 : Nat, v2 : Nat]

\* The values that paillier_enc_proof goes through.
Made(k, index, r, rho, f, w, c, S, R, us, e, t, d, v) ==
    /\ c = Enc(k, index, r)
    /\ S = Commitment(k, c, 1 - index, f, w)
    /\ R = PowM(rho, k.n, k.nSquared)
    /\ us = IF index = 1 THEN <<S, R>> ELSE <<R, S>>
    /\ e = HashMultiple(us \o <<c, 0, 1>>)
    /\ t = TDiv(e - f, k.n)
    /\ d = (e - f) % k.n
    /\ v = (((PowM(k.nPlusOne, t, k.n) * PowM(r, d, k.n)) % k.n) * rho) % k.n

LEMMA EncProofIs ==
    ASSUME NEW k, NEW index, NEW r, NEW rho, NEW f, NEW w, NEW c, NEW S, NEW R, NEW us, NEW e,
           NEW t, NEW d, NEW v, Made(k, index, r, rho, f, w, c, S, R, us, e, t, d, v)
    PROVE  EncProof(k, index, r, rho, f, w) =
             IF index = 1
             THEN [c |-> c, e |-> e, e1 |-> f, v1 |-> w, e2 |-> d, v2 |-> v]
             ELSE [c |-> c, e |-> e, e1 |-> d, v1 |-> v, e2 |-> f, v2 |-> w]
  BY DEF Made, EncProof

LEMMA EncProofVerifies ==
    ASSUME NEW k, NEW n, NEW N, Numbers(k, n, N), HashSize \in Nat \ {0}, NEW index \in {0, 1},
           NEW r \in Int, Unit(r, n), NEW rho \in Nat, NEW f \in Nat, NEW w \in Nat,
           NEW b, b = EncProof(k, index, r, rho, f, w)
    PROVE  b \in Ballot /\ VerifyEnc(k, b) /\ b.c \in 0 .. N - 1 /\ Unit(b.c, N)
  <1>1. n \in Nat \ {0} /\ N \in Nat \ {0} /\ N = n * n /\ n \in Nat /\ k.n = n /\ k.nSquared = N /\ k.nPlusOne = n + 1
    BY DEF Numbers
  <1>2. PICK c \in 0 .. N - 1 : c = Enc(k, index, r) /\ Unit(c, N)
    BY EncUnit
  <1>3. PICK S \in 0 .. N - 1 : S = Commitment(k, c, 1 - index, f, w)
    <2>1. PICK j \in Nat : j = 1 - index
      OBVIOUS
    <2>2. c \in Int /\ w \in Int
      OBVIOUS
    <2>3. Unit(c, N)
      BY <1>2
    <2>4. Commitment(k, c, j, f, w) \in 0 .. N - 1
      BY <2>2, <2>3, CommitmentType
    <2>5. QED
      BY <2>1, <2>4
  <1>4. PICK R \in 0 .. N - 1 : R = PowM(rho, n, N)
    BY <1>1, PowMNat
  <1>5. PICK x \in Nat, y \in Nat : (IF index = 1 THEN <<S, R>> ELSE <<R, S>>) = <<x, y>>
    OBVIOUS
  <1>6. PICK xs \in Seq(Nat) : xs = <<x, y>> \o <<c, 0, 1>> /\ xs = <<x, y, c, 0, 1>>
    <2>1. c \in Nat
      OBVIOUS
    <2>2. <<x, y>> \o <<c, 0, 1>> = <<x, y, c, 0, 1>>
      <3>1. <<x, y>> \in Seq(Nat) /\ <<c, 0, 1>> \in Seq(Nat)
        BY <2>1
      <3>2. PICK u \in Seq(Nat), z \in Seq(Nat) : u = <<x, y>> /\ z = <<c, 0, 1>>
        BY <3>1
      <3>3. Len(u) = 2 /\ u[1] = x /\ u[2] = y /\ Len(z) = 3 /\ z[1] = c /\ z[2] = 0 /\ z[3] = 1
        BY <3>2
      <3>4. u \o z \in Seq(Nat)
        OBVIOUS
      <3>5. PICK uz \in Seq(Nat) : uz = u \o z
        BY <3>4
      <3>6. Len(uz) = 5 /\ uz[1] = u[1] /\ uz[2] = u[2] /\ uz[3] = z[1] /\ uz[4] = z[2] /\ uz[5] = z[3]
        <4>1. Len(uz) = Len(u) + Len(z)
          BY <3>5
        <4>2. \A i \in 1 .. Len(u) : uz[i] = u[i]
          BY <3>5
        <4>3. \A i \in 1 .. Len(z) : uz[Len(u) + i] = z[i]
          BY <3>5
        <4>4. Len(uz) = 5 /\ uz[1] = u[1] /\ uz[2] = u[2]
          BY <3>3, <4>1, <4>2
        <4>5. uz[2 + 1] = z[1] /\ uz[2 + 2] = z[2] /\ uz[2 + 3] = z[3]
          BY <3>3, <4>3
        <4>6. QED
          BY <4>4, <4>5
      <3>7. uz = <<x, y, c, 0, 1>>
        BY <3>3, <3>6
      <3>8. QED
        BY <3>2, <3>5, <3>7
    <2>3. <<x, y, c, 0, 1>> \in Seq(Nat)
      BY <2>1
    <2>4. QED
      BY <2>2, <2>3
  <1>7. PICK e \in 0 .. HashSize - 1 : e = HashMultiple(xs)
    BY HashType
  <1>9. PICK t \in Int : t = TDiv(e - f, n)
    <2>1. e - f \in Int /\ n \in Int /\ n # 0
      BY <1>1
    <2>2. QED
      BY <2>1, TDivType
  <1>10. PICK d, v : Answers(n, r, rho, e, f, t, d, v)
    BY DEF Answers
  <1>11. b = IF index = 1
             THEN [c |-> c, e |-> e, e1 |-> f, v1 |-> w, e2 |-> d, v2 |-> v]
             ELSE [c |-> c, e |-> e, e1 |-> d, v1 |-> v, e2 |-> f, v2 |-> w]
    <2>1. d = (e - f) % n /\ v = (((PowM(n + 1, t, n) * PowM(r, d, n)) % n) * rho) % n
      BY <1>10 DEF Answers
    <2>2. Made(k, index, r, rho, f, w, c, S, R, <<x, y>>, e, t, d, v)
      BY <1>1, <1>2, <1>3, <1>4, <1>5, <1>6, <1>7, <1>9, <2>1 DEF Made
    <2>3. QED
      BY <2>2, EncProofIs
  <1>12. e \in Nat /\ rho \in Int
    OBVIOUS
  <1>13. d \in Nat /\ v \in 0 .. n - 1 /\ Cong(v, Power(r, d, n) * rho, n) /\ e % n = (d + f) % n
    BY <1>1, <1>9, <1>10, <1>12, Answered
  <1>14. Commitment(k, c, index, d, v) = R
    <2>1. index \in Nat /\ v \in Int
      BY <1>13
    <2>2. QED
      BY <1>2, <1>4, <1>12, <1>13, <2>1, CommitmentOpens
  <1>15. CASE index = 1
    <2>1. b = [c |-> c, e |-> e, e1 |-> f, v1 |-> w, e2 |-> d, v2 |-> v]
      BY <1>11, <1>15
    <2>2. xs = <<Commitment(k, c, 0, f, w), Commitment(k, c, 1, d, v), c, 0, 1>>
      <3>1. S = Commitment(k, c, 0, f, w)
        <4>1. 1 - index = 0
          BY <1>15
        <4>2. QED
          BY <1>3, <4>1
      <3>2. x = S /\ y = R
        BY <1>5, <1>15
      <3>3. QED
        BY <1>6, <1>14, <1>15, <3>1, <3>2
    <2>3. e % n = (f + d) % n
      <3>1. f + d = d + f
        BY <1>13
      <3>2. QED
        BY <1>13, <3>1
    <2>4. VerifyEnc(k, b)
      BY <1>1, <1>7, <2>1, <2>2, <2>3 DEF VerifyEnc
    <2>5. b \in Ballot
      BY <1>13, <2>1 DEF Ballot
    <2>6. QED
      BY <1>2, <2>1, <2>4, <2>5
  <1>16. CASE index = 0
    <2>1. b = [c |-> c, e |-> e, e1 |-> d, v1 |-> v, e2 |-> f, v2 |-> w]
      BY <1>11, <1>16
    <2>2. xs = <<Commitment(k, c, 0, d, v), Commitment(k, c, 1, f, w), c, 0, 1>>
      <3>1. S = Commitment(k, c, 1, f, w)
        <4>1. 1 - index = 1
          BY <1>16
        <4>2. QED
          BY <1>3, <4>1
      <3>2. x = R /\ y = S
        BY <1>5, <1>16
      <3>3. QED
        BY <1>6, <1>14, <1>16, <3>1, <3>2
    <2>3. VerifyEnc(k, b)
      BY <1>1, <1>7, <1>13, <2>1, <2>2 DEF VerifyEnc
    <2>4. b \in Ballot
      BY <1>13, <2>1 DEF Ballot
    <2>5. QED
      BY <1>2, <2>1, <2>3, <2>4
  <1>17. QED
    BY <1>15, <1>16

-----------------------------------------------------------------------------
(* Partial decryption *)

LEMMA PowMIs ==
    ASSUME NEW b \in Int, NEW M \in Nat \ {0}, Unit(b, M), NEW e \in Nat
    PROVE  \E p \in 0 .. M - 1 : p = PowM(b, e, M) /\ Cong(p, Power(b, e, M), M) /\ Unit(p, M)
  <1>1. PICK p \in 0 .. M - 1 : p = PowM(b, e, M) /\ Cong(p, Power(b, e, M), M)
    BY PowMNat
  <1>2. Unit(p, M)
    BY <1>1, PowMUnit
  <1>3. QED
    BY <1>1, <1>2

\* What the verifier computes from z and the image of the base is the power
\* of the base that the trustee hashed.
Response(r, t, e, z, d) == z = r + t * e /\ d = -e
Returns(M, b, z, i, d, r) == (PowM(b, z, M) * PowM(i, d, M)) % M = PowM(b, r, M)

LEMMA OriginalReturns ==
    ASSUME NEW M \in Nat \ {0}, NEW b \in Int, NEW i \in Int, Unit(i, M), NEW t \in Nat, NEW e \in Nat,
           NEW r \in Nat, Cong(i, Power(b, t, M), M), NEW z \in Int, NEW d \in Int, Response(r, t, e, z, d)
    PROVE  Returns(M, b, z, i, d, r)
  <1>0. M \in Int
    OBVIOUS
  <1>1. PICK te \in Nat : te = t * e
    OBVIOUS
  <1>2. z \in Nat /\ z = r + te
    BY <1>1 DEF Response
  <1>3. PICK B \in Int : B = Power(b, r, M)
    BY PowerType
  <1>4. PICK T \in Int : T = Power(b, t, M)
    BY PowerType
  <1>5. PICK E \in Int : E = Power(b, te, M)
    BY PowerType
  <1>6. PICK I \in Int : I = Power(i, e, M)
    BY PowerType
  <1>7. PICK x \in Int : x = PowM(b, z, M) /\ Cong(x, Power(b, z, M), M)
    BY <1>2, PowMNat
  <1>8. PICK y \in Int : y = PowM(i, d, M) /\ Cong(y * I, 1, M)
    <2>1. \E p \in 0 .. M - 1 : p = PowM(i, -e, M) /\ Cong(p * I, 1, M)
      BY <1>6, PowMNegative
    <2>2. d = -e
      BY DEF Response
    <2>3. QED
      BY <2>1, <2>2
  <1>9. PICK BE \in Int, BI \in Int : BE = B * E /\ BI = B * I
    OBVIOUS
  <1>10. Cong(x, BE, M)
    <2>1. Cong(Power(b, r + te, M), BE, M)
      BY <1>3, <1>5, <1>9, PowerPlus
    <2>2. PICK Z \in Int : Z = Power(b, z, M)
      BY <1>2, PowerType
    <2>3. Cong(Z, BE, M)
      BY <1>2, <2>1, <2>2
    <2>4. QED
      BY <1>0, <1>7, <2>2, <2>3, CongChain
  <1>11. Cong(I, E, M)
    <2>1. PICK S \in Int : S = Power(T, e, M)
      BY PowerType
    <2>2. Cong(I, S, M)
      BY <1>4, <1>6, <2>1, PowerCong
    <2>3. Cong(S, E, M)
      BY <1>1, <1>4, <1>5, <2>1, PowerPower
    <2>4. QED
      BY <1>0, <2>2, <2>3, CongChain
  <1>12. Cong(x, BI, M)
    <2>1. Cong(B, B, M)
      BY <1>0, CongSame
    <2>2. Cong(BI, BE, M)
      BY <1>0, <1>9, <1>11, <2>1, CongProduct
    <2>3. QED
      BY <1>0, <1>10, <2>2, CongBack, CongChain
  <1>13. PICK xy \in Int, BIy \in Int, yI \in Int : xy = x * y /\ BIy = BI * y /\ yI = y * I
    OBVIOUS
  <1>14. Cong(xy, BIy, M)
    BY <1>0, <1>12, <1>13, CongSame, CongProduct
  <1>15. BIy = B * yI
    BY <1>9, <1>13
  <1>16. Cong(BIy, B, M)
    <2>1. B = B * 1 /\ Cong(B, B, M) /\ Cong(yI, 1, M)
      BY <1>0, <1>8, <1>13, CongSame
    <2>2. QED
      BY <1>0, <1>15, <2>1, CongProduct
  <1>17. PICK X \in 0 .. M - 1 : X = xy % M /\ Cong(X, xy, M)
    BY CongRemainder
  <1>18. Cong(X, B, M)
    <2>1. Cong(X, BIy, M)
      BY <1>0, <1>14, <1>17, CongChain
    <2>2. QED
      BY <1>0, <1>16, <2>1, CongChain
  <1>19. PICK h \in 0 .. M - 1 : h = PowM(b, r, M) /\ Cong(h, B, M)
    BY <1>3, PowMNat
  <1>20. Cong(X, h, M)
    BY <1>0, <1>18, <1>19, CongBack, CongChain
  <1>21. X = h
    BY <1>20, CongSmall
  <1>22. QED
    BY <1>7, <1>8, <1>13, <1>17, <1>19, <1>21 DEF Returns

\* The numbers of a key and a share that partial decryption uses
SharedKey(k, n, N) ==
    Numbers(k, n, N) /\ k.delta \in Nat /\ k.v \in Int /\ Unit(k.v, N)

SharedWith(k, N, share) ==
    /\ share.s \in Nat
    /\ k.verificationKeys[share.id] = PowM(k.v, k.delta * share.s, N)

Partial == [id : Int, decryption : Int, c4 : Int, ci2 : Int, e : Int, z : Int]

LEMMA DecProofVerifies ==
    ASSUME NEW k, NEW n, NEW N, SharedKey(k, n, N), HashSize \in Nat \ {0},
           NEW share, SharedWith(k, N, share), share.id \in Int,
           NEW c \in Int, Unit(c, N), NEW r \in Nat, NEW d, d = DecProof(k, share, c, r)
    PROVE  d \in Partial /\ VerifyDecryption(k, d) /\ d.id = share.id /\ Unit(d.decryption, N)
  <1>1. n \in Nat \ {0} /\ N \in Nat \ {0} /\ N = n * n /\ k.n = n /\ k.nSquared = N
    BY DEF SharedKey, Numbers
  <1>2. PICK s \in Nat, delta \in Nat, v \in Int : s = share.s /\ delta = k.delta /\ v = k.v /\ Unit(v, N)
    BY DEF SharedKey, SharedWith
  <1>3. PICK t \in Nat, t2 \in Nat, t4 \in Nat :
             t = delta * s /\ t2 = 2 * delta * s /\ t4 = 4 * t /\ t4 = t2 * 2
    <2>1. delta * s \in Nat /\ 2 * delta * s = 2 * (delta * s)
      OBVIOUS
    <2>2. PICK t \in Nat : t = delta * s
      BY <2>1
    <2>3. 4 * t = (2 * t) * 2 /\ 4 * t \in Nat /\ 2 * t \in Nat
      OBVIOUS
    <2>4. QED
      BY <2>1, <2>2, <2>3
  <1>4. PICK c4 \in 0 .. N - 1 : c4 = PowM(c, 4, N) /\ Cong(c4, Power(c, 4, N), N) /\ Unit(c4, N)
    <2>1. 4 \in Nat
      OBVIOUS
    <2>2. QED
      BY <1>1, <2>1, PowMIs
  <1>5. PICK D \in 0 .. N - 1 : D = PowM(c, t2, N) /\ Cong(D, Power(c, t2, N), N) /\ Unit(D, N)
    BY <1>1, PowMIs
  <1>6. PICK ci2 \in 0 .. N - 1 : ci2 = PowM(D, 2, N) /\ Cong(ci2, Power(D, 2, N), N) /\ Unit(ci2, N)
    <2>1. 2 \in Nat /\ D \in Int
      OBVIOUS
    <2>2. QED
      BY <1>1, <1>5, <2>1, PowMIs
  <1>7. PICK h1 \in 0 .. N - 1 : h1 = PowM(c4, r, N)
    <2>1. c4 \in Int
      OBVIOUS
    <2>2. \E p \in 0 .. N - 1 : p = PowM(c4, r, N) /\ Cong(p, Power(c4, r, N), N)
      BY <1>1, <2>1, PowMNat
    <2>3. QED
      BY <2>2
  <1>8. PICK h2 \in 0 .. N - 1 : h2 = PowM(v, r, N)
    BY <1>1, PowMNat
  <1>9. PICK e \in 0 .. HashSize - 1 : e = HashMultiple(<<h1, h2, c4, ci2>>)
    <2>1. h1 \in Nat /\ h2 \in Nat /\ c4 \in Nat /\ ci2 \in Nat
      OBVIOUS
    <2>2. <<h1, h2, c4, ci2>> \in Seq(Nat)
      BY <2>1
    <2>3. QED
      BY <2>2, HashType
  <1>10. PICK z \in Int : z = r + s * e * delta /\ z = r + t * e
    <2>1. e \in Nat
      OBVIOUS
    <2>2. s * e * delta = t * e /\ t * e \in Nat
      BY <1>3, <2>1
    <2>3. QED
      BY <2>2
  <1>11. d = [id |-> share.id, decryption |-> D, c4 |-> c4, ci2 |-> ci2, e |-> e, z |-> z]
    BY <1>1, <1>2, <1>3, <1>4, <1>5, <1>6, <1>7, <1>8, <1>9, <1>10 DEF DecProof
  <1>12. PICK m \in Int : m = -e /\ Response(r, t, e, z, m)
    <2>1. -e \in Int
      OBVIOUS
    <2>2. QED
      BY <1>10, <2>1 DEF Response
  <1>13. e \in Nat /\ N \in Int
    BY <1>1
  <1>14. Cong(ci2, Power(c4, t, N), N)
    <2>1. PICK w \in Int : w = Power(c, t4, N)
      BY <1>1, PowerType
    <2>2. PICK x \in Int : x = Power(c, t2, N)
      BY <1>1, PowerType
    <2>3. PICK y \in Int : y = Power(c, 4, N)
      BY <1>1, PowerType
    <2>4. PICK x2 \in Int : x2 = Power(x, 2, N)
      BY <1>1, PowerType
    <2>5. PICK D2 \in Int : D2 = Power(D, 2, N)
      BY <1>1, PowerType
    <2>6. PICK yt \in Int : yt = Power(y, t, N)
      BY <1>1, PowerType
    <2>7. PICK ct \in Int : ct = Power(c4, t, N)
      BY <1>1, PowerType
    <2>8. Cong(x2, w, N)
      BY <1>1, <1>3, <2>1, <2>2, <2>4, PowerPower
    <2>9. Cong(D2, x2, N)
      BY <1>1, <1>5, <2>2, <2>4, <2>5, PowerCong
    <2>10. Cong(ci2, x2, N)
      BY <1>6, <1>13, <2>5, <2>9, CongChain
    <2>11. Cong(ci2, w, N)
      BY <1>13, <2>8, <2>10, CongChain
    <2>12. Cong(yt, w, N)
      BY <1>1, <1>3, <2>1, <2>3, <2>6, PowerPower
    <2>13. Cong(ct, yt, N)
      BY <1>1, <1>4, <2>3, <2>6, <2>7, PowerCong
    <2>14. Cong(ct, w, N)
      BY <1>13, <2>12, <2>13, CongChain
    <2>15. Cong(ci2, ct, N)
      BY <1>13, <2>11, <2>14, CongBack, CongChain
    <2>16. QED
      BY <2>7, <2>15
  <1>15. (PowM(c4, z, N) * PowM(ci2, m, N)) % N = h1
    <2>1. c4 \in Int /\ ci2 \in Int
      OBVIOUS
    <2>2. Returns(N, c4, z, ci2, m, r)
      BY <1>1, <1>6, <1>12, <1>13, <1>14, <2>1, OriginalReturns
    <2>3. QED
      BY <1>7, <2>2 DEF Returns
  <1>16. PICK vk \in 0 .. N - 1 : /\ vk = k.verificationKeys[share.id] /\ Unit(vk, N)
                                  /\ Cong(vk, Power(v, t, N), N)
    <2>1. PICK vk \in 0 .. N - 1 : vk = PowM(v, t, N) /\ Cong(vk, Power(v, t, N), N)
      BY <1>1, PowMNat
    <2>2. Unit(vk, N)
      BY <1>1, <1>2, <2>1, PowMUnit
    <2>3. vk = k.verificationKeys[share.id]
      BY <1>1, <1>2, <1>3, <2>1 DEF SharedWith
    <2>4. QED
      BY <2>1, <2>2, <2>3
  <1>17. (PowM(v, z, N) * PowM(vk, m, N)) % N = h2
    <2>1. vk \in Int
      OBVIOUS
    <2>2. Returns(N, v, z, vk, m, r)
      BY <1>1, <1>12, <1>13, <1>16, <2>1, OriginalReturns
    <2>3. QED
      BY <1>8, <2>2 DEF Returns
  <1>18. VerifyDecryption(k, d)
    BY <1>1, <1>2, <1>9, <1>11, <1>12, <1>15, <1>16, <1>17 DEF VerifyDecryption
  <1>19. d \in Partial
    BY <1>11 DEF Partial
  <1>20. QED
    BY <1>5, <1>11, <1>18, <1>19

-----------------------------------------------------------------------------
(* The product of the ballots *)

LEMMA SumIs ==
    ASSUME NEW D, D = {b \in ballots : VerifyEnc(pub, b)}
    PROVE  Sum = (CHOOSE f : f = [s \in SUBSET D |->
                     IF s = {} THEN 1
                     ELSE LET x == CHOOSE x \in s : TRUE
                          IN (f[s \ {x}] * x.c) % pub.nSquared])[D]
  BY DEF Sum, FoldSet, MapThenFoldSet

LEMMA SumUnit ==
    ASSUME NEW N \in Nat \ {0}, pub.nSquared = N, IsFiniteSet(ballots),
           \A b \in ballots : b.c \in Int /\ Unit(b.c, N)
    PROVE  Sum \in Int /\ Unit(Sum, N)
  <1> DEFINE D == {b \in ballots : VerifyEnc(pub, b)}
             X == SUBSET D
             T == {x \in Int : Unit(x, N)}
             First(s) == CHOOSE x \in s : TRUE
             Rest == [s \in X |-> IF s = {} THEN {} ELSE s \ {First(s)}]
             Times(s, y) == (y * First(s).c) % N
             E == [s \in X |-> 1]
             rank == [s \in X |-> Cardinality(s)]
             G == [q \in X \X T |-> IF q[1] = {} THEN 1 ELSE Times(q[1], q[2])]
             Eq(f) == f = [s \in SUBSET D |->
                             IF s = {} THEN 1
                             ELSE LET x == CHOOSE x \in s : TRUE
                                  IN (f[s \ {x}] * x.c) % pub.nSquared]
             p == CHOOSE f : Eq(f)
  <1>1. Sum = p[D]
    BY SumIs
  <1>2. \A s \in X : s # {} => First(s) \in s /\ First(s) \in ballots /\ s \ {First(s)} \in X
    OBVIOUS
  <1>3. \A s \in X : IsFiniteSet(s) /\ Cardinality(s) \in Nat
    <2>1. IsFiniteSet(D)
      BY FS_Subset
    <2> HIDE DEF D
    <2>2. QED
      BY <2>1, FS_Subset, FS_CardinalityType
  <1>4. \A s \in X : s # {} => Cardinality(s \ {First(s)}) < Cardinality(s)
    <2>1. ASSUME NEW s \in X, s # {} PROVE Cardinality(s \ {First(s)}) < Cardinality(s)
      <3>1. IsFiniteSet(s) /\ First(s) \in s /\ Cardinality(s) \in Nat
        BY <1>2, <1>3, <2>1
      <3>2. Cardinality(s \ {First(s)}) = Cardinality(s) - 1
        <4> HIDE DEF First, X
        <4>1. QED BY <3>1, FS_RemoveElement
      <3>3. QED
        BY <3>1, <3>2
    <2>2. QED
      BY <2>1
  <1>5. 1 \in T
    <2>1. 1 * 1 = 1 + 0 * N /\ 0 \in Int
      OBVIOUS
    <2>2. QED
      BY <2>1 DEF Unit, Cong
  <1> HIDE DEF D, X, First
  <1>6. ASSUME NEW s \in X, s # {}, NEW y \in T PROVE Times(s, y) \in T
    <2>1. PICK c \in Int : c = First(s).c /\ Unit(c, N)
      BY <1>2, <1>6
    <2>2. PICK yc \in Int : yc = y * c /\ Unit(yc, N)
      <3>1. y \in Int /\ Unit(y, N) /\ y * c \in Int
        OBVIOUS
      <3>2. QED
        BY <2>1, <3>1, UnitProduct
    <2>3. yc % N \in 0 .. N - 1 /\ Cong(yc % N, yc, N)
      BY CongRemainder
    <2>4. PICK z \in Int : z = yc % N /\ Cong(z, yc, N)
      BY <2>3
    <2>5. Unit(z, N)
      BY <2>2, <2>4, UnitCong
    <2>6. QED
      BY <2>1, <2>2, <2>4, <2>5
  <1>7. {} \in X
    BY DEF X
  <1> HIDE DEF Times, T
  <1>8. Descends(X, T, {{}}, E, Rest, G, rank)
    <2>1. E \in [X -> T] /\ rank \in [X -> Nat]
      BY <1>3, <1>5
    <2>2. Rest \in [X -> X]
      BY <1>2, <1>7
    <2>3. G \in [X \X T -> T]
      <3>1. \A q \in X \X T : q[1] \in X /\ q[2] \in T
        OBVIOUS
      <3>2. \A q \in X \X T : (IF q[1] = {} THEN 1 ELSE Times(q[1], q[2])) \in T
        BY <1>5, <1>6, <3>1
      <3>3. QED
        BY <3>2
    <2>4. \A s \in X : s \notin {{}} => rank[Rest[s]] < rank[s]
      BY <1>2, <1>4
    <2> HIDE DEF E, Rest, G, rank
    <2>5. QED
      BY <2>1, <2>2, <2>3, <2>4 DEF Descends
  <1>9. ASSUME NEW f, NEW s \in X, s = {} \/ f[s \ {First(s)}] \in T
        PROVE  Step({{}}, E, Rest, G, f, s) = IF s = {} THEN 1 ELSE Times(s, f[s \ {First(s)}])
    <2>1. CASE s = {}
      BY <2>1 DEF Step
    <2>2. CASE s # {}
      <3>1. Rest[s] = s \ {First(s)}
        BY <2>2
      <3>2. <<s, f[s \ {First(s)}]>> \in X \X T
        BY <1>9, <2>2
      <3>3. G[<<s, f[s \ {First(s)}]>>] = Times(s, f[s \ {First(s)}])
        BY <2>2, <3>2
      <3> HIDE DEF G, Rest, E
      <3>4. QED
        BY <2>2, <3>1, <3>3 DEF Step
    <2>3. QED
      BY <2>1, <2>2
  <1>10. PICK f : Solves(X, T, {{}}, E, Rest, G, f)
    <2> HIDE DEF E, Rest, G, rank
    <2>1. QED BY <1>8, Solvable
  <1>11. f \in [X -> T] /\ \A s \in X : f[s] = Step({{}}, E, Rest, G, f, s)
    BY <1>10 DEF Solves
  <1>12. \A s \in X : f[s] = IF s = {} THEN 1 ELSE Times(s, f[s \ {First(s)}])
    <2> HIDE DEF E, Rest, G
    <2>1. QED BY <1>2, <1>9, <1>11
  <1>13. Eq(f)
    <2>1. f = [s \in X |-> f[s]]
      BY <1>11
    <2>2. f = [s \in X |-> IF s = {} THEN 1 ELSE Times(s, f[s \ {First(s)}])]
      BY <1>12, <2>1
    <2>3. QED
      BY <2>2 DEF X, Times, First
  <1>14. Eq(p)
    <2> HIDE DEF Eq
    <2>1. QED BY <1>13
  <1> HIDE DEF p
  <1>15. \A s \in X : p[s] = IF s = {} THEN 1 ELSE Times(s, p[s \ {First(s)}])
    BY <1>14 DEF X, Times, First
  <1>16. \A s \in X : s \in {{}} \/ p[Rest[s]] \in T => p[s] = Step({{}}, E, Rest, G, p, s)
    <2>1. \A s \in X : s # {} => Rest[s] = s \ {First(s)}
      OBVIOUS
    <2> HIDE DEF E, Rest, G
    <2>2. QED
      BY <1>9, <1>15, <2>1
  <1>17. \A s \in X : p[s] \in T
    <2> HIDE DEF E, Rest, G, rank
    <2>1. QED BY <1>8, <1>16, StaysTyped
  <1>18. D \in X
    BY DEF X
  <1>19. QED
    BY <1>1, <1>17, <1>18 DEF T

-----------------------------------------------------------------------------
(* Combination *)

LEMMA LambdaType ==
    ASSUME NEW k, k.delta \in Int, NEW ids \in Seq(Int), NEW i \in 1 .. Len(ids),
           \A j \in 1 .. Len(ids) : j # i => ids[j] # ids[i]
    PROVE  Lambda(k, ids, i) \in Int
  <1> DEFINE X == 0 .. Len(ids)
             Next1(j, h) == IF j = i THEN h ELSE TDiv(h * (-ids[j]), ids[i] - ids[j])
             G == [q \in X \X Int |-> IF q[1] = 0 THEN 0 ELSE Next1(q[1], q[2])]
             Eq(f) == f = [j \in 0 .. Len(ids) |->
                             IF j = 0 THEN k.delta
                             ELSE IF j = i THEN f[j - 1]
                             ELSE TDiv(f[j - 1] * (-ids[j]), ids[i] - ids[j])]
             p == CHOOSE f : Eq(f)
  <1>1. Len(ids) \in Nat /\ \A j \in 1 .. Len(ids) : ids[j] \in Int
    OBVIOUS
  <1>2. ASSUME NEW j \in 1 .. Len(ids), NEW h \in Int PROVE Next1(j, h) \in Int
    <2>1. CASE j = i
      BY <2>1
    <2>2. CASE j # i
      <3>1. PICK x \in Int, y \in Int : x = ids[j] /\ y = ids[i] /\ x # y
        BY <1>1, <2>2
      <3>2. PICK z \in Int, d \in Int : z = h * (-x) /\ d = y - x /\ d # 0
        <4>1. PICK u \in Int : u = -x
          BY <3>1
        <4>2. PICK d \in Int : d = y - x /\ d # 0
          BY <3>1
        <4>3. h * u \in Int
          OBVIOUS
        <4>4. QED
          BY <4>1, <4>2, <4>3
      <3>3. TDiv(z, d) \in Int
        BY <3>2, TDivType
      <3>4. QED
        BY <2>2, <3>1, <3>2, <3>3
    <2>3. QED
      BY <2>1, <2>2
  <1>3. \A j \in X : j \in Nat /\ (j # 0 => j \in 1 .. Len(ids) /\ j - 1 \in X)
    BY <1>1
  <1> HIDE DEF Next1
  <1>4. G \in [X \X Int -> Int]
    <2>1. \A q \in X \X Int : q[1] \in X /\ q[2] \in Int
      OBVIOUS
    <2> HIDE DEF X
    <2>2. ASSUME NEW j \in X, NEW h \in Int PROVE (IF j = 0 THEN 0 ELSE Next1(j, h)) \in Int
      <3>1. CASE j = 0
        BY <3>1
      <3>2. CASE j # 0
        BY <1>2, <1>3, <3>2
      <3>3. QED
        BY <3>1, <3>2
    <2>3. \A q \in X \X Int : (IF q[1] = 0 THEN 0 ELSE Next1(q[1], q[2])) \in Int
      BY <2>1, <2>2
    <2>4. QED
      BY <2>3
  <1>5. PICK f : CountsUp(X, Int, k.delta, G, f)
    <2>1. Counter(X)
      BY <1>1 DEF Counter
    <2> HIDE DEF G, X
    <2>2. QED
      BY <1>4, <2>1, CountedUp
  <1>6. f \in [X -> Int] /\ \A j \in X : f[j] = IF j = 0 THEN k.delta ELSE G[<<j, f[j - 1]>>]
    BY <1>5 DEF CountsUp
  <1>7. \A j \in X : f[j] = IF j = 0 THEN k.delta ELSE Next1(j, f[j - 1])
    <2> HIDE DEF X
    <2>1. \A j \in X : j # 0 => G[<<j, f[j - 1]>>] = Next1(j, f[j - 1])
      BY <1>3, <1>6
    <2> HIDE DEF G
    <2>2. QED
      BY <1>6, <2>1
  <1>8. Eq(f)
    <2>1. f = [j \in X |-> f[j]]
      BY <1>6
    <2>2. f = [j \in X |-> IF j = 0 THEN k.delta ELSE Next1(j, f[j - 1])]
      <3> HIDE DEF X
      <3>1. QED BY <1>7, <2>1
    <2>3. QED
      BY <2>2 DEF Next1
  <1>9. Eq(p)
    <2> HIDE DEF Eq
    <2>1. QED BY <1>8
  <1>10. Lambda(k, ids, i) = p[Len(ids)]
    BY DEF Lambda
  <1> HIDE DEF p
  <1>11. \A j \in X : p[j] = IF j = 0 THEN k.delta ELSE Next1(j, p[j - 1])
    <2>1. p = [j \in X |-> IF j = 0 THEN k.delta ELSE Next1(j, p[j - 1])]
      BY <1>9 DEF Next1
    <2> HIDE DEF X
    <2>2. QED
      BY <2>1
  <1>12. p[0] \in Int
    BY <1>1, <1>11
  <1>13. ASSUME NEW j \in 1 .. Len(ids), p[j - 1] \in Int PROVE p[j] \in Int
    <2>1. j \in X /\ j # 0
      BY <1>1
    <2> HIDE DEF X
    <2>2. QED
      BY <1>2, <1>11, <1>13, <2>1
  <1>14. \A j \in 0 .. Len(ids) : p[j] \in Int
    BY <1>1, <1>12, <1>13, CountsTyped
  <1>15. QED
    BY <1>1, <1>10, <1>14

\* The partial decryptions that are combined
Combinable(k, n, N, ds) ==
    /\ n \in Nat \ {0} /\ N \in Nat \ {0} /\ k.n = n /\ k.nSquared = N
    /\ k.threshold \in Nat /\ k.delta \in Int /\ k.combineSharesConstant \in Int
    /\ \A i \in 1 .. k.threshold : ds[i].id \in Int /\ ds[i].decryption \in Int /\ Unit(ds[i].decryption, N)
    /\ \A i, j \in 1 .. k.threshold : j # i => ds[j].id # ds[i].id

LEMMA CPrimeType ==
    ASSUME NEW k, NEW n, NEW N, NEW ds, Combinable(k, n, N, ds)
    PROVE  CPrime(k, ds) \in Int
  <1> DEFINE l == k.threshold
             ids == [i \in 1 .. l |-> ds[i].id]
             Factor(i) == PowM(ds[i].decryption, 2 * Lambda(k, ids, i), N)
             X == 0 .. l
             Next1(i, h) == (h * Factor(i)) % N
             G == [q \in X \X Int |-> IF q[1] = 0 THEN 0 ELSE Next1(q[1], q[2])]
             Eq(f) == f = [i \in X |-> IF i = 0 THEN 1 ELSE (f[i - 1] * Factor(i)) % N]
             p == CHOOSE f : Eq(f)
  <1>1. /\ N \in Nat \ {0} /\ k.nSquared = N /\ l \in Nat /\ k.delta \in Int
        /\ \A i \in 1 .. l : ds[i].id \in Int /\ ds[i].decryption \in Int /\ Unit(ds[i].decryption, N)
        /\ \A i, j \in 1 .. l : j # i => ds[j].id # ds[i].id
    BY DEF Combinable
  <1> HIDE DEF l
  <1>2. ids \in Seq(Int) /\ Len(ids) = l /\ \A i \in 1 .. l : ids[i] = ds[i].id
    <2>1. ids \in [1 .. l -> Int]
      BY <1>1
    <2>2. QED
      BY <1>1, <2>1
  <1> HIDE DEF ids
  <1>3. ASSUME NEW i \in 1 .. l PROVE Factor(i) \in Int
    <2>1. PICK x \in Int : x = Lambda(k, ids, i)
      <3>1. i \in 1 .. Len(ids) /\ \A j \in 1 .. Len(ids) : j # i => ids[j] # ids[i]
        BY <1>1, <1>2
      <3>2. Lambda(k, ids, i) \in Int
        BY <1>1, <1>2, <3>1, LambdaType
      <3>3. QED
        BY <3>2
    <2>2. PICK e \in Int, b \in Int : e = 2 * x /\ b = ds[i].decryption /\ Unit(b, N)
      <3>1. 2 * x \in Int
        OBVIOUS
      <3>2. QED
        BY <1>1, <3>1
    <2>3. PowM(b, e, N) \in 0 .. N - 1
      BY <1>1, <2>2, PowMType
    <2>4. QED
      BY <2>1, <2>2, <2>3
  <1> HIDE DEF Factor
  <1>4. ASSUME NEW i \in 1 .. l, NEW h \in Int PROVE Next1(i, h) \in Int
    <2>1. PICK x \in Int : x = Factor(i)
      BY <1>3
    <2>2. h * x \in Int
      OBVIOUS
    <2>3. (h * x) % N \in 0 .. N - 1
      BY <1>1, <2>2, CongRemainder
    <2>4. QED
      BY <2>1, <2>3
  <1> HIDE DEF Next1
  <1>5. \A i \in X : i \in Nat /\ (i # 0 => i \in 1 .. l /\ i - 1 \in X)
    BY <1>1
  <1>6. G \in [X \X Int -> Int]
    <2>1. \A q \in X \X Int : q[1] \in X /\ q[2] \in Int
      OBVIOUS
    <2> HIDE DEF X
    <2>2. \A q \in X \X Int : (IF q[1] = 0 THEN 0 ELSE Next1(q[1], q[2])) \in Int
      BY <1>4, <1>5, <2>1
    <2>3. QED
      BY <2>2
  <1>7. PICK f : CountsUp(X, Int, 1, G, f)
    <2>1. Counter(X) /\ 1 \in Int
      BY <1>1 DEF Counter
    <2> HIDE DEF G, X
    <2>2. QED
      BY <1>6, <2>1, CountedUp
  <1>8. f \in [X -> Int] /\ \A i \in X : f[i] = IF i = 0 THEN 1 ELSE G[<<i, f[i - 1]>>]
    BY <1>7 DEF CountsUp
  <1>9. \A i \in X : f[i] = IF i = 0 THEN 1 ELSE Next1(i, f[i - 1])
    <2> HIDE DEF X
    <2>1. \A i \in X : i # 0 => G[<<i, f[i - 1]>>] = Next1(i, f[i - 1])
      BY <1>5, <1>8
    <2> HIDE DEF G
    <2>2. QED
      BY <1>8, <2>1
  <1>10. Eq(f)
    <2>1. f = [i \in X |-> f[i]]
      BY <1>8
    <2>2. f = [i \in X |-> IF i = 0 THEN 1 ELSE Next1(i, f[i - 1])]
      <3> HIDE DEF X
      <3>1. QED BY <1>9, <2>1
    <2>3. QED
      BY <2>2 DEF Next1
  <1>11. Eq(p)
    <2> HIDE DEF Eq
    <2>1. QED BY <1>10
  <1>12. CPrime(k, ds) = p[l]
    BY <1>1 DEF CPrime, Factor, ids, l
  <1> HIDE DEF p
  <1>13. \A i \in X : p[i] = IF i = 0 THEN 1 ELSE Next1(i, p[i - 1])
    <2>1. p = [i \in X |-> IF i = 0 THEN 1 ELSE Next1(i, p[i - 1])]
      BY <1>11 DEF Next1
    <2> HIDE DEF X
    <2>2. QED
      BY <2>1
  <1>14. p[0] \in Int
    BY <1>1, <1>13
  <1>15. ASSUME NEW i \in 1 .. l, p[i - 1] \in Int PROVE p[i] \in Int
    <2>1. i \in X /\ i # 0
      BY <1>1
    <2> HIDE DEF X
    <2>2. QED
      BY <1>4, <1>13, <1>15, <2>1
  <1>16. \A i \in 0 .. l : p[i] \in Int
    BY <1>1, <1>14, <1>15, CountsTyped
  <1>17. QED
    BY <1>1, <1>12, <1>16

LEMMA CombiningType ==
    ASSUME NEW k, NEW n, NEW N, NEW ds, Combinable(k, n, N, ds)
    PROVE  Combining(k, ds) \in 0 .. n - 1
  <1>1. n \in Nat \ {0} /\ k.n = n
    BY DEF Combinable
  <1>2. PICK c \in Int : c = CPrime(k, ds)
    BY CPrimeType
  <1>3. PICK d \in Int : d = k.combineSharesConstant
    BY DEF Combinable
  <1>4. (c - 1) \div n \in Int
    BY <1>1
  <1>5. PICK q \in Int : q = (c - 1) \div n
    BY <1>4
  <1>6. q * d \in Int
    OBVIOUS
  <1>7. (q * d) % n \in 0 .. n - 1
    BY <1>1, <1>6, CongRemainder
  <1>8. QED
    BY <1>1, <1>2, <1>3, <1>5, <1>7 DEF Combining

-----------------------------------------------------------------------------
(* Ordered sets *)

\* The comparison field by field tells any two tuples apart, and none from itself.
LEMMA LexTotal ==
    ASSUME NEW s, NEW t, Len(s) = 6, Len(t) = 6, \A i \in 1 .. 6 : s[i] \in Int /\ t[i] \in Int,
           ~LexLess(s, t), ~LexLess(t, s)
    PROVE  \A i \in 1 .. 6 : s[i] = t[i]
  <1>1. ASSUME NEW i \in 1 .. 6, \A j \in 1 .. i - 1 : s[j] = t[j] PROVE s[i] = t[i]
    <2>1. ~(s[i] < t[i]) /\ ~(t[i] < s[i])
      BY <1>1 DEF LexLess
    <2>2. QED
      BY <2>1
  <1>2. s[1] = t[1]
    BY <1>1
  <1>3. s[2] = t[2]
    BY <1>1, <1>2
  <1>4. s[3] = t[3]
    BY <1>1, <1>2, <1>3
  <1>5. s[4] = t[4]
    BY <1>1, <1>2, <1>3, <1>4
  <1>6. s[5] = t[5]
    BY <1>1, <1>2, <1>3, <1>4, <1>5
  <1>7. s[6] = t[6]
    BY <1>1, <1>2, <1>3, <1>4, <1>5, <1>6
  <1>8. QED
    BY <1>2, <1>3, <1>4, <1>5, <1>6, <1>7

LEMMA BallotsApart ==
    ASSUME NEW a \in Ballot, NEW b \in Ballot, ~BallotLess(a, b), ~BallotLess(b, a), HashSize \in Nat
    PROVE  a = b
  <1>1. PICK s, t : /\ s = <<a.c, a.e, a.e1, a.e2, a.v1, a.v2>>
                    /\ t = <<b.c, b.e, b.e1, b.e2, b.v1, b.v2>>
    OBVIOUS
  <1>2. /\ a.c \in Int /\ a.e \in Int /\ a.e1 \in Int /\ a.e2 \in Int /\ a.v1 \in Int /\ a.v2 \in Int
        /\ b.c \in Int /\ b.e \in Int /\ b.e1 \in Int /\ b.e2 \in Int /\ b.v1 \in Int /\ b.v2 \in Int
    BY DEF Ballot
  <1>3. /\ s[1] = a.c /\ s[2] = a.e /\ s[3] = a.e1 /\ s[4] = a.e2 /\ s[5] = a.v1 /\ s[6] = a.v2
        /\ t[1] = b.c /\ t[2] = b.e /\ t[3] = b.e1 /\ t[4] = b.e2 /\ t[5] = b.v1 /\ t[6] = b.v2
        /\ Len(s) = 6 /\ Len(t) = 6
    BY <1>1
  <1>4. \A i \in 1 .. 6 : s[i] \in Int /\ t[i] \in Int
    BY <1>2, <1>3
  <1>5. ~LexLess(s, t) /\ ~LexLess(t, s)
    BY <1>1 DEF BallotLess
  <1>6. \A i \in 1 .. 6 : s[i] = t[i]
    BY <1>3, <1>4, <1>5, LexTotal
  <1>7. a.c = b.c /\ a.e = b.e /\ a.e1 = b.e1 /\ a.e2 = b.e2 /\ a.v1 = b.v1 /\ a.v2 = b.v2
    BY <1>3, <1>6
  <1>8. QED
    BY <1>7 DEF Ballot

LEMMA PartialNotLess ==
    ASSUME NEW d \in Partial
    PROVE  ~PartialLess(d, d)
  <1>1. PICK s : s = <<d.id, d.decryption, d.c4, d.ci2, d.e, d.z>>
    OBVIOUS
  <1>2. Len(s) = 6 /\ \A i \in 1 .. 6 : s[i] \in Int
    BY <1>1 DEF Partial
  <1>3. ~LexLess(s, s)
    BY <1>2 DEF LexLess
  <1>4. QED
    BY <1>1, <1>3 DEF PartialLess

\* A ballot and a partial decryption survive their archives.
LEMMA BallotTravels ==
    ASSUME NEW b \in Ballot
    PROVE  LoadedBallot(SavedBallot(b)) = b
  BY DEF Ballot, LoadedBallot, SavedBallot

LEMMA PartialTravels ==
    ASSUME NEW d \in Partial
    PROVE  LoadedPartial(SavedPartial(d)) = d
  BY DEF Partial, LoadedPartial, SavedPartial

LEMMA UnitNonzero ==
    ASSUME NEW M \in Nat, M > 1, NEW c \in 0 .. M - 1, Unit(c, M)
    PROVE  c \in 1 .. M - 1
  <1>1. SUFFICES ASSUME c = 0 PROVE FALSE
    OBVIOUS
  <1>2. PICK k \in Int, l \in Int : c * k = 1 + l * M
    BY DEF Unit, Cong
  <1>3. c * k = 0
    BY <1>1
  <1>4. PICK x \in Int : x = l * M
    OBVIOUS
  <1>5. x = -1
    BY <1>2, <1>3, <1>4
  <1>6. (l >= 0 => x >= 0) /\ (l <= -1 => x <= -M)
    BY <1>4
  <1>7. QED
    BY <1>5, <1>6

-----------------------------------------------------------------------------
(* The invariant *)

\* The key that was generated, its shares, and what is drawn for it
KeyInv ==
    /\ SharedKey(pub, pub.n, pub.nSquared) /\ pub.n > 1
    /\ pub.decryptServers \in Nat /\ pub.threshold \in Nat /\ pub.combineSharesConstant \in Int
    /\ \A r \in Blinding : Unit(r, pub.n)
    /\ shares \in Seq([id : 1 .. pub.decryptServers, s : Nat])
    /\ \A i \in 1 .. Len(shares) : shares[i].id = i /\ SharedWith(pub, pub.nSquared, shares[i])

BallotsInv ==
    /\ voted \in Seq({0, 1}) /\ IsFiniteSet(ballots) /\ Cardinality(ballots) = Len(voted)
    /\ \A b \in ballots : /\ b \in Ballot /\ VerifyEnc(pub, b)
                          /\ b.c \in 1 .. pub.nSquared - 1 /\ Unit(b.c, pub.nSquared)

PartialsInv ==
    /\ IsFiniteSet(partials)
    /\ \A d \in partials : d \in Partial /\ VerifyDecryption(pub, d) /\ Unit(d.decryption, pub.nSquared)
    /\ \A d1, d2 \in partials : d1.id = d2.id => d1 = d2

PaillierInv ==
    IF pub = None
    THEN shares = <<>> /\ voted = <<>> /\ ballots = {} /\ partials = {} /\ results = {}
    ELSE KeyInv /\ BallotsInv /\ PartialsInv /\ results \subseteq 0 .. pub.n - 1

LEMMA PrimesType ==
    ASSUME NEW pq \in PrimePairs, BoundsAssumption,
           NEW n, n = pq[1] * pq[2], NEW m, m = ((pq[1] - 1) \div 2) * ((pq[2] - 1) \div 2)
    PROVE  n \in Nat /\ n > 1 /\ m \in Nat \ {0}
  <1>1. PICK y \in Nat : y = 2 ^ ((Bits \div 2) - 1)
    BY DEF BoundsAssumption
  <1>2. ASSUME NEW p \in SafePrimes PROVE \E x \in Nat : x > 1 /\ p = 2 * x + 1
    <2>1. PICK x \in 0 .. y - 1 : p = 2 * x + 1 /\ IsPrime(x)
      BY <1>1 DEF SafePrimes
    <2>2. x \in Nat /\ x > 1
      BY <2>1 DEF IsPrime
    <2>3. QED
      BY <2>1, <2>2
  <1>3. pq[1] \in SafePrimes /\ pq[2] \in SafePrimes
    BY DEF PrimePairs
  <1>4. PICK x1 \in Nat : x1 > 1 /\ pq[1] = 2 * x1 + 1
    BY <1>2, <1>3
  <1>5. PICK x2 \in Nat : x2 > 1 /\ pq[2] = 2 * x2 + 1
    BY <1>2, <1>3
  <1>6. (2 * x1 + 1 - 1) \div 2 = x1 /\ (2 * x2 + 1 - 1) \div 2 = x2
    OBVIOUS
  <1>7. PICK z1 \in Nat, z2 \in Nat : z1 = 2 * x1 + 1 /\ z2 = 2 * x2 + 1 /\ z1 > 2 /\ z2 > 2
    <2>1. 2 * x1 + 1 > 2 /\ 2 * x2 + 1 > 2 /\ 2 * x1 + 1 \in Nat /\ 2 * x2 + 1 \in Nat
      BY <1>4, <1>5
    <2>2. QED
      BY <2>1
  <1>8. z1 * z2 \in Nat /\ z1 * z2 > 1
    BY <1>7
  <1>9. x1 * x2 \in Nat \ {0}
    BY <1>4, <1>5
  <1>10. QED
    BY <1>4, <1>5, <1>6, <1>7, <1>8, <1>9

LEMMA InitInv == Init => PaillierInv
  BY DEF Init, PaillierInv

Assumptions == BoundsAssumption /\ SizesAssumption /\ DrawnAssumption /\ BlindingAssumption

LEMMA AssumptionsHold == Assumptions
  BY BoundsAssumption, SizesAssumption, DrawnAssumption, BlindingAssumption DEF Assumptions

LEMMA GenerateKeyInv ==
    ASSUME NEW pq \in PrimePairs, NEW size \in Sizes, NEW r \in Blinding,
           NEW a \in [1 .. size[2] - 1 -> Coefficients], GenerateKey(pq, size, a, r), PaillierInv
    PROVE  PaillierInv'
  <1>0. BoundsAssumption /\ SizesAssumption /\ DrawnAssumption /\ BlindingAssumption
    BY AssumptionsHold DEF Assumptions
  <1>1. /\ shares = <<>> /\ voted = <<>> /\ ballots = {} /\ partials = {} /\ results = {}
        /\ voted' = <<>> /\ ballots' = {} /\ partials' = {} /\ results' = {}
    BY DEF GenerateKey, PaillierInv
  <1> DEFINE n1 == pq[1] * pq[2]
             m1 == ((pq[1] - 1) \div 2) * ((pq[2] - 1) \div 2)
  <1>2. n1 \in Nat /\ n1 > 1 /\ m1 \in Nat \ {0}
    BY <1>0, PrimesType
  <1>3. PICK n \in Nat \ {0}, m \in Nat \ {0}, N \in Nat \ {0} : n = n1 /\ m = m1 /\ N = n * n /\ n > 1
    <2>1. n1 \in Nat \ {0} /\ n1 * n1 \in Nat \ {0}
      BY <1>2
    <2>2. QED
      BY <1>2, <2>1
  <1>4. PICK S \in Nat, t \in Nat : S = size[1] /\ t = size[2] /\ t \in 1 .. S
    BY <1>0 DEF SizesAssumption
  <1>5. PICK delta \in Nat : delta = Factorial[S]
    BY FactorialType
  <1>6. PICK x \in Nat : x = r
    BY <1>0 DEF DrawnAssumption
  <1>7. /\ CanComplete(n, size) /\ Gcd(m, n) = 1 /\ Gcd(x, n) = 1
    BY <1>3, <1>6 DEF GenerateKey
  <1>8. Unit(m, n) /\ Unit(x, n)
    BY <1>7, CoprimeUnit
  <1>9. PICK u \in 0 .. n - 1 : u = Invert(m, n)
    BY <1>8, InvertIs
  <1>10. PICK d \in Nat : d = m * u
    <2>1. m * u \in Nat
      OBVIOUS
    <2>2. QED
      BY <2>1
  <1>11. PICK v \in 0 .. N - 1 : v = PowM(x, 2, N) /\ Unit(v, N)
    <2>1. Unit(x, N) /\ 2 \in Nat /\ x \in Int
      BY <1>3, <1>8, UnitSquare
    <2>2. QED
      BY <2>1, PowMIs
  <1>12. PICK nm \in Nat \ {0} : nm = n * m
    <2>1. n * m \in Nat \ {0}
      OBVIOUS
    <2>2. QED
      BY <2>1
  <1>13. PICK as \in Seq(Nat) : as = <<d>> \o a
    <2>1. a \in Seq(Nat)
      <3>1. t - 1 \in Nat
        BY <1>4
      <3>2. a \in [1 .. t - 1 -> Nat]
        BY <1>0, <1>4 DEF DrawnAssumption
      <3>3. QED
        BY <3>1, <3>2
    <2>2. <<d>> \in Seq(Nat)
      OBVIOUS
    <2>3. <<d>> \o a \in Seq(Nat)
      BY <2>1, <2>2
    <2>4. QED
      BY <2>3
  <1> DEFINE s == [i \in 1 .. S |-> Evaluate(as, i, nm)]
             verification == [i \in 1 .. S |-> PowM(v, delta * s[i], N)]
             c == Invert(4 * delta * delta, n)
             k == [n |-> n, nSquared |-> N, nPlusOne |-> n + 1, decryptServers |-> S, threshold |-> t,
                   delta |-> delta, combineSharesConstant |-> c, v |-> v, verificationKeys |-> verification]
             parts == [i \in 1 .. S |-> [id |-> i, s |-> s[i]]]
  <1>14. \A i \in 1 .. S : s[i] \in Nat
    <2>1. \A i \in 1 .. S : i \in Nat
      BY <1>4
    <2>2. QED
      BY <2>1, EvaluateType
  <1>15. c \in Int
    <2>1. 4 * delta * delta \in Nat
      OBVIOUS
    <2>2. PICK y \in Nat : y = 4 * delta * delta
      BY <2>1
    <2>3. Gcd(y, n) = 1
      BY <1>4, <1>5, <1>7, <2>2 DEF CanComplete
    <2>4. Unit(y, n)
      BY <2>3, CoprimeUnit
    <2>5. \E z \in 0 .. n - 1 : z = Invert(y, n)
      BY <2>4, InvertIs
    <2>6. QED
      BY <2>2, <2>5
  <1>16. pub' = k /\ shares' = parts
    <2>1. s = [i \in 1 .. size[1] |-> Evaluate(<<m1 * Invert(m1, n1)>> \o a, i, n1 * m1)]
      BY <1>3, <1>4, <1>9, <1>10, <1>12, <1>13
    <2>2. v = PowM(r, 2, n1 * n1)
      BY <1>3, <1>6, <1>11
    <2> HIDE DEF s
    <2>3. verification = [i \in 1 .. size[1] |-> PowM(v, Factorial[size[1]] * s[i], n1 * n1)]
      BY <1>3, <1>4, <1>5
    <2> HIDE DEF verification
    <2>4. pub' = LoadedKey(SavedKey(Complete(n1, size, v, verification))) /\ shares' = [i \in 1 .. size[1] |-> [id |-> i, s |-> s[i]]]
      BY <2>1, <2>2, <2>3 DEF GenerateKey
    <2> HIDE DEF n1, m1
    <2>5. LoadedKey(SavedKey(Complete(n1, size, v, verification))) = k
      BY <1>3, <1>4, <1>5 DEF LoadedKey, SavedKey, Complete
    <2>6. QED
      BY <1>4, <2>4, <2>5
  <1> HIDE DEF s, verification, c, n1, m1
  <1>17. /\ pub'.n = n /\ pub'.nSquared = N /\ pub'.nPlusOne = n + 1 /\ pub'.decryptServers = S
         /\ pub'.threshold = t /\ pub'.delta = delta /\ pub'.combineSharesConstant = c /\ pub'.v = v
         /\ pub'.verificationKeys = verification
    BY <1>16
  <1>18. pub' # None
    <2>1. None.n = 0
      BY DEF None
    <2>2. QED
      BY <1>17, <2>1
  <1> HIDE DEF k
  <1>19. Numbers(pub', n, N)
    BY <1>3, <1>17 DEF Numbers
  <1>20. SharedKey(pub', n, N)
    BY <1>11, <1>17, <1>19 DEF SharedKey
  <1>21. \A y \in Blinding : Unit(y, n)
    <2>1. ASSUME NEW y \in Blinding PROVE Unit(y, n)
      <3>1. y \in Nat
        BY <1>0 DEF DrawnAssumption
      <3>2. Gcd(y, n) = 1
        BY <1>0, <1>3 DEF BlindingAssumption, n1
      <3>3. QED
        BY <3>1, <3>2, CoprimeUnit
    <2>2. QED
      BY <2>1
  <1>22. shares' \in Seq([id : 1 .. S, s : Nat]) /\ Len(shares') = S
    <2>1. parts \in [1 .. S -> [id : 1 .. S, s : Nat]]
      BY <1>14
    <2> HIDE DEF parts
    <2>2. PICK R : R = [id : 1 .. S, s : Nat]
      OBVIOUS
    <2>3. PICK f \in [1 .. S -> R] : f = parts
      BY <2>1, <2>2
    <2>4. f \in Seq(R) /\ Len(f) = S
      OBVIOUS
    <2>5. QED
      BY <1>16, <2>2, <2>3, <2>4
  <1>23. ASSUME NEW i \in 1 .. S PROVE shares'[i].id = i /\ SharedWith(pub', N, shares'[i])
    <2>1. shares'[i].id = i /\ shares'[i].s = s[i]
      BY <1>16
    <2>2. verification[i] = PowM(v, delta * s[i], N)
      BY DEF verification
    <2>3. QED
      BY <1>14, <1>17, <2>1, <2>2 DEF SharedWith
  <1>24. KeyInv'
    BY <1>3, <1>4, <1>15, <1>17, <1>20, <1>21, <1>22, <1>23 DEF KeyInv
  <1>25. BallotsInv' /\ PartialsInv'
    BY <1>1, FS_EmptySet DEF BallotsInv, PartialsInv
  <1>26. QED
    BY <1>1, <1>18, <1>24, <1>25 DEF PaillierInv

LEMMA VoteInv ==
    ASSUME NEW answer \in {0, 1}, NEW r \in Blinding, NEW rho \in Rho, NEW sim \in Simulated,
           Vote(answer, r, rho, sim), PaillierInv
    PROVE  PaillierInv'
  <1>0. BoundsAssumption /\ DrawnAssumption
    BY AssumptionsHold DEF Assumptions
  <1>1. pub # None /\ KeyInv /\ BallotsInv /\ PartialsInv /\ results \subseteq 0 .. pub.n - 1
    BY DEF Vote, PaillierInv
  <1>2. PICK b : b = EncProof(pub, answer, r, rho, sim[1], sim[2])
    OBVIOUS
  <1>3. /\ b \notin ballots
        /\ voted' = Append(voted, answer)
        /\ ballots' = BallotInserted(ballots, LoadedBallot(SavedBallot(b)))
        /\ UNCHANGED <<pub, shares, partials, results>>
    BY <1>2 DEF Vote
  <1>4. PICK n, N : n = pub.n /\ N = pub.nSquared
    OBVIOUS
  <1>5. Numbers(pub, n, N) /\ n > 1 /\ Unit(r, n)
    BY <1>1, <1>4 DEF KeyInv, SharedKey
  <1>6. r \in Int /\ rho \in Nat /\ sim[1] \in Nat /\ sim[2] \in Nat /\ HashSize \in Nat \ {0}
    BY <1>0 DEF DrawnAssumption, BoundsAssumption
  <1>7. b \in Ballot /\ VerifyEnc(pub, b) /\ b.c \in 0 .. N - 1 /\ Unit(b.c, N)
    BY <1>2, <1>5, <1>6, EncProofVerifies
  <1>8. b.c \in 1 .. N - 1
    <2>1. N \in Nat /\ N > 1
      <3>1. n \in Nat /\ N = n * n
        BY <1>5 DEF Numbers
      <3>2. n * n \in Nat /\ n * n > 1
        BY <1>5, <3>1
      <3>3. QED
        BY <3>1, <3>2
    <2>2. PICK c \in 0 .. N - 1 : c = b.c /\ Unit(c, N)
      BY <1>7
    <2>3. c \in 1 .. N - 1
      BY <2>1, <2>2, UnitNonzero
    <2>4. QED
      BY <2>2, <2>3
  <1>9. ballots' = ballots \cup {b}
    <2>1. ASSUME NEW x \in ballots, ~BallotLess(x, b), ~BallotLess(b, x) PROVE FALSE
      <3>1. x \in Ballot
        BY <1>1 DEF BallotsInv
      <3>2. x = b
        BY <1>6, <1>7, <2>1, <3>1, BallotsApart
      <3>3. QED
        BY <1>3, <3>2
    <2>2. LoadedBallot(SavedBallot(b)) = b
      BY <1>7, BallotTravels
    <2>3. QED
      BY <1>3, <2>1, <2>2 DEF BallotInserted
  <1>10. BallotsInv'
    <2>1. voted' \in Seq({0, 1}) /\ Len(voted') = Len(voted) + 1
      BY <1>1, <1>3 DEF BallotsInv
    <2>2. IsFiniteSet(ballots') /\ Cardinality(ballots') = Cardinality(ballots) + 1
      <3>1. IsFiniteSet(ballots) /\ b \notin ballots
        BY <1>1, <1>3 DEF BallotsInv
      <3>2. /\ IsFiniteSet(ballots \cup {b})
            /\ Cardinality(ballots \cup {b}) = Cardinality(ballots) + 1
        BY <3>1, FS_AddElement
      <3>3. QED
        BY <1>9, <3>2
    <2>3. ASSUME NEW x \in ballots'
          PROVE  x \in Ballot /\ VerifyEnc(pub, x) /\ x.c \in 1 .. N - 1 /\ Unit(x.c, N)
      BY <1>1, <1>4, <1>7, <1>8, <1>9 DEF BallotsInv
    <2>4. QED
      BY <1>1, <1>3, <1>4, <2>1, <2>2, <2>3 DEF BallotsInv
  <1>11. KeyInv' /\ PartialsInv'
    BY <1>1, <1>3 DEF KeyInv, PartialsInv
  <1>12. QED
    BY <1>1, <1>3, <1>10, <1>11 DEF PaillierInv

LEMMA TrusteeTallyInv ==
    ASSUME NEW i \in 1 .. Len(shares), NEW r \in Rho, TrusteeTally(i, r), PaillierInv
    PROVE  PaillierInv'
  <1>0. BoundsAssumption /\ DrawnAssumption
    BY AssumptionsHold DEF Assumptions
  <1>1. ballots # {} /\ (\A x \in partials : x.id # i) /\ UNCHANGED <<pub, shares, voted, ballots, results>>
    BY DEF TrusteeTally
  <1>2. pub # None /\ KeyInv /\ BallotsInv /\ PartialsInv /\ results \subseteq 0 .. pub.n - 1
    BY <1>1 DEF PaillierInv
  <1>3. PICK n, N : n = pub.n /\ N = pub.nSquared
    OBVIOUS
  <1>4. SharedKey(pub, n, N) /\ N \in Nat \ {0}
    BY <1>2, <1>3 DEF KeyInv, SharedKey, Numbers
  <1>5. SharedWith(pub, N, shares[i]) /\ shares[i].id = i /\ i \in Int
    BY <1>2, <1>3 DEF KeyInv
  <1>6. PICK c \in Int : c = Sum /\ Unit(c, N)
    <2>1. IsFiniteSet(ballots) /\ \A b \in ballots : b.c \in Int /\ Unit(b.c, N)
      BY <1>2, <1>3 DEF BallotsInv
    <2>2. Sum \in Int /\ Unit(Sum, N)
      BY <1>3, <1>4, <2>1, SumUnit
    <2>3. QED
      BY <2>2
  <1>7. PICK d : d = DecProof(pub, shares[i], c, r)
    OBVIOUS
  <1>8. d \in Partial /\ VerifyDecryption(pub, d) /\ d.id = i /\ Unit(d.decryption, N)
    <2>1. r \in Nat /\ HashSize \in Nat \ {0} /\ shares[i].id \in Int
      BY <1>0, <1>5 DEF DrawnAssumption, BoundsAssumption
    <2>2. d \in Partial /\ VerifyDecryption(pub, d) /\ d.id = shares[i].id /\ Unit(d.decryption, N)
      BY <1>4, <1>5, <1>6, <1>7, <2>1, DecProofVerifies
    <2>3. QED
      BY <1>5, <2>2
  <1>9. partials' = PartialInserted(partials, d)
    BY <1>6, <1>7, <1>8, PartialTravels DEF TrusteeTally
  <1>10. partials' = partials \/ partials' = partials \cup {d}
    BY <1>9 DEF PartialInserted
  <1>11. PartialsInv'
    <2>1. IsFiniteSet(partials')
      BY <1>2, <1>10, FS_AddElement DEF PartialsInv
    <2>2. \A x \in partials' : x \in Partial /\ VerifyDecryption(pub, x) /\ Unit(x.decryption, N)
      BY <1>2, <1>3, <1>8, <1>10 DEF PartialsInv
    <2>3. \A x, y \in partials' : x.id = y.id => x = y
      BY <1>1, <1>2, <1>8, <1>10 DEF PartialsInv
    <2>4. QED
      BY <1>1, <1>3, <2>1, <2>2, <2>3 DEF PartialsInv
  <1>12. KeyInv' /\ BallotsInv'
    BY <1>1, <1>2 DEF KeyInv, BallotsInv
  <1>13. QED
    BY <1>1, <1>2, <1>11, <1>12 DEF PaillierInv

LEMMA TallyInv ==
    ASSUME NEW ds \in [1 .. Cardinality(Right) -> Right], Tally(ds), PaillierInv
    PROVE  PaillierInv'
  <1>1. /\ partials # {} /\ Len(ds) >= pub.threshold
        /\ \A i, j \in DOMAIN ds : i < j => PartialLess(ds[i], ds[j])
        /\ results' = results \cup {Combining(pub, ds)}
        /\ UNCHANGED <<pub, shares, voted, ballots, partials>>
    BY DEF Tally
  <1>2. pub # None /\ KeyInv /\ BallotsInv /\ PartialsInv /\ results \subseteq 0 .. pub.n - 1
    BY <1>1 DEF PaillierInv
  <1>3. PICK n, N : n = pub.n /\ N = pub.nSquared
    OBVIOUS
  <1>4. PICK l \in Nat : l = Cardinality(Right)
    <2>1. IsFiniteSet(Right)
      BY <1>2, FS_Subset DEF Right, PartialsInv
    <2>2. QED
      BY <2>1, FS_CardinalityType
  <1>5. PICK t \in Nat : t = pub.threshold /\ t <= l
    <2>1. Len(ds) = l
      BY <1>4
    <2>2. QED
      BY <1>1, <1>2, <2>1 DEF KeyInv
  <1>6. ASSUME NEW i \in 1 .. t PROVE i \in DOMAIN ds /\ i \in Nat /\ ds[i] \in partials
    <2>1. ds \in [1 .. l -> Right] /\ Right \subseteq partials
      BY <1>4 DEF Right
    <2>2. i \in 1 .. l /\ i \in Nat
      BY <1>5
    <2>3. DOMAIN ds = 1 .. l
      BY <2>1
    <2>4. ds[i] \in Right
      BY <2>1, <2>2
    <2>5. QED
      BY <2>1, <2>2, <2>3, <2>4
  <1>7. ASSUME NEW i \in 1 .. t, NEW j \in 1 .. t, i < j PROVE ds[i].id # ds[j].id
    <2>1. ds[i] \in partials /\ ds[j] \in partials /\ PartialLess(ds[i], ds[j])
      BY <1>1, <1>6, <1>7
    <2>2. ds[i] # ds[j]
      BY <1>2, <2>1, PartialNotLess DEF PartialsInv
    <2>3. QED
      BY <1>2, <2>1, <2>2 DEF PartialsInv
  <1>8. Combinable(pub, n, N, ds)
    <2>1. n \in Nat \ {0} /\ N \in Nat \ {0} /\ pub.delta \in Int /\ pub.combineSharesConstant \in Int
      BY <1>2, <1>3 DEF KeyInv, SharedKey, Numbers
    <2>2. ASSUME NEW i \in 1 .. t
          PROVE  ds[i].id \in Int /\ ds[i].decryption \in Int /\ Unit(ds[i].decryption, N)
      BY <1>2, <1>3, <1>6 DEF PartialsInv, Partial
    <2>3. ASSUME NEW i \in 1 .. t, NEW j \in 1 .. t, j # i PROVE ds[j].id # ds[i].id
      <3>1. i < j \/ j < i
        BY <2>3
      <3>2. QED
        BY <1>7, <3>1
    <2>4. QED
      BY <1>3, <1>5, <2>1, <2>2, <2>3 DEF Combinable
  <1>9. Combining(pub, ds) \in 0 .. n - 1
    BY <1>8, CombiningType
  <1>10. results' \subseteq 0 .. pub'.n - 1
    BY <1>1, <1>2, <1>3, <1>9
  <1>11. KeyInv' /\ BallotsInv' /\ PartialsInv'
    BY <1>1, <1>2 DEF KeyInv, BallotsInv, PartialsInv
  <1>12. QED
    BY <1>1, <1>2, <1>10, <1>11 DEF PaillierInv

LEMMA StepInv ==
    ASSUME PaillierInv, [Next]_vars
    PROVE  PaillierInv'
  <1>1. CASE UNCHANGED vars
    BY <1>1 DEF vars, PaillierInv, KeyInv, BallotsInv, PartialsInv
  <1>2. CASE Next
    <2>1. ASSUME NEW pq \in PrimePairs, NEW size \in Sizes, NEW r \in Blinding,
                 NEW a \in [1 .. size[2] - 1 -> Coefficients], GenerateKey(pq, size, a, r)
          PROVE  PaillierInv'
      BY <2>1, GenerateKeyInv
    <2>2. ASSUME NEW answer \in {0, 1}, NEW r \in Blinding, NEW rho \in Rho, NEW sim \in Simulated,
                 Vote(answer, r, rho, sim)
          PROVE  PaillierInv'
      BY <2>2, VoteInv
    <2>3. ASSUME NEW i \in 1 .. Len(shares), NEW r \in Rho, TrusteeTally(i, r) PROVE PaillierInv'
      BY <2>3, TrusteeTallyInv
    <2>4. ASSUME NEW ds \in [1 .. Cardinality(Right) -> Right], Tally(ds) PROVE PaillierInv'
      BY <2>4, TallyInv
    <2>5. QED
      BY <1>2, <2>1, <2>2, <2>3, <2>4 DEF Next
  <1>3. QED
    BY <1>1, <1>2

-----------------------------------------------------------------------------
(* The theorems *)

LEMMA PaillierAlways == Spec => []PaillierInv
  <1>1. Init => PaillierInv
    BY InitInv
  <1>2. PaillierInv /\ [Next]_vars => PaillierInv'
    BY StepInv
  <1>3. QED
    BY <1>1, <1>2, PTL DEF Spec

\* The results are numbers below n, ballots and hashes in their ranges
\* (paillier.cpp:751-809).
THEOREM PaillierTypes == Spec => []TypeOK
  <1>1. PaillierInv => TypeOK
    <2>1. ASSUME PaillierInv, pub = None PROVE TypeOK
      BY <2>1 DEF PaillierInv, TypeOK
    <2>2. ASSUME PaillierInv, pub # None PROVE TypeOK
      <3>1. KeyInv /\ BallotsInv /\ results \subseteq 0 .. pub.n - 1
        BY <2>2 DEF PaillierInv
      <3>2. \A b \in ballots : b.c \in 1 .. pub.nSquared - 1 /\ b.e < HashSize
        <4>1. HashSize \in Nat
          BY AssumptionsHold DEF Assumptions, BoundsAssumption
        <4>2. QED
          BY <3>1, <4>1 DEF BallotsInv, Ballot
      <3>3. QED
        BY <3>1, <3>2 DEF KeyInv, BallotsInv, TypeOK
    <2>3. QED
      BY <2>1, <2>2
  <1>2. QED
    BY <1>1, PaillierAlways, PTL

\* Every proof that a client makes of its vote, and every one that a trustee
\* makes of its part, is accepted by every other client: for keys of any size,
\* whatever is drawn and whatever the hash is (paillier.cpp:376-510, 530-604,
\* 654-745).
THEOREM HonestProofsAlwaysAccepted == Spec => []HonestProofsAccepted
  <1>1. PaillierInv => HonestProofsAccepted
    BY DEF PaillierInv, BallotsInv, PartialsInv, HonestProofsAccepted
  <1>2. QED
    BY <1>1, PaillierAlways, PTL

\* The set of ballots keeps every ballot that was cast (comparison.cpp:43-66).
THEOREM NoBallotDropped == Spec => []NoneDropped
  <1>1. PaillierInv => NoneDropped
    BY FS_EmptySet DEF PaillierInv, BallotsInv, NoneDropped
  <1>2. QED
    BY <1>1, PaillierAlways, PTL

=============================================================================
