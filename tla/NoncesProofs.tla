------------------------------ MODULE NoncesProofs ------------------------------
(***************************************************************************)
(* What consumeNextNonces does with any number of nonces and any number of *)
(* them taken at once: which searches end, and which nonces they try.      *)
(***************************************************************************)
EXTENDS Nonces, FiniteSetTheorems, NaturalsInduction, WellFoundedInduction, TLAPS

-----------------------------------------------------------------------------
(* Numbers *)

\* A set of numbers has a least one: this stands in for induction.
LEMMA LeastNumber ==
    ASSUME NEW S \in SUBSET Nat, S # {}
    PROVE  \E n \in S : \A k \in S : n <= k
  <1> DEFINE R == OpToRel(<, Nat)
  <1>1. IsWellFoundedOn(R, Nat)
    BY NatLessThanWellFounded
  <1>2. \E x \in S : \A y \in S : ~(<<y, x>> \in R)
    <2> HIDE DEF R
    <2> QED
      BY <1>1, WFMin
  <1>3. \A x, y \in Nat : x < y => <<x, y>> \in R
    BY DEF OpToRel
  <1>4. PICK n \in S : \A y \in S : ~(<<y, n>> \in R)
    BY <1>2
  <1>5. ASSUME NEW k \in S PROVE n <= k
    <2>1. ~(k < n)
      BY <1>3, <1>4
    <2>2. QED
      BY <2>1
  <1>6. QED
    BY <1>5

\* Quotient and remainder, and that there is only one of each
LEMMA Division ==
    ASSUME NEW n \in Nat \ {0}, NEW x \in Int
    PROVE  /\ x \div n \in Int /\ x % n \in 0 .. n - 1
           /\ x = n * (x \div n) + (x % n)
  OBVIOUS

LEMMA Quotient ==
    ASSUME NEW n \in Nat \ {0}, NEW x \in Nat
    PROVE  \E p \in Nat, r \in 0 .. n - 1 : x = p * n + r /\ r = x % n
  <1>1. x \div n \in Nat /\ x % n \in 0 .. n - 1 /\ x = (x \div n) * n + (x % n)
    OBVIOUS
  <1>2. QED
    BY <1>1

LEMMA DivisionUnique ==
    ASSUME NEW n \in Nat \ {0}, NEW q \in Int, NEW r \in 0 .. n - 1, NEW x, x = n * q + r
    PROVE  x % n = r /\ x \div n = q
  OBVIOUS

LEMMA Distributes ==
    ASSUME NEW i \in Int, NEW j \in Int, NEW n \in Int
    PROVE  /\ (i + j) * n = i * n + j * n /\ (i - j) * n = i * n - j * n
           /\ n * (i + j) = n * i + n * j /\ n * (i - j) = n * i - n * j
           /\ i * n = n * i /\ (i * j) * n = i * (j * n)
  OBVIOUS

\* Multiples of a positive number are in the order of their factors.
LEMMA Multiples ==
    ASSUME NEW n \in Nat \ {0}, NEW i \in Int, NEW j \in Int, i < j
    PROVE  i * n + n <= j * n
  OBVIOUS

\* A row of numbers, d apart
Row(a, d, p) == a + p * d

LEMMA RowType ==
    ASSUME NEW a \in Int, NEW d \in Nat \ {0}, NEW p \in Nat
    PROVE  Row(a, d, p) \in Int /\ Row(a, d, p) >= a
  <1>1. p * d \in Nat
    OBVIOUS
  <1>2. QED
    BY <1>1 DEF Row

LEMMA RowOrder ==
    ASSUME NEW a \in Int, NEW d \in Nat \ {0}, NEW p \in Nat, NEW q \in Nat
    PROVE  p < q => Row(a, d, p) + d <= Row(a, d, q)
  <1>1. PICK x \in Int, y \in Int : x = p * d /\ y = q * d
    OBVIOUS
  <1>2. p < q => x + d <= y
    BY <1>1, Multiples
  <1>3. Row(a, d, p) = a + x /\ Row(a, d, q) = a + y
    BY <1>1 DEF Row
  <1>4. QED
    BY <1>2, <1>3

LEMMA RowAt ==
    ASSUME NEW a \in Int, NEW d \in Nat \ {0}, NEW x \in Int, a <= x
    PROVE  \E p \in Nat : Row(a, d, p) <= x /\ x < Row(a, d, p) + d
  <1>1. PICK y \in Nat : y = x - a
    OBVIOUS
  <1>2. PICK p \in Nat, r \in 0 .. d - 1 : y = p * d + r
    BY Quotient
  <1>3. PICK z \in Nat : z = p * d
    OBVIOUS
  <1>4. Row(a, d, p) = a + z /\ y = z + r
    BY <1>2, <1>3 DEF Row
  <1>5. Row(a, d, p) <= x /\ x < Row(a, d, p) + d
    BY <1>1, <1>4
  <1>6. QED
    BY <1>5

LEMMA RowOne ==
    ASSUME NEW a \in Int, NEW d \in Nat \ {0}, NEW p \in Nat, NEW q \in Nat, NEW x \in Int,
           Row(a, d, p) <= x, x < Row(a, d, p) + d, Row(a, d, q) <= x, x < Row(a, d, q) + d
    PROVE  p = q
  <1>1. Row(a, d, p) \in Int /\ Row(a, d, q) \in Int
    BY RowType
  <1>2. p < q => Row(a, d, p) + d <= Row(a, d, q)
    BY RowOrder
  <1>3. q < p => Row(a, d, q) + d <= Row(a, d, p)
    BY RowOrder
  <1>4. QED
    BY <1>1, <1>2, <1>3

-----------------------------------------------------------------------------
(* The counter *)

\* UpperBound for n nonces, of which step are taken at once
Following(n, step, start, current) ==
    IF start >= current /\ start < (current + step) % n THEN start ELSE (current + step) % n

\* The values of currentNonce
Course(n, step, start, f) ==
    /\ f \in [1 .. n + 1 -> 0 .. n - 1]
    /\ f[1] = (start + 1) % n
    /\ \A i \in 1 .. n : f[i + 1] = Following(n, step, start, f[i])

LEMMA FollowingType ==
    ASSUME NEW n \in Nat \ {0}, NEW step \in Nat, NEW start \in 0 .. n - 1, NEW c \in 0 .. n - 1
    PROVE  Following(n, step, start, c) \in 0 .. n - 1
  BY DEF Following

\* m values of it
HasCourse(n, step, start, m) ==
    \E f \in [1 .. m -> 0 .. n - 1] :
        /\ f[1] = (start + 1) % n
        /\ \A i \in 1 .. m - 1 : f[i + 1] = Following(n, step, start, f[i])

\* The equation that Counter solves
Recurs(n, step, start, c) ==
    c = [i \in 1 .. n + 1 |-> IF i = 1 THEN (start + 1) % n ELSE Following(n, step, start, c[i - 1])]

LEMMA CourseType ==
    ASSUME NEW n \in Nat \ {0}, NEW step, NEW start, NEW f, Course(n, step, start, f), NEW i \in 1 .. n
    PROVE  \E a \in Nat, z \in Nat : a = f[i] /\ z = f[i + 1]
  <1>1. i \in 1 .. n + 1 /\ i + 1 \in 1 .. n + 1
    OBVIOUS
  <1>2. f[i] \in 0 .. n - 1 /\ f[i + 1] \in 0 .. n - 1
    BY <1>1 DEF Course
  <1>3. f[i] \in Nat /\ f[i + 1] \in Nat
    BY <1>2
  <1>4. QED
    BY <1>3

\* There are such values, for any number of intervals.
LEMMA CourseExists ==
    ASSUME NEW n \in Nat \ {0}, NEW step \in Nat, NEW start \in 0 .. n - 1, NEW m \in Nat \ {0}
    PROVE  HasCourse(n, step, start, m)
  <1> DEFINE Has(k) == HasCourse(n, step, start, k)
             S == {k \in Nat \ {0} : ~Has(k)}
  <1>1. SUFFICES ASSUME m \in S PROVE FALSE
    OBVIOUS
  <1>2. PICK k \in S : \A j \in S : k <= j
    <2> HIDE DEF Has
    <2> QED BY <1>1, LeastNumber
  <1>3. Has(1)
    <2>1. (start + 1) % n \in 0 .. n - 1
      OBVIOUS
    <2> DEFINE g == [i \in 1 .. 1 |-> (start + 1) % n]
    <2>2. g \in [1 .. 1 -> 0 .. n - 1] /\ g[1] = (start + 1) % n
      BY <2>1
    <2>3. \A i \in 1 .. 1 - 1 : g[i + 1] = Following(n, step, start, g[i])
      OBVIOUS
    <2> HIDE DEF g
    <2>4. QED
      BY <2>2, <2>3 DEF HasCourse
  <1>4. k # 1 /\ k \in Nat \ {0}
    <2> HIDE DEF Has
    <2> QED BY <1>2, <1>3
  <1>5. Has(k - 1)
    <2>1. k - 1 \in Nat \ {0} /\ ~(k <= k - 1)
      BY <1>4
    <2> HIDE DEF Has
    <2>2. QED
      BY <1>2, <2>1
  <1>6. PICK f \in [1 .. k - 1 -> 0 .. n - 1] :
           /\ f[1] = (start + 1) % n
           /\ \A i \in 1 .. (k - 1) - 1 : f[i + 1] = Following(n, step, start, f[i])
    BY <1>5 DEF HasCourse
  <1> DEFINE g == [i \in 1 .. k |-> IF i = k THEN Following(n, step, start, f[k - 1]) ELSE f[i]]
  <1>7. g \in [1 .. k -> 0 .. n - 1]
    <2>1. f[k - 1] \in 0 .. n - 1
      BY <1>4
    <2>2. Following(n, step, start, f[k - 1]) \in 0 .. n - 1
      BY <2>1, FollowingType
    <2>3. \A i \in 1 .. k : i # k => f[i] \in 0 .. n - 1
      BY <1>4
    <2>4. QED
      BY <2>2, <2>3
  <1>8. g[1] = (start + 1) % n
    BY <1>4, <1>6
  <1>9. \A i \in 1 .. k - 1 : g[i + 1] = Following(n, step, start, g[i])
    <2> SUFFICES ASSUME NEW i \in 1 .. k - 1 PROVE g[i + 1] = Following(n, step, start, g[i])
      OBVIOUS
    <2>1. g[i] = f[i]
      BY <1>4
    <2>2. CASE i = k - 1
      BY <1>4, <2>1, <2>2
    <2>3. CASE i # k - 1
      <3>1. g[i + 1] = f[i + 1] /\ i \in 1 .. (k - 1) - 1
        BY <1>4, <2>3
      <3>2. QED
        BY <1>6, <2>1, <3>1
    <2>4. QED
      BY <2>2, <2>3
  <1>10. Has(k)
    <2> HIDE DEF g
    <2> QED BY <1>7, <1>8, <1>9 DEF HasCourse
  <1>11. QED
    <2> HIDE DEF Has
    <2> QED BY <1>2, <1>10

\* Counter is the solution of its recursive equation.
LEMMA CounterSolves ==
    ASSUME NEW size, NEW n \in Nat \ {0}, NEW step \in Nat, NEW start \in 0 .. n - 1,
           n = size[1], step = size[2]
    PROVE  Recurs(n, step, start, Counter(size, start))
  <1> DEFINE Solves(f) == f = [i \in 1 .. size[1] + 1 |->
                 IF i = 1 THEN (start + 1) % size[1] ELSE UpperBound(size, start, f[i - 1])]
  <1>1. PICK f \in [1 .. n + 1 -> 0 .. n - 1] :
           /\ f[1] = (start + 1) % n
           /\ \A i \in 1 .. (n + 1) - 1 : f[i + 1] = Following(n, step, start, f[i])
    <2>1. PICK k \in Nat \ {0} : k = n + 1
      OBVIOUS
    <2>2. HasCourse(n, step, start, k)
      BY CourseExists
    <2>3. QED
      BY <2>1, <2>2 DEF HasCourse
  <1>2. \A c : UpperBound(size, start, c) = Following(n, step, start, c)
    BY DEF UpperBound, Following
  <1>3. Solves(f)
    <2>1. ASSUME NEW i \in 1 .. n + 1, i # 1
          PROVE  f[i] = UpperBound(size, start, f[i - 1])
      <3>1. i - 1 \in 1 .. (n + 1) - 1 /\ (i - 1) + 1 = i
        BY <2>1
      <3>2. QED
        BY <1>1, <1>2, <3>1
    <2>2. QED
      BY <1>1, <2>1
  <1>4. Counter(size, start) = CHOOSE g : Solves(g)
    BY DEF Counter
  <1>5. Solves(Counter(size, start))
    <2> HIDE DEF Solves
    <2> QED BY <1>3, <1>4
  <1>6. QED
    BY <1>2, <1>5 DEF Recurs

LEMMA CounterCourse ==
    ASSUME NEW size, NEW n \in Nat \ {0}, NEW step \in Nat, NEW start \in 0 .. n - 1,
           n = size[1], step = size[2]
    PROVE  Course(n, step, start, Counter(size, start))
  <1>1. PICK c : /\ c = Counter(size, start)
                 /\ c = [i \in 1 .. n + 1 |-> IF i = 1 THEN (start + 1) % n
                                              ELSE Following(n, step, start, c[i - 1])]
    <2>1. Recurs(n, step, start, Counter(size, start))
      BY CounterSolves
    <2>2. QED
      BY <2>1 DEF Recurs
  <1>2. \A i \in 1 .. n : c[i + 1] = Following(n, step, start, c[i])
    <2> SUFFICES ASSUME NEW i \in 1 .. n PROVE c[i + 1] = Following(n, step, start, c[i])
      OBVIOUS
    <2>1. i + 1 \in 1 .. n + 1 /\ i + 1 # 1 /\ (i + 1) - 1 = i
      OBVIOUS
    <2>2. QED
      BY <1>1, <2>1
  <1>3. c[1] = (start + 1) % n
    BY <1>1
  <1> DEFINE S == {i \in Nat : i \in 1 .. n + 1 /\ c[i] \notin 0 .. n - 1}
  <1>4. S = {}
    <2>1. SUFFICES ASSUME S # {} PROVE FALSE
      OBVIOUS
    <2>2. PICK i \in S : \A k \in S : i <= k
      <3>1. S \in SUBSET Nat
        OBVIOUS
      <3> HIDE DEF S
      <3>2. QED
        BY <2>1, <3>1, LeastNumber
    <2>3. i # 1
      BY <1>3, <2>2
    <2>4. i - 1 \in 1 .. n /\ i - 1 \notin S /\ (i - 1) + 1 = i
      BY <2>2, <2>3
    <2>5. PICK d \in 0 .. n - 1 : d = c[i - 1]
      BY <2>4
    <2>6. c[i] = Following(n, step, start, d)
      BY <1>2, <2>4, <2>5
    <2>7. c[i] \in 0 .. n - 1
      BY <2>6 DEF Following
    <2>8. QED
      BY <2>2, <2>7
  <1>5. \A i \in 1 .. n + 1 : c[i] \in 0 .. n - 1
    BY <1>4
  <1>6. c \in [1 .. n + 1 -> 0 .. n - 1]
    BY <1>1, <1>5
  <1>7. QED
    BY <1>1, <1>2, <1>3, <1>6 DEF Course

\* C[0] to C[h] follow one another, and they are the values of f from b on.
Leads(n, step, start, h, C) == \A j \in 0 .. h - 1 : C[j + 1] = Following(n, step, start, C[j])
Agree(f, b, h, C) == \A j \in 0 .. h : f[b + j] = C[j]

LEMMA Stretch ==
    ASSUME NEW n \in Nat \ {0}, NEW step \in Nat, NEW start \in 0 .. n - 1, NEW f,
           Course(n, step, start, f),
           NEW b \in 1 .. n + 1, NEW h \in Nat, b + h <= n + 1, NEW C, f[b] = C[0],
           Leads(n, step, start, h, C)
    PROVE  Agree(f, b, h, C)
  <1> DEFINE S == {j \in Nat : j <= h /\ f[b + j] # C[j]}
  <1>1. SUFFICES ASSUME S # {} PROVE FALSE
    BY DEF Agree
  <1>2. PICK j \in S : \A k \in S : j <= k
    <2>1. S \in SUBSET Nat
      OBVIOUS
    <2> HIDE DEF S
    <2>2. QED
      BY <1>1, <2>1, LeastNumber
  <1>3. j # 0
    BY <1>2
  <1>4. PICK i \in 0 .. h - 1 : j = i + 1
    <2>1. j - 1 \in 0 .. h - 1 /\ j = (j - 1) + 1
      BY <1>2, <1>3
    <2>2. QED
      BY <2>1
  <1>5. f[b + i] = C[i]
    <2>1. i \notin S /\ i \in Nat /\ i <= h
      BY <1>2, <1>4
    <2>2. QED
      BY <2>1
  <1>6. PICK e \in 1 .. n : e = b + i
    BY <1>4
  <1>7. f[e + 1] = Following(n, step, start, f[e])
    BY DEF Course
  <1>8. e + 1 = b + j
    BY <1>4, <1>6
  <1>9. f[b + j] = C[j]
    BY <1>4, <1>5, <1>6, <1>7, <1>8 DEF Leads
  <1>10. QED
    BY <1>2, <1>9

\* Above the start an interval is whole or reaches the wrap, below it the
\* interval in which the start is ends there.
LEMMA FollowingCases ==
    ASSUME NEW n \in Nat \ {0}, NEW step \in 1 .. n - 1, NEW start \in 0 .. n - step - 1,
           NEW c \in 0 .. n - 1
    PROVE  /\ c > start /\ c + step < n => Following(n, step, start, c) = c + step
           /\ c > start /\ c + step >= n => Following(n, step, start, c) = c + step - n
           /\ c <= start /\ c + step <= start => Following(n, step, start, c) = c + step
           /\ c <= start /\ c + step > start => Following(n, step, start, c) = start
  <1>1. c + step < n => (c + step) % n = c + step
    OBVIOUS
  <1>2. c + step >= n => (c + step) % n = c + step - n
    OBVIOUS
  <1>3. QED
    BY <1>1, <1>2 DEF Following

-----------------------------------------------------------------------------
(* A search that does not begin within an interval of the wrap: k intervals *)
(* up to it, of which the last has w nonces, then q whole ones from r on,   *)
(* and one that ends at the start                                           *)

FirstRound(n, step, start, f, k, w) ==
    /\ \A i \in 1 .. k : f[i] = Row(start + 1, step, i - 1) /\ f[i] > start
    /\ \A i \in 1 .. k - 1 : f[i + 1] = f[i] + step
    /\ f[k] = n - w /\ f[k + 1] = step - w

SecondRound(n, step, start, f, b, r, q) ==
    /\ \A j \in 0 .. q : f[b + j] = Row(r, step, j) /\ f[b + j] <= start
    /\ \A j \in 0 .. q - 1 : f[b + j + 1] = Row(r, step, j) + step
    /\ \A i \in b + q + 1 .. n + 1 : f[i] = start

LEMMA FirstRoundIs ==
    ASSUME NEW n \in Nat \ {0}, NEW step \in 1 .. n - 1, NEW start \in step .. n - step - 1, NEW f,
           Course(n, step, start, f),
           NEW k \in 1 .. n, NEW w \in 1 .. step, n - w = start + 1 + (k - 1) * step
    PROVE  FirstRound(n, step, start, f, k, w)
  <1> DEFINE C == [j \in 0 .. k - 1 |-> start + 1 + j * step]
  <1>1. f[1] = C[0]
    <2>1. (start + 1) % n = start + 1
      OBVIOUS
    <2>2. C[0] = start + 1
      OBVIOUS
    <2>3. QED
      BY <2>1, <2>2 DEF Course
  <1>2. \A j \in 0 .. k - 1 : j * step \in Nat /\ (j < k - 1 => j * step + step <= (k - 1) * step)
    BY Multiples
  <1>3. \A j \in 0 .. (k - 1) - 1 : (j + 1) * step = j * step + step
    OBVIOUS
  <1>4. ASSUME NEW j \in 0 .. (k - 1) - 1 PROVE C[j + 1] = Following(n, step, start, C[j])
    <2>1. PICK p \in Nat : p = j * step /\ p + step <= (k - 1) * step
      BY <1>2
    <2>2. C[j] = start + 1 + p /\ C[j + 1] = start + 1 + p + step
      BY <1>3, <2>1
    <2>3. start + 1 + p + step <= n - w
      BY <2>1
    <2>4. PICK c \in 0 .. n - 1 : c = start + 1 + p /\ c > start /\ c + step < n
      BY <2>3
    <2> HIDE DEF C
    <2>5. QED
      BY <2>2, <2>4, FollowingCases
  <1>5. \A j \in 0 .. k - 1 : f[1 + j] = C[j]
    <2>1. PICK h \in Nat, b \in 1 .. n + 1 : h = k - 1 /\ b = 1 /\ b + h <= n + 1
      OBVIOUS
    <2> HIDE DEF C
    <2>2. Leads(n, step, start, h, C)
      BY <1>4, <2>1 DEF Leads
    <2>3. f[b] = C[0]
      BY <1>1, <2>1
    <2>4. b + h <= n + 1
      BY <2>1
    <2>5. step \in Nat /\ start \in 0 .. n - 1
      OBVIOUS
    <2>6. Agree(f, b, h, C)
      BY <2>2, <2>3, <2>4, <2>5, Stretch
    <2>7. QED
      BY <2>1, <2>6 DEF Agree
  <1>6. \A i \in 1 .. k : f[i] = start + 1 + (i - 1) * step /\ f[i] > start
    <2> SUFFICES ASSUME NEW i \in 1 .. k PROVE f[i] = start + 1 + (i - 1) * step /\ f[i] > start
      OBVIOUS
    <2>1. PICK j \in 0 .. k - 1 : j = i - 1 /\ 1 + j = i
      OBVIOUS
    <2>2. QED
      BY <1>2, <1>5, <2>1
  <1>7. \A i \in 1 .. k - 1 : f[i + 1] = f[i] + step
    <2> SUFFICES ASSUME NEW i \in 1 .. k - 1 PROVE f[i + 1] = f[i] + step
      OBVIOUS
    <2>1. f[i] = start + 1 + (i - 1) * step
      BY <1>6
    <2>2. i + 1 \in 1 .. k /\ (i + 1) - 1 = i
      OBVIOUS
    <2>3. f[i + 1] = start + 1 + i * step
      BY <1>6, <2>2
    <2>4. i * step = (i - 1) * step + step
      OBVIOUS
    <2>5. QED
      BY <2>1, <2>3, <2>4
  <1>8. f[k] = n - w
    BY <1>6
  <1>9. f[k + 1] = step - w
    <2>1. PICK c \in 0 .. n - 1 : c = n - w /\ c > start /\ c + step >= n
      OBVIOUS
    <2>2. f[k + 1] = Following(n, step, start, f[k])
      BY DEF Course
    <2>3. QED
      BY <1>8, <2>1, <2>2, FollowingCases
  <1>10. QED
    BY <1>6, <1>7, <1>8, <1>9 DEF FirstRound, Row

LEMMA SecondRoundIs ==
    ASSUME NEW n \in Nat \ {0}, NEW step \in 1 .. n - 1, NEW start \in 0 .. n - step - 1, NEW f,
           Course(n, step, start, f),
           NEW b \in 1 .. n, NEW r \in 0 .. start, f[b] = r,
           NEW q \in Nat, b + q <= n, r + q * step <= start, start < r + q * step + step
    PROVE  SecondRound(n, step, start, f, b, r, q)
  <1> DEFINE C == [j \in 0 .. q |-> r + j * step]
  <1>1. f[b] = C[0]
    OBVIOUS
  <1>2. \A j \in 0 .. q : j * step \in Nat /\ (j < q => j * step + step <= q * step)
    BY Multiples
  <1>3. \A j \in 0 .. q - 1 : (j + 1) * step = j * step + step
    OBVIOUS
  <1>4. ASSUME NEW j \in 0 .. q - 1 PROVE C[j + 1] = Following(n, step, start, C[j])
    <2>1. PICK p \in Nat : p = j * step /\ p + step <= q * step
      BY <1>2
    <2>2. C[j] = r + p /\ C[j + 1] = r + p + step
      BY <1>3, <2>1
    <2>3. r + p + step <= start
      BY <2>1
    <2>4. PICK c \in 0 .. n - 1 : c = r + p /\ c <= start /\ c + step <= start
      BY <2>3
    <2> HIDE DEF C
    <2>5. QED
      BY <2>2, <2>4, FollowingCases
  <1>5. \A j \in 0 .. q : f[b + j] = C[j]
    <2>1. b + q <= n + 1 /\ b \in 1 .. n + 1
      OBVIOUS
    <2> HIDE DEF C
    <2>2. Leads(n, step, start, q, C)
      BY <1>4 DEF Leads
    <2>3. Agree(f, b, q, C)
      BY <1>1, <2>1, <2>2, Stretch
    <2>4. QED
      BY <2>3 DEF Agree
  <1>6. \A j \in 0 .. q : f[b + j] = r + j * step /\ f[b + j] <= start
    BY <1>2, <1>5
  <1>7. \A j \in 0 .. q - 1 : f[b + j + 1] = r + j * step + step
    <2> SUFFICES ASSUME NEW j \in 0 .. q - 1 PROVE f[b + j + 1] = r + j * step + step
      OBVIOUS
    <2>1. PICK i \in 0 .. q : i = j + 1 /\ b + i = b + j + 1
      OBVIOUS
    <2>2. QED
      BY <1>3, <1>6, <2>1
  <1>8. f[b + q + 1] = start
    <2>1. PICK e \in 1 .. n : e = b + q
      OBVIOUS
    <2>2. f[e + 1] = Following(n, step, start, f[e])
      BY DEF Course
    <2>3. PICK c \in 0 .. n - 1 : c = r + q * step /\ c <= start /\ c + step > start
      BY <1>2
    <2>4. f[e] = c
      BY <1>6, <2>1, <2>3
    <2>5. QED
      BY <2>1, <2>2, <2>3, <2>4, FollowingCases
  <1>9. \A i \in b + q + 1 .. n + 1 : f[i] = start
    <2>1. PICK e \in 1 .. n + 1, h \in Nat : e = b + q + 1 /\ e + h = n + 1
      <3>1. b + q + 1 \in 1 .. n + 1 /\ n - (b + q) \in Nat /\ (b + q + 1) + (n - (b + q)) = n + 1
        OBVIOUS
      <3>2. QED
        BY <3>1
    <2>2. Following(n, step, start, start) = start
      BY FollowingCases
    <2> DEFINE D == [j \in 0 .. h |-> start]
    <2>3. f[e] = D[0] /\ e + h <= n + 1
      BY <1>8, <2>1
    <2>4. \A j \in 0 .. h - 1 : D[j + 1] = Following(n, step, start, D[j])
      BY <2>2
    <2>5. \A j \in 0 .. h : f[e + j] = D[j]
      <3> HIDE DEF D
      <3>1. Leads(n, step, start, h, D)
        BY <2>4 DEF Leads
      <3>2. Agree(f, e, h, D)
        BY <2>3, <3>1, Stretch
      <3>3. QED
        BY <3>2 DEF Agree
    <2>6. ASSUME NEW i \in b + q + 1 .. n + 1 PROVE f[i] = start
      <3>1. PICK j \in 0 .. h : i = e + j
        <4>1. i - e \in 0 .. h /\ i = e + (i - e)
          BY <2>1
        <4>2. QED
          BY <4>1
      <3>2. QED
        BY <2>5, <3>1
    <2>7. QED
      BY <2>6
  <1>10. QED
    BY <1>6, <1>7, <1>9 DEF SecondRound, Row

-----------------------------------------------------------------------------
(* Which nonces a search tries, and how often *)

\* The intervals in which a nonce is
Intervals(n, f, nonce) == {i \in 1 .. n : f[i] <= nonce /\ nonce < f[i + 1]}

\* The intervals of a search that begins away from the wrap: k of them, then
\* q whole ones from step - w on, then one that ends at the start.
Rounds(n, step, start, f, k, w, q) ==
    /\ FirstRound(n, step, start, f, k, w)
    /\ SecondRound(n, step, start, f, k + 1, step - w, q)
    /\ Row(step - w, step, q) <= start /\ start < Row(step - w, step, q) + step

LEMMA RoundsExist ==
    ASSUME NEW n \in Nat \ {0}, NEW step \in 1 .. n - 1, NEW start \in step .. n - step - 1, NEW f,
           Course(n, step, start, f)
    PROVE  \E k \in 1 .. n, q \in Nat :
               LET w == ((n - start - 2) % step) + 1
               IN  /\ k + 1 + q <= n /\ w \in 1 .. step
                   /\ n - w = start + 1 + (k - 1) * step
                   /\ Rounds(n, step, start, f, k, w, q)
  <1>1. PICK w \in 1 .. step, p \in Nat :
           w = ((n - start - 2) % step) + 1 /\ n - start - 2 = p * step + (w - 1)
    <2>1. PICK x \in Nat, d \in Nat \ {0} : x = n - start - 2 /\ d = step
      OBVIOUS
    <2>2. PICK p \in Nat, y \in 0 .. d - 1 : x = p * d + y /\ y = x % d
      BY Quotient
    <2>3. y + 1 \in 1 .. step /\ (y + 1) - 1 = y
      BY <2>1
    <2>4. QED
      BY <2>1, <2>2, <2>3
  <1>3. p * step \in Nat /\ p <= p * step
    OBVIOUS
  <1>4. PICK k \in 1 .. n : k = p + 1 /\ k + start + 1 <= n
    BY <1>1, <1>3
  <1>5. n - w = start + 1 + (k - 1) * step
    <2>1. k - 1 = p /\ n - w = start + 1 + p * step
      BY <1>1, <1>3, <1>4
    <2>2. QED
      BY <2>1
  <1>6. PICK r \in 0 .. start : r = step - w
    OBVIOUS
  <1>7. PICK q \in Nat : r + q * step <= start /\ start < r + q * step + step
    <2>1. PICK x \in Nat, d \in Nat \ {0} : x = start - r /\ d = step
      BY <1>6
    <2>2. PICK q \in Nat, y \in 0 .. d - 1 : x = q * d + y
      BY Quotient
    <2>3. QED
      BY <2>1, <2>2
  <1>8. q <= q * step
    OBVIOUS
  <1>9. k + 1 + q <= n /\ k + 1 \in 1 .. n
    BY <1>4, <1>7, <1>8
  <1>10. FirstRound(n, step, start, f, k, w)
    BY <1>5, FirstRoundIs
  <1>11. PICK b \in 1 .. n : b = k + 1 /\ f[b] = r /\ b + q <= n
    BY <1>6, <1>9, <1>10 DEF FirstRound
  <1>12. start \in 0 .. n - step - 1
    OBVIOUS
  <1>13. SecondRound(n, step, start, f, b, r, q)
    BY <1>7, <1>11, <1>12, SecondRoundIs
  <1>14. Rounds(n, step, start, f, k, w, q)
    BY <1>6, <1>7, <1>10, <1>11, <1>13 DEF Rounds, Row
  <1>15. QED
    BY <1>1, <1>5, <1>9, <1>14

\* Where an interval from a to z is: on the way up to the wrap, at it, on the way
\* up to the start, at the start, or behind it, where all are empty
Upwards(n, step, start, k, w, i, a, z) ==
    \E p \in Nat : /\ i = p + 1 /\ p < k - 1 /\ a = Row(start + 1, step, p)
                   /\ a > start /\ z = a + step /\ z <= n - w
Onwards(step, start, k, w, q, i, a, z) ==
    \E p \in Nat : /\ i = k + 1 + p /\ p < q /\ a = Row(step - w, step, p)
                   /\ a >= step - w /\ z = a + step /\ z <= start
Home(step, start, k, w, q, i, a, z) ==
    /\ i = k + 1 + q /\ a = Row(step - w, step, q) /\ a >= step - w
    /\ z = start /\ a <= start /\ start < a + step
Place(n, step, start, k, w, q, i, a, z) ==
    \/ Upwards(n, step, start, k, w, i, a, z)
    \/ i = k /\ a = n - w /\ z = step - w
    \/ Onwards(step, start, k, w, q, i, a, z)
    \/ Home(step, start, k, w, q, i, a, z)
    \/ i > k + 1 + q /\ a = start /\ z = start

LEMMA Places ==
    ASSUME NEW n \in Nat \ {0}, NEW step \in 1 .. n - 1, NEW start \in step .. n - step - 1,
           NEW f, Course(n, step, start, f),
           NEW k \in 1 .. n, NEW w \in 1 .. step, NEW q \in Nat, k + 1 + q <= n,
           Rounds(n, step, start, f, k, w, q), NEW i \in 1 .. n
    PROVE  Place(n, step, start, k, w, q, i, f[i], f[i + 1])
  <1>0. PICK a \in Nat, z \in Nat : a = f[i] /\ z = f[i + 1]
    BY CourseType
  <1>1. CASE i < k
    <2>1. PICK p \in Nat : i = p + 1 /\ p < k - 1
      <3>1. i - 1 \in Nat /\ i = (i - 1) + 1 /\ i - 1 < k - 1
        BY <1>1
      <3>2. QED
        BY <3>1
    <2>2. PICK h \in Nat : h = k - 1 /\ p < h
      BY <2>1
    <2>3. i \in 1 .. k /\ i \in 1 .. k - 1 /\ k \in 1 .. k /\ i - 1 = p
      BY <1>1, <2>1
    <2>4. a = Row(start + 1, step, p) /\ a > start /\ z = a + step
      BY <1>0, <2>3 DEF Rounds, FirstRound
    <2>5. n - w = Row(start + 1, step, h)
      BY <2>2, <2>3 DEF Rounds, FirstRound
    <2>6. Row(start + 1, step, p) + step <= Row(start + 1, step, h)
      <3>1. start + 1 \in Int /\ step \in Nat \ {0} /\ p \in Nat /\ h \in Nat
        OBVIOUS
      <3>2. QED
        BY <2>2, <3>1, RowOrder
    <2>7. Upwards(n, step, start, k, w, i, a, z)
      BY <2>1, <2>4, <2>5, <2>6 DEF Upwards
    <2>8. QED
      BY <1>0, <2>7 DEF Place
  <1>2. CASE i = k
    BY <1>2 DEF Rounds, FirstRound, Place
  <1>3. CASE i > k /\ i < k + 1 + q
    <2>1. PICK p \in Nat : i = k + 1 + p /\ p < q
      <3>1. i - k - 1 \in Nat /\ i = k + 1 + (i - k - 1) /\ i - k - 1 < q
        BY <1>3
      <3>2. QED
        BY <3>1
    <2>2. PICK e \in 0 .. q : e = p + 1
      BY <2>1
    <2>3. p \in 0 .. q /\ p \in 0 .. q - 1
      BY <2>1
    <2>4. /\ f[k + 1 + p] = Row(step - w, step, p)
          /\ f[k + 1 + p + 1] = Row(step - w, step, p) + step
          /\ f[k + 1 + e] <= start
      BY <2>3 DEF Rounds, SecondRound
    <2>5. k + 1 + p + 1 = i + 1 /\ k + 1 + e = i + 1
      BY <2>1, <2>2
    <2>6. Row(step - w, step, p) >= step - w
      <3>1. step - w \in Int /\ step \in Nat \ {0} /\ p \in Nat
        OBVIOUS
      <3>2. QED
        BY <3>1, RowType
    <2>7. a = Row(step - w, step, p) /\ z = a + step /\ z <= start
      BY <1>0, <2>1, <2>4, <2>5
    <2>8. Onwards(step, start, k, w, q, i, a, z)
      BY <2>1, <2>6, <2>7 DEF Onwards
    <2>9. QED
      BY <1>0, <2>8 DEF Place
  <1>4. CASE i = k + 1 + q
    <2>1. i + 1 \in k + 1 + q + 1 .. n + 1 /\ q \in 0 .. q
      BY <1>4
    <2>2. z = start /\ a = Row(step - w, step, q) /\ a <= start /\ start < a + step
      BY <1>0, <1>4, <2>1 DEF Rounds, SecondRound
    <2>3. Row(step - w, step, q) >= step - w
      <3>1. step - w \in Int /\ step \in Nat \ {0} /\ q \in Nat
        OBVIOUS
      <3>2. QED
        BY <3>1, RowType
    <2>4. Home(step, start, k, w, q, i, a, z)
      BY <1>4, <2>2, <2>3 DEF Home
    <2>5. QED
      BY <1>0, <2>4 DEF Place
  <1>5. CASE i > k + 1 + q
    <2>1. i + 1 \in k + 1 + q + 1 .. n + 1 /\ i \in k + 1 + q + 1 .. n + 1
      BY <1>5
    <2>2. QED
      BY <1>5, <2>1 DEF Rounds, SecondRound, Place
  <1>6. QED
    BY <1>1, <1>2, <1>3, <1>4, <1>5

\* The nonces that a search leaves out
Untried(n, step, start, w, x) == x = start \/ x >= n - w \/ x < step - w

LEMMA TriedNever ==
    ASSUME NEW n \in Nat \ {0}, NEW step \in 1 .. n - 1, NEW start \in step .. n - step - 1,
           NEW f, Course(n, step, start, f),
           NEW k \in 1 .. n, NEW w \in 1 .. step, NEW q \in Nat, k + 1 + q <= n,
           Rounds(n, step, start, f, k, w, q), NEW x \in 0 .. n - 1,
           Untried(n, step, start, w, x)
    PROVE  Intervals(n, f, x) = {}
  <1> SUFFICES ASSUME NEW i \in 1 .. n, f[i] <= x, x < f[i + 1] PROVE FALSE
    BY DEF Intervals
  <1>1. Place(n, step, start, k, w, q, i, f[i], f[i + 1])
    BY Places
  <1>2. PICK a \in Nat, z \in Nat : a = f[i] /\ z = f[i + 1] /\ a <= x /\ x < z
    BY CourseType
  <1>3. \/ a > start /\ z <= n - w
        \/ a = n - w /\ z = step - w
        \/ a >= step - w /\ z <= start
    BY <1>1, <1>2 DEF Place, Upwards, Onwards, Home
  <1>4. QED
    BY <1>2, <1>3 DEF Untried

LEMMA OnlyOne ==
    ASSUME NEW S, NEW e \in S, \A i \in S : i = e
    PROVE  Cardinality(S) = 1
  <1>1. S = {e}
    OBVIOUS
  <1>2. QED
    BY <1>1, FS_Singleton

LEMMA TriedOnce ==
    ASSUME NEW n \in Nat \ {0}, NEW step \in 1 .. n - 1, NEW start \in step .. n - step - 1,
           NEW f, Course(n, step, start, f),
           NEW k \in 1 .. n, NEW w \in 1 .. step, NEW q \in Nat, k + 1 + q <= n,
           Rounds(n, step, start, f, k, w, q),
           NEW x \in 0 .. n - 1, ~Untried(n, step, start, w, x)
    PROVE  Cardinality(Intervals(n, f, x)) = 1
  <1>00. x # start /\ x < n - w /\ x >= step - w
    BY DEF Untried
  <1> USE <1>00
  <1>0. start + 1 \in Int /\ step - w \in Int /\ step \in Nat \ {0} /\ x \in Int
    OBVIOUS
  <1>1. CASE x > start
    <2>1. PICK p \in Nat : Row(start + 1, step, p) <= x /\ x < Row(start + 1, step, p) + step
      <3>1. start + 1 <= x
        BY <1>1
      <3>2. QED
        BY <1>0, <3>1, RowAt
    <2>2. PICK h \in Nat : h = k - 1 /\ Row(start + 1, step, h) = n - w
      <3>1. k \in 1 .. k
        OBVIOUS
      <3>2. QED
        BY <3>1 DEF Rounds, FirstRound
    <2>3. p < h
      <3>1. Row(start + 1, step, p) \in Int /\ Row(start + 1, step, h) \in Int
        BY <1>0, RowType
      <3>2. h < p => Row(start + 1, step, h) + step <= Row(start + 1, step, p)
        BY <1>0, RowOrder
      <3>3. QED
        BY <2>1, <2>2, <3>1, <3>2
    <2>4. PICK e \in 1 .. k - 1 : e = p + 1 /\ e \in 1 .. n /\ e \in 1 .. k /\ e - 1 = p
      BY <2>2, <2>3
    <2>5. f[e] = Row(start + 1, step, p) /\ f[e + 1] = f[e] + step
      BY <2>4 DEF Rounds, FirstRound
    <2>6. e \in Intervals(n, f, x)
      BY <2>1, <2>4, <2>5 DEF Intervals
    <2>7. ASSUME NEW i \in Intervals(n, f, x) PROVE i = e
      <3>1. i \in 1 .. n /\ f[i] <= x /\ x < f[i + 1]
        BY DEF Intervals
      <3>2. Place(n, step, start, k, w, q, i, f[i], f[i + 1])
        BY <3>1, Places
      <3>3. PICK a \in Nat, z \in Nat : a = f[i] /\ z = f[i + 1] /\ a <= x /\ x < z
        BY <3>1, CourseType
      <3>4. Upwards(n, step, start, k, w, i, a, z)
        <4>1. z > start + 1 \/ z = start + 1
          BY <1>1, <3>3
        <4>2. z > start /\ a < n - w
          BY <3>3, <4>1
        <4>3. ~Onwards(step, start, k, w, q, i, a, z) /\ ~Home(step, start, k, w, q, i, a, z)
          BY <4>2 DEF Onwards, Home
        <4>4. QED
          BY <3>2, <3>3, <4>2, <4>3 DEF Place
      <3>5. PICK j \in Nat : i = j + 1 /\ a = Row(start + 1, step, j) /\ z = a + step
        BY <3>4 DEF Upwards
      <3>6. j = p
        <4>1. Row(start + 1, step, j) <= x /\ x < Row(start + 1, step, j) + step
          BY <3>3, <3>5
        <4>2. QED
          BY <1>0, <2>1, <4>1, RowOne
      <3>7. QED
        BY <2>4, <3>5, <3>6
    <2>8. QED
      BY <2>4, <2>6, <2>7, OnlyOne
  <1>2. CASE x < start
    <2>1. PICK p \in Nat : Row(step - w, step, p) <= x /\ x < Row(step - w, step, p) + step
      BY <1>0, RowAt
    <2>2. p <= q
      <3>1. Row(step - w, step, p) \in Int /\ Row(step - w, step, q) \in Int
        BY <1>0, RowType
      <3>2. q < p => Row(step - w, step, q) + step <= Row(step - w, step, p)
        BY <1>0, RowOrder
      <3>3. start < Row(step - w, step, q) + step
        BY DEF Rounds
      <3>4. QED
        BY <1>2, <2>1, <3>1, <3>2, <3>3
    <2>3. PICK e \in 1 .. n : e = k + 1 + p
      BY <2>2
    <2>4. f[e] = Row(step - w, step, p)
      <3>1. p \in 0 .. q
        BY <2>2
      <3>2. QED
        BY <2>3, <3>1 DEF Rounds, SecondRound
    <2>5. x < f[e + 1]
      <3>1. CASE p = q
        <4>1. e + 1 \in k + 1 + q + 1 .. n + 1
          BY <2>3, <3>1
        <4>2. f[e + 1] = start
          BY <4>1 DEF Rounds, SecondRound
        <4>3. QED
          BY <1>2, <4>2
      <3>2. CASE p # q
        <4>1. p \in 0 .. q - 1 /\ k + 1 + p + 1 = e + 1
          BY <2>2, <2>3, <3>2
        <4>2. f[e + 1] = Row(step - w, step, p) + step
          BY <4>1 DEF Rounds, SecondRound
        <4>3. QED
          BY <2>1, <4>2
      <3>3. QED
        BY <3>1, <3>2
    <2>6. e \in Intervals(n, f, x)
      BY <2>1, <2>4, <2>5 DEF Intervals
    <2>7. ASSUME NEW i \in Intervals(n, f, x) PROVE i = e
      <3>1. i \in 1 .. n /\ f[i] <= x /\ x < f[i + 1]
        BY DEF Intervals
      <3>2. Place(n, step, start, k, w, q, i, f[i], f[i + 1])
        BY <3>1, Places
      <3>3. PICK a \in Nat, z \in Nat : a = f[i] /\ z = f[i + 1] /\ a <= x /\ x < z
        BY <3>1, CourseType
      <3>4. Onwards(step, start, k, w, q, i, a, z) \/ Home(step, start, k, w, q, i, a, z)
        <4>1. a < start /\ a <= x /\ x < z
          BY <1>2, <3>3
        <4>2. ~Upwards(n, step, start, k, w, i, a, z)
          BY <4>1 DEF Upwards
        <4>3. a # n - w /\ a # start
          BY <4>1
        <4>4. QED
          BY <3>2, <3>3, <4>2, <4>3 DEF Place
      <3>5. PICK j \in Nat : i = k + 1 + j /\ a = Row(step - w, step, j) /\ z <= a + step
        BY <3>4 DEF Onwards, Home
      <3>6. j = p
        <4>1. Row(step - w, step, j) <= x /\ x < Row(step - w, step, j) + step
          BY <3>3, <3>5
        <4>2. QED
          BY <1>0, <2>1, <4>1, RowOne
      <3>7. QED
        BY <2>3, <3>5, <3>6
    <2>8. QED
      BY <2>6, <2>7, OnlyOne
  <1>3. QED
    BY <1>1, <1>2

AsStated(size, n, step, start, x) ==
    LET atWrap == ((n - start - 2) % step) + 1
    IN  Tried(size, start, x) =
            IF x = start \/ x >= n - atWrap \/ x < step - atWrap THEN 0 ELSE 1

LEMMA TriedAsStated ==
    ASSUME NEW size, NEW n \in Nat \ {0}, NEW step \in 1 .. n - 1, NEW start \in step .. n - step - 1,
           n = size[1], step = size[2], NEW x \in 0 .. n - 1
    PROVE  AsStated(size, n, step, start, x)
  <1>1. PICK f : f = Counter(size, start) /\ Course(n, step, start, f)
    <2>1. step \in Nat /\ start \in 0 .. n - 1
      OBVIOUS
    <2>2. Course(n, step, start, Counter(size, start))
      BY <2>1, CounterCourse
    <2>3. QED
      BY <2>2
  <1>2. Tried(size, start, x) = Cardinality(Intervals(n, f, x))
    BY <1>1 DEF Tried, Intervals
  <1>3. PICK k \in 1 .. n, q \in Nat, w \in 1 .. step :
          /\ w = ((n - start - 2) % step) + 1 /\ k + 1 + q <= n
          /\ Rounds(n, step, start, f, k, w, q)
    BY <1>1, RoundsExist
  <1>4. CASE Untried(n, step, start, w, x)
    <2>1. Intervals(n, f, x) = {}
      <3>1. Course(n, step, start, f) /\ Rounds(n, step, start, f, k, w, q) /\ k + 1 + q <= n
        BY <1>1, <1>3
      <3>2. QED
        BY <1>4, <3>1, TriedNever
    <2>2. QED
      BY <1>2, <1>3, <1>4, <2>1, FS_EmptySet DEF AsStated, Untried
  <1>5. CASE ~Untried(n, step, start, w, x)
    <2>1. Cardinality(Intervals(n, f, x)) = 1
      <3>1. Course(n, step, start, f) /\ Rounds(n, step, start, f, k, w, q) /\ k + 1 + q <= n
        BY <1>1, <1>3
      <3>2. QED
        BY <1>5, <3>1, TriedOnce
    <2>2. QED
      BY <1>2, <1>3, <1>5, <2>1 DEF AsStated, Untried
  <1>6. QED
    BY <1>4, <1>5

\* A search that does not begin within an interval of the wrap tries every nonce
\* once, but for the start and the interval that reaches the wrap: for any number
\* of nonces and of nonces taken at once.
THEOREM TriesEachOnce ==
    ASSUME NEW size, size[1] \in Nat \ {0}, size[2] \in 1 .. size[1] - 1
    PROVE  EachOnce(size)
  <1>0. PICK n \in Nat \ {0} : n = size[1]
    OBVIOUS
  <1>1. PICK step \in 1 .. n - 1 : n = size[1] /\ step = size[2]
    BY <1>0
  <1>2. ASSUME NEW start \in step .. n - step - 1, NEW x \in 0 .. n - 1
        PROVE  AsStated(size, n, step, start, x)
    <2>1. n = size[1] /\ step = size[2]
      BY <1>1
    <2>2. QED
      BY <2>1, TriedAsStated
  <1>3. ASSUME NEW start \in step .. n - step - 1, NEW x \in 0 .. n - 1,
               NEW w \in 1 .. step, w = ((n - start - 2) % step) + 1
        PROVE  /\ Tried(size, start, x) <= 1
               /\ x \in step - w .. n - w - 1 /\ x # start => Tried(size, start, x) = 1
    <2>1. Tried(size, start, x) = IF x = start \/ x >= n - w \/ x < step - w THEN 0 ELSE 1
      BY <1>2, <1>3 DEF AsStated
    <2>2. QED
      BY <2>1
  <1>4. ASSUME NEW start \in step .. n - step - 1 PROVE ((n - start - 2) % step) + 1 \in 1 .. step
    OBVIOUS
  <1>5. QED
    BY <1>1, <1>3, <1>4 DEF EachOnce

-----------------------------------------------------------------------------
(* Common divisors *)

Multiple(x, d) == \E c \in Int : x = c * d

LEMMA Divides ==
    ASSUME NEW d \in Nat \ {0}, NEW x \in Int
    PROVE  x % d = 0 <=> Multiple(x, d)
  <1>1. x % d = 0 => x = (x \div d) * d /\ x \div d \in Int
    OBVIOUS
  <1>2. ASSUME NEW c \in Int, x = c * d PROVE x % d = 0
    BY <1>2
  <1>3. QED
    BY <1>1, <1>2 DEF Multiple

IsGcd(a, b, g) ==
    /\ g \in 1 .. b /\ a % g = 0 /\ b % g = 0
    /\ \A x \in g + 1 .. b : a % x # 0 \/ b % x # 0

LEMMA GcdIs ==
    ASSUME NEW a \in Nat \ {0}, NEW b \in Nat \ {0}
    PROVE  IsGcd(a, b, Gcd(a, b))
  <1> DEFINE Common(d) == d \in 1 .. b /\ a % d = 0 /\ b % d = 0
             S == {m \in Nat : Common(b - m)}
  <1>1. b - 1 \in S
    <2>1. b - 1 \in Nat /\ b - (b - 1) = 1
      OBVIOUS
    <2>2. Common(1)
      OBVIOUS
    <2> HIDE DEF Common
    <2>3. QED
      BY <2>1, <2>2
  <1>2. PICK m \in S : \A k \in S : m <= k
    <2>1. S \in SUBSET Nat
      OBVIOUS
    <2> HIDE DEF S
    <2>2. QED
      BY <1>1, <2>1, LeastNumber
  <1>3. PICK g \in 1 .. b : g = b - m /\ Common(g)
    <2>1. Common(b - m)
      BY <1>2
    <2>2. QED
      BY <2>1
  <1>4. ASSUME NEW x \in g + 1 .. b, Common(x) PROVE FALSE
    <2>1. b - x \in Nat /\ b - (b - x) = x /\ b - x < m
      BY <1>3
    <2> HIDE DEF Common
    <2>2. b - x \in S
      BY <1>4, <2>1
    <2>3. QED
      BY <1>2, <2>1, <2>2
  <1>5. IsGcd(a, b, g)
    <2>1. ASSUME NEW x \in g + 1 .. b PROVE a % x # 0 \/ b % x # 0
      <3>1. x \in 1 .. b
        BY <1>3
      <3>2. QED
        BY <1>4, <3>1
    <2>2. QED
      BY <1>3, <2>1 DEF IsGcd
  <1>6. Gcd(a, b) = CHOOSE d \in 1 .. b : IsGcd(a, b, d)
    <2>1. \A d \in 1 .. b : IsGcd(a, b, d) <=>
              /\ a % d = 0 /\ b % d = 0 /\ \A x \in d + 1 .. b : a % x # 0 \/ b % x # 0
      BY DEF IsGcd
    <2>2. QED
      BY <2>1 DEF Gcd
  <1>7. \E d \in 1 .. b : IsGcd(a, b, d)
    BY <1>5
  <1>8. QED
    BY <1>6, <1>7

\* What is made of a and b
Combined(a, b, x) == \E t \in Int, u \in Int : x = t * b + u * a

LEMMA RemainderCombined ==
    ASSUME NEW a \in Int, NEW b \in Int, NEW g \in Nat \ {0}, Combined(a, b, g), NEW x \in Int, Combined(a, b, x)
    PROVE  Combined(a, b, x % g)
  <1>1. PICK t \in Int, u \in Int : g = t * b + u * a
    BY DEF Combined
  <1>2. PICK tx \in Int, ux \in Int : x = tx * b + ux * a
    BY DEF Combined
  <1>3. PICK q \in Int, r \in Int : r = x % g /\ x = q * g + r
    <2>1. x \div g \in Int /\ x % g \in Int /\ x = (x \div g) * g + (x % g)
      OBVIOUS
    <2>2. QED
      BY <2>1
  <1>4. q * g = (q * t) * b + (q * u) * a
    BY <1>1
  <1>5. r = (tx - q * t) * b + (ux - q * u) * a
    BY <1>2, <1>3, <1>4
  <1>6. tx - q * t \in Int /\ ux - q * u \in Int
    OBVIOUS
  <1>7. QED
    BY <1>3, <1>5, <1>6 DEF Combined

\* The greatest common divisor is made of the two numbers.
LEMMA Bezout ==
    ASSUME NEW a \in Nat \ {0}, NEW b \in Nat \ {0}, NEW g, IsGcd(a, b, g)
    PROVE  Combined(a, b, g)
  <1> DEFINE S == {x \in Nat : x # 0 /\ Combined(a, b, x)}
  <1>1. Combined(a, b, a) /\ Combined(a, b, b)
    <2>1. a = 0 * b + 1 * a /\ b = 1 * b + 0 * a
      OBVIOUS
    <2>2. QED
      BY <2>1 DEF Combined
  <1>2. PICK h \in S : \A k \in S : h <= k
    <2>1. S \in SUBSET Nat /\ b \in S
      BY <1>1
    <2> HIDE DEF S
    <2>2. QED
      BY <2>1, LeastNumber
  <1>3. ASSUME NEW x \in Nat, Combined(a, b, x) PROVE x % h = 0
    <2>1. h \in Nat \ {0} /\ Combined(a, b, h)
      BY <1>2
    <2>2. Combined(a, b, x % h)
      BY <1>3, <2>1, RemainderCombined
    <2>3. x % h \in Nat /\ x % h < h
      BY <2>1
    <2>4. x % h \notin S
      BY <1>2, <2>3
    <2>5. QED
      BY <2>2, <2>3, <2>4
  <1>4. a % h = 0 /\ b % h = 0
    BY <1>1, <1>3
  <1>5. h <= b
    BY <1>1, <1>2
  <1>6. g \in Nat \ {0} /\ g <= b
    BY DEF IsGcd
  <1>7. h <= g
    <2>1. h > g => h \in g + 1 .. b
      BY <1>2, <1>5, <1>6
    <2>2. QED
      BY <1>2, <1>4, <1>6, <2>1 DEF IsGcd
  <1>8. h % g = 0
    <2>1. PICK t \in Int, u \in Int : h = t * b + u * a
      BY <1>2 DEF Combined
    <2>2. PICK x \in Int, y \in Int : a = x * g /\ b = y * g
      <3>1. a % g = 0 /\ b % g = 0
        BY DEF IsGcd
      <3>2. Multiple(a, g) /\ Multiple(b, g)
        BY <1>6, <3>1, Divides
      <3>3. QED
        BY <3>2 DEF Multiple
    <2>3. h = (t * y + u * x) * g /\ t * y + u * x \in Int
      BY <1>6, <2>1, <2>2
    <2>4. h \in Int
      BY <1>2
    <2>5. Multiple(h, g)
      BY <2>3 DEF Multiple
    <2>6. QED
      BY <1>6, <2>4, <2>5, Divides
  <1>9. h = g
    <2>1. h < g => h % g = h
      BY <1>2, <1>6
    <2>2. QED
      BY <1>2, <1>6, <1>7, <1>8, <2>1
  <1>10. QED
    BY <1>2, <1>9

-----------------------------------------------------------------------------
(* Which searches end *)

\* One that comes to an interval that ends where it begins
Stops(n, f) == \E i \in 1 .. n : f[i] = f[i + 1]

LEMMA ModAdd ==
    ASSUME NEW n \in Nat \ {0}, NEW x \in Int, NEW y \in Int
    PROVE  ((x % n) + y) % n = (x + y) % n
  <1>1. PICK q \in Int, r \in 0 .. n - 1 : r = x % n /\ x = n * q + r
    <2>1. x \div n \in Int /\ x % n \in 0 .. n - 1 /\ x = n * (x \div n) + (x % n)
      OBVIOUS
    <2>2. QED
      BY <2>1
  <1>2. PICK p \in Int, z \in 0 .. n - 1 : z = (r + y) % n /\ r + y = n * p + z
    <2>1. PICK v \in Int : v = r + y
      OBVIOUS
    <2>2. v \div n \in Int /\ v % n \in 0 .. n - 1 /\ v = n * (v \div n) + (v % n)
      OBVIOUS
    <2>3. QED
      BY <2>1, <2>2
  <1>3. x + y = n * (q + p) + z /\ q + p \in Int
    <2>1. PICK a \in Int, b \in Int : a = n * q /\ b = n * p /\ n * (q + p) = a + b
      OBVIOUS
    <2>2. x = a + r /\ r + y = b + z
      BY <1>1, <1>2, <2>1
    <2>3. x + y = a + b + z
      BY <2>2
    <2>4. QED
      BY <2>1, <2>3
  <1>4. (x + y) % n = z
    <2>1. PICK v \in Int, c \in Int : v = x + y /\ c = q + p
      OBVIOUS
    <2>2. v = n * c + z
      BY <1>3, <2>1
    <2>3. v % n = z
      BY <2>2, DivisionUnique
    <2>4. QED
      BY <2>1, <2>3
  <1>5. QED
    BY <1>1, <1>2, <1>4

LEMMA RowNext ==
    ASSUME NEW a \in Int, NEW d \in Nat, NEW p \in Nat
    PROVE  Row(a, d, p + 1) = Row(a, d, p) + d /\ Row(a, d, 0) = a
  <1>1. (p + 1) * d = p * d + d /\ p * d \in Nat /\ 0 * d = 0
    OBVIOUS
  <1>2. QED
    BY <1>1 DEF Row

GoesRound(n, step, start, f) == \A i \in 1 .. n : f[i] = Row(start + 1, step, i - 1) % n

\* Until a search comes to its start the counter goes round.
LEMMA Rotation ==
    ASSUME NEW n \in Nat \ {0}, NEW step \in 1 .. n - 1, NEW start \in 0 .. n - 1, NEW f,
           Course(n, step, start, f), \A i \in 1 .. n : f[i] # start
    PROVE  GoesRound(n, step, start, f)
  <1> DEFINE S == {i \in Nat : i \in 1 .. n /\ f[i] # Row(start + 1, step, i - 1) % n}
  <1>0. start + 1 \in Int /\ step \in Nat /\ step \in Nat \ {0}
    OBVIOUS
  <1>1. SUFFICES ASSUME S # {} PROVE FALSE
    BY DEF GoesRound
  <1>2. PICK i \in S : \A k \in S : i <= k
    <2>1. S \in SUBSET Nat
      OBVIOUS
    <2> HIDE DEF S
    <2>2. QED
      BY <1>1, <2>1, LeastNumber
  <1>3. i # 1
    <2>1. Row(start + 1, step, 0) = start + 1
      BY <1>0, RowNext
    <2>2. f[1] = Row(start + 1, step, 0) % n
      BY <2>1 DEF Course
    <2>3. QED
      BY <1>2, <2>2
  <1>4. PICK e \in 1 .. n - 1, p \in Nat : i = e + 1 /\ p = e - 1 /\ p + 1 = i - 1
    <2>1. i - 1 \in 1 .. n - 1 /\ i = (i - 1) + 1 /\ (i - 1) - 1 \in Nat /\ ((i - 1) - 1) + 1 = i - 1
      BY <1>2, <1>3
    <2>2. QED
      BY <2>1
  <1>5. f[e] = Row(start + 1, step, p) % n
    <2>1. e \notin S /\ e \in 1 .. n /\ e \in Nat
      BY <1>2, <1>4
    <2>2. QED
      BY <1>4, <2>1
  <1>6. f[i] = (f[e] + step) % n
    <2>1. f[e + 1] = Following(n, step, start, f[e])
      BY <1>4 DEF Course
    <2>2. f[i] # start
      BY <1>2
    <2>3. QED
      BY <1>4, <2>1, <2>2 DEF Following
  <1>7. PICK x \in Int : x = Row(start + 1, step, p)
    BY <1>0, RowType
  <1>8. f[i] = (x + step) % n
    <2>1. PICK y \in Int : y = step
      BY <1>0
    <2>2. ((x % n) + y) % n = (x + y) % n
      BY ModAdd
    <2>3. QED
      BY <1>5, <1>6, <1>7, <2>1, <2>2
  <1>9. x + step = Row(start + 1, step, i - 1)
    BY <1>0, <1>4, <1>7, RowNext
  <1>10. QED
    BY <1>2, <1>8, <1>9

Visited(n, step, start, g, x) ==
    \E i \in 1 .. n : /\ Row(start + 1, step, i - 1) % n = x
                      /\ g # 1 => i < n

\* Going round, the counter comes by every value that differs from the start by
\* a multiple of the greatest common divisor.
LEMMA Visits ==
    ASSUME NEW n \in Nat \ {0}, NEW step \in 1 .. n - 1, NEW start \in 0 .. n - 1,
           NEW g, IsGcd(n, step, g), NEW x \in 0 .. start, (start + 1 - x) % g = 0
    PROVE  Visited(n, step, start, g, x)
  <1>0. g \in Nat \ {0} /\ g <= step /\ n % g = 0 /\ step % g = 0 /\ step \in Nat \ {0}
    BY DEF IsGcd
  <1>1. PICK c \in Int, a \in Int, d \in Int : n = c * g /\ step = a * g /\ start + 1 - x = d * g
    <2>1. PICK y \in Int : y = start + 1 - x
      OBVIOUS
    <2>2. y % g = 0 /\ n \in Int /\ step \in Int
      BY <2>1
    <2>3. Multiple(n, g) /\ Multiple(step, g) /\ Multiple(y, g)
      BY <1>0, <2>2, Divides
    <2>4. QED
      BY <2>1, <2>3 DEF Multiple
  <1>2. c \in Nat \ {0}
    BY <1>0, <1>1
  <1>3. c <= n /\ (g # 1 => c < n)
    <2>1. g >= 1 /\ (g # 1 => g >= 2)
      BY <1>0
    <2>2. c * g >= c
      BY <1>0, <1>2, <2>1
    <2>3. g >= 2 => c * g >= c * 2
      BY <1>0, <1>2
    <2>4. QED
      BY <1>1, <1>2, <2>1, <2>2, <2>3
  <1>4. PICK t \in Int, u \in Int : g = t * step + u * n
    <2>1. Combined(n, step, g)
      BY <1>0, Bezout
    <2>2. QED
      BY <2>1 DEF Combined
  <1>5. PICK q \in Int, m \in 0 .. c - 1 : 0 - d * t = c * q + m
    <2>1. PICK z \in Int : z = 0 - d * t
      OBVIOUS
    <2>2. z \div c \in Int /\ z % c \in 0 .. c - 1 /\ z = c * (z \div c) + (z % c)
      BY <1>2
    <2>3. QED
      BY <2>1, <2>2
  <1>6. m * step + d * g = (d * u - q * a) * n
    <2>1. m = 0 - d * t - c * q
      BY <1>2, <1>5
    <2>2. d * g = d * (t * step) + d * (u * n)
      BY <1>0, <1>4
    <2>3. m * step = 0 - d * (t * step) - (c * q) * step
      BY <1>2, <2>1
    <2>4. (c * q) * step = (q * a) * n
      BY <1>0, <1>1
    <2>5. d * (u * n) = (d * u) * n /\ (d * u - q * a) * n = (d * u) * n - (q * a) * n
      OBVIOUS
    <2>6. /\ d * (t * step) \in Int /\ d * (u * n) \in Int /\ (c * q) * step \in Int
          /\ m * step \in Int /\ d * g \in Int
      BY <1>0
    <2>7. QED
      BY <2>2, <2>3, <2>4, <2>5, <2>6
  <1>7. PICK i \in 1 .. n : i - 1 = m /\ (g # 1 => i < n)
    <2>1. m + 1 \in 1 .. n /\ (m + 1) - 1 = m /\ (g # 1 => m + 1 < n)
      BY <1>2, <1>3
    <2>2. QED
      BY <2>1
  <1>8. Row(start + 1, step, i - 1) % n = x
    <2>1. PICK v \in Int, y \in Int : v = d * u - q * a /\ y = m * step
      OBVIOUS
    <2>2. y + (start + 1 - x) = v * n
      BY <1>1, <1>6, <2>1
    <2>3. PICK z \in Int : z = start + 1 + y /\ z = Row(start + 1, step, i - 1)
      BY <1>7, <2>1 DEF Row
    <2>4. z = n * v + x
      BY <2>2, <2>3
    <2>5. x \in 0 .. n - 1
      OBVIOUS
    <2>6. z % n = x
      BY <2>4, <2>5
    <2>7. QED
      BY <2>3, <2>6
  <1>9. QED
    BY <1>7, <1>8 DEF Visited

\* A search comes to its start when that is at least as great as the least
\* value that the counter takes when it goes round, and away from the wrap.
LEMMA StopsIf ==
    ASSUME NEW n \in Nat \ {0}, NEW step \in 1 .. n - 1, NEW start \in 0 .. n - 1, NEW f,
           Course(n, step, start, f), NEW g, IsGcd(n, step, g), start \in g - 1 .. n - step - 1
    PROVE  Stops(n, f)
  <1>0. /\ g \in Nat \ {0} /\ step \in Nat \ {0} /\ step % g = 0
        /\ start \in Int /\ start + 1 \in Int /\ start \in 0 .. n - step - 1
    BY DEF IsGcd
  <1> SUFFICES ASSUME \A i \in 1 .. n : f[i] # f[i + 1] PROVE FALSE
    BY DEF Stops
  <1>1. \A i \in 1 .. n : f[i + 1] = Following(n, step, start, f[i])
    BY DEF Course
  <1>2. \A i \in 1 .. n : f[i] # start
    <2>1. Following(n, step, start, start) = start
      BY <1>0, FollowingCases
    <2>2. QED
      BY <1>1, <2>1
  <1>3. \A i \in 1 .. n : f[i] = Row(start + 1, step, i - 1) % n
    <2>1. GoesRound(n, step, start, f)
      BY <1>2, Rotation
    <2>2. QED
      BY <2>1 DEF GoesRound
  <1>4. CASE g = 1
    <2>1. start \in 0 .. start /\ (start + 1 - start) % g = 0
      BY <1>4
    <2>2. PICK i \in 1 .. n : Row(start + 1, step, i - 1) % n = start
      <3>1. Visited(n, step, start, g, start)
        BY <2>1, Visits
      <3>2. QED
        BY <3>1 DEF Visited
    <2>3. QED
      BY <1>2, <1>3, <2>2
  <1>5. CASE g # 1
    <2>1. PICK q \in Int, v \in 0 .. g - 1 : start + 1 = q * g + v
      <3>1. PICK y \in Nat : y = start + 1
        OBVIOUS
      <3>2. \E p \in Nat, r \in 0 .. g - 1 : y = p * g + r /\ r = y % g
        BY <1>0, Quotient
      <3>3. QED
        BY <3>1, <3>2
    <2>2. v \in Int /\ v <= start
      BY <1>0
    <2>3. PICK p \in Nat : Row(v, step, p) <= start /\ start < Row(v, step, p) + step
      BY <1>0, <2>2, RowAt
    <2>4. PICK w \in 0 .. start : w = Row(v, step, p)
      <3>1. Row(v, step, p) \in Int /\ Row(v, step, p) >= v
        BY <1>0, <2>2, RowType
      <3>2. QED
        BY <1>0, <2>3, <3>1
    <2>5. (start + 1 - w) % g = 0
      <3>1. PICK a \in Int : step = a * g
        <4>1. Multiple(step, g)
          BY <1>0, Divides
        <4>2. QED
          BY <4>1 DEF Multiple
      <3>2. PICK x \in Int, y \in Int, z \in Int : x = q * g /\ y = p * step /\ z = start + 1 - w
        BY <1>0
      <3>3. start + 1 = x + v /\ w = v + y
        BY <2>1, <2>4, <3>2 DEF Row
      <3>4. z = x - y
        BY <3>2, <3>3
      <3>5. y = (p * a) * g
        BY <1>0, <3>1, <3>2
      <3>6. z = (q - p * a) * g /\ q - p * a \in Int
        BY <1>0, <3>2, <3>4, <3>5
      <3>7. Multiple(z, g)
        BY <3>6 DEF Multiple
      <3>8. QED
        BY <1>0, <3>2, <3>7, Divides
    <2>6. PICK i \in 1 .. n : Row(start + 1, step, i - 1) % n = w /\ (g # 1 => i < n)
      <3>1. Visited(n, step, start, g, w)
        BY <2>5, Visits
      <3>2. QED
        BY <3>1 DEF Visited
    <2>7. f[i] = w /\ i + 1 \in 1 .. n
      BY <1>3, <1>5, <2>6
    <2>8. Following(n, step, start, w) = start
      <3>1. w \in 0 .. n - 1 /\ w <= start /\ w + step > start
        BY <2>3, <2>4
      <3>2. QED
        BY <1>0, <3>1, FollowingCases
    <2>9. QED
      BY <1>1, <1>2, <2>7, <2>8
  <1>6. QED
    BY <1>4, <1>5

\* Below, it never falls to its start or under it.
LEMMA Skips ==
    ASSUME NEW n \in Nat \ {0}, NEW step \in 1 .. n - 1, NEW start \in 0 .. n - 1, NEW f,
           Course(n, step, start, f), NEW g, IsGcd(n, step, g), start + 1 < g
    PROVE  \A i \in 1 .. n + 1 : f[i] > start
  <1>0. /\ g \in Nat \ {0} /\ g <= step /\ step \in Nat \ {0} /\ step % g = 0 /\ n % g = 0
        /\ start + 1 \in 0 .. g - 1
    BY DEF IsGcd
  <1> DEFINE Right(c) == c \in 0 .. n - 1 /\ c % g = start + 1
             S == {i \in Nat : i \in 1 .. n + 1 /\ ~Right(f[i])}
  <1>1. S = {}
    <2>1. SUFFICES ASSUME S # {} PROVE FALSE
      OBVIOUS
    <2>2. PICK i \in S : \A k \in S : i <= k
      <3>1. S \in SUBSET Nat
        OBVIOUS
      <3> HIDE DEF S
      <3>2. QED
        BY <2>1, <3>1, LeastNumber
    <2>3. i # 1
      <3>1. (start + 1) % n = start + 1 /\ (start + 1) % g = start + 1 /\ start + 1 \in 0 .. n - 1
        BY <1>0
      <3>2. Right(f[1])
        BY <3>1 DEF Course
      <3> HIDE DEF Right
      <3>3. QED
        BY <2>2, <3>2
    <2>4. PICK e \in 1 .. n : i = e + 1 /\ e \notin S
      <3>1. i - 1 \in 1 .. n /\ i = (i - 1) + 1 /\ i - 1 < i
        BY <2>2, <2>3
      <3> HIDE DEF Right
      <3>2. QED
        BY <2>2, <3>1
    <2>5. PICK c \in 0 .. n - 1 : c = f[e] /\ c % g = start + 1
      BY <2>4
    <2>6. c > start
      <3>1. c < g => c % g = c
        BY <1>0
      <3>2. QED
        BY <1>0, <2>5, <3>1
    <2>7. f[i] = (c + step) % n
      <3>1. f[e + 1] = Following(n, step, start, f[e])
        BY DEF Course
      <3>2. QED
        BY <2>4, <2>5, <2>6, <3>1 DEF Following
    <2>8. PICK x \in Int, y \in Int : x = c % g /\ y = c + step /\ y % g = x
      <3>1. PICK q \in Int : c = q * g + (start + 1)
        <4>1. c = (c \div g) * g + (c % g) /\ c \div g \in Int
          BY <1>0
        <4>2. QED
          BY <2>5, <4>1
      <3>2. PICK a \in Int : step = a * g
        <4>1. Multiple(step, g)
          BY <1>0, Divides
        <4>2. QED
          BY <4>1 DEF Multiple
      <3>3. PICK y \in Int, z \in Int : y = c + step /\ z = q + a
        BY <1>0
      <3>4. y = g * z + (start + 1)
        BY <1>0, <3>1, <3>2, <3>3
      <3>5. y % g = start + 1
        BY <1>0, <3>4
      <3>6. QED
        BY <1>0, <2>5, <3>3, <3>5
    <2>9. (c + step) % n = y \/ (c + step) % n = y - n
      BY <1>0, <2>8
    <2>10. (y - n) % g = x
      <3>1. PICK q \in Int : y = q * g + (start + 1)
        <4>1. y = (y \div g) * g + (y % g) /\ y \div g \in Int
          BY <1>0
        <4>2. QED
          BY <2>5, <2>8, <4>1
      <3>2. PICK a \in Int : n = a * g
        <4>1. Multiple(n, g)
          BY <1>0, Divides
        <4>2. QED
          BY <4>1 DEF Multiple
      <3>3. PICK v \in Int, z \in Int : v = y - n /\ z = q - a
        BY <1>0
      <3>4. v = g * z + (start + 1)
        BY <1>0, <3>1, <3>2, <3>3
      <3>5. v % g = start + 1
        BY <1>0, <3>4
      <3>6. QED
        BY <2>5, <2>8, <3>3, <3>5
    <2>11. f[i] % g = start + 1 /\ f[i] \in 0 .. n - 1
      <3>1. (c + step) % n \in 0 .. n - 1
        BY <1>0
      <3>2. QED
        BY <2>5, <2>7, <2>8, <2>9, <2>10, <3>1
    <2>12. QED
      BY <2>2, <2>11
  <1>2. ASSUME NEW i \in 1 .. n + 1 PROVE f[i] > start
    <2>1. Right(f[i])
      <3> HIDE DEF Right
      <3> QED BY <1>1
    <2>2. PICK c \in 0 .. n - 1 : c = f[i] /\ c % g = start + 1
      BY <2>1
    <2>3. c < g => c % g = c
      BY <1>0
    <2>4. QED
      BY <1>0, <2>2, <2>3
  <1>3. QED
    BY <1>2

LEMMA StopsOnlyIf ==
    ASSUME NEW n \in Nat \ {0}, NEW step \in 1 .. n - 1, NEW start \in 0 .. n - 1, NEW f,
           Course(n, step, start, f), NEW g, IsGcd(n, step, g), Stops(n, f)
    PROVE  start \in g - 1 .. n - step - 1
  <1>1. PICK i \in 1 .. n : f[i] = f[i + 1]
    BY DEF Stops
  <1>2. PICK c \in 0 .. n - 1 : c = f[i] /\ c = Following(n, step, start, c)
    <2>1. i \in 1 .. n + 1
      OBVIOUS
    <2>2. f[i] \in 0 .. n - 1
      BY <2>1 DEF Course
    <2>3. f[i + 1] = Following(n, step, start, f[i])
      BY DEF Course
    <2>4. QED
      BY <1>1, <2>2, <2>3
  <1>3. (c + step) % n # c
    <2>1. c + step < n => (c + step) % n = c + step
      OBVIOUS
    <2>2. c + step >= n => (c + step) % n = c + step - n
      OBVIOUS
    <2>3. QED
      BY <2>1, <2>2
  <1>4. c = start /\ start < (start + step) % n
    BY <1>2, <1>3 DEF Following
  <1>5. start <= n - step - 1
    <2>1. start + step >= n => (start + step) % n = start + step - n
      OBVIOUS
    <2>2. QED
      BY <1>4, <2>1
  <1>6. g \in Nat \ {0}
    BY DEF IsGcd
  <1>7. ~(start + 1 < g)
    <2>1. i \in 1 .. n + 1
      OBVIOUS
    <2>2. start + 1 < g => f[i] > start
      BY <2>1, Skips
    <2>3. QED
      BY <1>2, <1>4, <2>2
  <1>8. QED
    BY <1>5, <1>6, <1>7

LEMMA EndsAsStated ==
    ASSUME NEW size, NEW n \in Nat \ {0}, NEW step \in 1 .. n - 1, NEW start \in 0 .. n - 1,
           n = size[1], step = size[2]
    PROVE  Ends(size, start) <=> start \in Gcd(n, step) - 1 .. n - step - 1
  <1>1. PICK f : f = Counter(size, start) /\ Course(n, step, start, f)
    <2>1. step \in Nat
      OBVIOUS
    <2>2. Course(n, step, start, Counter(size, start))
      BY <2>1, CounterCourse
    <2>3. QED
      BY <2>2
  <1>2. Ends(size, start) <=> Stops(n, f)
    BY <1>1 DEF Ends, Stops
  <1>3. PICK g : g = Gcd(n, step) /\ IsGcd(n, step, g)
    <2>1. step \in Nat \ {0}
      OBVIOUS
    <2>2. IsGcd(n, step, Gcd(n, step))
      BY <2>1, GcdIs
    <2>3. QED
      BY <2>2
  <1>4. Stops(n, f) => start \in g - 1 .. n - step - 1
    BY <1>1, <1>3, StopsOnlyIf
  <1>5. start \in g - 1 .. n - step - 1 => Stops(n, f)
    BY <1>1, <1>3, StopsIf
  <1>6. QED
    BY <1>2, <1>3, <1>4, <1>5

\* A search ends (consumeNextNonces) if it does not start within an interval before
\* the wrap or with one of the first few behind it, fewer than the greatest common
\* divisor of the number of nonces and of those taken at once: for any such numbers.
THEOREM EndsFrom ==
    ASSUME NEW size, size[1] \in Nat \ {0}, size[2] \in 1 .. size[1] - 1
    PROVE  SearchEnds(size)
  <1>0. PICK n \in Nat \ {0} : n = size[1]
    OBVIOUS
  <1>1. PICK step \in 1 .. n - 1 : n = size[1] /\ step = size[2]
    BY <1>0
  <1>2. Gcd(n, step) \in Nat \ {0}
    <2>1. step \in Nat \ {0}
      OBVIOUS
    <2>2. IsGcd(n, step, Gcd(n, step))
      BY <2>1, GcdIs
    <2>3. QED
      BY <2>2 DEF IsGcd
  <1>3. ASSUME NEW start \in Gcd(n, step) - 1 .. n - step - 1 PROVE Ends(size, start)
    <2>1. start \in 0 .. n - 1
      BY <1>2
    <2>2. QED
      BY <1>1, <2>1, EndsAsStated
  <1>4. QED
    BY <1>1, <1>3 DEF SearchEnds, SafeStarts

\* A search that starts anywhere else goes round for ever (consumeNextNonces, whose
\* sum overflows), and there always is such a start, the last nonce: the comment at
\* Miner (miner.h:56-61) is true of no numbers.
THEOREM StartsMissed ==
    ASSUME NEW size, size[1] \in Nat \ {0}, size[2] \in 1 .. size[1] - 1
    PROVE  /\ \A start \in (0 .. size[1] - 1) \ SafeStarts(size) : ~Ends(size, start)
           /\ ~CountsUp(size)
  <1>0. PICK n \in Nat \ {0} : n = size[1]
    OBVIOUS
  <1>1. PICK step \in 1 .. n - 1 : n = size[1] /\ step = size[2]
    BY <1>0
  <1>2. ASSUME NEW start \in (0 .. n - 1) \ SafeStarts(size) PROVE ~Ends(size, start)
    <2>1. start \in 0 .. n - 1 /\ start \notin Gcd(n, step) - 1 .. n - step - 1
      BY <1>1 DEF SafeStarts
    <2>2. QED
      BY <1>1, <2>1, EndsAsStated
  <1>3. ~Ends(size, n - 1)
    <2>1. n - 1 \in 0 .. n - 1 /\ n - 1 \notin Gcd(n, step) - 1 .. n - step - 1
      OBVIOUS
    <2>2. QED
      BY <1>1, <2>1, EndsAsStated
  <1>4. ~CountsUp(size)
    <2>1. n - 1 \in 0 .. n - 1
      OBVIOUS
    <2>2. QED
      BY <1>1, <1>3, <2>1 DEF CountsUp
  <1>5. QED
    BY <1>1, <1>2, <1>4
=============================================================================
