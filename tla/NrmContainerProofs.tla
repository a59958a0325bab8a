------------------------- MODULE NrmContainerProofs -------------------------
(* Proofs about the containers of the library: vectors and hash tables.    *)
EXTENDS NrmVector, NrmHash, Integers, Sequences, FiniteSets,
        FiniteSetTheorems, NaturalsInduction, WellFoundedInduction,
        SequenceTheorems, TLAPS

USE ZenonT(8), SMTT(60)

-----------------------------------------------------------------------------
(* Counting, recursion and lists.  What a loop over the numbers up to n    *)
(* computes is established from one round to the next.                     *)

\* A set of natural numbers has a least element.
LEMMA SmallestNat ==
  ASSUME NEW K \in SUBSET Nat, K # {}
  PROVE  \E m \in K : \A k \in K : m <= k
<1> DEFINE R == OpToRel(<, Nat)
<1>1. IsWellFoundedOn(R, Nat)
  BY NatLessThanWellFounded
<1>2. PICK m \in K : \A k \in K : ~(<<k, m>> \in R)
  <2> HIDE DEF R
  <2> QED  BY <1>1, WFMin, Zenon
<1>3. ASSUME NEW k \in K PROVE m <= k
  <2>1. k \in Nat /\ m \in Nat
    OBVIOUS
  <2>2. k < m => <<k, m>> \in R
    BY <2>1 DEF OpToRel
  <2> HIDE DEF R
  <2> QED  BY <1>2, <2>1, <2>2, SMTT(60)
<1> QED  BY <1>3

\* A set of rounds that holds the beginning, and each round after one it
\* holds, holds them all.
LEMMA CountUp ==
  ASSUME NEW n \in Nat, NEW G \in SUBSET (0..n), 0 \in G,
         \A i \in 1..n : i - 1 \in G => i \in G
  PROVE  G = 0..n
<1> DEFINE K == {i \in 0..n : i \notin G}
<1> SUFFICES ASSUME K # {} PROVE FALSE
  OBVIOUS
<1>1. K \in SUBSET Nat
  BY SMTT(60)
<1>2. PICK m \in K : \A k \in K : m <= k
  <2> HIDE DEF K
  <2> QED  BY <1>1, SmallestNat
<1>3. m \in 0..n /\ m \notin G /\ m # 0
  OBVIOUS
<1>4. m \in 1..n /\ m - 1 \in 0..n /\ ~(m <= m - 1)
  BY <1>3, SMTT(60)
<1>5. m - 1 \notin K
  BY <1>2, <1>4
<1> QED  BY <1>3, <1>4, <1>5

\* f starts from x and goes on as the rounds say.
Recursion(f, S, x, n, round) ==
  /\ f \in [0..n -> S]
  /\ f[0] = x
  /\ \A i \in 1..n : f[i] = round[i][f[i - 1]]

\* A recursive function over the numbers up to n exists.
LEMMA RecursionExists ==
  ASSUME NEW S, NEW x \in S, NEW n \in Nat, NEW round \in [1..n -> [S -> S]]
  PROVE  \E f : Recursion(f, S, x, n, round)
<1> DEFINE Rec(f, m) == f[0] = x /\ \A i \in 1..m : f[i] = round[i][f[i - 1]]
           G == {m \in 0..n : \E f \in [0..m -> S] : Rec(f, m)}
<1>1. 0 \in G
  <2> DEFINE f == [i \in 0..0 |-> x]
  <2>1. 0 \in 0..n /\ 0 \in 0..0 /\ 1..0 = {}
    BY SMTT(60)
  <2>2. f \in [0..0 -> S] /\ Rec(f, 0)
    BY <2>1
  <2> HIDE DEF f
  <2> QED  BY <2>1, <2>2
<1>2. ASSUME NEW m \in 1..n, m - 1 \in G PROVE m \in G
  <2>1. PICK f \in [0..m - 1 -> S] : Rec(f, m - 1)
    BY <1>2
  <2>2. /\ m \in 0..n /\ m \in 0..m /\ m - 1 \in 0..m - 1 /\ 0 \in 0..m - 1
        /\ \A i \in 0..m - 1 : i \in 0..m /\ i # m
        /\ \A i \in 0..m : i # m => i \in 0..m - 1
        /\ \A i \in 1..m : i - 1 \in 0..m - 1 /\ i \in 0..m /\ (i # m => i \in 1..m - 1)
    BY SMTT(60)
  <2> DEFINE y == round[m][f[m - 1]]
             g == [i \in 0..m |-> IF i = m THEN y ELSE f[i]]
  <2>3. y \in S
    BY <2>1, <2>2
  <2> HIDE DEF y
  <2>4. g \in [0..m -> S] /\ g[m] = y /\ \A i \in 0..m - 1 : g[i] = f[i]
    BY <2>2, <2>3
  <2> HIDE DEF g
  <2>5. g[0] = x
    BY <2>1, <2>2, <2>4
  <2>6. ASSUME NEW i \in 1..m PROVE g[i] = round[i][g[i - 1]]
    <3>1. CASE i = m
      BY <2>2, <2>4, <3>1 DEF y
    <3>2. CASE i # m
      BY <2>1, <2>2, <2>4, <3>2
    <3> QED  BY <3>1, <3>2
  <2> QED  BY <2>2, <2>4, <2>5, <2>6
<1>3. G = 0..n
  <2>1. G \in SUBSET (0..n)
    OBVIOUS
  <2> HIDE DEF G
  <2> QED  BY <1>1, <1>2, <2>1, CountUp
<1>4. n \in 0..n
  BY SMTT(60)
<1> QED  BY <1>3, <1>4 DEF Recursion

\* The elements on a list.
Links(q) == {q[i] : i \in DOMAIN q}

\* Elements of lists that are put together.
LEMMA ListsJoined ==
  ASSUME NEW S, NEW q \in Seq(S), NEW r \in Seq(S)
  PROVE  q \o r \in Seq(S) /\ Links(q \o r) = Links(q) \cup Links(r)
<1> DEFINE s == q \o r
<1>1. /\ s \in Seq(S) /\ Len(q) \in Nat /\ Len(r) \in Nat
      /\ DOMAIN q = 1..Len(q) /\ DOMAIN r = 1..Len(r) /\ DOMAIN s = 1..Len(q) + Len(r)
  BY SMTT(60)
<1>2. \A i \in 1..Len(q) : s[i] = q[i] /\ i \in 1..Len(q) + Len(r)
  BY SMTT(60)
<1>3. \A j \in 1..Len(r) : s[Len(q) + j] = r[j] /\ Len(q) + j \in 1..Len(q) + Len(r)
  BY SMTT(60)
<1> HIDE DEF s
<1>4. Links(s) \subseteq Links(q) \cup Links(r)
  <2> SUFFICES ASSUME NEW i \in 1..Len(q) + Len(r) PROVE s[i] \in Links(q) \cup Links(r)
    BY <1>1 DEF Links
  <2>1. CASE i \in 1..Len(q)
    BY <1>1, <1>2, <2>1 DEF Links
  <2>2. CASE i \notin 1..Len(q)
    <3>1. i - Len(q) \in 1..Len(r) /\ Len(q) + (i - Len(q)) = i
      BY <1>1, <2>2, SMTT(60)
    <3> QED  BY <1>1, <1>3, <3>1 DEF Links
  <2> QED  BY <2>1, <2>2
<1>5. Links(q) \cup Links(r) \subseteq Links(s)
  BY <1>1, <1>2, <1>3 DEF Links
<1> QED  BY <1>1, <1>4, <1>5 DEF s

\* A list of one element.
LEMMA ListOfOne ==
  ASSUME NEW S, NEW k \in S
  PROVE  <<k>> \in Seq(S) /\ Links(<<k>>) = {k}
<1>1. <<k>> \in Seq(S) /\ DOMAIN <<k>> = {1} /\ <<k>>[1] = k
  BY SMTT(60)
<1> QED  BY <1>1 DEF Links

\* f puts the first lists of c together, one more in every round.
Joins(f, c, n) == f = [b \in 0..n |-> IF b = 0 THEN << >> ELSE f[b - 1] \o c[b]]

\* Lists that are put together one after the other are one list with the
\* elements of all of them.
LEMMA JoinedAll ==
  ASSUME NEW S, NEW n \in Nat, NEW c \in [1..n -> Seq(S)]
  PROVE  /\ \E f : Joins(f, c, n)
         /\ \A f : Joins(f, c, n) => /\ f[n] \in Seq(S)
                                     /\ Links(f[n]) = UNION {Links(c[b]) : b \in 1..n}
<1>1. << >> \in Seq(S) /\ Links(<< >>) = {} /\ 0 \in 0..n /\ n \in 0..n /\ 1..0 = {}
  <2>1. << >> \in Seq(S) /\ DOMAIN << >> = {} /\ 0 \in 0..n /\ n \in 0..n /\ 1..0 = {}
    BY SMTT(60)
  <2> QED  BY <2>1 DEF Links
<1>2. \A i \in 1..n : i \in 0..n /\ i # 0 /\ i - 1 \in 0..n
  BY SMTT(60)
<1>3. \E f : Joins(f, c, n)
  <2> DEFINE round == [b \in 1..n |-> [q \in Seq(S) |-> q \o c[b]]]
  <2>1. round \in [1..n -> [Seq(S) -> Seq(S)]]
    <3>1. \A q, r \in Seq(S) : q \o r \in Seq(S)
      BY ListsJoined
    <3> QED  BY <3>1
  <2>2. \A b \in 1..n, q \in Seq(S) : round[b][q] = q \o c[b]
    OBVIOUS
  <2> HIDE DEF round
  <2>3. PICK f \in [0..n -> Seq(S)] :
           f[0] = << >> /\ \A b \in 1..n : f[b] = round[b][f[b - 1]]
    <3>1. \E f : Recursion(f, Seq(S), << >>, n, round)
      BY <1>1, <2>1, RecursionExists
    <3> QED  BY <3>1 DEF Recursion
  <2>4. ASSUME NEW b \in 0..n PROVE f[b] = IF b = 0 THEN << >> ELSE f[b - 1] \o c[b]
    <3>1. CASE b = 0
      BY <2>3, <3>1
    <3>2. CASE b # 0
      <4>1. b \in 1..n /\ b - 1 \in 0..n
        BY <3>2, SMTT(60)
      <4> QED  BY <2>2, <2>3, <3>2, <4>1
    <3> QED  BY <3>1, <3>2
  <2> QED  BY <2>3, <2>4 DEF Joins
<1>4. ASSUME NEW g, Joins(g, c, n)
      PROVE  g[n] \in Seq(S) /\ Links(g[n]) = UNION {Links(c[b]) : b \in 1..n}
  <2> DEFINE Good(b) == /\ g[b] \in Seq(S)
                        /\ Links(g[b]) = UNION {Links(c[i]) : i \in 1..b}
  <2>1. g[0] = << >> /\ \A b \in 1..n : g[b] = g[b - 1] \o c[b]
    BY <1>1, <1>2, <1>4 DEF Joins
  <2>2. Good(0)
    BY <1>1, <2>1
  <2>3. ASSUME NEW b \in 1..n, Good(b - 1) PROVE Good(b)
    <3>1. 1..b = (1..b - 1) \cup {b}
      BY SMTT(60)
    <3>2. g[b] \in Seq(S) /\ Links(g[b]) = Links(g[b - 1]) \cup Links(c[b])
      <4> DEFINE q == g[b - 1]
                 r == c[b]
      <4>1. q \in Seq(S) /\ r \in Seq(S) /\ g[b] = q \o r
        BY <2>1, <2>3
      <4> HIDE DEF q, r
      <4>2. q \o r \in Seq(S) /\ Links(q \o r) = Links(q) \cup Links(r)
        BY <4>1, ListsJoined
      <4> QED  BY <4>1, <4>2 DEF q, r
    <3>3. UNION {Links(c[i]) : i \in 1..b} = (UNION {Links(c[i]) : i \in 1..b - 1}) \cup Links(c[b])
      <4> DEFINE N == 1..b - 1
      <4> HIDE DEF N
      <4>1. UNION {Links(c[i]) : i \in N \cup {b}} = (UNION {Links(c[i]) : i \in N}) \cup Links(c[b])
        OBVIOUS
      <4> QED  BY <3>1, <4>1 DEF N
    <3> QED  BY <2>3, <3>2, <3>3
  <2>4. \A b \in 0..n : Good(b)
    <3> DEFINE G == {b \in 0..n : Good(b)}
    <3> HIDE DEF Good
    <3>1. G \in SUBSET (0..n) /\ 0 \in G
      BY <1>1, <2>2
    <3>2. \A b \in 1..n : b - 1 \in G => b \in G
      BY <1>2, <2>3
    <3>3. G = 0..n
      <4> HIDE DEF G
      <4> QED  BY <3>1, <3>2, CountUp
    <3> QED  BY <3>3
  <2> QED  BY <1>1, <2>4
<1> QED  BY <1>3, <1>4

\* Every element of N comes before or after every other.
Ordered(N, below) ==
  /\ below \in [N -> SUBSET N]
  /\ \A x \in N : x \notin below[x]
  /\ \A x, y \in N : x # y => x \in below[y] \/ y \in below[x]
  /\ \A x, y \in N : x \in below[y] => below[x] \subseteq below[y]

\* The elements of an ordered set are numbered by how many come before them.
LEMMA Ranks ==
  ASSUME NEW N, IsFiniteSet(N), NEW below, Ordered(N, below)
  PROVE  /\ \A x \in N : IsFiniteSet(below[x]) /\ Cardinality(below[x]) \in 0..Cardinality(N) - 1
         /\ \A x, y \in N : x \in below[y] => Cardinality(below[x]) < Cardinality(below[y])
         /\ \A x, y \in N : Cardinality(below[x]) = Cardinality(below[y]) => x = y
         /\ \A i \in 0..Cardinality(N) - 1 : \E x \in N : Cardinality(below[x]) = i
<1>0. Cardinality(N) \in Nat
  BY FS_CardinalityType
<1>1. ASSUME NEW x \in N
      PROVE  IsFiniteSet(below[x]) /\ Cardinality(below[x]) \in 0..Cardinality(N) - 1
  <2>1. below[x] \in SUBSET N /\ below[x] # N
    BY DEF Ordered
  <2>2. /\ IsFiniteSet(below[x]) /\ Cardinality(below[x]) <= Cardinality(N)
        /\ Cardinality(N) # Cardinality(below[x])
    BY <2>1, FS_Subset
  <2>3. Cardinality(below[x]) \in Nat
    BY <2>2, FS_CardinalityType
  <2>4. Cardinality(below[x]) \in 0..Cardinality(N) - 1
    BY <1>0, <2>2, <2>3, SMTT(60)
  <2> QED  BY <2>2, <2>4
<1>2. ASSUME NEW x \in N, NEW y \in N, x \in below[y]
      PROVE  Cardinality(below[x]) < Cardinality(below[y])
  <2>1. below[x] \in SUBSET below[y] /\ below[x] # below[y]
    BY <1>2 DEF Ordered
  <2>2. IsFiniteSet(below[y])
    BY <1>1
  <2>3. Cardinality(below[x]) <= Cardinality(below[y]) /\ Cardinality(below[y]) # Cardinality(below[x])
    BY <2>1, <2>2, FS_Subset
  <2>4. Cardinality(below[x]) \in 0..Cardinality(N) - 1 /\ Cardinality(below[y]) \in 0..Cardinality(N) - 1
    BY <1>1
  <2> QED  BY <1>0, <2>3, <2>4, SMTT(60)
<1>3. ASSUME NEW x \in N, NEW y \in N, Cardinality(below[x]) = Cardinality(below[y])
      PROVE  x = y
  <2>1. \A i \in 0..Cardinality(N) - 1 : ~(i < i)
    BY <1>0, SMTT(60)
  <2>2. ~(Cardinality(below[x]) < Cardinality(below[y]))
        /\ ~(Cardinality(below[y]) < Cardinality(below[x]))
    BY <1>1, <1>3, <2>1
  <2>3. x \notin below[y] /\ y \notin below[x]
    BY <1>2, <2>2
  <2> QED  BY <2>3 DEF Ordered
<1>4. \A i \in 0..Cardinality(N) - 1 : \E x \in N : Cardinality(below[x]) = i
  <2> DEFINE T == 0..Cardinality(N) - 1
             rank == [x \in N |-> Cardinality(below[x])]
  <2>1. IsFiniteSet(T) /\ Cardinality(T) = Cardinality(N)
    <3>1. 0 \in Int /\ Cardinality(N) - 1 \in Int
      BY <1>0, SMTT(60)
    <3>2. IsFiniteSet(T) /\ Cardinality(T) = IF 0 > Cardinality(N) - 1 THEN 0
                                             ELSE Cardinality(N) - 1 - 0 + 1
      BY <3>1, FS_Interval
    <3>3. (IF 0 > Cardinality(N) - 1 THEN 0 ELSE Cardinality(N) - 1 - 0 + 1) = Cardinality(N)
      BY <1>0, SMTT(60)
    <3> QED  BY <3>2, <3>3
  <2>2. rank \in [N -> T] /\ \A x \in N : rank[x] = Cardinality(below[x])
    BY <1>1
  <2> HIDE DEF T, rank
  <2>3. rank \in Injection(N, T)
    BY <1>3, <2>2 DEF Injection, IsInjective
  <2>4. rank \in Surjection(N, T)
    BY <2>1, <2>3, FS_Injection
  <2>5. \A i \in T : \E x \in N : rank[x] = i
    BY <2>4 DEF Surjection
  <2> QED  BY <2>2, <2>5 DEF T
<1> QED  BY <1>1, <1>2, <1>3, <1>4

-----------------------------------------------------------------------------
(* Vectors. *)

\* The memory of a vector: n slots, of which the first i hold elements.
Vector(a) ==
  /\ DOMAIN a = {"open", "i", "n", "d"}
  /\ a.i \in Nat /\ a.n \in Nat /\ a.i <= a.n
  /\ a.d \in [0..a.n - 1 -> Int]

\* Doubling reaches every length (utarray_reserve).
LEMMA GrowsEnough ==
  ASSUME NEW n \in Nat, NEW need \in Nat
  PROVE  GrowTo(n, need) \in Nat /\ GrowTo(n, need) >= need /\ GrowTo(n, need) >= n
<1> DEFINE more == [m \in Nat |-> IF m >= need THEN m ELSE IF m = 0 THEN MinSlots ELSE 2 * m]
           step == [r \in 1..need |-> more]
           IsSlots(f) == f = [r \in 0..need |->
                                IF r = 0 THEN n
                                ELSE IF f[r - 1] >= need THEN f[r - 1]
                                ELSE IF f[r - 1] = 0 THEN MinSlots
                                ELSE 2 * f[r - 1]]
           g == CHOOSE f : IsSlots(f)
           Good(r) == g[r] \in Nat /\ g[r] >= n /\ (g[r] >= r \/ g[r] >= need)
<1>1. MinSlots \in Nat \ {0}
  BY VectorAssumption
<1>2. GrowTo(n, need) = g[need]
  BY Zenon DEF GrowTo
<1>3. more \in [Nat -> Nat]
  BY <1>1, SMTT(60)
<1>4. /\ 0 \in 0..need /\ need \in 0..need
      /\ \A r \in 1..need : r \in 0..need /\ r # 0 /\ r - 1 \in 0..need
      /\ \A r \in 0..need : r # 0 => r \in 1..need
  BY SMTT(60)
<1>5. \E f : IsSlots(f)
  <2>1. step \in [1..need -> [Nat -> Nat]] /\ \A r \in 1..need : step[r] = more
    BY <1>3
  <2>2. \A m \in Nat : more[m] = IF m >= need THEN m ELSE IF m = 0 THEN MinSlots ELSE 2 * m
    OBVIOUS
  <2> HIDE DEF step, more
  <2>3. PICK f : Recursion(f, Nat, n, need, step)
    BY <2>1, RecursionExists
  <2>4. f \in [0..need -> Nat] /\ f[0] = n /\ \A r \in 1..need : f[r] = more[f[r - 1]]
    BY <2>1, <2>3 DEF Recursion
  <2>5. \A r \in 0..need : f[r] = IF r = 0 THEN n
                                  ELSE IF f[r - 1] >= need THEN f[r - 1]
                                  ELSE IF f[r - 1] = 0 THEN MinSlots
                                  ELSE 2 * f[r - 1]
    BY <1>4, <2>2, <2>4
  <2>6. IsSlots(f)
    BY <2>4, <2>5
  <2> QED  BY <2>6
<1>6. IsSlots(g)
  BY <1>5, Zenon
<1>7. /\ g[0] = n
      /\ \A r \in 1..need : g[r] = IF g[r - 1] >= need THEN g[r - 1]
                                   ELSE IF g[r - 1] = 0 THEN MinSlots
                                   ELSE 2 * g[r - 1]
  BY <1>4, <1>6
<1> HIDE DEF g
<1>8. Good(0)
  BY <1>7, SMTT(60)
<1>9. ASSUME NEW r \in 1..need, Good(r - 1) PROVE Good(r)
  <2>1. g[r] = IF g[r - 1] >= need THEN g[r - 1] ELSE IF g[r - 1] = 0 THEN MinSlots ELSE 2 * g[r - 1]
    BY <1>7
  <2> QED  BY <1>1, <1>9, <2>1, SMTT(60)
<1>10. Good(need)
  <2> DEFINE G == {r \in 0..need : Good(r)}
  <2> HIDE DEF Good
  <2>1. G \in SUBSET (0..need) /\ 0 \in G /\ \A r \in 1..need : r - 1 \in G => r \in G
    BY <1>4, <1>8, <1>9
  <2>2. G = 0..need
    <3> HIDE DEF G
    <3> QED  BY <2>1, CountUp
  <2> QED  BY <1>4, <2>2
<1> QED  BY <1>2, <1>10, SMTT(60)

\* A new vector has no memory.
LEMMA EmptyIsVector == /\ Vector(EmptyVector) /\ EmptyVector.i = 0 /\ EmptyVector.open = TRUE
                       /\ Vector(NoVector) /\ NoVector.i = 0 /\ NoVector.open = FALSE
<1>1. << >> \in [{} -> Int] /\ 0..0 - 1 = {} /\ 0 <= 0 /\ 0 \in Nat
  <2>1. << >> \in Seq(Int) /\ Len(<< >>) = 0
    BY EmptySeq
  <2>2. 0..0 - 1 = {} /\ 1..0 = {} /\ 0 <= 0 /\ 0 \in Nat
    BY SMTT(60)
  <2>3. << >> \in [1..Len(<< >>) -> Int]
    BY <2>1, LenProperties
  <2> QED  BY <2>1, <2>2, <2>3
<1>2. DOMAIN EmptyVector = {"open", "i", "n", "d"} /\ DOMAIN NoVector = {"open", "i", "n", "d"}
      /\ EmptyVector.i = 0 /\ EmptyVector.n = 0 /\ EmptyVector.d = << >> /\ EmptyVector.open = TRUE
      /\ NoVector.i = 0 /\ NoVector.n = 0 /\ NoVector.d = << >> /\ NoVector.open = FALSE
  BY DEF EmptyVector, NoVector
<1> QED  BY <1>1, <1>2 DEF Vector

\* Room for more elements; those there stay (utarray_reserve).
LEMMA Reserved ==
  ASSUME NEW a, Vector(a), NEW by \in Nat
  PROVE  LET r == utarray_reserve(a, by)
         IN  /\ Vector(r) /\ r.i = a.i /\ r.open = a.open /\ a.i + by <= r.n
             /\ \A s \in 0..a.i - 1 : r.d[s] = a.d[s]
<1> DEFINE m == GrowTo(a.n, a.i + by)
           d == [s \in 0..m - 1 |-> IF s < a.n THEN a.d[s] ELSE Junk]
           r == utarray_reserve(a, by)
<1>1. DOMAIN a = {"open", "i", "n", "d"} /\ a.i \in Nat /\ a.n \in Nat /\ a.i <= a.n
      /\ a.d \in [0..a.n - 1 -> Int]
  BY DEF Vector
<1>2. m \in Nat /\ m >= a.i + by /\ m >= a.n
  <2>1. a.i + by \in Nat
    BY <1>1, SMTT(60)
  <2> QED  BY <1>1, <2>1, GrowsEnough
<1>3. r = [a EXCEPT !.n = m, !.d = d]
  BY DEF utarray_reserve
<1> HIDE DEF m
<1>4. /\ \A s \in 0..m - 1 : s < a.n => s \in 0..a.n - 1
      /\ \A s \in 0..a.i - 1 : s \in 0..m - 1 /\ s < a.n
      /\ Junk \in Int
  BY <1>1, <1>2, SMTT(60) DEF Junk
<1>5. d \in [0..m - 1 -> Int] /\ \A s \in 0..a.i - 1 : d[s] = a.d[s]
  BY <1>1, <1>4
<1> HIDE DEF d, r
<1>6. DOMAIN r = DOMAIN a /\ r.n = m /\ r.d = d /\ r.i = a.i /\ r.open = a.open
  BY <1>1, <1>3
<1>7. a.i + by <= m /\ a.i <= m
  BY <1>1, <1>2, SMTT(60)
<1> QED  BY <1>1, <1>2, <1>5, <1>6, <1>7 DEF Vector, r

\* An element behind the others (utarray_push_back).
LEMMA PushedBack ==
  ASSUME NEW a, Vector(a), NEW x \in Int
  PROVE  LET b == utarray_push_back(a, x)
         IN  /\ Vector(b) /\ b.i = a.i + 1 /\ b.open = a.open
             /\ \A s \in 0..a.i - 1 : b.d[s] = a.d[s]
             /\ b.d[a.i] = x
<1> DEFINE r == utarray_reserve(a, 1)
           d == [r.d EXCEPT ![r.i] = x]
           b == utarray_push_back(a, x)
<1>1. /\ Vector(r) /\ r.i = a.i /\ r.open = a.open /\ a.i + 1 <= r.n
      /\ \A s \in 0..a.i - 1 : r.d[s] = a.d[s]
  BY Reserved
<1>2. b = [r EXCEPT !.d = d, !.i = r.i + 1]
  BY DEF utarray_push_back
<1> HIDE DEF r
<1>3. /\ DOMAIN r = {"open", "i", "n", "d"} /\ a.i \in Nat /\ r.n \in Nat
      /\ r.d \in [0..r.n - 1 -> Int]
  BY <1>1 DEF Vector
<1>4. /\ a.i \in 0..r.n - 1 /\ a.i + 1 \in Nat
      /\ \A s \in 0..a.i - 1 : s \in 0..r.n - 1 /\ s # a.i
  BY <1>1, <1>3, SMTT(60)
<1>5. /\ d \in [0..r.n - 1 -> Int] /\ d[a.i] = x
      /\ \A s \in 0..a.i - 1 : d[s] = a.d[s]
  BY <1>1, <1>3, <1>4
<1> HIDE DEF d, b
<1>6. DOMAIN b = DOMAIN r /\ b.d = d /\ b.i = a.i + 1 /\ b.n = r.n /\ b.open = a.open
  BY <1>1, <1>2, <1>3
<1> QED  BY <1>1, <1>3, <1>4, <1>5, <1>6 DEF Vector, b

\* Another length: elements dropped from the end or zeroes added there
\* (utarray_resize).
LEMMA Resized ==
  ASSUME NEW a, Vector(a), NEW num \in Nat
  PROVE  LET b == utarray_resize(a, num)
         IN  /\ Vector(b) /\ b.i = num /\ b.open = a.open
             /\ \A s \in 0..num - 1 : b.d[s] = IF s < a.i THEN a.d[s] ELSE 0
<1> DEFINE r == IF a.i < num THEN utarray_reserve(a, num - a.i) ELSE a
           d == [s \in DOMAIN r.d |-> IF a.i <= s /\ s < num THEN 0 ELSE r.d[s]]
           b == utarray_resize(a, num)
<1>0. a.i \in Nat /\ a.n \in Nat /\ a.i <= a.n
  BY DEF Vector
<1>1. /\ Vector(r) /\ r.open = a.open /\ num <= r.n
      /\ \A s \in 0..a.i - 1 : r.d[s] = a.d[s]
  <2>1. CASE a.i < num
    <3>1. num - a.i \in Nat /\ a.i + (num - a.i) = num
      BY <1>0, <2>1, SMTT(60)
    <3> DEFINE by == num - a.i
    <3> HIDE DEF by
    <3>2. LET q == utarray_reserve(a, by)
          IN  /\ Vector(q) /\ q.i = a.i /\ q.open = a.open /\ a.i + by <= q.n
              /\ \A s \in 0..a.i - 1 : q.d[s] = a.d[s]
      BY <3>1, Reserved DEF by
    <3> QED  BY <2>1, <3>1, <3>2 DEF by
  <2>2. CASE ~(a.i < num)
    <3>1. num <= a.n
      BY <1>0, <2>2, SMTT(60)
    <3> QED  BY <2>2, <3>1
  <2> QED  BY <2>1, <2>2
<1>2. b = [r EXCEPT !.i = num, !.d = d]
  BY DEF utarray_resize
<1> HIDE DEF r
<1>3. DOMAIN r = {"open", "i", "n", "d"} /\ r.n \in Nat /\ r.d \in [0..r.n - 1 -> Int]
  BY <1>1 DEF Vector
<1>4. \A s \in 0..num - 1 : s \in 0..r.n - 1 /\ s < num /\ (s < a.i => s \in 0..a.i - 1)
                            /\ (a.i <= s <=> ~(s < a.i))
  BY <1>0, <1>1, <1>3, SMTT(60)
<1>5. /\ d \in [0..r.n - 1 -> Int]
      /\ \A s \in 0..num - 1 : d[s] = IF s < a.i THEN a.d[s] ELSE 0
  <2>1. DOMAIN r.d = 0..r.n - 1 /\ 0 \in Int
    BY <1>3
  <2>2. d \in [0..r.n - 1 -> Int]
    BY <1>3, <2>1
  <2>3. \A s \in 0..r.n - 1 : d[s] = IF a.i <= s /\ s < num THEN 0 ELSE r.d[s]
    BY <2>1
  <2> HIDE DEF d
  <2> QED  BY <1>1, <1>4, <2>2, <2>3
<1> HIDE DEF d, b
<1>6. DOMAIN b = DOMAIN r /\ b.d = d /\ b.i = num /\ b.n = r.n /\ b.open = a.open
  BY <1>1, <1>2, <1>3
<1> QED  BY <1>1, <1>3, <1>5, <1>6 DEF Vector, b

\* A copy has the elements of the original (utarray_concat).
LEMMA Copied ==
  ASSUME NEW w, Vector(w)
  PROVE  LET b == utarray_concat(EmptyVector, w)
         IN  /\ Vector(b) /\ b.i = w.i /\ b.open = TRUE
             /\ \A s \in 0..w.i - 1 : b.d[s] = w.d[s]
<1> DEFINE a == EmptyVector
           r == utarray_reserve(a, w.i)
           d == [s \in DOMAIN r.d |-> IF a.i <= s /\ s < a.i + w.i THEN w.d[s - a.i] ELSE r.d[s]]
           b == utarray_concat(a, w)
<1>0. Vector(a) /\ a.i = 0 /\ a.open = TRUE
  BY EmptyIsVector
<1>1. w.i \in Nat /\ w.n \in Nat /\ w.i <= w.n /\ w.d \in [0..w.n - 1 -> Int]
  BY DEF Vector
<1>2. CASE w.i = 0
  <2>1. b = a
    BY <1>2 DEF utarray_concat
  <2>2. 0..w.i - 1 = {}
    BY <1>2, SMTT(60)
  <2> QED  BY <1>0, <1>2, <2>1, <2>2
<1>3. CASE w.i # 0
  <2>1. /\ Vector(r) /\ r.i = 0 /\ r.open = TRUE /\ a.i + w.i <= r.n
    <3> HIDE DEF a
    <3> QED  BY <1>0, <1>1, Reserved
  <2>2. b = [r EXCEPT !.i = a.i + w.i, !.d = d]
    BY <1>3 DEF utarray_concat
  <2> HIDE DEF a, r
  <2>3. DOMAIN r = {"open", "i", "n", "d"} /\ r.n \in Nat /\ r.d \in [0..r.n - 1 -> Int]
    BY <2>1 DEF Vector
  <2>4. /\ w.i <= r.n /\ a.i + w.i = w.i
        /\ \A s \in 0..r.n - 1 : a.i <= s /\ s < a.i + w.i => s - a.i \in 0..w.n - 1
        /\ \A s \in 0..w.i - 1 : s \in 0..r.n - 1 /\ a.i <= s /\ s < a.i + w.i /\ s - a.i = s
    BY <1>0, <1>1, <2>1, <2>3, SMTT(60)
  <2>5. d \in [0..r.n - 1 -> Int] /\ \A s \in 0..w.i - 1 : d[s] = w.d[s]
    <3>1. DOMAIN r.d = 0..r.n - 1
      BY <2>3
    <3> QED  BY <1>1, <2>3, <2>4, <3>1
  <2> HIDE DEF d, b
  <2>6. DOMAIN b = DOMAIN r /\ b.d = d /\ b.i = w.i /\ b.n = r.n /\ b.open = TRUE
    BY <2>1, <2>2, <2>3, <2>4
  <2> QED  BY <1>1, <2>3, <2>4, <2>5, <2>6 DEF Vector, b, a
<1> QED  BY <1>2, <1>3

\* An element taken out: those behind it move down (utarray_erase).
LEMMA Erased ==
  ASSUME NEW a, Vector(a), NEW pos \in Nat, pos < a.i
  PROVE  LET b == utarray_erase(a, pos)
         IN  /\ Vector(b) /\ b.i = a.i - 1 /\ b.open = a.open
             /\ \A s \in 0..a.i - 2 : b.d[s] = IF s < pos THEN a.d[s] ELSE a.d[s + 1]
<1> DEFINE d == [s \in DOMAIN a.d |-> IF pos <= s /\ s < a.i - 1 THEN a.d[s + 1] ELSE a.d[s]]
           b == utarray_erase(a, pos)
<1>1. /\ DOMAIN a = {"open", "i", "n", "d"} /\ a.i \in Nat /\ a.n \in Nat /\ a.i <= a.n
      /\ a.d \in [0..a.n - 1 -> Int]
  BY DEF Vector
<1>2. b = [a EXCEPT !.i = a.i - 1, !.d = d]
  BY DEF utarray_erase
<1>3. /\ \A s \in 0..a.n - 1 : pos <= s /\ s < a.i - 1 => s + 1 \in 0..a.n - 1
      /\ \A s \in 0..a.i - 2 : s \in 0..a.n - 1 /\ s < a.i - 1 /\ (pos <= s <=> ~(s < pos))
      /\ a.i - 1 \in Nat /\ a.i - 1 <= a.n /\ (a.i - 1) - 1 = a.i - 2
  BY <1>1, SMTT(60)
<1>4. /\ d \in [0..a.n - 1 -> Int]
      /\ \A s \in 0..a.i - 2 : d[s] = IF s < pos THEN a.d[s] ELSE a.d[s + 1]
  <2>1. DOMAIN a.d = 0..a.n - 1
    BY <1>1
  <2> QED  BY <1>1, <1>3, <2>1
<1> HIDE DEF d, b
<1>5. DOMAIN b = DOMAIN a /\ b.d = d /\ b.i = a.i - 1 /\ b.n = a.n /\ b.open = a.open
  BY <1>1, <1>2
<1> QED  BY <1>1, <1>3, <1>4, <1>5 DEF Vector, b

\* p gives for every place of a sorted vector the place its element had, and
\* q is the inverse of p.
Sorting(p, q, a) ==
  /\ p \in [0..a.i - 1 -> 0..a.i - 1] /\ q \in [0..a.i - 1 -> 0..a.i - 1]
  /\ \A s \in 0..a.i - 1 : q[p[s]] = s /\ p[q[s]] = s
  /\ \A s, t \in 0..a.i - 1 : s < t => a.d[p[s]] <= a.d[p[t]]

\* The same elements in ascending order (utarray_sort).
LEMMA SortsElements ==
  ASSUME NEW a, Vector(a)
  PROVE  LET b == utarray_sort(a)
         IN  /\ Vector(b) /\ b.i = a.i /\ b.open = a.open
             /\ \E p, q : Sorting(p, q, a) /\ \A s \in 0..a.i - 1 : b.d[s] = a.d[p[s]]
<1> DEFINE N == 0..a.i - 1
           below == [s \in N |-> {t \in N : a.d[t] < a.d[s] \/ (a.d[t] = a.d[s] /\ t < s)}]
           p == [s \in N |-> CHOOSE t \in N : Cardinality(below[t]) = s]
           q == [t \in N |-> Cardinality(below[t])]
           d == [s \in DOMAIN a.d |-> IF s < a.i THEN a.d[p[s]] ELSE a.d[s]]
           b == utarray_sort(a)
<1>1. /\ DOMAIN a = {"open", "i", "n", "d"} /\ a.i \in Nat /\ a.n \in Nat /\ a.i <= a.n
      /\ a.d \in [0..a.n - 1 -> Int]
  BY DEF Vector
<1>2. /\ \A s \in N : s \in 0..a.n - 1 /\ s < a.i /\ s \in Int
      /\ \A s \in 0..a.n - 1 : s < a.i <=> s \in N
  BY <1>1, SMTT(60)
<1>3. \A s \in N : a.d[s] \in Int
  BY <1>1, <1>2
<1>4. IsFiniteSet(N) /\ Cardinality(N) = a.i
  <2>1. 0 \in Int /\ a.i - 1 \in Int
    BY <1>1, SMTT(60)
  <2>2. IsFiniteSet(N) /\ Cardinality(N) = IF 0 > a.i - 1 THEN 0 ELSE a.i - 1 - 0 + 1
    BY <2>1, FS_Interval
  <2>3. (IF 0 > a.i - 1 THEN 0 ELSE a.i - 1 - 0 + 1) = a.i
    BY <1>1, SMTT(60)
  <2> QED  BY <2>2, <2>3
<1>5. b = [a EXCEPT !.d = d]
  <2> DEFINE rank(s) == Cardinality({t \in 0..a.i - 1 :
                            a.d[t] < a.d[s] \/ (a.d[t] = a.d[s] /\ t < s)})
  <2>1. b = [a EXCEPT !.d = [s \in DOMAIN a.d |->
                               IF s < a.i THEN a.d[CHOOSE t \in 0..a.i - 1 : rank(t) = s]
                               ELSE a.d[s]]]
    BY DEF utarray_sort
  <2>2. \A t \in N : Cardinality(below[t]) = rank(t)
    OBVIOUS
  <2> HIDE DEF rank, below
  <2>3. \A s \in N : p[s] = CHOOSE t \in N : rank(t) = s
    BY <2>2
  <2>4. DOMAIN a.d = 0..a.n - 1
    BY <1>1
  <2>5. d = [s \in DOMAIN a.d |-> IF s < a.i THEN a.d[CHOOSE t \in 0..a.i - 1 : rank(t) = s]
                                  ELSE a.d[s]]
    <3> HIDE DEF p
    <3> QED  BY <1>2, <2>3, <2>4
  <2> HIDE DEF b, d
  <2> QED  BY <2>1, <2>5
<1> HIDE DEF N
<1>6. Ordered(N, below)
  <2>1. /\ \A x \in N : ~(a.d[x] < a.d[x] \/ (a.d[x] = a.d[x] /\ x < x))
        /\ \A x, y \in N : x # y => \/ a.d[x] < a.d[y] \/ (a.d[x] = a.d[y] /\ x < y)
                                    \/ a.d[y] < a.d[x] \/ (a.d[y] = a.d[x] /\ y < x)
    BY <1>2, <1>3, SMTT(60)
  <2>2. \A x, y, z \in N :
          /\ a.d[x] < a.d[y] \/ (a.d[x] = a.d[y] /\ x < y)
          /\ a.d[z] < a.d[x] \/ (a.d[z] = a.d[x] /\ z < x)
          => a.d[z] < a.d[y] \/ (a.d[z] = a.d[y] /\ z < y)
    BY <1>2, <1>3, SMTT(60)
  <2>3. \A x, t \in N : t \in below[x] <=> a.d[t] < a.d[x] \/ (a.d[t] = a.d[x] /\ t < x)
    OBVIOUS
  <2>4. below \in [N -> SUBSET N]
    OBVIOUS
  <2> HIDE DEF below
  <2>5. \A x, y \in N : x \in below[y] => below[x] \subseteq below[y]
    BY <2>2, <2>3, <2>4
  <2> QED  BY <2>1, <2>3, <2>4, <2>5 DEF Ordered
<1>7. \A s, t \in N : a.d[t] < a.d[s] => t \in below[s]
  OBVIOUS
<1> HIDE DEF below
<1>8. /\ \A x \in N : Cardinality(below[x]) \in N
      /\ \A x, y \in N : x \in below[y] => Cardinality(below[x]) < Cardinality(below[y])
      /\ \A x, y \in N : Cardinality(below[x]) = Cardinality(below[y]) => x = y
      /\ \A i \in N : \E x \in N : Cardinality(below[x]) = i
  <2>1. N = 0..a.i - 1
    BY DEF N
  <2>2. 0..Cardinality(N) - 1 = N
    BY <1>4, <2>1
  <2>3. /\ \A x \in N : Cardinality(below[x]) \in 0..Cardinality(N) - 1
        /\ \A x, y \in N : x \in below[y] => Cardinality(below[x]) < Cardinality(below[y])
        /\ \A x, y \in N : Cardinality(below[x]) = Cardinality(below[y]) => x = y
        /\ \A i \in 0..Cardinality(N) - 1 : \E x \in N : Cardinality(below[x]) = i
    BY <1>4, <1>6, Ranks
  <2> QED  BY <2>2, <2>3
<1>9. \A s \in N : p[s] \in N /\ Cardinality(below[p[s]]) = s
  BY <1>8
<1>10. p \in [N -> N] /\ q \in [N -> N] /\ \A t \in N : q[t] = Cardinality(below[t])
  BY <1>8
<1> HIDE DEF p, q
<1>11. \A s \in N : q[p[s]] = s /\ p[q[s]] = s
  BY <1>8, <1>9, <1>10
<1>12. ASSUME NEW s \in N, NEW t \in N, s < t
       PROVE  a.d[p[s]] <= a.d[p[t]]
  <2>1. p[s] \in N /\ p[t] \in N /\ Cardinality(below[p[s]]) = s /\ Cardinality(below[p[t]]) = t
    BY <1>9
  <2>2. ~(t < s)
    BY <1>2, <1>12, SMTT(60)
  <2>3. ~(a.d[p[t]] < a.d[p[s]])
    BY <1>7, <1>8, <2>1, <2>2
  <2>4. a.d[p[t]] \in Int /\ a.d[p[s]] \in Int
    BY <1>3, <2>1
  <2> QED  BY <2>3, <2>4, SMTT(60)
<1>13. Sorting(p, q, a)
  BY <1>10, <1>11, <1>12 DEF Sorting, N
<1>14. d \in [0..a.n - 1 -> Int] /\ \A s \in N : d[s] = a.d[p[s]]
  <2>1. DOMAIN a.d = 0..a.n - 1
    BY <1>1
  <2> QED  BY <1>1, <1>2, <1>3, <1>9, <2>1
<1> HIDE DEF d, b
<1>15. DOMAIN b = DOMAIN a /\ b.d = d /\ b.i = a.i /\ b.n = a.n /\ b.open = a.open
  BY <1>1, <1>5
<1>16. Vector(b)
  BY <1>1, <1>14, <1>15 DEF Vector
<1>17. \A s \in 0..a.i - 1 : b.d[s] = a.d[p[s]]
  BY <1>14, <1>15 DEF N
<1> QED  BY <1>13, <1>15, <1>16, <1>17 DEF b

\* A set of places is no larger than the places its elements have in order.
LEMMA NoMoreThan ==
  ASSUME NEW N, NEW q \in [N -> N], \A s, t \in N : q[s] = q[t] => s = t,
         NEW S \in SUBSET N, NEW lo \in Nat, NEW h \in Nat,
         \A s \in S : q[s] \in lo..lo + h - 1
  PROVE  Cardinality(S) \in Nat /\ Cardinality(S) <= h
<1> DEFINE T == lo..lo + h - 1
           f == [s \in S |-> q[s]]
<1>1. IsFiniteSet(T) /\ Cardinality(T) = h
  <2>1. lo \in Int /\ lo + h - 1 \in Int
    BY SMTT(60)
  <2>2. IsFiniteSet(T) /\ Cardinality(T) = IF lo > lo + h - 1 THEN 0 ELSE lo + h - 1 - lo + 1
    BY <2>1, FS_Interval
  <2>3. (IF lo > lo + h - 1 THEN 0 ELSE lo + h - 1 - lo + 1) = h
    BY SMTT(60)
  <2> QED  BY <2>2, <2>3
<1>2. f \in [S -> T] /\ \A s, t \in S : f[s] = f[t] => s = t
  OBVIOUS
<1> HIDE DEF f, T
<1>3. f \in Injection(S, T)
  BY <1>2 DEF Injection, IsInjective
<1>4. IsFiniteSet(S) /\ Cardinality(S) <= Cardinality(T)
  BY <1>1, <1>3, FS_Injection
<1> QED  BY <1>1, <1>4, FS_CardinalityType

\* Half of a number of elements.
LEMMA Halves ==
  ASSUME NEW i \in Nat, i > 0
  PROVE  LET h == i \div 2
         IN  /\ h \in Nat /\ i - h \in Nat /\ h \in 0..i - 1 /\ 2 * h <= i
             /\ i % 2 = 1 => i = 2 * h + 1
             /\ i % 2 # 1 => i = 2 * h /\ h - 1 \in 0..i - 1 /\ h - 1 < h
<1> DEFINE h == i \div 2
           r == i % 2
<1>1. h \in Nat /\ r \in 0..1 /\ i = 2 * h + r
  BY SMTT(60)
<1> HIDE DEF h, r
<1>2. /\ h \in Nat /\ i - h \in Nat /\ h \in 0..i - 1 /\ 2 * h <= i
      /\ r = 1 => i = 2 * h + 1
      /\ r # 1 => i = 2 * h /\ h - 1 \in 0..i - 1 /\ h - 1 < h
  BY <1>1, SMTT(60)
<1> QED  BY <1>2 DEF h, r

\* The median of a vector lies in the middle of its elements.
LEMMA MedianInMiddle ==
  ASSUME NEW a, Vector(a), a.i > 0
  PROVE  /\ 2 * Cardinality({s \in 0..a.i - 1 : 2 * a.d[s] < Median2(a)}) <= a.i
         /\ 2 * Cardinality({s \in 0..a.i - 1 : 2 * a.d[s] > Median2(a)}) <= a.i
<1> DEFINE N == 0..a.i - 1
           b == utarray_sort(a)
           h == a.i \div 2
           m == Median2(a)
           lower == {s \in N : 2 * a.d[s] < m}
           upper == {s \in N : 2 * a.d[s] > m}
<1>1. a.i \in Nat /\ a.n \in Nat /\ a.i <= a.n /\ a.d \in [0..a.n - 1 -> Int]
  BY DEF Vector
<1>2. \A s \in N : s \in Nat /\ a.d[s] \in Int
  <2>1. \A s \in N : s \in Nat /\ s \in 0..a.n - 1
    BY <1>1, SMTT(60)
  <2> QED  BY <1>1, <2>1
<1>3. PICK p, q : Sorting(p, q, a) /\ \A s \in N : b.d[s] = a.d[p[s]]
  BY SortsElements
<1>4. b.i = a.i
  BY SortsElements
<1>5. /\ p \in [N -> N] /\ q \in [N -> N] /\ \A s \in N : q[p[s]] = s /\ p[q[s]] = s
      /\ \A s, t \in N : s < t => b.d[s] <= b.d[t]
      /\ \A s \in N : b.d[s] \in Int /\ a.d[s] = b.d[q[s]]
  BY <1>2, <1>3 DEF Sorting
<1>6. /\ h \in Nat /\ a.i - h \in Nat /\ h \in N /\ 2 * h <= a.i
      /\ a.i % 2 = 1 => a.i = 2 * h + 1
      /\ a.i % 2 # 1 => a.i = 2 * h /\ h - 1 \in N /\ h - 1 < h
  BY <1>1, Halves
<1>7. m = IF a.i % 2 = 1 THEN 2 * b.d[h] ELSE b.d[h - 1] + b.d[h]
  BY <1>4 DEF Median2
<1>8. a.i = 2 * h + 1 \/ a.i = 2 * h
  BY <1>6
<1>9. ASSUME NEW s \in N
      PROVE  /\ 2 * b.d[s] < m => s \in 0..0 + h - 1
             /\ 2 * b.d[s] > m => s \in (a.i - h)..(a.i - h) + h - 1
  <2>0. s < a.i
    BY <1>1, SMTT(60)
  <2>1. b.d[s] \in Int /\ b.d[h] \in Int /\ s \in Nat /\ s < a.i
    BY <1>2, <1>5, <1>6, <2>0
  <2>2. (s < h => b.d[s] <= b.d[h]) /\ (h < s => b.d[h] <= b.d[s])
    BY <1>5, <1>6
  <2>3. CASE a.i % 2 = 1
    <3>1. m = 2 * b.d[h] /\ a.i = 2 * h + 1
      BY <1>6, <1>7, <2>3
    <3> HIDE DEF m, b, h
    <3>2. 2 * b.d[s] < m => s < h
      BY <1>6, <2>1, <2>2, <3>1, SMTT(60)
    <3>3. 2 * b.d[s] > m => s > h
      BY <1>6, <2>1, <2>2, <3>1, SMTT(60)
    <3> QED  BY <1>6, <2>1, <3>1, <3>2, <3>3, SMTT(60)
  <2>4. CASE a.i % 2 # 1
    <3>1. m = b.d[h - 1] + b.d[h] /\ a.i = 2 * h
      BY <1>6, <1>7, <2>4
    <3>2. /\ b.d[h - 1] \in Int /\ b.d[h - 1] <= b.d[h]
          /\ (s < h - 1 => b.d[s] <= b.d[h - 1])
      BY <1>5, <1>6, <2>4
    <3> HIDE DEF m, b, h
    <3>3. 2 * b.d[s] < m => s < h
      BY <1>6, <2>1, <2>2, <3>1, <3>2, SMTT(60)
    <3>4. 2 * b.d[s] > m => s >= h
      BY <1>6, <2>1, <2>2, <3>1, <3>2, SMTT(60)
    <3> QED  BY <1>6, <2>1, <3>1, <3>3, <3>4, SMTT(60)
  <2> QED  BY <2>3, <2>4
<1>10. \A s, t \in N : q[s] = q[t] => s = t
  BY <1>5
<1>11. /\ \A s \in lower : q[s] \in 0..0 + h - 1
       /\ \A s \in upper : q[s] \in (a.i - h)..(a.i - h) + h - 1
  BY <1>5, <1>9
<1>12. lower \in SUBSET N /\ upper \in SUBSET N /\ 0 \in Nat
  OBVIOUS
<1> HIDE DEF m, b, h, N, lower, upper
<1>13. Cardinality(lower) \in Nat /\ Cardinality(lower) <= h
  BY <1>5, <1>6, <1>10, <1>11, <1>12, NoMoreThan
<1>14. Cardinality(upper) \in Nat /\ Cardinality(upper) <= h
  <2> DEFINE lo == a.i - h
  <2>1. lo \in Nat /\ \A s \in upper : q[s] \in lo..lo + h - 1
    BY <1>6, <1>11
  <2> HIDE DEF lo
  <2> QED  BY <1>5, <1>6, <1>10, <1>12, <2>1, NoMoreThan
<1>15. 2 * Cardinality(lower) <= a.i /\ 2 * Cardinality(upper) <= a.i
  BY <1>1, <1>6, <1>13, <1>14, SMTT(60)
<1> QED  BY <1>15 DEF lower, upper, m, N

VectorInv == Vector(va) /\ va.open \in BOOLEAN /\ (~va.open => va.i = 0)

ItemsOf(a) == [j \in 1..a.i |-> a.d[j - 1]]

\* The elements of a vector are a sequence.
LEMMA ItemsSeq ==
  ASSUME NEW a, Vector(a)
  PROVE  /\ ItemsOf(a) \in Seq(Int) /\ Len(ItemsOf(a)) = a.i
         /\ \A j \in 1..a.i : ItemsOf(a)[j] = a.d[j - 1]
<1>1. a.i \in Nat /\ a.n \in Nat /\ a.i <= a.n /\ a.d \in [0..a.n - 1 -> Int]
  BY DEF Vector
<1>2. \A j \in 1..a.i : j - 1 \in 0..a.n - 1
  BY <1>1, SMTT(60)
<1>3. ItemsOf(a) \in [1..a.i -> Int] /\ \A j \in 1..a.i : ItemsOf(a)[j] = a.d[j - 1]
  BY <1>1, <1>2 DEF ItemsOf
<1>4. ItemsOf(a) \in Seq(Int)
  BY <1>1, <1>3, SeqDef
<1>5. Len(ItemsOf(a)) = a.i
  <2> DEFINE f == ItemsOf(a)
  <2>1. f \in Seq(Int) /\ DOMAIN f = 1..a.i
    BY <1>3, <1>4
  <2> HIDE DEF f
  <2>2. Len(f) = a.i
    BY <1>1, <2>1, SMTT(60)
  <2> QED  BY <2>2 DEF f
<1> QED  BY <1>3, <1>4, <1>5

\* Sequences with the same elements are the same.
LEMMA SameItems ==
  ASSUME NEW a, Vector(a), NEW t \in Seq(Int), Len(t) = a.i,
         \A j \in 1..a.i : t[j] = a.d[j - 1]
  PROVE  ItemsOf(a) = t
  BY ItemsSeq, SeqEqual

\* A push is one (utarray_push_back).
LEMMA VectorPush ==
  ASSUME VectorInv, NEW x \in Elements, nrm_vector_push_back(x)
  PROVE  VectorInv' /\ Contents!Push
<1> DEFINE s == Append(ItemsOf(va), x)
<1>1. va.open /\ va' = utarray_push_back(va, x) /\ vectorcall' = <<"push", x>>
  BY DEF nrm_vector_push_back
<1>2. x \in Int
  BY VectorAssumption, SMTT(60)
<1>3. /\ Vector(va') /\ va'.i = va.i + 1 /\ va'.open = va.open
      /\ \A t \in 0..va.i - 1 : va'.d[t] = va.d[t]
      /\ va'.d[va.i] = x
  <2>1. Vector(va)
    BY DEF VectorInv
  <2> DEFINE b == utarray_push_back(va, x)
  <2>2. /\ Vector(b) /\ b.i = va.i + 1 /\ b.open = va.open
        /\ \A t \in 0..va.i - 1 : b.d[t] = va.d[t]
        /\ b.d[va.i] = x
    BY <1>2, <2>1, PushedBack
  <2> HIDE DEF b
  <2>3. va' = b
    BY <1>1 DEF b
  <2> QED  BY <2>2, <2>3
<1>4. /\ ItemsOf(va) \in Seq(Int) /\ Len(ItemsOf(va)) = va.i /\ va.i \in Nat
      /\ \A j \in 1..va.i : ItemsOf(va)[j] = va.d[j - 1]
  BY ItemsSeq DEF VectorInv, Vector
<1>5. /\ s \in Seq(Int) /\ Len(s) = va'.i
      /\ s[va.i + 1] = x /\ \A j \in 1..va.i : s[j] = ItemsOf(va)[j]
  <2> DEFINE q == ItemsOf(va)
  <2>1. q \in Seq(Int) /\ Len(q) = va.i
    BY <1>4
  <2> HIDE DEF q
  <2>2. /\ Append(q, x) \in Seq(Int) /\ Len(Append(q, x)) = va.i + 1
        /\ Append(q, x)[va.i + 1] = x /\ \A j \in 1..va.i : Append(q, x)[j] = q[j]
    BY <1>2, <2>1, SMTT(60)
  <2> QED  BY <1>3, <2>2 DEF q
<1> HIDE DEF s
<1>6. ASSUME NEW j \in 1..va'.i PROVE s[j] = va'.d[j - 1]
  <2>1. CASE j = va.i + 1
    <3>1. j - 1 = va.i
      BY <1>4, <2>1, SMTT(60)
    <3> QED  BY <1>3, <1>5, <2>1, <3>1
  <2>2. CASE j # va.i + 1
    <3>1. j \in 1..va.i /\ j - 1 \in 0..va.i - 1
      BY <1>3, <1>4, <2>2, SMTT(60)
    <3> QED  BY <1>3, <1>4, <1>5, <3>1
  <2> QED  BY <2>1, <2>2
<1>7. ItemsOf(va') = s
  BY <1>3, <1>5, <1>6, SameItems
<1>8. Contents!Push
  <2>1. VectorItems = ItemsOf(va) /\ VectorItems' = ItemsOf(va')
    BY DEF VectorItems, ItemsOf
  <2>2. (IF va.open THEN 1 ELSE 0) = 1 /\ (IF va'.open THEN 1 ELSE 0) = 1 /\ 1 > 0
    BY <1>1, <1>3, SMTT(60)
  <2> QED  BY <1>1, <1>7, <2>1, <2>2 DEF Contents!Push, s
<1> QED  BY <1>1, <1>3, <1>8 DEF VectorInv

\* A step that edits the contents of a vector and does not open or close it.
Edits(t) ==
  /\ va.open /\ Vector(va') /\ va'.open = va.open
  /\ t \in Seq(Int) /\ Len(t) = va'.i /\ \A j \in 1..va'.i : t[j] = va'.d[j - 1]

\* What such a step does to the contents.
LEMMA EditsContents ==
  ASSUME VectorInv, NEW t, Edits(t)
  PROVE  /\ VectorInv'
         /\ VectorItems' = t /\ VectorItems = ItemsOf(va)
         /\ VectorItems \in Seq(Int) /\ Len(VectorItems) = va.i
         /\ \A j \in 1..va.i : VectorItems[j] = va.d[j - 1]
         /\ (IF va.open THEN 1 ELSE 0) = 1 /\ (IF va'.open THEN 1 ELSE 0) = 1 /\ 1 > 0
<1>1. VectorItems' = ItemsOf(va') /\ VectorItems = ItemsOf(va)
  BY DEF VectorItems, ItemsOf
<1>2. ItemsOf(va') = t
  BY SameItems DEF Edits
<1>3. VectorInv' /\ (IF va.open THEN 1 ELSE 0) = 1 /\ (IF va'.open THEN 1 ELSE 0) = 1
  BY DEF VectorInv, Edits
<1>4. 1 > 0
  BY SMTT(60)
<1> QED  BY <1>1, <1>2, <1>3, <1>4, ItemsSeq DEF VectorInv

\* A copy has the same contents.
LEMMA VectorCopy ==
  ASSUME VectorInv, nrm_vector_copy
  PROVE  VectorInv' /\ Contents!Edit
<1>1. va.open /\ va' = utarray_concat(EmptyVector, va) /\ vectorcall' = <<"copy">>
  BY DEF nrm_vector_copy
<1>2. /\ Vector(va') /\ va'.i = va.i /\ va'.open = TRUE
      /\ \A s \in 0..va.i - 1 : va'.d[s] = va.d[s]
  BY <1>1, Copied DEF VectorInv
<1>3. va.i \in Nat /\ va.open = TRUE
  BY <1>1 DEF VectorInv, Vector
<1>4. \A j \in 1..va.i : j - 1 \in 0..va.i - 1
  BY <1>3, SMTT(60)
<1>5. Edits(ItemsOf(va))
  <2>1. /\ ItemsOf(va) \in Seq(Int) /\ Len(ItemsOf(va)) = va.i
        /\ \A j \in 1..va.i : ItemsOf(va)[j] = va.d[j - 1]
    BY ItemsSeq DEF VectorInv
  <2>2. \A j \in 1..va.i : va'.d[j - 1] = va.d[j - 1]
    BY <1>2, <1>4
  <2> QED  BY <1>2, <1>3, <2>1, <2>2 DEF Edits
<1>6. /\ VectorInv' /\ VectorItems' = VectorItems
      /\ (IF va.open THEN 1 ELSE 0) = 1 /\ (IF va'.open THEN 1 ELSE 0) = 1 /\ 1 > 0
  BY <1>5, EditsContents
<1> QED  BY <1>1, <1>6 DEF Contents!Edit

\* A new length drops elements at the end or adds zeroes there.
LEMMA VectorResize ==
  ASSUME VectorInv, NEW len \in 0..MaxLen, nrm_vector_resize(len)
  PROVE  VectorInv' /\ Contents!Edit
<1> DEFINE t == [j \in 1..len |-> IF j <= va.i THEN va.d[j - 1] ELSE 0]
           u == [j \in 1..len |-> IF j <= Len(VectorItems) THEN VectorItems[j] ELSE 0]
<1>1. va.open /\ va' = utarray_resize(va, len) /\ vectorcall' = <<"resize", len>>
  BY DEF nrm_vector_resize
<1>2. len \in Nat
  BY VectorAssumption, SMTT(60)
<1>3. /\ Vector(va') /\ va'.i = len /\ va'.open = va.open
      /\ \A s \in 0..len - 1 : va'.d[s] = IF s < va.i THEN va.d[s] ELSE 0
  <2>1. Vector(va)
    BY DEF VectorInv
  <2> HIDE DEF t, u
  <2> QED  BY <1>1, <1>2, <2>1, Resized, ZenonT(30)
<1>4. va.i \in Nat
  BY DEF VectorInv, Vector
<1>5. \A j \in 1..len : j - 1 \in 0..len - 1 /\ (j <= va.i <=> j - 1 < va.i)
                        /\ (j <= va.i => j \in 1..va.i)
  BY <1>2, <1>4, SMTT(60)
<1>6. \A j \in 1..len : t[j] = va'.d[j - 1]
  BY <1>3, <1>5
<1>7. ItemsOf(va') = t
  BY <1>3, <1>6 DEF ItemsOf
<1> HIDE DEF t
<1>8. Edits(t)
  <2>1. t \in Seq(Int) /\ Len(t) = va'.i /\ \A j \in 1..va'.i : t[j] = va'.d[j - 1]
    BY <1>3, <1>7, ItemsSeq
  <2> QED  BY <1>1, <1>3, <2>1 DEF Edits
<1>9. /\ VectorInv' /\ VectorItems' = t /\ Len(VectorItems) = va.i /\ Len(t) = len
      /\ \A j \in 1..va.i : VectorItems[j] = va.d[j - 1]
      /\ (IF va.open THEN 1 ELSE 0) = 1 /\ (IF va'.open THEN 1 ELSE 0) = 1 /\ 1 > 0
  BY <1>3, <1>8, EditsContents DEF Edits
<1>10. t = u
  BY <1>5, <1>9 DEF t
<1>11. vectorcall' = <<"resize", Len(VectorItems')>> /\ vectorcall'[2] = len
  BY <1>1, <1>9
<1>12. VectorItems' = [j \in 1..vectorcall'[2] |-> IF j <= Len(VectorItems) THEN VectorItems[j] ELSE 0]
  BY <1>9, <1>10, <1>11
<1> QED  BY <1>9, <1>11, <1>12 DEF Contents!Edit

\* The last element is dropped.
LEMMA VectorPop ==
  ASSUME VectorInv, nrm_vector_pop_back
  PROVE  VectorInv' /\ Contents!Edit
<1> DEFINE q == ItemsOf(va)
           t == SubSeq(q, 1, va.i - 1)
<1>1. va.open /\ va.i > 0 /\ va' = [va EXCEPT !.i = va.i - 1] /\ vectorcall' = <<"pop">>
  BY DEF nrm_vector_pop_back
<1>2. /\ DOMAIN va = {"open", "i", "n", "d"} /\ va.i \in Nat /\ va.n \in Nat /\ va.i <= va.n
      /\ va.d \in [0..va.n - 1 -> Int]
  BY DEF VectorInv, Vector
<1>3. DOMAIN va' = DOMAIN va /\ va'.i = va.i - 1 /\ va'.n = va.n /\ va'.d = va.d /\ va'.open = va.open
  BY <1>1, <1>2
<1>4. va.i - 1 \in Nat /\ va.i - 1 <= va.n /\ \A j \in 1..va.i - 1 : j \in 1..va.i
  BY <1>1, <1>2, SMTT(60)
<1>5. Vector(va')
  BY <1>2, <1>3, <1>4 DEF Vector
<1>6. q \in Seq(Int) /\ Len(q) = va.i /\ \A j \in 1..va.i : q[j] = va.d[j - 1]
  BY ItemsSeq DEF VectorInv
<1> HIDE DEF q
<1>7. t \in Seq(Int) /\ Len(t) = va.i - 1 /\ \A j \in 1..va.i - 1 : t[j] = q[j]
  BY <1>4, <1>6, SMTT(60)
<1> HIDE DEF t
<1>8. Edits(t)
  BY <1>1, <1>3, <1>4, <1>5, <1>6, <1>7 DEF Edits
<1>9. /\ VectorInv' /\ VectorItems' = t /\ Len(VectorItems) = va.i /\ VectorItems = q
      /\ (IF va.open THEN 1 ELSE 0) = 1 /\ (IF va'.open THEN 1 ELSE 0) = 1 /\ 1 > 0
  BY <1>8, EditsContents DEF q
<1> QED  BY <1>1, <1>9 DEF Contents!Edit, t

\* An element is taken out of the middle.
LEMMA VectorTake ==
  ASSUME VectorInv, NEW pos \in 0..MaxLen, nrm_vector_take(pos)
  PROVE  VectorInv' /\ Contents!Edit
<1> DEFINE q == ItemsOf(va)
           n == va.i
           t == SubSeq(q, 1, pos) \o SubSeq(q, pos + 2, n)
<1>1. va.open /\ pos < n /\ va' = utarray_erase(va, pos) /\ vectorcall' = <<"take", pos>>
  BY DEF nrm_vector_take
<1>2. pos \in Nat /\ n \in Nat
  BY VectorAssumption, SMTT(60) DEF VectorInv, Vector
<1>3. /\ Vector(va') /\ va'.i = n - 1 /\ va'.open = va.open
      /\ \A s \in 0..n - 2 : va'.d[s] = IF s < pos THEN va.d[s] ELSE va.d[s + 1]
  <2>1. Vector(va)
    BY DEF VectorInv
  <2> QED  BY <1>1, <1>2, <2>1, Erased, ZenonT(30)
<1>4. q \in Seq(Int) /\ Len(q) = n /\ \A j \in 1..n : q[j] = va.d[j - 1]
  BY ItemsSeq DEF VectorInv
<1> HIDE DEF q, n
<1>5. /\ t \in Seq(Int) /\ Len(t) = n - 1
      /\ \A j \in 1..n - 1 : t[j] = IF j <= pos THEN q[j] ELSE q[j + 1]
  <2> DEFINE u == SubSeq(q, 1, pos)
             v == SubSeq(q, pos + 2, n)
  <2>1. u \in Seq(Int) /\ Len(u) = pos /\ \A j \in 1..pos : u[j] = q[j]
    <3>1. 1 \in Int /\ pos \in Int /\ \A j \in 1..pos : q[j] \in Int
      BY <1>1, <1>2, <1>4, SMTT(60)
    <3>2. /\ u \in Seq(Int) /\ Len(u) = IF 1 <= pos THEN pos - 1 + 1 ELSE 0
          /\ \A j \in 1..pos - 1 + 1 : u[j] = q[1 + j - 1]
      BY <3>1, SubSeqProperties
    <3>3. /\ pos - 1 + 1 = pos /\ (~(1 <= pos) => pos = 0)
          /\ \A j \in 1..pos : 1 + j - 1 = j
      BY <1>2, SMTT(60)
    <3> HIDE DEF u
    <3> QED  BY <3>2, <3>3
  <2>2. v \in Seq(Int) /\ Len(v) = n - pos - 1 /\ \A j \in 1..n - pos - 1 : v[j] = q[j + pos + 1]
    <3>1. pos + 2 \in Int /\ n \in Int /\ \A j \in pos + 2..n : q[j] \in Int
      BY <1>1, <1>2, <1>4, SMTT(60)
    <3>2. /\ v \in Seq(Int) /\ Len(v) = IF pos + 2 <= n THEN n - (pos + 2) + 1 ELSE 0
          /\ \A j \in 1..n - (pos + 2) + 1 : v[j] = q[(pos + 2) + j - 1]
      BY <3>1, SubSeqProperties
    <3>3. /\ n - (pos + 2) + 1 = n - pos - 1
          /\ ~(pos + 2 <= n) => n - pos - 1 = 0
          /\ \A j \in 1..n - pos - 1 : (pos + 2) + j - 1 = j + pos + 1
      BY <1>1, <1>2, SMTT(60)
    <3> HIDE DEF v
    <3> QED  BY <3>2, <3>3
  <2> HIDE DEF u, v
  <2>3. u \o v \in Seq(Int) /\ Len(u \o v) = n - 1
    BY <1>1, <1>2, <2>1, <2>2, SMTT(60)
  <2>4. ASSUME NEW j \in 1..n - 1 PROVE (u \o v)[j] = IF j <= pos THEN q[j] ELSE q[j + 1]
    <3>1. CASE j <= pos
      <4>1. (u \o v)[j] = u[j] /\ j \in 1..pos
        BY <1>1, <1>2, <2>1, <2>2, <3>1, SMTT(60)
      <4> QED  BY <2>1, <3>1, <4>1
    <3>2. CASE ~(j <= pos)
      <4>1. (u \o v)[j] = v[j - pos] /\ j - pos \in 1..n - pos - 1 /\ (j - pos) + pos + 1 = j + 1
        BY <1>1, <1>2, <2>1, <2>2, <3>2, SMTT(60)
      <4> QED  BY <2>2, <3>2, <4>1
    <3> QED  BY <3>1, <3>2
  <2> QED  BY <2>3, <2>4 DEF u, v
<1> HIDE DEF t
<1>6. ASSUME NEW j \in 1..n - 1 PROVE t[j] = va'.d[j - 1]
  <2>1. /\ j - 1 \in 0..n - 2 /\ (j - 1 < pos <=> j <= pos) /\ (j - 1) + 1 = j
        /\ j \in 1..n /\ j + 1 \in 1..n /\ (j + 1) - 1 = j
    BY <1>1, <1>2, SMTT(60)
  <2>2. va'.d[j - 1] = IF j <= pos THEN va.d[j - 1] ELSE va.d[j]
    BY <1>3, <2>1
  <2>3. q[j] = va.d[j - 1] /\ q[j + 1] = va.d[j]
    BY <1>4, <2>1
  <2> QED  BY <1>5, <2>2, <2>3
<1>7. Edits(t)
  BY <1>1, <1>3, <1>5, <1>6 DEF Edits
<1>8. /\ VectorInv' /\ VectorItems' = t /\ Len(VectorItems) = n /\ VectorItems = q
      /\ (IF va.open THEN 1 ELSE 0) = 1 /\ (IF va'.open THEN 1 ELSE 0) = 1 /\ 1 > 0
  BY <1>7, EditsContents DEF q, n
<1>9. pos + 1 \in 1..n /\ (pos + 1) - 1 = pos /\ (pos + 1) + 1 = pos + 2
  BY <1>1, <1>2, SMTT(60)
<1>10. \E p \in 1..Len(VectorItems) :
          /\ vectorcall' = <<"take", p - 1>>
          /\ VectorItems' = SubSeq(VectorItems, 1, p - 1) \o SubSeq(VectorItems, p + 1, Len(VectorItems))
  <2> DEFINE p == pos + 1
  <2>1. p \in 1..Len(VectorItems) /\ p - 1 = pos /\ p + 1 = pos + 2
    BY <1>8, <1>9
  <2>2. VectorItems' = SubSeq(VectorItems, 1, pos) \o SubSeq(VectorItems, pos + 2, Len(VectorItems))
    BY <1>8 DEF t
  <2> HIDE DEF p
  <2> QED  BY <1>1, <2>1, <2>2
<1> QED  BY <1>8, <1>10 DEF Contents!Edit

\* t has the n elements of q in ascending order.
SortedFrom(t, q, n) ==
  /\ Len(t) = n
  /\ \A j \in 1..n - 1 : t[j] <= t[j + 1]
  /\ \E p \in [1..n -> 1..n] :
        /\ \A j, k \in 1..n : p[j] = p[k] => j = k
        /\ t = [j \in 1..n |-> q[p[j]]]

\* Sorting permutes the elements into ascending order.
LEMMA VectorSort ==
  ASSUME VectorInv, nrm_vector_sort
  PROVE  VectorInv' /\ Contents!Edit
<1> DEFINE q == ItemsOf(va)
           t == ItemsOf(va')
           n == va.i
<1>1. va.open /\ va' = utarray_sort(va) /\ vectorcall' = <<"sort">>
  BY DEF nrm_vector_sort
<1>2. Vector(va) /\ n \in Nat /\ va.d \in [0..va.n - 1 -> Int] /\ va.n \in Nat /\ n <= va.n
  BY DEF VectorInv, Vector
<1>3. /\ Vector(va') /\ va'.i = n /\ va'.open = va.open
      /\ \E o, r : Sorting(o, r, va) /\ \A s \in 0..n - 1 : va'.d[s] = va.d[o[s]]
  <2> DEFINE b == utarray_sort(va)
  <2>1. /\ Vector(b) /\ b.i = n /\ b.open = va.open
        /\ \E o, r : Sorting(o, r, va) /\ \A s \in 0..n - 1 : b.d[s] = va.d[o[s]]
    BY <1>2, SortsElements
  <2> HIDE DEF b
  <2>2. va' = b
    BY <1>1 DEF b
  <2> QED  BY <2>1, <2>2
<1>4. PICK o, r : Sorting(o, r, va) /\ \A s \in 0..n - 1 : va'.d[s] = va.d[o[s]]
  BY <1>3
<1>5. /\ t \in Seq(Int) /\ Len(t) = n /\ \A j \in 1..n : t[j] = va'.d[j - 1]
      /\ q \in Seq(Int) /\ Len(q) = n /\ \A j \in 1..n : q[j] = va.d[j - 1]
  BY <1>2, <1>3, ItemsSeq
<1>6. Edits(t)
  BY <1>1, <1>3, <1>5 DEF Edits
<1>7. /\ VectorInv' /\ VectorItems' = t /\ Len(VectorItems) = n /\ VectorItems = q
      /\ (IF va.open THEN 1 ELSE 0) = 1 /\ (IF va'.open THEN 1 ELSE 0) = 1 /\ 1 > 0
  BY <1>6, EditsContents
<1>8. /\ o \in [0..n - 1 -> 0..n - 1] /\ r \in [0..n - 1 -> 0..n - 1]
      /\ \A s \in 0..n - 1 : r[o[s]] = s
      /\ \A s, u \in 0..n - 1 : s < u => va.d[o[s]] <= va.d[o[u]]
  BY <1>4 DEF Sorting
<1> HIDE DEF q, t, n
<1>9. \A j \in 1..n - 1 : t[j] <= t[j + 1]
  <2> SUFFICES ASSUME NEW j \in 1..n - 1 PROVE t[j] <= t[j + 1]
    OBVIOUS
  <2>1. /\ j \in 1..n /\ j + 1 \in 1..n /\ (j + 1) - 1 = j
        /\ j - 1 \in 0..n - 1 /\ j \in 0..n - 1 /\ j - 1 < j
    BY <1>2, SMTT(60)
  <2>2. t[j] = va.d[o[j - 1]] /\ t[j + 1] = va.d[o[j]]
    BY <1>4, <1>5, <2>1 DEF n
  <2> QED  BY <1>8, <2>1, <2>2
<1> DEFINE p == [j \in 1..n |-> o[j - 1] + 1]
<1>10. \A j \in 1..n : j - 1 \in 0..n - 1 /\ \A k \in 1..n : j - 1 = k - 1 => j = k
  BY <1>2, SMTT(60)
<1>11. \A s \in 0..n - 1 : s + 1 \in 1..n /\ (s + 1) - 1 = s
  BY <1>2, SMTT(60)
<1>12. p \in [1..n -> 1..n] /\ \A j \in 1..n : p[j] = o[j - 1] + 1 /\ p[j] - 1 = o[j - 1]
  BY <1>8, <1>10, <1>11
<1> HIDE DEF p
<1>13. \A j, k \in 1..n : p[j] = p[k] => j = k
  BY <1>8, <1>10, <1>12
<1>14. \A j \in 1..n : t[j] = q[p[j]]
  <2> SUFFICES ASSUME NEW j \in 1..n PROVE t[j] = q[p[j]]
    OBVIOUS
  <2>1. t[j] = va.d[o[j - 1]]
    BY <1>4, <1>5, <1>10
  <2>2. q[p[j]] = va.d[p[j] - 1]
    BY <1>5, <1>12
  <2> QED  BY <1>12, <2>1, <2>2
<1>15. t = [j \in 1..n |-> q[p[j]]]
  <2>1. DOMAIN t = 1..n /\ t = [j \in DOMAIN t |-> t[j]]
    BY <1>5, LenProperties
  <2> QED  BY <1>14, <2>1
<1>16. \E pp \in [1..n -> 1..n] :
          /\ \A j, k \in 1..n : pp[j] = pp[k] => j = k
          /\ t = [j \in 1..n |-> q[pp[j]]]
  BY <1>12, <1>13, <1>15
<1>17. SortedFrom(t, q, n)
  BY <1>5, <1>9, <1>16 DEF SortedFrom
<1>18. SortedFrom(VectorItems', VectorItems, Len(VectorItems))
  BY <1>7, <1>17
<1> QED  BY <1>1, <1>7, <1>18 DEF Contents!Edit, SortedFrom

\* Every step of a vector is a step of the sequence its user reads from it.
LEMMA VectorStep ==
  ASSUME VectorInv, VectorNext
  PROVE  VectorInv' /\ Contents!Next
<1>0. ASSUME NEW a, Vector(a), a.i = 0
      PROVE  ItemsOf(a) = << >>
  <2>1. << >> \in Seq(Int) /\ Len(<< >>) = a.i /\ 1..a.i = {}
    BY <1>0, EmptySeq, SMTT(60)
  <2> QED  BY <1>0, <2>1, SameItems
<1>a. VectorItems = ItemsOf(va) /\ VectorItems' = ItemsOf(va')
  BY DEF VectorItems, ItemsOf
<1>1. CASE nrm_vector_create
  <2>1. ~va.open /\ va' = EmptyVector /\ vectorcall' = <<"create", 1>>
    BY <1>1 DEF nrm_vector_create
  <2>2. VectorItems = << >>
    BY <1>0, <1>a, <2>1 DEF VectorInv
  <2>3. VectorItems' = << >> /\ VectorInv' /\ va'.open
    BY <1>0, <1>a, <2>1, EmptyIsVector DEF VectorInv
  <2>4. (IF va.open THEN 1 ELSE 0) = 0 /\ (IF va'.open THEN 1 ELSE 0) = 1 /\ 1 > 0
    BY <2>1, <2>3, SMTT(60)
  <2>5. Contents!Create
    BY <2>1, <2>2, <2>3, <2>4 DEF Contents!Create
  <2> QED  BY <2>3, <2>5 DEF Contents!Next
<1>2. CASE nrm_vector_destroy
  <2>1. va.open /\ va' = NoVector /\ vectorcall' = <<"destroy">>
    BY <1>2 DEF nrm_vector_destroy
  <2>2. VectorItems' = << >> /\ VectorInv' /\ ~va'.open
    BY <1>0, <1>a, <2>1, EmptyIsVector DEF VectorInv
  <2>3. (IF va.open THEN 1 ELSE 0) = 1 /\ (IF va'.open THEN 1 ELSE 0) = 0 /\ 1 > 0
    BY <2>1, <2>2, SMTT(60)
  <2>4. Contents!Destroy
    BY <2>1, <2>2, <2>3 DEF Contents!Destroy
  <2> QED  BY <2>2, <2>4 DEF Contents!Next
<1>3. CASE nrm_vector_clear
  <2>1. va.open /\ va' = [va EXCEPT !.i = 0] /\ vectorcall' = <<"clear">>
    BY <1>3 DEF nrm_vector_clear
  <2>2. /\ DOMAIN va = {"open", "i", "n", "d"} /\ va.n \in Nat /\ va.d \in [0..va.n - 1 -> Int]
    BY DEF VectorInv, Vector
  <2>3. DOMAIN va' = DOMAIN va /\ va'.i = 0 /\ va'.n = va.n /\ va'.d = va.d /\ va'.open = va.open
    BY <2>1, <2>2
  <2>4. 0 <= va.n /\ 0 \in Nat
    BY <2>2, SMTT(60)
  <2>5. Vector(va')
    BY <2>2, <2>3, <2>4 DEF Vector
  <2>6. VectorItems' = << >> /\ VectorInv'
    BY <1>0, <1>a, <2>3, <2>5 DEF VectorInv
  <2>7. (IF va.open THEN 1 ELSE 0) = 1 /\ (IF va'.open THEN 1 ELSE 0) = 1 /\ 1 > 0
    BY <2>1, <2>3, SMTT(60)
  <2>8. Contents!Clear
    BY <2>1, <2>6, <2>7 DEF Contents!Clear
  <2> QED  BY <2>6, <2>8 DEF Contents!Next
<1>4. CASE \E x \in Elements : nrm_vector_push_back(x)
  BY <1>4, VectorPush DEF Contents!Next
<1>5. CASE nrm_vector_copy
  BY <1>5, VectorCopy DEF Contents!Next
<1>6. CASE \E len \in 0..MaxLen : nrm_vector_resize(len)
  BY <1>6, VectorResize DEF Contents!Next
<1>7. CASE nrm_vector_pop_back
  BY <1>7, VectorPop DEF Contents!Next
<1>8. CASE \E pos \in 0..MaxLen : nrm_vector_take(pos)
  BY <1>8, VectorTake DEF Contents!Next
<1>9. CASE nrm_vector_sort
  BY <1>9, VectorSort DEF Contents!Next
<1> QED  BY <1>1, <1>2, <1>3, <1>4, <1>5, <1>6, <1>7, <1>8, <1>9 DEF VectorNext

\* The memory of a vector is well formed at the beginning and after a step.
LEMMA VectorConsistent ==
  /\ VectorInit => VectorInv
  /\ VectorInv /\ [VectorNext]_vectorvars => VectorInv'
<1>1. VectorInit => VectorInv
  BY EmptyIsVector DEF VectorInit, VectorInv
<1>2. VectorInv /\ [VectorNext]_vectorvars => VectorInv'
  <2>1. CASE UNCHANGED vectorvars
    BY <2>1 DEF vectorvars, VectorInv, Vector
  <2> QED  BY <2>1, VectorStep
<1> QED  BY <1>1, <1>2

\* A vector of any elements behaves as a sequence (VectorIsSequence): growing,
\* copying, padding, sorting and taking elements out never lose, repeat or
\* invent one, whatever the number of slots.
THEOREM VectorRefinesSequence == VectorInit /\ [][VectorNext]_vectorvars => VectorIsSequence
<1>1. VectorInit => Contents!Init
  <2> SUFFICES ASSUME VectorInit PROVE Contents!Init
    OBVIOUS
  <2>1. VectorItems = << >>
    <3>1. va = NoVector
      BY DEF VectorInit
    <3>2. << >> \in Seq(Int) /\ Len(<< >>) = va.i /\ 1..va.i = {}
      BY <3>1, EmptyIsVector, EmptySeq, SMTT(60)
    <3>3. ItemsOf(va) = << >>
      BY <3>1, <3>2, EmptyIsVector, SameItems
    <3> QED  BY <3>3 DEF VectorItems, ItemsOf
  <2> QED  BY <2>1, EmptyIsVector DEF VectorInit, Contents!Init
<1>2. VectorInv /\ [VectorNext]_vectorvars => [Contents!Next]_(Contents!vars)
  <2>1. CASE UNCHANGED vectorvars
    BY <2>1 DEF vectorvars, Contents!vars, VectorItems
  <2> QED  BY <2>1, VectorStep
<1> QED  BY <1>1, <1>2, VectorConsistent, PTL DEF VectorIsSequence, Contents!Spec

\* At most half of a policy's rates lie below the median it computes and at
\* most half above it, for any rates and any number of them.
THEOREM MedianIsMiddle == VectorInit /\ [][VectorNext]_vectorvars => []MedianSplits
<1>1. VectorInv => MedianSplits
  <2> SUFFICES ASSUME VectorInv, va.i > 0
               PROVE  /\ 2 * Cardinality({s \in 0..va.i - 1 : 2 * va.d[s] < Median2(va)}) <= va.i
                      /\ 2 * Cardinality({s \in 0..va.i - 1 : 2 * va.d[s] > Median2(va)}) <= va.i
    BY DEF MedianSplits
  <2> QED  BY MedianInMiddle DEF VectorInv
<1> QED  BY <1>1, VectorConsistent, PTL

-----------------------------------------------------------------------------
(* Hash tables. *)

Bucket == [chain : Seq(Keys), expand_mult : Nat]

\* A hash value has a bucket.
LEMMA HasBucket ==
  ASSUME hashv \in [Keys -> Nat], NEW k \in Keys, NEW nb \in Nat \ {0}
  PROVE  HASH_TO_BKT(k, nb) \in 0..nb - 1
<1>1. hashv[k] \in Nat
  OBVIOUS
<1> QED  BY <1>1, SMTT(60) DEF HASH_TO_BKT

\* The elements of lists of keys that are put together.
LEMMA LinksJoined ==
  ASSUME NEW q \in Seq(Keys), NEW r \in Seq(Keys)
  PROVE  q \o r \in Seq(Keys) /\ Links(q \o r) = Links(q) \cup Links(r)
  BY ListsJoined, Zenon

\* A list of one key.
LEMMA LinksOne ==
  ASSUME NEW k \in Keys
  PROVE  <<k>> \in Seq(Keys) /\ Links(<<k>>) = {k}
  BY ListOfOne, Zenon

\* A key at the end of a list.
LEMMA LinksAppended ==
  ASSUME NEW q \in Seq(Keys), NEW k \in Keys
  PROVE  /\ Append(q, k) = q \o <<k>> /\ Append(q, k) # << >>
         /\ Len(Append(q, k)) = Len(q) + 1 /\ Len(q) \in Nat
<1>1. Append(q, k) = q \o <<k>>
  BY AppendIsConcat
<1>2. Append(q, k) # << >> /\ Len(Append(q, k)) = Len(q) + 1
  BY AppendProperties
<1> QED  BY <1>1, <1>2, LenProperties

\* The chains of the first buckets hold what is in these buckets.
LEMMA ChainsGathered ==
  ASSUME NEW t, NEW n \in Nat, \A b \in 1..n : t.buckets[b - 1].chain \in Seq(Keys)
  PROVE  /\ ChainsUpTo(t, n) \in Seq(Keys)
         /\ Links(ChainsUpTo(t, n)) = UNION {Links(t.buckets[b - 1].chain) : b \in 1..n}
<1> DEFINE IsVisits(f) ==
             f = [b \in 0..n |-> IF b = 0 THEN << >> ELSE f[b - 1] \o t.buckets[b - 1].chain]
           c == [b \in 1..n |-> t.buckets[b - 1].chain]
           g == CHOOSE f : IsVisits(f)
<1>1. c \in [1..n -> Seq(Keys)] /\ \A b \in 1..n : c[b] = t.buckets[b - 1].chain
  OBVIOUS
<1>2. \A b \in 0..n : b # 0 => b \in 1..n
  BY SMTT(60)
<1>3. ChainsUpTo(t, n) = g[n]
  BY Zenon DEF ChainsUpTo
<1> HIDE DEF c
<1>4. \A f : Joins(f, c, n) <=> IsVisits(f)
  BY <1>1, <1>2 DEF Joins
<1>5. /\ \E f : Joins(f, c, n)
      /\ \A f : Joins(f, c, n) => /\ f[n] \in Seq(Keys)
                                  /\ Links(f[n]) = UNION {Links(c[b]) : b \in 1..n}
  BY <1>1, JoinedAll, Zenon
<1>6. Joins(g, c, n)
  <2>1. \E f : IsVisits(f)
    BY <1>4, <1>5, Zenon
  <2>2. IsVisits(g)
    BY <2>1, Zenon
  <2> QED  BY <1>4, <2>2, Zenon
<1> HIDE DEF g
<1>7. g[n] \in Seq(Keys) /\ Links(g[n]) = UNION {Links(c[b]) : b \in 1..n}
  BY <1>5, <1>6, Zenon
<1>8. {Links(c[b]) : b \in 1..n} = {Links(t.buckets[b - 1].chain) : b \in 1..n}
  BY <1>1
<1> QED  BY <1>3, <1>7, <1>8

\* The buckets while the elements are spread over them.
Spreading(nb) == [nb : {nb}, nonideal : Nat, buckets : [0..nb - 1 -> Bucket]]

\* A chain within the multiple of the ideal length its bucket is allowed.
Within(bucket, ideal) == Len(bucket.chain) <= (bucket.expand_mult + 1) * ideal

\* An element moves to the chain of its bucket and to no other, and raises
\* the multiplier before the chain leaves its bound.
LEMMA MovedOne ==
  ASSUME hashv \in [Keys -> Nat], NEW nb \in Nat \ {0}, NEW ideal \in Nat \ {0},
         NEW s \in Spreading(nb), NEW k \in Keys
  PROVE  /\ MoveToBucket(s, k, ideal) \in Spreading(nb)
         /\ \A b \in 0..nb - 1 :
               /\ Links(MoveToBucket(s, k, ideal).buckets[b].chain) =
                     IF b = HASH_TO_BKT(k, nb) THEN {k} \cup Links(s.buckets[b].chain)
                     ELSE Links(s.buckets[b].chain)
               /\ Within(s.buckets[b], ideal) =>
                     Within(MoveToBucket(s, k, ideal).buckets[b], ideal)
<1> DEFINE h == HASH_TO_BKT(k, nb)
           q == s.buckets[h].chain
           m == s.buckets[h].expand_mult
           c == Len(q) + 1
           w == IF c > ideal /\ c > m * ideal THEN m + 1 ELSE m
           z == IF c > ideal THEN s.nonideal + 1 ELSE s.nonideal
           e == [chain |-> <<k>> \o q, expand_mult |-> w]
           r == MoveToBucket(s, k, ideal)
<1>1. h \in 0..nb - 1
  BY HasBucket
<1>2. s.nb = nb /\ s.nonideal \in Nat /\ s.buckets \in [0..nb - 1 -> Bucket]
  BY DEF Spreading
<1>3. q \in Seq(Keys) /\ m \in Nat
  BY <1>1, <1>2 DEF Bucket
<1>4. r = [nb |-> nb, nonideal |-> z, buckets |-> [s.buckets EXCEPT ![h] = e]]
  BY <1>2, Zenon DEF MoveToBucket
<1>5. /\ <<k>> \o q \in Seq(Keys) /\ Links(<<k>> \o q) = {k} \cup Links(q)
      /\ Len(<<k>> \o q) = c /\ c \in Nat
  <2>1. <<k>> \in Seq(Keys) /\ Links(<<k>>) = {k}
    BY LinksOne
  <2>2. <<k>> \o q \in Seq(Keys) /\ Links(<<k>> \o q) = {k} \cup Links(q)
    BY <1>3, <2>1, LinksJoined
  <2>3. Len(<<k>> \o q) = c /\ c \in Nat
    BY <1>3, <2>1, SMTT(60)
  <2> QED  BY <2>2, <2>3
<1>6. w \in Nat /\ z \in Nat /\ (Len(q) <= (m + 1) * ideal => c <= (w + 1) * ideal)
  <2>1. Len(q) \in Nat
    BY <1>3, SMTT(60)
  <2> HIDE DEF q, m
  <2>2. w \in Nat /\ z \in Nat
    BY <1>2, <1>3, <2>1, SMTT(60)
  <2>3. m * ideal \in Nat /\ (m + 1) * ideal = m * ideal + ideal
        /\ (m + 1 + 1) * ideal = m * ideal + ideal + ideal
    BY <1>3, SMTT(60)
  <2> QED  BY <1>3, <2>1, <2>2, <2>3, SMTT(60)
<1> HIDE DEF h, q, m, c, w, z, r
<1>7. e \in Bucket /\ e.chain = <<k>> \o q /\ e.expand_mult = w
  BY <1>5, <1>6 DEF Bucket
<1> HIDE DEF e
<1>8. r \in Spreading(nb) /\ r.buckets = [s.buckets EXCEPT ![h] = e]
  <2> DEFINE d == [s.buckets EXCEPT ![h] = e]
  <2>1. d \in [0..nb - 1 -> Bucket]
    BY <1>1, <1>2, <1>7
  <2>2. r = [nb |-> nb, nonideal |-> z, buckets |-> d]
    BY <1>4
  <2> HIDE DEF d
  <2>3. r \in Spreading(nb) /\ r.buckets = d
    BY <1>6, <2>1, <2>2 DEF Spreading
  <2> QED  BY <2>3 DEF d
<1>9. ASSUME NEW b \in 0..nb - 1
      PROVE  /\ Links(r.buckets[b].chain) =
                   IF b = h THEN {k} \cup Links(s.buckets[b].chain) ELSE Links(s.buckets[b].chain)
             /\ Within(s.buckets[b], ideal) => Within(r.buckets[b], ideal)
  <2>1. CASE b = h
    <3>1. r.buckets[b] = e
      BY <1>1, <1>2, <1>8, <2>1
    <3>2. s.buckets[b].chain = q /\ s.buckets[b].expand_mult = m
      BY <2>1 DEF q, m
    <3> QED  BY <1>5, <1>6, <1>7, <2>1, <3>1, <3>2 DEF Within
  <2>2. CASE b # h
    <3>1. r.buckets[b] = s.buckets[b]
      BY <1>2, <1>8, <2>2
    <3> QED  BY <2>2, <3>1
  <2> QED  BY <2>1, <2>2
<1> QED  BY <1>8, <1>9 DEF r, h

\* Once all elements visited have moved, each is in the chain of its bucket,
\* and every chain is within its bound (the loop of HASH_EXPAND_BUCKETS).
LEMMA MovedAll ==
  ASSUME hashv \in [Keys -> Nat], NEW nb \in Nat \ {0}, NEW ideal \in Nat \ {0},
         NEW v \in Seq(Keys)
  PROVE  /\ Moved(v, nb, ideal, Len(v)) \in Spreading(nb)
         /\ \A b \in 0..nb - 1 :
               /\ Links(Moved(v, nb, ideal, Len(v)).buckets[b].chain) =
                     {k \in Links(v) : HASH_TO_BKT(k, nb) = b}
               /\ Within(Moved(v, nb, ideal, Len(v)).buckets[b], ideal)
<1> DEFINE n == Len(v)
           s0 == [nb |-> nb, nonideal |-> 0, buckets |-> [b \in 0..nb - 1 |-> NoBucket]]
           Move(s, i) == MoveToBucket(s, v[i], ideal)
           IsMoved(f) == f = [i \in 0..n |-> IF i = 0 THEN s0 ELSE Move(f[i - 1], i)]
           g == CHOOSE f : IsMoved(f)
           In(b, i) == {k \in Keys : HASH_TO_BKT(k, nb) = b /\ \E j \in 1..i : v[j] = k}
           Good(i) == /\ g[i] \in Spreading(nb)
                      /\ \A b \in 0..nb - 1 : /\ Links(g[i].buckets[b].chain) = In(b, i)
                                              /\ Within(g[i].buckets[b], ideal)
<1>1. n \in Nat /\ n \in 0..n /\ 0 \in 0..n /\ 1..0 = {} /\ \A i \in 1..n : v[i] \in Keys
  BY SMTT(60)
<1>2. Links(v) = {v[i] : i \in 1..n} /\ Links(v) \subseteq Keys
  <2>1. DOMAIN v = 1..n
    BY SMTT(60)
  <2> QED  BY <1>1, <2>1 DEF Links
<1>3. /\ s0 \in Spreading(nb)
      /\ \A b \in 0..nb - 1 : Links(s0.buckets[b].chain) = {} /\ Within(s0.buckets[b], ideal)
  <2>1. << >> \in Seq(Keys) /\ Len(<< >>) = 0 /\ DOMAIN << >> = {} /\ 0 \in Nat
        /\ 0 <= (0 + 1) * ideal
    BY SMTT(60)
  <2>2. NoBucket \in Bucket /\ Links(NoBucket.chain) = {} /\ Within(NoBucket, ideal)
    BY <2>1 DEF NoBucket, Bucket, Links, Within
  <2> QED  BY <2>1, <2>2 DEF Spreading
<1> HIDE DEF n, s0
<1>4. ASSUME NEW s \in Spreading(nb), NEW i \in 1..n
      PROVE  /\ Move(s, i) \in Spreading(nb)
             /\ \A b \in 0..nb - 1 :
                   /\ Links(Move(s, i).buckets[b].chain) =
                         IF b = HASH_TO_BKT(v[i], nb) THEN {v[i]} \cup Links(s.buckets[b].chain)
                         ELSE Links(s.buckets[b].chain)
                   /\ Within(s.buckets[b], ideal) => Within(Move(s, i).buckets[b], ideal)
  BY <1>1, MovedOne
<1>5. \A i \in 1..n : i \in 0..n /\ i # 0 /\ i - 1 \in 0..n
  BY <1>1, SMTT(60)
<1>6. Moved(v, nb, ideal, Len(v)) = g[n]
  BY Zenon DEF Moved, n, s0
<1> HIDE DEF Move
<1>7. \E f : IsMoved(f)
  <2> DEFINE round == [i \in 1..n |-> [s \in Spreading(nb) |-> Move(s, i)]]
  <2>1. round \in [1..n -> [Spreading(nb) -> Spreading(nb)]]
    BY <1>4
  <2>2. \A i \in 1..n, s \in Spreading(nb) : round[i][s] = Move(s, i)
    OBVIOUS
  <2> HIDE DEF round
  <2>3. PICK f : Recursion(f, Spreading(nb), s0, n, round)
    BY <1>1, <1>3, <2>1, RecursionExists
  <2>4. /\ f \in [0..n -> Spreading(nb)] /\ f[0] = s0
        /\ \A i \in 1..n : f[i] = round[i][f[i - 1]]
    BY <2>3 DEF Recursion
  <2>5. ASSUME NEW i \in 0..n PROVE f[i] = IF i = 0 THEN s0 ELSE Move(f[i - 1], i)
    <3>1. CASE i = 0
      BY <2>4, <3>1
    <3>2. CASE i # 0
      <4>1. i \in 1..n /\ i - 1 \in 0..n
        BY <1>1, <3>2, SMTT(60)
      <4> QED  BY <2>2, <2>4, <3>2, <4>1
    <3> QED  BY <3>1, <3>2
  <2> QED  BY <2>4, <2>5
<1>8. IsMoved(g)
  BY <1>7, Zenon
<1>9. g[0] = s0 /\ \A i \in 1..n : g[i] = Move(g[i - 1], i)
  <2> HIDE DEF g
  <2> QED  BY <1>1, <1>5, <1>8
<1> HIDE DEF g
<1>10. Good(0)
  BY <1>1, <1>3, <1>9
<1>11. ASSUME NEW i \in 1..n, Good(i - 1) PROVE Good(i)
  <2>1. 1..i = (1..i - 1) \cup {i}
    BY SMTT(60)
  <2>2. g[i] \in Spreading(nb)
    BY <1>4, <1>9, <1>11
  <2>3. ASSUME NEW b \in 0..nb - 1
        PROVE  Links(g[i].buckets[b].chain) = In(b, i) /\ Within(g[i].buckets[b], ideal)
    <3>1. /\ Links(g[i].buckets[b].chain) =
                IF b = HASH_TO_BKT(v[i], nb) THEN {v[i]} \cup In(b, i - 1) ELSE In(b, i - 1)
          /\ Within(g[i].buckets[b], ideal)
      <4> DEFINE p == g[i - 1]
      <4>1. p \in Spreading(nb) /\ Links(p.buckets[b].chain) = In(b, i - 1)
            /\ Within(p.buckets[b], ideal) /\ g[i] = Move(p, i)
        BY <1>9, <1>11
      <4> HIDE DEF In, p, Good
      <4>2. /\ Links(Move(p, i).buckets[b].chain) =
                  IF b = HASH_TO_BKT(v[i], nb) THEN {v[i]} \cup Links(p.buckets[b].chain)
                  ELSE Links(p.buckets[b].chain)
            /\ Within(p.buckets[b], ideal) => Within(Move(p, i).buckets[b], ideal)
        BY <1>4, <4>1, ZenonT(30)
      <4> QED  BY <4>1, <4>2
    <3>2. In(b, i) = IF b = HASH_TO_BKT(v[i], nb) THEN {v[i]} \cup In(b, i - 1) ELSE In(b, i - 1)
      <4> DEFINE N == 1..i - 1
      <4>1. 1..i = N \cup {i} /\ v[i] \in Keys
        BY <1>1, <2>1
      <4> HIDE DEF N
      <4>2. {k \in Keys : HASH_TO_BKT(k, nb) = b /\ \E j \in N \cup {i} : v[j] = k} =
              IF b = HASH_TO_BKT(v[i], nb)
              THEN {v[i]} \cup {k \in Keys : HASH_TO_BKT(k, nb) = b /\ \E j \in N : v[j] = k}
              ELSE {k \in Keys : HASH_TO_BKT(k, nb) = b /\ \E j \in N : v[j] = k}
        BY <4>1
      <4> QED  BY <4>1, <4>2 DEF N
    <3> HIDE DEF In
    <3> QED  BY <3>1, <3>2
  <2> QED  BY <2>2, <2>3
<1>12. \A i \in 0..n : Good(i)
  <2> DEFINE G == {i \in 0..n : Good(i)}
  <2> HIDE DEF Good
  <2>1. G \in SUBSET (0..n) /\ 0 \in G
    BY <1>1, <1>10
  <2>2. \A i \in 1..n : i - 1 \in G => i \in G
    BY <1>5, <1>11
  <2>3. G = 0..n
    <3> HIDE DEF G
    <3> QED  BY <1>1, <2>1, <2>2, CountUp
  <2> QED  BY <2>3
<1>13. \A b \in 0..nb - 1 : In(b, n) = {k \in Links(v) : HASH_TO_BKT(k, nb) = b}
  BY <1>2
<1> QED
  <2>1. Good(n)
    BY <1>1, <1>12
  <2> HIDE DEF In
  <2> QED  BY <1>6, <1>13, <2>1

TableFields == {"nb", "buckets", "order", "ineff", "noexpand"}

TableTyped(t) ==
  /\ DOMAIN t = TableFields
  /\ t.nb \in Nat \ {0}
  /\ t.buckets \in [0..t.nb - 1 -> Bucket]
  /\ t.order \in Seq(Keys)

\* Every element in the order of addition is in the chain of its bucket, and
\* nothing else is in a chain.
Chained(t) == \A b \in 0..t.nb - 1 :
  Links(t.buckets[b].chain) = {k \in Links(t.order) : HASH_TO_BKT(k, t.nb) = b}

\* A chain below the capacity of its bucket, or within its multiple of the
\* ideal length.
Fits(t, b) == \/ ~TooLong(t.buckets[b])
              \/ Within(t.buckets[b], Ideal(Len(t.order), t.nb))

ChainsFit(t) == t.noexpand \/ \A b \in 0..t.nb - 1 : Fits(t, b)

\* The ideal length grows with the items and is at least one.
LEMMA IdealGrows ==
  ASSUME NEW items \in Nat, NEW nb \in Nat \ {0}
  PROVE  /\ Ideal(items, nb) \in Nat
         /\ Ideal(items + 1, nb) \in Nat \ {0}
         /\ Ideal(items, nb) <= Ideal(items + 1, nb)
<1> DEFINE q == items \div nb
           r == items % nb
           q1 == (items + 1) \div nb
           r1 == (items + 1) % nb
<1>1. q \in Nat /\ r \in 0..nb - 1 /\ q1 \in Nat /\ r1 \in 0..nb - 1
  BY SMTT(60)
<1>2. items = nb * q + r /\ items + 1 = nb * q1 + r1
  BY SMTT(60)
<1>3. Ideal(items, nb) = q + (IF r # 0 THEN 1 ELSE 0)
      /\ Ideal(items + 1, nb) = q1 + (IF r1 # 0 THEN 1 ELSE 0)
  BY DEF Ideal
<1> HIDE DEF q, r, q1, r1
<1>4. \/ q1 = q /\ r1 = r + 1
      \/ q1 = q + 1 /\ r1 = 0
  <2>1. nb * q1 + r1 = nb * q + r + 1
    BY <1>2
  <2>2. nb * q \in Nat /\ nb * q1 \in Nat
    BY <1>1, SMTT(60)
  <2>3. CASE q1 <= q
    <3>1. q1 < q => nb * q1 + nb <= nb * q
      <4>1. PICK d \in Nat : q = q1 + d
        BY <1>1, <2>3, SMTT(60)
      <4>2. nb * q = nb * q1 + nb * d
        BY <1>1, <4>1, SMTT(60)
      <4>3. d # 0 => nb <= nb * d
        BY <4>1, SMTT(60)
      <4> QED  BY <1>1, <2>2, <4>1, <4>2, <4>3, SMTT(60)
    <3> QED  BY <1>1, <2>1, <2>2, <2>3, <3>1, SMTT(60)
  <2>4. CASE q1 > q
    <3>1. PICK d \in Nat : q1 = q + 1 + d
      BY <1>1, <2>4, SMTT(60)
    <3>2. nb * q1 = nb * q + nb + nb * d /\ nb * d \in Nat /\ (d # 0 => nb <= nb * d)
      BY <1>1, <3>1, SMTT(60)
    <3> QED  BY <1>1, <2>1, <2>2, <3>1, <3>2, SMTT(60)
  <2> QED  BY <1>1, <2>3, <2>4, SMTT(60)
<1> QED  BY <1>1, <1>3, <1>4, SMTT(60)

\* A new table has empty chains.
LEMMA TableMade ==
  /\ TableTyped(HASH_MAKE_TABLE) /\ Chained(HASH_MAKE_TABLE) /\ ChainsFit(HASH_MAKE_TABLE)
  /\ HASH_MAKE_TABLE.order = << >>
<1> DEFINE t == HASH_MAKE_TABLE
<1>1. << >> \in Seq(Keys) /\ Len(<< >>) = 0 /\ DOMAIN << >> = {} /\ 0 \in Nat
      /\ ~(0 >= (0 + 1) * Thresh)
  BY HashAssumption, SMTT(60)
<1>2. NoBucket \in Bucket /\ Links(NoBucket.chain) = {} /\ ~TooLong(NoBucket)
  BY <1>1 DEF NoBucket, Bucket, Links, TooLong
<1>3. /\ DOMAIN t = TableFields /\ t.nb = InitBuckets /\ t.order = << >>
      /\ t.buckets = [b \in 0..InitBuckets - 1 |-> NoBucket]
  BY DEF HASH_MAKE_TABLE, TableFields
<1> HIDE DEF t
<1>4. TableTyped(t)
  BY <1>1, <1>2, <1>3, HashAssumption DEF TableTyped
<1>5. Links(t.order) = {}
  BY <1>1, <1>3 DEF Links
<1>6. Chained(t) /\ ChainsFit(t)
  BY <1>2, <1>3, <1>5 DEF Chained, ChainsFit, Fits
<1> QED  BY <1>3, <1>4, <1>6 DEF t

\* The doubled buckets hold the same elements, each in the chain of its
\* bucket, and every chain is within its multiple of the ideal length
\* (HASH_EXPAND_BUCKETS).
LEMMA Expanded ==
  ASSUME hashv \in [Keys -> Nat], NEW t, TableTyped(t), Chained(t), t.order # << >>
  PROVE  /\ TableTyped(HASH_EXPAND_BUCKETS(t)) /\ Chained(HASH_EXPAND_BUCKETS(t))
         /\ ChainsFit(HASH_EXPAND_BUCKETS(t)) /\ HASH_EXPAND_BUCKETS(t).order = t.order
<1> DEFINE v == BucketOrder(t)
           nb == 2 * t.nb
           ideal == Ideal(Len(t.order), nb)
           m == Moved(v, nb, ideal, Len(v))
           r == HASH_EXPAND_BUCKETS(t)
<1>1. t.nb \in Nat \ {0} /\ t.buckets \in [0..t.nb - 1 -> Bucket] /\ t.order \in Seq(Keys)
  BY DEF TableTyped
<1>2. /\ nb \in Nat \ {0}
      /\ \A b \in 1..t.nb : b - 1 \in 0..t.nb - 1
      /\ \A c \in 0..t.nb - 1 : c + 1 \in 1..t.nb /\ (c + 1) - 1 = c
  BY <1>1, SMTT(60)
<1>3. ideal \in Nat \ {0}
  <2>1. Len(t.order) \in Nat /\ Len(t.order) - 1 \in Nat /\ (Len(t.order) - 1) + 1 = Len(t.order)
    BY <1>1, SMTT(60)
  <2>2. Ideal((Len(t.order) - 1) + 1, nb) \in Nat \ {0}
    BY <1>2, <2>1, IdealGrows
  <2> QED  BY <2>1, <2>2
<1>4. v \in Seq(Keys) /\ Links(v) = UNION {Links(t.buckets[b - 1].chain) : b \in 1..t.nb}
  <2>1. \A b \in 1..t.nb : t.buckets[b - 1].chain \in Seq(Keys)
    BY <1>1, <1>2 DEF Bucket
  <2> QED  BY <1>1, <2>1, ChainsGathered DEF BucketOrder
<1>5. Links(v) = Links(t.order)
  <2>1. \A b \in 1..t.nb : Links(t.buckets[b - 1].chain) =
                             {k \in Links(t.order) : HASH_TO_BKT(k, t.nb) = b - 1}
    BY <1>2 DEF Chained
  <2>2. \A k \in Links(t.order) : \E b \in 1..t.nb : HASH_TO_BKT(k, t.nb) = b - 1
    <3> SUFFICES ASSUME NEW k \in Links(t.order)
                 PROVE  \E b \in 1..t.nb : HASH_TO_BKT(k, t.nb) = b - 1
      OBVIOUS
    <3>1. k \in Keys
      <4>1. \A i \in DOMAIN t.order : t.order[i] \in Keys
        BY <1>1, SMTT(60)
      <4> QED  BY <4>1 DEF Links
    <3>2. HASH_TO_BKT(k, t.nb) \in 0..t.nb - 1
      BY <1>1, <3>1, HasBucket
    <3> QED  BY <1>2, <3>2
  <2> QED  BY <1>4, <2>1, <2>2
<1>6. /\ m \in Spreading(nb)
      /\ \A b \in 0..nb - 1 :
            /\ Links(m.buckets[b].chain) = {k \in Links(v) : HASH_TO_BKT(k, nb) = b}
            /\ Within(m.buckets[b], ideal)
  <2> HIDE DEF v, nb, ideal
  <2> QED  BY <1>2, <1>3, <1>4, MovedAll
<1>7. /\ DOMAIN r = TableFields /\ r.nb = m.nb /\ r.buckets = m.buckets /\ r.order = t.order
  BY DEF HASH_EXPAND_BUCKETS, TableFields
<1>8. m.nb = nb /\ m.buckets \in [0..nb - 1 -> Bucket]
  <2> HIDE DEF m, nb
  <2> QED  BY <1>6 DEF Spreading
<1> HIDE DEF r, m, v
<1>9. TableTyped(r)
  <2> HIDE DEF nb
  <2> QED  BY <1>1, <1>2, <1>7, <1>8 DEF TableTyped
<1>10. Chained(r)
  <2> HIDE DEF nb
  <2> QED  BY <1>5, <1>6, <1>7, <1>8 DEF Chained
<1>11. ChainsFit(r)
  <2>1. Ideal(Len(r.order), r.nb) = ideal
    BY <1>7, <1>8
  <2> HIDE DEF nb, ideal
  <2> QED  BY <1>6, <1>7, <1>8, <2>1 DEF ChainsFit, Fits
<1> QED  BY <1>7, <1>9, <1>10, <1>11 DEF r

\* An element that was added is in the order and in the chain of its bucket,
\* whether the buckets were doubled or not (HASH_ADD_TO_BKT).
LEMMA AddedToBucket ==
  ASSUME hashv \in [Keys -> Nat], NEW t, NEW k \in Keys,
         TableTyped(t), Chained(t), ChainsFit(t)
  PROVE  LET r == HASH_ADD_TO_BKT(HASH_APPEND_LIST(t, k), k)
         IN  TableTyped(r) /\ Chained(r) /\ ChainsFit(r) /\ r.order = Append(t.order, k)
<1> DEFINE a == HASH_APPEND_LIST(t, k)
           h == HASH_TO_BKT(k, t.nb)
           q == t.buckets[h].chain
           u == [a EXCEPT !.buckets[h].chain = <<k>> \o @]
           r == HASH_ADD_TO_BKT(a, k)
<1>1. /\ DOMAIN t = TableFields /\ t.nb \in Nat \ {0}
      /\ t.buckets \in [0..t.nb - 1 -> Bucket] /\ t.order \in Seq(Keys)
  BY DEF TableTyped
<1>2. /\ DOMAIN a = TableFields /\ a.nb = t.nb /\ a.buckets = t.buckets
      /\ a.order = Append(t.order, k) /\ a.noexpand = t.noexpand
  BY <1>1 DEF HASH_APPEND_LIST, TableFields
<1>3. h \in 0..t.nb - 1
  BY <1>1, HasBucket
<1>4. /\ DOMAIN u = TableFields /\ u.nb = t.nb /\ u.order = Append(t.order, k)
      /\ u.noexpand = t.noexpand /\ u.buckets = [t.buckets EXCEPT ![h].chain = <<k>> \o @]
  <2> HIDE DEF a, h
  <2> QED  BY <1>1, <1>2, <1>3 DEF TableFields
<1>5. r = IF TooLong(u.buckets[h]) /\ ~u.noexpand THEN HASH_EXPAND_BUCKETS(u) ELSE u
  <2>1. HASH_TO_BKT(k, a.nb) = h
    BY <1>2
  <2> HIDE DEF a, h
  <2> QED  BY <2>1 DEF HASH_ADD_TO_BKT
<1>6. q \in Seq(Keys) /\ t.buckets[h].expand_mult \in Nat /\ t.buckets[h] \in Bucket
  BY <1>1, <1>3 DEF Bucket
<1>7. /\ <<k>> \o q \in Seq(Keys) /\ Links(<<k>> \o q) = {k} \cup Links(q)
      /\ Append(t.order, k) \in Seq(Keys) /\ Append(t.order, k) # << >>
      /\ Links(Append(t.order, k)) = Links(t.order) \cup {k}
      /\ Len(Append(t.order, k)) = Len(t.order) + 1 /\ Len(t.order) \in Nat
  <2>1. /\ Append(t.order, k) = t.order \o <<k>> /\ Append(t.order, k) # << >>
        /\ Len(Append(t.order, k)) = Len(t.order) + 1 /\ Len(t.order) \in Nat
    BY <1>1, LinksAppended
  <2>2. <<k>> \in Seq(Keys) /\ Links(<<k>>) = {k}
    BY LinksOne
  <2>3. <<k>> \o q \in Seq(Keys) /\ Links(<<k>> \o q) = {k} \cup Links(q)
    BY <1>6, <2>2, LinksJoined
  <2>4. t.order \o <<k>> \in Seq(Keys) /\ Links(t.order \o <<k>>) = Links(t.order) \cup {k}
    BY <1>1, <2>2, LinksJoined
  <2> QED  BY <2>1, <2>3, <2>4
<1>8. /\ \A b \in 0..t.nb - 1 : b # h => u.buckets[b] = t.buckets[b]
      /\ u.buckets[h].chain = <<k>> \o q /\ u.buckets \in [0..t.nb - 1 -> Bucket]
  <2> DEFINE e == [t.buckets[h] EXCEPT !.chain = <<k>> \o q]
  <2>1. u.buckets = [t.buckets EXCEPT ![h] = e]
    BY <1>4
  <2>2. e \in Bucket /\ e.chain = <<k>> \o q
    BY <1>6, <1>7 DEF Bucket
  <2> HIDE DEF e, u, h, q
  <2> QED  BY <1>1, <1>3, <2>1, <2>2
<1> HIDE DEF a, h, q, u
<1>9. TableTyped(u)
  BY <1>1, <1>4, <1>7, <1>8 DEF TableTyped
<1>10. Chained(u)
  <2>0. u.nb = t.nb /\ Links(u.order) = Links(t.order) \cup {k}
    BY <1>4, <1>7
  <2> SUFFICES ASSUME NEW b \in 0..t.nb - 1
               PROVE  Links(u.buckets[b].chain) =
                        {x \in Links(t.order) \cup {k} : HASH_TO_BKT(x, t.nb) = b}
    BY <2>0 DEF Chained
  <2>1. Links(t.buckets[b].chain) = {x \in Links(t.order) : HASH_TO_BKT(x, t.nb) = b}
    BY DEF Chained
  <2>2. CASE b = h
    <3>1. HASH_TO_BKT(k, t.nb) = b
      BY <2>2 DEF h
    <3>2. Links(u.buckets[b].chain) = {k} \cup Links(t.buckets[b].chain)
      <4>1. q = t.buckets[b].chain
        BY <2>2 DEF q
      <4> QED  BY <1>7, <1>8, <2>2, <4>1
    <3> QED  BY <2>1, <3>1, <3>2
  <2>3. CASE b # h
    BY <1>8, <2>1, <2>3 DEF h
  <2> QED  BY <2>2, <2>3
<1>11. CASE TooLong(u.buckets[h]) /\ ~u.noexpand
  <2>1. u.order # << >> /\ r = HASH_EXPAND_BUCKETS(u)
    BY <1>4, <1>5, <1>7, <1>11
  <2> HIDE DEF r
  <2>2. TableTyped(r) /\ Chained(r) /\ ChainsFit(r) /\ r.order = u.order
    BY <1>9, <1>10, <2>1, Expanded
  <2> QED  BY <1>4, <2>2 DEF r, a
<1>12. CASE ~(TooLong(u.buckets[h]) /\ ~u.noexpand)
  <2>1. r = u
    BY <1>5, <1>12
  <2>2. CASE u.noexpand
    BY <1>4, <1>9, <1>10, <2>1, <2>2 DEF r, a, ChainsFit
  <2>3. CASE ~u.noexpand
    <3>1. ASSUME NEW b \in 0..t.nb - 1 PROVE Fits(u, b)
      <4>1. CASE b = h
        BY <1>12, <2>3, <4>1 DEF Fits
      <4>2. CASE b # h
        <5>1. u.buckets[b] = t.buckets[b] /\ Fits(t, b)
          BY <1>4, <1>8, <2>3, <4>2 DEF ChainsFit
        <5>2. CASE ~TooLong(t.buckets[b])
          BY <5>1, <5>2 DEF Fits
        <5>3. CASE TooLong(t.buckets[b])
          <6> DEFINE x == Ideal(Len(t.order), t.nb)
                     y == Ideal(Len(t.order) + 1, t.nb)
                     m == t.buckets[b].expand_mult
                     n == Len(t.buckets[b].chain)
          <6>1. x \in Nat /\ y \in Nat /\ x <= y
            BY <1>1, <1>7, IdealGrows
          <6>2. m \in Nat /\ n \in Nat
            <7>1. t.buckets[b] \in Bucket
              BY <1>1
            <7>2. t.buckets[b].chain \in Seq(Keys) /\ m \in Nat
              BY <7>1 DEF Bucket
            <7> QED  BY <7>2, SMTT(60)
          <6>3. n <= (m + 1) * x
            BY <5>1, <5>3 DEF Fits, Within
          <6> HIDE DEF x, y, m, n
          <6>4. (m + 1) * x <= (m + 1) * y /\ (m + 1) * x \in Nat /\ (m + 1) * y \in Nat
            BY <6>1, <6>2, SMTT(60)
          <6>5. n <= (m + 1) * y
            BY <6>2, <6>3, <6>4, SMTT(60)
          <6> QED  BY <1>4, <1>7, <5>1, <6>5 DEF Fits, Within, m, n, y
        <5> QED  BY <5>2, <5>3
      <4> QED  BY <4>1, <4>2
    <3>2. ChainsFit(u)
      BY <1>4, <3>1 DEF ChainsFit
    <3> QED  BY <1>4, <1>9, <1>10, <2>1, <3>2 DEF r, a
  <2> QED  BY <2>2, <2>3
<1> QED  BY <1>11, <1>12

\* No element is on a list twice.
Once(q) == \A i, j \in DOMAIN q : q[i] = q[j] => i = j

\* What follows place i of a list.
After(q, i) == IF i < Len(q) THEN q[i + 1] ELSE NULL

\* A table that holds elements, each once and allocated.
Filled ==
  /\ DOMAIN tbl = TableFields
  /\ tbl.nb \in Nat \ {0}
  /\ tbl.order \in Seq(Keys) /\ tbl.order # << >> /\ Once(tbl.order)
  /\ heap = Links(tbl.order)

\* No table; or a table in use; or one that is being destroyed, where the
\* loop stands on the oldest element left and remembers the one after it.
HashInv ==
  /\ hashv \in [Keys -> Nat]
  /\ \/ tbl = NoTable /\ heap = {} /\ iter = NULL
     \/ /\ Filled /\ iter = NULL
        /\ TableTyped(tbl) /\ Chained(tbl) /\ ChainsFit(tbl)
     \/ Filled /\ iter = [el |-> tbl.order[1], tmp |-> After(tbl.order, 1)]

\* The successor of an element in the order of addition (hh.next).
LEMMA NextElement ==
  ASSUME NEW t, t.order \in Seq(Keys), Once(t.order), NEW i \in DOMAIN t.order
  PROVE  HashNext(t, t.order[i]) = After(t.order, i)
<1> DEFINE q == t.order
           later == {j \in DOMAIN q : j > 1 /\ q[j - 1] = q[i]}
<1>1. Len(q) \in Nat /\ DOMAIN q = 1..Len(q)
  BY SMTT(60)
<1>2. HashNext(t, q[i]) = IF later = {} THEN NULL ELSE q[CHOOSE j \in later : TRUE]
  BY Zenon DEF HashNext
<1>3. \A j \in 1..Len(q) : j > 1 => j - 1 \in 1..Len(q) /\ (j - 1 = i => j = i + 1)
  BY <1>1, SMTT(60)
<1>4. \A j \in later : j = i + 1
  BY <1>1, <1>3 DEF Once
<1>5. CASE i < Len(q)
  <2>1. i + 1 \in 1..Len(q) /\ i + 1 > 1 /\ (i + 1) - 1 = i
    BY <1>1, <1>5, SMTT(60)
  <2>2. later = {i + 1}
    BY <1>1, <1>4, <2>1
  <2> HIDE DEF later
  <2>3. (CHOOSE j \in later : TRUE) = i + 1
    BY <2>2
  <2> QED  BY <1>2, <1>5, <2>2, <2>3 DEF After
<1>6. CASE ~(i < Len(q))
  <2>1. i + 1 \notin 1..Len(q)
    BY <1>1, <1>6, SMTT(60)
  <2>2. later = {}
    BY <1>1, <1>4, <2>1
  <2> QED  BY <1>2, <1>6, <2>2 DEF After
<1> QED  BY <1>5, <1>6

\* Unlinking the oldest element leaves the others in their order.
LEMMA WithoutFirst ==
  ASSUME NEW q \in Seq(Keys), q # << >>, Once(q)
  PROVE  /\ Without(q, q[1]) = Tail(q) /\ Tail(q) \in Seq(Keys) /\ Once(Tail(q))
         /\ Links(Tail(q)) = Links(q) \ {q[1]}
         /\ Len(Tail(q)) = Len(q) - 1
         /\ \A i \in 1..Len(q) - 1 : Tail(q)[i] = q[i + 1]
<1>1. /\ Len(q) \in Nat \ {0} /\ DOMAIN q = 1..Len(q) /\ 1 \in 1..Len(q)
      /\ Tail(q) \in Seq(Keys) /\ Len(Tail(q)) = Len(q) - 1
      /\ DOMAIN Tail(q) = 1..Len(q) - 1
  BY SMTT(60)
<1>2. Tail(q) = [i \in 1..Len(q) - 1 |-> q[i + 1]]
  <2> DEFINE r == Tail(q)
  <2>1. \A i \in 1..Len(q) - 1 : r[i] = q[i + 1]
    BY SMTT(60)
  <2>2. r \in [1..Len(q) - 1 -> Keys]
    BY <1>1, LenProperties, Zenon
  <2> HIDE DEF r
  <2>3. r = [i \in 1..Len(q) - 1 |-> q[i + 1]]
    BY <2>1, <2>2
  <2> QED  BY <2>3 DEF r
<1>3. \A i \in 1..Len(q) - 1 : i + 1 \in 1..Len(q) /\ i + 1 # 1 /\ ~(i < 1)
  BY <1>1, SMTT(60)
<1>4. \A i, j \in 1..Len(q) - 1 : i + 1 = j + 1 => i = j
  BY <1>1, SMTT(60)
<1>5. \A j \in 1..Len(q) : j # 1 => j - 1 \in 1..Len(q) - 1 /\ (j - 1) + 1 = j
  BY <1>1, SMTT(60)
<1>6. Without(q, q[1]) = Tail(q)
  <2> DEFINE c == CHOOSE i \in DOMAIN q : q[i] = q[1]
  <2>1. c = 1
    BY <1>1 DEF Once
  <2>2. Without(q, q[1]) = [j \in 1..Len(q) - 1 |-> IF j < c THEN q[j] ELSE q[j + 1]]
    BY Zenon DEF Without
  <2> HIDE DEF c
  <2> QED  BY <1>2, <1>3, <2>1, <2>2
<1>7. \A i \in 1..Len(q) - 1 : Tail(q)[i] = q[i + 1]
  BY <1>2
<1>8. Once(Tail(q))
  BY <1>1, <1>3, <1>4, <1>7 DEF Once
<1>9. Links(Tail(q)) = Links(q) \ {q[1]}
  <2>1. Links(Tail(q)) \subseteq Links(q) \ {q[1]}
    BY <1>1, <1>3, <1>7 DEF Links, Once
  <2>2. Links(q) \ {q[1]} \subseteq Links(Tail(q))
    <3> SUFFICES ASSUME NEW j \in 1..Len(q), q[j] # q[1] PROVE q[j] \in Links(Tail(q))
      BY <1>1 DEF Links
    <3>1. j - 1 \in 1..Len(q) - 1 /\ (j - 1) + 1 = j
      BY <1>5
    <3>2. Tail(q)[j - 1] = q[j]
      BY <1>7, <3>1
    <3> QED  BY <1>1, <3>1, <3>2 DEF Links
  <2> QED  BY <2>1, <2>2
<1> QED  BY <1>1, <1>6, <1>7, <1>8, <1>9

\* A new element at the end of the order is there once.
LEMMA OnceAppended ==
  ASSUME NEW q \in Seq(Keys), Once(q), NEW k \in Keys, k \notin Links(q)
  PROVE  Once(Append(q, k))
<1> DEFINE r == Append(q, k)
<1>1. /\ Len(q) \in Nat /\ DOMAIN q = 1..Len(q) /\ DOMAIN r = 1..Len(q) + 1
      /\ r[Len(q) + 1] = k
      /\ \A i \in 1..Len(q) + 1 : i # Len(q) + 1 => i \in 1..Len(q)
      /\ \A i \in 1..Len(q) : r[i] = q[i]
  BY SMTT(60)
<1> HIDE DEF r
<1>2. \A i \in 1..Len(q) + 1 : i # Len(q) + 1 => r[i] # k
  BY <1>1 DEF Links
<1>3. Once(r)
  BY <1>1, <1>2 DEF Once
<1> QED  BY <1>3 DEF r

\* A table finds what is in its order (HASH_FIND).
LEMMA FindsOrder ==
  ASSUME hashv \in [Keys -> Nat], TableTyped(tbl), Chained(tbl), NEW k \in Keys
  PROVE  HASH_FIND(tbl, k) <=> k \in Links(tbl.order)
<1> DEFINE h == HASH_TO_BKT(k, tbl.nb)
<1>1. tbl.nb \in Nat \ {0} /\ tbl.nb # 0
  BY DEF TableTyped
<1>2. h \in 0..tbl.nb - 1
  BY <1>1, HasBucket
<1>3. Links(tbl.buckets[h].chain) = {x \in Links(tbl.order) : HASH_TO_BKT(x, tbl.nb) = h}
  BY <1>2 DEF Chained
<1>4. HASH_FIND(tbl, k) <=> k \in Links(tbl.buckets[h].chain)
  BY <1>1 DEF HASH_FIND, HASH_FIND_IN_BKT, Links
<1> QED  BY <1>3, <1>4

\* No table is an empty order.
LEMMA NoTableFields == NoTable.nb = 0 /\ NoTable.order = << >>
  BY DEF NoTable, HASH_MAKE_TABLE

\* A loop that stands on an element is not at its end.
LEMMA LoopStands ==
  ASSUME NEW q \in Seq(Keys), q # << >>
  PROVE  /\ [el |-> q[1], tmp |-> After(q, 1)] # NULL
         /\ q[1] \in Links(q) /\ After(q, 1) \in Links(q) \cup {NULL}
         /\ Len(q) # 1 => After(q, 1) = q[2] /\ q[2] \in Keys /\ q[2] # NULL /\ 2 \in DOMAIN q
         /\ Len(q) = 1 => After(q, 1) = NULL
<1>1. /\ Len(q) \in Nat \ {0} /\ DOMAIN q = 1..Len(q) /\ 1 \in 1..Len(q) /\ q[1] \in Keys
      /\ (1 < Len(q) => 2 \in 1..Len(q) /\ q[2] \in Keys /\ 1 + 1 = 2)
      /\ (Len(q) # 1 <=> 1 < Len(q))
  <2>1. Len(q) \in Nat /\ Len(q) # 0 /\ DOMAIN q = 1..Len(q) /\ q \in [1..Len(q) -> Keys]
    BY LenProperties, EmptySeq, Zenon
  <2>2. /\ 1 \in 1..Len(q) /\ (1 < Len(q) => 2 \in 1..Len(q) /\ 1 + 1 = 2)
        /\ (Len(q) # 1 <=> 1 < Len(q))
    <3> DEFINE n == Len(q)
    <3>1. n \in Nat /\ n # 0
      BY <2>1
    <3> HIDE DEF n
    <3>2. 1 \in 1..n /\ (1 < n => 2 \in 1..n /\ 1 + 1 = 2) /\ (n # 1 <=> 1 < n)
      BY <3>1, SMTT(60)
    <3> QED  BY <3>2 DEF n
  <2> QED  BY <2>1, <2>2
<1>2. After(q, 1) \in Keys \cup {NULL} /\ After(q, 1) \in Links(q) \cup {NULL}
  BY <1>1 DEF After, Links
<1>3. [el |-> q[1], tmp |-> After(q, 1)] # NULL
  BY <1>1, <1>2, HashAssumption
<1> QED  BY <1>1, <1>2, <1>3, HashAssumption DEF After, Links

\* What a call that leaves the table alone keeps.
LEMMA HashKept ==
  ASSUME HashInv, UNCHANGED <<hashv, tbl, iter, heap>>
  PROVE  HashInv'
<1>1. hashv' = hashv /\ tbl' = tbl /\ iter' = iter /\ heap' = heap
  OBVIOUS
<1>2. Filled' <=> Filled
  BY <1>1 DEF Filled, Links, Once
<1>3. Chained(tbl)' <=> Chained(tbl)
  BY <1>1 DEF Chained, HASH_TO_BKT, Links
<1>4. TableTyped(tbl)' <=> TableTyped(tbl)
  BY <1>1 DEF TableTyped
<1>5. ChainsFit(tbl)' <=> ChainsFit(tbl)
  BY <1>1 DEF ChainsFit, Fits, Within, Ideal, TooLong
<1> QED  BY <1>1, <1>2, <1>3, <1>4, <1>5 DEF HashInv, After

\* A table in use finds exactly the keys of the dictionary.
LEMMA FindsKeys ==
  ASSUME HashInv, iter = NULL, NEW k \in Keys
  PROVE  /\ HASH_FIND(tbl, k) <=> Dictionary!Has(k)
         /\ HASH_FIND(tbl, k) => tbl.nb # 0
         /\ tbl.nb = 0 <=> tbl.order = << >>
<1>1. CASE tbl = NoTable /\ heap = {}
  <2>1. tbl.nb = 0 /\ tbl.order = << >> /\ DOMAIN << >> = {}
    BY <1>1, NoTableFields
  <2> QED  BY <2>1 DEF HASH_FIND, Dictionary!Has
<1>2. CASE Filled /\ TableTyped(tbl) /\ Chained(tbl)
  <2>1. HASH_FIND(tbl, k) <=> k \in Links(tbl.order)
    BY <1>2, FindsOrder DEF HashInv
  <2>2. tbl.nb # 0 /\ tbl.order # << >>
    BY <1>2 DEF Filled
  <2> QED  BY <2>1, <2>2 DEF Links, Dictionary!Has
<1>3. CASE Filled /\ iter = [el |-> tbl.order[1], tmp |-> After(tbl.order, 1)]
  <2>1. iter # NULL
    BY <1>3, LoopStands DEF Filled
  <2> QED  BY <2>1
<1> QED  BY <1>1, <1>2, <1>3 DEF HashInv

\* Adding keeps the invariant and is the dictionary's addition.
LEMMA HashAddStep ==
  ASSUME HashInv, NEW k \in Keys, nrm_hash_add(k)
  PROVE  HashInv' /\ Dictionary!Add
<1>1. iter = NULL /\ hashv' = hashv /\ iter' = iter
  BY DEF nrm_hash_add
<1>2. CASE HASH_FIND(tbl, k)
  <2>1. /\ answered' = [call |-> "add", key |-> k, answer |-> "FAILURE"]
        /\ tbl' = tbl /\ heap' = heap
    BY <1>2 DEF nrm_hash_add, Answer
  <2>2. HashInv'
    BY <1>1, <2>1, HashKept
  <2>3. Dictionary!Add
    BY <1>1, <1>2, <2>1, FindsKeys DEF Dictionary!Add
  <2> QED  BY <2>2, <2>3
<1>3. CASE ~HASH_FIND(tbl, k)
  <2> DEFINE u == IF tbl.nb = 0 THEN HASH_MAKE_TABLE ELSE tbl
             r == HASH_ADD_TO_BKT(HASH_APPEND_LIST(u, k), k)
  <2>1. /\ answered' = [call |-> "add", key |-> k, answer |-> "SUCCESS"]
        /\ tbl' = HASH_ADD(tbl, k) /\ heap' = heap \cup {k}
    BY <1>3 DEF nrm_hash_add, Answer
  <2>2. tbl' = r
    BY <2>1, Zenon DEF HASH_ADD
  <2>3. ~Dictionary!Has(k)
    BY <1>1, <1>3, FindsKeys
  <2>4. /\ TableTyped(u) /\ Chained(u) /\ ChainsFit(u) /\ u.order = tbl.order
        /\ Once(u.order) /\ heap = Links(u.order)
    <3>1. CASE tbl = NoTable /\ heap = {}
      <4>1. u = HASH_MAKE_TABLE /\ tbl.order = << >>
        BY <3>1, NoTableFields
      <4>2. DOMAIN << >> = {}
        BY SMTT(60)
      <4> QED  BY <3>1, <4>1, <4>2, TableMade DEF Once, Links
    <3>2. CASE Filled /\ TableTyped(tbl) /\ Chained(tbl) /\ ChainsFit(tbl)
      <4>1. u = tbl
        BY <3>2 DEF Filled
      <4> QED  BY <3>2, <4>1 DEF Filled
    <3>3. CASE Filled /\ iter = [el |-> tbl.order[1], tmp |-> After(tbl.order, 1)]
      <4>1. iter # NULL
        BY <3>3, LoopStands DEF Filled
      <4> QED  BY <1>1, <4>1
    <3> QED  BY <3>1, <3>2, <3>3 DEF HashInv
  <2> HIDE DEF u
  <2>5. TableTyped(r) /\ Chained(r) /\ ChainsFit(r) /\ r.order = Append(u.order, k)
    BY <2>4, AddedToBucket DEF HashInv
  <2>6. k \notin Links(u.order)
    BY <2>3, <2>4 DEF Dictionary!Has, Links
  <2>7. u.order \in Seq(Keys)
    BY <2>4 DEF TableTyped
  <2> HIDE DEF r
  <2>8. Once(r.order) /\ r.order # << >> /\ Links(r.order) = heap'
    <3>1. Append(u.order, k) = u.order \o <<k>> /\ Append(u.order, k) # << >>
      BY <2>7, LinksAppended
    <3>2. <<k>> \in Seq(Keys) /\ Links(<<k>>) = {k}
      BY LinksOne
    <3>3. Links(u.order \o <<k>>) = Links(u.order) \cup {k}
      BY <2>7, <3>2, LinksJoined
    <3>4. Once(Append(u.order, k))
      BY <2>4, <2>6, <2>7, OnceAppended
    <3> QED  BY <2>1, <2>4, <2>5, <3>1, <3>3, <3>4
  <2>9. Filled'
    BY <2>2, <2>5, <2>8 DEF Filled, TableTyped, Once, Links
  <2>10. (TableTyped(tbl) /\ Chained(tbl) /\ ChainsFit(tbl))'
    <3>1. TableTyped(tbl)'
      BY <2>2, <2>5 DEF TableTyped
    <3>2. Chained(tbl)'
      BY <1>1, <2>2, <2>5, SMTT(60) DEF Chained, HASH_TO_BKT, Links
    <3>3. ChainsFit(tbl)'
      BY <2>2, <2>5 DEF ChainsFit, Fits, Within, TooLong, Ideal
    <3> QED  BY <3>1, <3>2, <3>3
  <2>11. HashInv'
    BY <1>1, <2>9, <2>10 DEF HashInv
  <2>12. Dictionary!Add
    BY <2>1, <2>2, <2>3, <2>4, <2>5 DEF Dictionary!Add
  <2> QED  BY <2>11, <2>12
<1> QED  BY <1>2, <1>3

\* A look-up keeps the table, and answers as the dictionary.
LEMMA HashFindStep ==
  ASSUME HashInv, NEW k \in Keys, nrm_hash_find(k)
  PROVE  HashInv' /\ Dictionary!Find
<1>1. iter = NULL /\ UNCHANGED <<hashv, tbl, iter, heap>>
  BY DEF nrm_hash_find
<1>2. HashInv'
  BY <1>1, HashKept
<1>3. answered' = [call |-> "find", key |-> k,
                   answer |-> IF tbl.nb = 0 THEN "EINVAL"
                              ELSE IF HASH_FIND(tbl, k) THEN "SUCCESS" ELSE "ENOTFOUND"]
  BY DEF nrm_hash_find, Answer
<1>4. /\ HASH_FIND(tbl, k) <=> Dictionary!Has(k)
      /\ HASH_FIND(tbl, k) => tbl.nb # 0
      /\ tbl.nb = 0 <=> tbl.order = << >>
  BY <1>1, FindsKeys
<1>5. answered' = [call |-> "find", key |-> k,
                   answer |-> IF Dictionary!Has(k) THEN "SUCCESS"
                              ELSE IF tbl.order = << >> THEN "EINVAL" ELSE "ENOTFOUND"]
  BY <1>3, <1>4
<1> QED  BY <1>1, <1>2, <1>5 DEF Dictionary!Find

\* The loop of nrm_hash_destroy begins with the oldest element.
LEMMA HashLoopStep ==
  ASSUME HashInv, HASH_ITER_first
  PROVE  HashInv' /\ UNCHANGED Dictionary!vars
<1>1. /\ iter = NULL /\ tbl.nb # 0 /\ UNCHANGED <<hashv, tbl, heap, answered>>
      /\ iter' = [el |-> Head(tbl.order), tmp |-> HashNext(tbl, Head(tbl.order))]
  BY DEF HASH_ITER_first
<1>2. Filled
  BY <1>1, NoTableFields DEF HashInv
<1>3. tbl.order \in Seq(Keys) /\ tbl.order # << >> /\ Once(tbl.order)
  BY <1>2 DEF Filled
<1>4. Head(tbl.order) = tbl.order[1] /\ 1 \in DOMAIN tbl.order
  BY <1>3, SMTT(60)
<1>5. HashNext(tbl, tbl.order[1]) = After(tbl.order, 1)
  BY <1>3, <1>4, NextElement
<1>6. Filled'
  BY <1>1, <1>2 DEF Filled, Links, Once
<1>7. (iter = [el |-> tbl.order[1], tmp |-> After(tbl.order, 1)])'
  BY <1>1, <1>4, <1>5 DEF After
<1> QED  BY <1>1, <1>6, <1>7 DEF HashInv, Dictionary!vars

\* A round of the loop frees the oldest element and goes on with the element
\* after it, which was remembered before the deletion.
LEMMA HashDestroyStep ==
  ASSUME HashInv, nrm_hash_destroy
  PROVE  HashInv' /\ Dictionary!DropFirst
<1> DEFINE q == tbl.order
           k == q[1]
           rest == HASH_DELETE(tbl, k)
<1>1. iter # NULL /\ hashv' = hashv /\ answered' = NULL /\ heap' = heap \ {iter.el}
      /\ tbl' = (IF HASH_ITER_next(tbl, iter).el = NULL THEN NoTable
                 ELSE HASH_DELETE(tbl, iter.el))
      /\ iter' = (IF HASH_ITER_next(tbl, iter).el = NULL THEN NULL
                  ELSE HASH_ITER_next(tbl, iter))
  BY Zenon DEF nrm_hash_destroy
<1>2. Filled /\ iter = [el |-> q[1], tmp |-> After(q, 1)]
  BY <1>1 DEF HashInv
<1>3. /\ q \in Seq(Keys) /\ q # << >> /\ Once(q) /\ heap = Links(q)
      /\ DOMAIN tbl = TableFields /\ tbl.nb \in Nat \ {0}
  BY <1>2 DEF Filled
<1>4. iter.el = k /\ iter.tmp = After(q, 1)
  BY <1>2
<1>5. HASH_ITER_next(tbl, iter) =
        [el |-> After(q, 1),
         tmp |-> IF After(q, 1) = NULL THEN NULL ELSE HashNext(tbl, After(q, 1))]
  BY <1>4 DEF HASH_ITER_next
<1> HIDE DEF q
<1>6. /\ k \in Links(q)
      /\ Len(q) # 1 => After(q, 1) = q[2] /\ q[2] \in Keys /\ q[2] # NULL /\ 2 \in DOMAIN q
      /\ Len(q) = 1 => After(q, 1) = NULL
  BY <1>3, LoopStands
<1>7. /\ Without(q, k) = Tail(q) /\ Tail(q) \in Seq(Keys) /\ Once(Tail(q))
      /\ Links(Tail(q)) = Links(q) \ {k} /\ Len(Tail(q)) = Len(q) - 1
      /\ \A i \in 1..Len(q) - 1 : Tail(q)[i] = q[i + 1]
  BY <1>3, WithoutFirst
<1>8. heap' = Links(Tail(q))
  BY <1>1, <1>3, <1>4, <1>7
<1>9. Len(q) \in Nat \ {0}
  BY <1>3, SMTT(60)
<1>10. CASE Len(q) = 1
  <2>1. tbl' = NoTable /\ iter' = NULL
    BY <1>1, <1>5, <1>6, <1>10
  <2>2. Tail(q) = << >> /\ Links(<< >>) = {}
    <3>1. Len(Tail(q)) = 0
      BY <1>7, <1>10
    <3>2. Tail(q) = << >> /\ DOMAIN << >> = {}
      BY <1>7, <3>1, SMTT(60)
    <3> QED  BY <3>2 DEF Links
  <2>3. HashInv'
    BY <1>1, <1>8, <2>1, <2>2 DEF HashInv, NoTable, HASH_MAKE_TABLE, NoBucket
  <2>4. tbl'.order = Tail(q)
    BY <2>1, <2>2, NoTableFields
  <2> QED  BY <1>1, <1>3, <2>3, <2>4 DEF Dictionary!DropFirst, q
<1>11. CASE Len(q) # 1
  <2>1. /\ 1 \in 1..Len(q) - 1 /\ 1 + 1 = 2
        /\ 1 < Len(q) - 1 <=> 2 < Len(q)
        /\ 1 < Len(q) - 1 => 2 \in 1..Len(q) - 1
        /\ Len(q) - 1 # 0
    <3> DEFINE n == Len(q)
    <3>1. n \in Nat \ {0} /\ n # 1
      BY <1>9, <1>11
    <3> HIDE DEF n
    <3>2. /\ 1 \in 1..n - 1 /\ 1 + 1 = 2
          /\ 1 < n - 1 <=> 2 < n
          /\ 1 < n - 1 => 2 \in 1..n - 1
          /\ n - 1 # 0
      BY <3>1, SMTT(60)
    <3> QED  BY <3>2 DEF n
  <2>2. /\ tbl' = rest
        /\ iter' = [el |-> q[2], tmp |-> HashNext(tbl, q[2])]
    BY <1>1, <1>4, <1>5, <1>6, <1>11
  <2>3. q # <<k>>
    <3>1. Len(<<k>>) = 1
      BY SMTT(60)
    <3> QED  BY <1>11, <3>1
  <2>4. /\ DOMAIN rest = TableFields /\ rest.nb = tbl.nb /\ rest.order = Tail(q)
    <3>1. rest = [tbl EXCEPT !.order = Without(@, k),
                             !.buckets[HASH_TO_BKT(k, tbl.nb)].chain = Without(@, k)]
      BY <2>3 DEF HASH_DELETE, q
    <3>2. DOMAIN rest = TableFields /\ rest.nb = tbl.nb /\ rest.order = Without(tbl.order, k)
      <4> HIDE DEF rest, k
      <4> QED  BY <1>3, <3>1 DEF TableFields
    <3> QED  BY <1>7, <3>2 DEF q
  <2>5. HashNext(tbl, q[2]) = After(q, 2)
    BY <1>3, <1>6, <1>11, NextElement DEF q
  <2>6. Tail(q)[1] = q[2] /\ After(Tail(q), 1) = After(q, 2)
    BY <1>7, <2>1 DEF After
  <2>7. Tail(q) # << >>
    BY <1>7, <2>1, EmptySeq, Zenon
  <2> HIDE DEF rest
  <2>8. tbl'.order = Tail(q)
    BY <2>2, <2>4
  <2>9. Filled'
    BY <1>3, <1>7, <1>8, <2>2, <2>4, <2>7 DEF Filled, Links, Once
  <2>10. (iter = [el |-> tbl.order[1], tmp |-> After(tbl.order, 1)])'
    BY <2>2, <2>5, <2>6, <2>8 DEF After
  <2>11. HashInv'
    BY <1>1, <2>9, <2>10 DEF HashInv
  <2> QED  BY <1>1, <1>3, <2>8, <2>11 DEF Dictionary!DropFirst, q
<1> QED  BY <1>10, <1>11

HashSpec == HashInit /\ [][HashNextAction]_hashvars

\* Every call keeps the invariant and is a step of the dictionary.
LEMMA HashStep ==
  ASSUME HashInv, [HashNextAction]_hashvars
  PROVE  HashInv' /\ [Dictionary!Next]_(Dictionary!vars)
<1>1. CASE UNCHANGED hashvars
  <2>1. UNCHANGED <<hashv, tbl, iter, heap>> /\ answered' = answered
    BY <1>1 DEF hashvars
  <2>2. HashInv'
    BY <2>1, HashKept
  <2> QED  BY <2>1, <2>2 DEF Dictionary!vars
<1>2. CASE \E k \in Keys : nrm_hash_add(k)
  BY <1>2, HashAddStep DEF Dictionary!Next
<1>3. CASE \E k \in Keys : nrm_hash_find(k)
  BY <1>3, HashFindStep DEF Dictionary!Next
<1>4. CASE HASH_ITER_first
  BY <1>4, HashLoopStep
<1>5. CASE nrm_hash_destroy
  BY <1>5, HashDestroyStep DEF Dictionary!Next
<1> QED  BY <1>1, <1>2, <1>3, <1>4, <1>5 DEF HashNextAction

\* The invariant holds from the first call on.
LEMMA HashConsistent == HashSpec => []HashInv
<1>1. HashInit => HashInv
  BY HashAssumption DEF HashInit, HashInv
<1>2. HashInv /\ [HashNextAction]_hashvars => HashInv'
  BY HashStep
<1> QED  BY <1>1, <1>2, PTL DEF HashSpec

\* Until a table gives up doubling its buckets, every chain is below the
\* capacity of its bucket or within its multiple of the ideal length
\* (HASH_ADD_TO_BKT and HASH_EXPAND_BUCKETS), for every hash function.
THEOREM ChainsStayBounded == HashSpec => []ChainsBounded
<1>1. HashInv => ChainsBounded
  <2> SUFFICES ASSUME HashInv, iter = NULL, ~tbl.noexpand, NEW b \in 0..tbl.nb - 1
               PROVE  \/ Len(tbl.buckets[b].chain) < (tbl.buckets[b].expand_mult + 1) * Thresh
                      \/ Len(tbl.buckets[b].chain) <= (tbl.buckets[b].expand_mult + 1)
                                                       * Ideal(Len(tbl.order), tbl.nb)
    BY DEF ChainsBounded
  <2>1. tbl # NoTable
    <3>1. 0..0 - 1 = {}
      BY SMTT(60)
    <3> QED  BY <3>1, NoTableFields
  <2>2. TableTyped(tbl) /\ ChainsFit(tbl)
    BY <2>1, LoopStands DEF HashInv, Filled
  <2>3. CASE Within(tbl.buckets[b], Ideal(Len(tbl.order), tbl.nb))
    BY <2>3 DEF Within
  <2>4. CASE ~TooLong(tbl.buckets[b])
    <3>1. tbl.buckets[b].chain \in Seq(Keys) /\ tbl.buckets[b].expand_mult \in Nat
      BY <2>2 DEF TableTyped, Bucket
    <3>2. Len(tbl.buckets[b].chain) \in Nat /\ (tbl.buckets[b].expand_mult + 1) * Thresh \in Nat
      <4>1. ASSUME NEW m \in Nat PROVE (m + 1) * Thresh \in Nat
        BY HashAssumption, SMTT(60)
      <4> QED  BY <3>1, <4>1, LenProperties
    <3>3. ~(Len(tbl.buckets[b].chain) >= (tbl.buckets[b].expand_mult + 1) * Thresh)
      BY <2>4 DEF TooLong
    <3> QED  BY <3>2, <3>3, SMTT(60)
  <2> QED  BY <2>2, <2>3, <2>4 DEF ChainsFit, Fits
<1> QED  BY <1>1, HashConsistent, PTL

\* Destroying a table frees every element it held, and the loop never stands
\* on an element that was freed (nrm_hash_destroy).
THEOREM DestroyedIsFreed == HashSpec => []DestroyFreesAll
<1>1. HashInv => DestroyFreesAll
  <2> SUFFICES ASSUME HashInv PROVE DestroyFreesAll
    OBVIOUS
  <2>1. CASE tbl = NoTable /\ heap = {} /\ iter = NULL
    BY <2>1 DEF DestroyFreesAll
  <2>2. CASE Filled /\ iter = NULL
    BY <2>2 DEF DestroyFreesAll, Filled
  <2>3. CASE Filled /\ iter = [el |-> tbl.order[1], tmp |-> After(tbl.order, 1)]
    <3>1. tbl.order[1] \in heap /\ After(tbl.order, 1) \in heap \cup {NULL} /\ tbl.nb # 0
      BY <2>3, LoopStands DEF Filled
    <3> QED  BY <2>3, <3>1 DEF DestroyFreesAll
  <2> QED  BY <2>1, <2>2, <2>3 DEF HashInv
<1> QED  BY <1>1, HashConsistent, PTL

\* A table implements a dictionary: what was added is found, and once, also
\* after its chains were taken apart and spread over twice the buckets.
THEOREM TableIsDictionary == HashSpec => HashIsDictionary
<1>1. HashInit => HashInv /\ Dictionary!Init
  BY HashAssumption, NoTableFields DEF HashInit, HashInv, Dictionary!Init
<1>2. HashInv /\ [HashNextAction]_hashvars => HashInv' /\ [Dictionary!Next]_(Dictionary!vars)
  BY HashStep
<1> QED  BY <1>1, <1>2, PTL DEF HashSpec, HashIsDictionary, Dictionary!Spec
=============================================================================
