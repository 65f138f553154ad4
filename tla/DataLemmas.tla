----------------------------- MODULE DataLemmas -----------------------------
(***************************************************************************)
(* Lemmas about the data the models are made of.  Induction over natural   *)
(* numbers is stated for sets, and recursion for functions, since the      *)
(* provers cannot instantiate theorems about operators.                    *)
(***************************************************************************)
EXTENDS Arrangement, FiniteSetTheorems, SequenceTheorems, TLAPS

-----------------------------------------------------------------------------
(***************************************************************************)
(* Induction and recursion                                                 *)
(***************************************************************************)

\* A set of natural numbers has a least one.
LEMMA LeastNumber ==
  ASSUME NEW S, S \subseteq Nat, S # {}
  PROVE  \E m \in S : \A n \in S : m <= n
<1> DEFINE T == {0 .. n : n \in S}
           F == FiniteSubsetsOf(Nat)
           R == StrictSubsetOrdering(Nat)
<1>1. T \subseteq F /\ T # {}
  <2>1. \A n \in S : 0 .. n \in F
    <3> SUFFICES ASSUME NEW n \in S PROVE 0 .. n \in F
      OBVIOUS
    <3>1. n \in Int /\ 0 \in Int
      OBVIOUS
    <3>2. IsFiniteSet(0 .. n)
      BY <3>1, FS_Interval
    <3>3. 0 .. n \in SUBSET Nat
      OBVIOUS
    <3> QED
      BY <3>2, <3>3 DEF FiniteSubsetsOf
  <2> HIDE DEF F
  <2> QED
    BY <2>1
<1>2. IsWellFoundedOn(R, F)
  BY FS_StrictSubsetOrderingWellFounded
<1> HIDE DEF T, F, R
<1>3. \E x \in T : \A y \in T : <<y, x>> \notin R
  BY <1>1, <1>2, WFMin
<1>4. PICK m \in S : \A n \in S : <<0 .. n, 0 .. m>> \notin R
  BY <1>3 DEF T
<1>5. \A n \in S : <<0 .. n, 0 .. m>> \notin R => m <= n
  <2> SUFFICES ASSUME NEW n \in S, n < m PROVE <<0 .. n, 0 .. m>> \in R
    BY DEF R
  <2>1. 0 .. n \subseteq 0 .. m /\ m \in 0 .. m /\ m \notin 0 .. n
    OBVIOUS
  <2> QED
    BY <2>1 DEF R, StrictSubsetOrdering
<1> QED
  BY <1>4, <1>5

\* Induction up to n: what holds of 0 and is handed on holds of all.
LEMMA CountingUp ==
  ASSUME NEW n \in Nat, NEW S, 0 \in S, \A k \in 0 .. n - 1 : k \in S => k + 1 \in S
  PROVE  0 .. n \subseteq S
<1> SUFFICES ASSUME (0 .. n) \ S # {} PROVE FALSE
  OBVIOUS
<1> DEFINE D == (0 .. n) \ S
<1>0. D \subseteq Nat /\ D # {}
  OBVIOUS
<1> HIDE DEF D
<1>1. PICK m \in D : \A k \in D : m <= k
  BY <1>0, LeastNumber
<1>2. m - 1 \in 0 .. n - 1 /\ m - 1 \in S
  BY <1>1 DEF D
<1>3. (m - 1) + 1 \in S
  BY <1>2
<1> QED
  BY <1>1, <1>3 DEF D

\* f is what b and the step G make of its predecessor, within the types T.
Recurs(f, n, b, G) ==
  /\ f[0] = b
  /\ \A i \in 1 .. n : f[i] = G[<<i, f[i - 1]>>]

\* A function defined by recursion has the types that the step keeps.
LEMMA RecursionTyped ==
  ASSUME NEW n \in Nat, NEW T, NEW b \in T[0], NEW G,
         \A i \in 1 .. n : \A v \in T[i - 1] : G[<<i, v>>] \in T[i],
         NEW f, Recurs(f, n, b, G)
  PROVE  \A i \in 0 .. n : f[i] \in T[i]
<1> DEFINE S == {i \in 0 .. n : f[i] \in T[i]}
<1>1. 0 \in S
  BY DEF Recurs
<1>2. ASSUME NEW k \in 0 .. n - 1, k \in S PROVE k + 1 \in S
  <2>1. k + 1 \in 1 .. n /\ (k + 1) - 1 = k /\ k + 1 \in 0 .. n
    OBVIOUS
  <2>2. f[k + 1] = G[<<k + 1, f[k]>>]
    BY <2>1 DEF Recurs
  <2>3. f[k] \in T[k]
    BY <1>2
  <2>4. G[<<k + 1, f[k]>>] \in T[k + 1]
    BY <2>1, <2>3
  <2> QED
    BY <2>1, <2>2, <2>4
<1> HIDE DEF S
<1>3. 0 .. n \subseteq S
  BY <1>1, <1>2, CountingUp
<1> QED
  BY <1>3 DEF S

\* There is a function for every such recursion.
LEMMA RecursionExists ==
  ASSUME NEW n \in Nat, NEW T, NEW b \in T[0], NEW G,
         \A i \in 1 .. n : \A v \in T[i - 1] : G[<<i, v>>] \in T[i]
  PROVE  \E f : f = [i \in 0 .. n |-> f[i]] /\ Recurs(f, n, b, G)
<1> DEFINE Has(k) == \E f : f = [i \in 0 .. k |-> f[i]] /\ Recurs(f, k, b, G)
           S == {k \in 0 .. n : Has(k)}
<1>1. 0 \in S
  <2> DEFINE f == [i \in 0 .. 0 |-> b]
  <2>1. f = [i \in 0 .. 0 |-> f[i]] /\ Recurs(f, 0, b, G)
    BY DEF Recurs
  <2> HIDE DEF f
  <2>2. Has(0)
    BY <2>1
  <2> QED
    BY <2>2
<1>2. ASSUME NEW k \in 0 .. n - 1, k \in S PROVE k + 1 \in S
  <2>1. PICK g : g = [i \in 0 .. k |-> g[i]] /\ Recurs(g, k, b, G)
    BY <1>2
  <2> DEFINE f == [i \in 0 .. k + 1 |-> IF i = k + 1 THEN G[<<k + 1, g[k]>>] ELSE g[i]]
  <2>2. /\ f = [i \in 0 .. k + 1 |-> f[i]]
        /\ \A i \in 0 .. k : f[i] = g[i]
        /\ f[k + 1] = G[<<k + 1, g[k]>>]
    OBVIOUS
  <2> HIDE DEF f
  <2>3. f[0] = b
    <3>1. 0 \in 0 .. k
      OBVIOUS
    <3> QED
      BY <2>1, <2>2, <3>1 DEF Recurs
  <2>4. ASSUME NEW i \in 1 .. k + 1 PROVE f[i] = G[<<i, f[i - 1]>>]
    <3>1. i - 1 \in 0 .. k
      OBVIOUS
    <3>2. CASE i = k + 1
      <4>1. i - 1 = k
        BY <3>2
      <4>2. f[i] = G[<<k + 1, g[k]>>]
        BY <2>2, <3>2
      <4>3. f[k] = g[k]
        <5>1. k \in 0 .. k
          OBVIOUS
        <5> QED
          BY <2>2, <5>1
      <4> QED
        BY <3>2, <4>1, <4>2, <4>3
    <3>3. CASE i \in 1 .. k
      <4>1. i \in 0 .. k
        BY <3>3
      <4> QED
        BY <2>1, <2>2, <3>1, <3>3, <4>1 DEF Recurs
    <3> QED
      BY <3>2, <3>3
  <2>5. Recurs(f, k + 1, b, G)
    BY <2>3, <2>4 DEF Recurs
  <2>6. Has(k + 1)
    BY <2>2, <2>5
  <2>7. k + 1 \in 0 .. n
    OBVIOUS
  <2> QED
    BY <2>6, <2>7
<1> HIDE DEF S
<1>3. 0 .. n \subseteq S
  BY <1>1, <1>2, CountingUp
<1>4. n \in S
  BY <1>3
<1> QED
  BY <1>4 DEF S

\* What a function makes of a finite set is finite, and no larger.
LEMMA ImageFinite ==
  ASSUME NEW S, IsFiniteSet(S), NEW f
  PROVE  /\ IsFiniteSet({f[x] : x \in S})
         /\ Cardinality({f[x] : x \in S}) <= Cardinality(S)
<1> DEFINE g == [x \in S |-> f[x]]
           T == {f[x] : x \in S}
<1>1. g \in Surjection(S, T)
  BY DEF Surjection
<1> HIDE DEF g, T
<1>2. IsFiniteSet(T) /\ Cardinality(T) <= Cardinality(S)
  BY <1>1, FS_Surjection
<1> QED
  BY <1>2 DEF T
-----------------------------------------------------------------------------
(***************************************************************************)
(* Arrangements                                                            *)
(***************************************************************************)

\* R puts the elements of D in a strict total order.
Orders(R, D) ==
  /\ \A a \in D : <<a, a>> \notin R
  /\ \A a, b, c \in D : <<a, b>> \in R /\ <<b, c>> \in R => <<a, c>> \in R
  /\ \A a, b \in D : a # b => <<a, b>> \in R \/ <<b, a>> \in R

\* Elements have different ranks, in their order, and there is one of every rank.
LEMMA Ranks ==
  ASSUME NEW D, IsFiniteSet(D), NEW R, Orders(R, D)
  PROVE  /\ \A d \in D : Cardinality(Ahead(D, R, d)) \in 0 .. Cardinality(D) - 1
         /\ \A a, b \in D :
              <<a, b>> \in R <=> Cardinality(Ahead(D, R, a)) < Cardinality(Ahead(D, R, b))
         /\ \A a, b \in D : Cardinality(Ahead(D, R, a)) = Cardinality(Ahead(D, R, b)) => a = b
         /\ \A k \in 0 .. Cardinality(D) - 1 : \E d \in D : Cardinality(Ahead(D, R, d)) = k
<1> DEFINE n == Cardinality(D)
           rank(d) == Cardinality(Ahead(D, R, d))
<1>0. n \in Nat
  BY FS_CardinalityType
<1>1. ASSUME NEW d \in D
      PROVE  IsFiniteSet(Ahead(D, R, d)) /\ rank(d) \in Nat
  <2>1. Ahead(D, R, d) \in SUBSET D
    BY DEF Ahead
  <2>2. IsFiniteSet(Ahead(D, R, d))
    BY <2>1, FS_Subset
  <2> QED
    BY <2>2, FS_CardinalityType
<1>2. ASSUME NEW d \in D PROVE rank(d) \in 0 .. n - 1
  <2>1. Ahead(D, R, d) \in SUBSET (D \ {d})
    BY DEF Ahead, Orders
  <2>2. IsFiniteSet(D \ {d}) /\ Cardinality(D \ {d}) = n - 1
    BY FS_RemoveElement
  <2>3. rank(d) <= n - 1
    BY <2>1, <2>2, FS_Subset
  <2> QED
    BY <1>0, <1>1, <2>3
<1>3. ASSUME NEW a \in D, NEW b \in D, <<a, b>> \in R PROVE rank(a) < rank(b)
  <2>1. Ahead(D, R, a) \cup {a} \in SUBSET Ahead(D, R, b) /\ a \notin Ahead(D, R, a)
    BY <1>3 DEF Ahead, Orders
  <2>2. Cardinality(Ahead(D, R, a) \cup {a}) = rank(a) + 1
    BY <1>1, <2>1, FS_AddElement
  <2>3. Cardinality(Ahead(D, R, a) \cup {a}) <= rank(b)
    BY <1>1, <2>1, FS_Subset
  <2> QED
    BY <1>1, <2>2, <2>3
<1>4. ASSUME NEW a \in D, NEW b \in D, rank(a) <= rank(b), a # b PROVE <<a, b>> \in R
  <2>1. CASE <<b, a>> \in R
    <3>1. rank(b) < rank(a)
      BY <1>3, <2>1
    <3> QED
      BY <1>1, <1>4, <3>1
  <2> QED
    BY <1>4, <2>1 DEF Orders
<1> HIDE DEF rank
<1>5. \A a, b \in D : rank(a) = rank(b) => a = b
  <2> SUFFICES ASSUME NEW a \in D, NEW b \in D, rank(a) = rank(b), a # b PROVE FALSE
    OBVIOUS
  <2>1. rank(a) \in Nat
    BY <1>1 DEF rank
  <2>2. rank(a) <= rank(b)
    BY <2>1
  <2>3. <<a, b>> \in R
    BY <1>4, <2>2
  <2>4. rank(a) < rank(b)
    BY <1>3, <2>3
  <2> QED
    BY <2>1, <2>4
<1>6. \A a, b \in D : <<a, b>> \in R <=> rank(a) < rank(b)
  <2> SUFFICES ASSUME NEW a \in D, NEW b \in D, rank(a) < rank(b) PROVE <<a, b>> \in R
    BY <1>3
  <2>1. rank(a) \in Nat /\ rank(b) \in Nat
    BY <1>1 DEF rank
  <2>2. rank(a) <= rank(b) /\ a # b
    BY <2>1
  <2> QED
    BY <1>4, <2>2
<1>7. \A k \in 0 .. n - 1 : \E d \in D : rank(d) = k
  <2> DEFINE f == [d \in D |-> rank(d)]
             N == 0 .. n - 1
  <2>1. f \in Injection(D, N)
    <3>1. f \in [D -> N]
      BY <1>2 DEF rank
    <3>2. \A a, b \in D : f[a] = f[b] => a = b
      BY <1>5
    <3> HIDE DEF f, N
    <3> QED
      BY <3>1, <3>2 DEF Injection, IsInjective
  <2>2. IsFiniteSet(N) /\ Cardinality(N) = n
    <3>1. 0 \in Int /\ n - 1 \in Int
      BY <1>0
    <3> QED
      BY <1>0, <3>1, FS_Interval
  <2> HIDE DEF f, N
  <2>3. f \in Surjection(D, N)
    BY <2>1, <2>2, FS_Injection
  <2>4. \A k \in N : \E d \in D : f[d] = k
    BY <2>3 DEF Surjection
  <2> QED
    BY <2>4 DEF f, N
<1> QED
  BY <1>2, <1>5, <1>6, <1>7 DEF rank

\* An arrangement has every element once, in order.
LEMMA ArrangedProperties ==
  ASSUME NEW D, IsFiniteSet(D), NEW R, Orders(R, D)
  PROVE  /\ Arranged(D, R) \in Seq(D)
         /\ Len(Arranged(D, R)) = Cardinality(D)
         /\ DOMAIN Arranged(D, R) = 1 .. Cardinality(D)
         /\ \A i, j \in 1 .. Cardinality(D) :
              i < j <=> <<Arranged(D, R)[i], Arranged(D, R)[j]>> \in R
         /\ \A i, j \in 1 .. Cardinality(D) : Arranged(D, R)[i] = Arranged(D, R)[j] => i = j
         /\ \A d \in D : \E i \in 1 .. Cardinality(D) : Arranged(D, R)[i] = d
<1> DEFINE n == Cardinality(D)
           rank(d) == Cardinality(Ahead(D, R, d))
           p == Arranged(D, R)
<1>0. n \in Nat
  BY FS_CardinalityType
<1>1. /\ \A d \in D : rank(d) \in 0 .. n - 1
      /\ \A a, b \in D : <<a, b>> \in R <=> rank(a) < rank(b)
      /\ \A a, b \in D : rank(a) = rank(b) => a = b
      /\ \A k \in 0 .. n - 1 : \E d \in D : rank(d) = k
  BY Ranks
<1>2. p = [i \in 1 .. n |-> CHOOSE d \in D : rank(d) = i - 1]
  BY DEF Arranged
<1> HIDE DEF rank, p, n
<1>3. ASSUME NEW i \in 1 .. n PROVE p[i] \in D /\ rank(p[i]) = i - 1
  <2>1. i - 1 \in 0 .. n - 1
    BY <1>0
  <2>2. \E d \in D : rank(d) = i - 1
    BY <1>1, <2>1
  <2> QED
    BY <1>2, <2>2
<1>4. p \in [1 .. n -> D] /\ DOMAIN p = 1 .. n
  BY <1>2, <1>3
<1>5. p \in Seq(D) /\ Len(p) = n
  BY <1>0, <1>4
<1>6. \A i, j \in 1 .. n : i < j <=> <<p[i], p[j]>> \in R
  <2> SUFFICES ASSUME NEW i \in 1 .. n, NEW j \in 1 .. n
               PROVE  i < j <=> <<p[i], p[j]>> \in R
    OBVIOUS
  <2>1. <<p[i], p[j]>> \in R <=> rank(p[i]) < rank(p[j])
    BY <1>1, <1>3
  <2> QED
    BY <1>0, <1>3, <2>1
<1>7. \A i, j \in 1 .. n : p[i] = p[j] => i = j
  <2> SUFFICES ASSUME NEW i \in 1 .. n, NEW j \in 1 .. n, p[i] = p[j]
               PROVE  i = j
    OBVIOUS
  <2>1. i - 1 = j - 1
    BY <1>3
  <2> QED
    BY <1>0, <2>1
<1>8. \A d \in D : \E i \in 1 .. n : p[i] = d
  <2> SUFFICES ASSUME NEW d \in D PROVE \E i \in 1 .. n : p[i] = d
    OBVIOUS
  <2>1. rank(d) \in 0 .. n - 1
    BY <1>1
  <2>2. rank(d) + 1 \in 1 .. n /\ (rank(d) + 1) - 1 = rank(d)
    BY <1>0, <2>1
  <2>3. p[rank(d) + 1] \in D /\ rank(p[rank(d) + 1]) = rank(d)
    BY <1>3, <2>2
  <2> QED
    BY <1>1, <2>2, <2>3
<1> QED
  BY <1>4, <1>5, <1>6, <1>7, <1>8 DEF p, n

\* Places of a sequence in increasing order.
LEMMA AscendingProperties ==
  ASSUME NEW n \in Nat, NEW K, K \subseteq 1 .. n
  PROVE  /\ IsFiniteSet(K) /\ Cardinality(K) \in 0 .. n
         /\ Ascending(K) \in Seq(K) /\ Len(Ascending(K)) = Cardinality(K)
         /\ DOMAIN Ascending(K) = 1 .. Cardinality(K)
         /\ \A i, j \in 1 .. Cardinality(K) : i < j <=> Ascending(K)[i] < Ascending(K)[j]
         /\ \A i, j \in 1 .. Cardinality(K) : Ascending(K)[i] = Ascending(K)[j] => i = j
         /\ \A k \in K : \E i \in 1 .. Cardinality(K) : Ascending(K)[i] = k
<1> DEFINE R == {p \in K \X K : p[1] < p[2]}
<1>1. 1 \in Int /\ n \in Int
  OBVIOUS
<1>2. IsFiniteSet(1 .. n) /\ Cardinality(1 .. n) = n
  BY <1>1, FS_Interval
<1>3. IsFiniteSet(K) /\ Cardinality(K) <= n
  BY <1>2, FS_Subset
<1>4. Cardinality(K) \in Nat
  BY <1>3, FS_CardinalityType
<1>5. \A a, b \in K : <<a, b>> \in R <=> a < b
  OBVIOUS
<1> HIDE DEF R
<1>6. Orders(R, K)
  <2>1. \A a \in K : a \in Int
    OBVIOUS
  <2> QED
    BY <1>5, <2>1 DEF Orders
<1>7. Ascending(K) = Arranged(K, R)
  BY DEF Ascending, R
<1> DEFINE p == Arranged(K, R)
<1>8. /\ p \in Seq(K) /\ Len(p) = Cardinality(K) /\ DOMAIN p = 1 .. Cardinality(K)
      /\ \A i, j \in 1 .. Cardinality(K) : i < j <=> <<p[i], p[j]>> \in R
      /\ \A i, j \in 1 .. Cardinality(K) : p[i] = p[j] => i = j
      /\ \A d \in K : \E i \in 1 .. Cardinality(K) : p[i] = d
  BY <1>3, <1>6, ArrangedProperties
<1> HIDE DEF p
<1>9. \A i \in 1 .. Cardinality(K) : p[i] \in K
  BY <1>4, <1>8
<1>10. \A i, j \in 1 .. Cardinality(K) : i < j <=> p[i] < p[j]
  BY <1>5, <1>8, <1>9
<1> QED
  BY <1>3, <1>4, <1>7, <1>8, <1>10 DEF p

\* What is kept of a sequence.
LEMMA KeptProperties ==
  ASSUME NEW S, NEW s \in Seq(S), NEW K, K \subseteq DOMAIN s
  PROVE  /\ Kept(s, K) \in Seq(S) /\ Len(Kept(s, K)) = Cardinality(K)
         /\ DOMAIN Kept(s, K) = 1 .. Cardinality(K)
         /\ \A i \in 1 .. Cardinality(K) :
              Ascending(K)[i] \in K /\ Kept(s, K)[i] = s[Ascending(K)[i]]
<1>1. DOMAIN s = 1 .. Len(s) /\ Len(s) \in Nat
  OBVIOUS
<1> DEFINE at == Ascending(K)
           n == Cardinality(K)
           t == Kept(s, K)
<1>2. n \in Nat /\ at \in Seq(K) /\ Len(at) = n
  BY <1>1, AscendingProperties
<1>3. t = [i \in 1 .. n |-> s[at[i]]]
  BY DEF Kept
<1> HIDE DEF at, n, t
<1>4. \A i \in 1 .. n : at[i] \in K
  BY <1>2
<1>5. \A k \in K : s[k] \in S
  BY <1>1
<1>6. t \in [1 .. n -> S]
  BY <1>3, <1>4, <1>5
<1>7. t \in Seq(S) /\ Len(t) = n /\ DOMAIN t = 1 .. n
  BY <1>2, <1>6
<1> QED
  BY <1>3, <1>4, <1>7 DEF at, n, t

\* p puts the elements of D in the places 1 .. n, each in one.
Lists(p, n, D) ==
  /\ \A i \in 1 .. n : p[i] \in D
  /\ \A i, j \in 1 .. n : p[i] = p[j] => i = j
  /\ \A d \in D : \E i \in 1 .. n : p[i] = d

\* A list of a set has every element once.
LEMMA ListedProperties ==
  ASSUME NEW D, IsFiniteSet(D)
  PROVE  /\ Listed(D) \in Seq(D) /\ Len(Listed(D)) = Cardinality(D)
         /\ DOMAIN Listed(D) = 1 .. Cardinality(D)
         /\ Lists(Listed(D), Cardinality(D), D)
<1> DEFINE n == Cardinality(D)
           Once(t) == \A i, j \in DOMAIN t : t[i] = t[j] => i = j
           s == Listed(D)
<1>1. n \in Nat /\ ExistsBijection(1 .. n, D)
  BY FS_CardinalityType
<1>2. PICK f : f \in Bijection(1 .. n, D)
  BY <1>1 DEF ExistsBijection
<1>3. f \in [1 .. n -> D] /\ Once(f)
  BY <1>2 DEF Bijection, Injection, IsInjective
<1>4. s \in [1 .. n -> D] /\ Once(s)
  BY <1>3 DEF Listed
<1>5. \A i, j \in 1 .. n : s[i] = s[j] => i = j
  BY <1>4
<1>6. IsFiniteSet(1 .. n) /\ Cardinality(1 .. n) = n
  <2>1. 1 \in Int /\ n \in Int /\ (1 > n => n = 0) /\ n - 1 + 1 = n
    BY <1>1
  <2> HIDE DEF n
  <2> QED
    BY <2>1, FS_Interval
<1> HIDE DEF s
<1>7. s \in Injection(1 .. n, D)
  BY <1>4, <1>5 DEF Injection, IsInjective
<1>8. s \in Surjection(1 .. n, D)
  BY <1>6, <1>7, FS_Injection DEF n
<1>9. s \in Seq(D) /\ Len(s) = n /\ DOMAIN s = 1 .. n
  BY <1>1, <1>4
<1>10. Lists(s, n, D)
  BY <1>4, <1>5, <1>8 DEF Lists, Surjection
<1> QED
  BY <1>9, <1>10 DEF s, n

\* A sequence without repetitions, some of whose elements are kept.
LEMMA KeptLists ==
  ASSUME NEW S, NEW s \in Seq(S), NEW K, K \subseteq DOMAIN s,
         \A i, j \in DOMAIN s : s[i] = s[j] => i = j
  PROVE  Lists(Kept(s, K), Cardinality(K), {s[k] : k \in K})
<1> DEFINE at == Ascending(K)
           n == Cardinality(K)
           t == Kept(s, K)
<1>1. DOMAIN s = 1 .. Len(s) /\ Len(s) \in Nat
  OBVIOUS
<1>2. /\ \A i, j \in 1 .. n : at[i] = at[j] => i = j
      /\ \A k \in K : \E i \in 1 .. n : at[i] = k
  BY <1>1, AscendingProperties
<1>3. \A i \in 1 .. n : at[i] \in K /\ t[i] = s[at[i]]
  BY KeptProperties
<1> HIDE DEF at, n, t
<1>4. \A i, j \in 1 .. n : t[i] = t[j] => i = j
  BY <1>2, <1>3
<1>5. \A k \in K : \E i \in 1 .. n : t[i] = s[k]
  BY <1>2, <1>3
<1>6. Lists(t, n, {s[k] : k \in K})
  BY <1>3, <1>4, <1>5 DEF Lists
<1> QED
  BY <1>6 DEF t, n

\* Two lists of different things, one after the other.
LEMMA ListsTogether ==
  ASSUME NEW D, NEW E, D \cap E = {},
         NEW s \in Seq(D), Lists(s, Len(s), D), NEW t \in Seq(E), Lists(t, Len(t), E)
  PROVE  /\ s \o t \in Seq(D \cup E)
         /\ Lists(s \o t, Len(s \o t), D \cup E)
<1> DEFINE m == Len(s)
           n == Len(t)
           u == s \o t
<1>1. s \in Seq(D \cup E) /\ t \in Seq(D \cup E) /\ m \in Nat /\ n \in Nat
  OBVIOUS
<1>2. /\ u \in Seq(D \cup E) /\ Len(u) = m + n
      /\ \A i \in 1 .. m + n : u[i] = IF i <= m THEN s[i] ELSE t[i - m]
  BY <1>1, ConcatProperties
<1>3. Lists(s, m, D) /\ Lists(t, n, E)
  OBVIOUS
<1> HIDE DEF m, n, u
<1>4. /\ \A i \in 1 .. m : i \in 1 .. m + n /\ u[i] = s[i] /\ s[i] \in D
      /\ \A j \in 1 .. n : m + j \in 1 .. m + n /\ u[m + j] = t[j] /\ t[j] \in E
  <2>1. \A i \in 1 .. m : i \in 1 .. m + n /\ i <= m
    BY <1>1
  <2>2. \A j \in 1 .. n : m + j \in 1 .. m + n /\ ~(m + j <= m) /\ (m + j) - m = j
    BY <1>1
  <2>3. /\ \A i \in 1 .. m : u[i] = s[i]
        /\ \A j \in 1 .. n : u[m + j] = t[j]
    BY <1>2, <2>1, <2>2
  <2>4. (\A i \in 1 .. m : s[i] \in D) /\ (\A j \in 1 .. n : t[j] \in E)
    BY <1>3 DEF Lists
  <2> QED
    BY <2>1, <2>2, <2>3, <2>4
<1>5. \A k \in 1 .. m + n : k \in 1 .. m \/ \E j \in 1 .. n : k = m + j
  <2> SUFFICES ASSUME NEW k \in 1 .. m + n, k \notin 1 .. m
               PROVE  k - m \in 1 .. n /\ k = m + (k - m)
    OBVIOUS
  <2> QED
    BY <1>1
<1>6. \A i, j \in 1 .. m + n : u[i] = u[j] => i = j
  <2> SUFFICES ASSUME NEW i \in 1 .. m + n, NEW j \in 1 .. m + n, u[i] = u[j] PROVE i = j
    OBVIOUS
  <2>1. CASE i \in 1 .. m /\ j \in 1 .. m
    BY <1>3, <1>4, <2>1 DEF Lists
  <2>2. CASE i \in 1 .. m /\ \E k \in 1 .. n : j = m + k
    BY <1>4, <2>2
  <2>3. CASE j \in 1 .. m /\ \E k \in 1 .. n : i = m + k
    BY <1>4, <2>3
  <2>4. CASE (\E k \in 1 .. n : i = m + k) /\ (\E l \in 1 .. n : j = m + l)
    <3>1. PICK k \in 1 .. n, l \in 1 .. n : i = m + k /\ j = m + l
      BY <2>4
    <3>2. t[k] = t[l]
      BY <1>4, <3>1
    <3> QED
      BY <1>3, <3>1, <3>2 DEF Lists
  <2> QED
    BY <1>5, <2>1, <2>2, <2>3, <2>4
<1>7. \A d \in D \cup E : \E i \in 1 .. m + n : u[i] = d
  <2> SUFFICES ASSUME NEW d \in D \cup E PROVE \E i \in 1 .. m + n : u[i] = d
    OBVIOUS
  <2>1. CASE d \in D
    <3>1. PICK i \in 1 .. m : s[i] = d
      BY <1>3, <2>1 DEF Lists
    <3> QED
      BY <1>4, <3>1
  <2>2. CASE d \in E
    <3>1. PICK j \in 1 .. n : t[j] = d
      BY <1>3, <2>2 DEF Lists
    <3> QED
      BY <1>4, <3>1
  <2> QED
    BY <2>1, <2>2
<1>8. \A i \in 1 .. m + n : u[i] \in D \cup E
  BY <1>4, <1>5
<1> QED
  BY <1>2, <1>6, <1>7, <1>8 DEF Lists, u

\* A list is as long as its set is large.
LEMMA ListLength ==
  ASSUME NEW n \in Nat, NEW p, NEW D, Lists(p, n, D)
  PROVE  IsFiniteSet(D) /\ Cardinality(D) = n
<1>1. \A i, j \in 1 .. n : p[i] = p[j] => i = j
  BY DEF Lists
<1> DEFINE f == [i \in 1 .. n |-> p[i]]
<1>2. f \in Bijection(1 .. n, D)
  <2>1. f \in [1 .. n -> D]
    BY DEF Lists
  <2>2. \A i, j \in 1 .. n : f[i] = f[j] => i = j
    BY <1>1
  <2>3. \A d \in D : \E i \in 1 .. n : f[i] = d
    BY DEF Lists
  <2> HIDE DEF f
  <2> QED
    BY <2>1, <2>2, <2>3 DEF Bijection, Injection, IsInjective, Surjection
<1>3. IsFiniteSet(1 .. n) /\ Cardinality(1 .. n) = n
  <2>1. 1 \in Int /\ n \in Int
    OBVIOUS
  <2> QED
    BY <2>1, FS_Interval
<1>4. ExistsBijection(1 .. n, D)
  BY <1>2 DEF ExistsBijection
<1> QED
  BY <1>3, <1>4, FS_Bijection

\* What falls in one of three kinds is counted kind by kind.
LEMMA CountedInThree ==
  ASSUME NEW D, IsFiniteSet(D), NEW A \in SUBSET D, NEW B \in SUBSET D, NEW C \in SUBSET D,
         A \cup B \cup C = D, A \cap B = {}, A \cap C = {}, B \cap C = {}
  PROVE  Cardinality(A) + Cardinality(B) + Cardinality(C) = Cardinality(D)
<1>1. IsFiniteSet(A) /\ IsFiniteSet(B) /\ IsFiniteSet(C)
  BY FS_Subset
<1>2. /\ IsFiniteSet(A \cup B)
      /\ Cardinality(A \cup B) = Cardinality(A) + Cardinality(B) - Cardinality(A \cap B)
  BY <1>1, FS_Union
<1>3. Cardinality((A \cup B) \cup C)
        = Cardinality(A \cup B) + Cardinality(C) - Cardinality((A \cup B) \cap C)
  BY <1>1, <1>2, FS_Union
<1>4. (A \cup B) \cap C = {} /\ Cardinality({}) = 0
  BY FS_EmptySet
<1>5. Cardinality(A) \in Nat /\ Cardinality(B) \in Nat /\ Cardinality(C) \in Nat
  BY <1>1, FS_CardinalityType
<1>6. (A \cup B) \cup C = D
  OBVIOUS
<1>7. /\ Cardinality(A \cup B) = Cardinality(A) + Cardinality(B) - Cardinality({})
      /\ Cardinality(D) = Cardinality(A \cup B) + Cardinality(C) - Cardinality({})
  BY <1>2, <1>3, <1>4, <1>6
<1> QED
  BY <1>4, <1>5, <1>7

\* T are the places of the elements of U.
PlacesOf(T, p, n, U) == T \subseteq 1 .. n /\ \A i \in 1 .. n : i \in T <=> p[i] \in U

\* Counting places is counting what is in them.
LEMMA CountedThrough ==
  ASSUME NEW n \in Nat, NEW p, NEW D, Lists(p, n, D), NEW U, U \subseteq D,
         NEW T, PlacesOf(T, p, n, U)
  PROVE  /\ IsFiniteSet(U) /\ IsFiniteSet(T)
         /\ Cardinality(T) = Cardinality(U)
<1> DEFINE f == [i \in T |-> p[i]]
<1>1. IsFiniteSet(1 .. n)
  <2>1. 1 \in Int /\ n \in Int
    OBVIOUS
  <2> QED
    BY <2>1, FS_Interval
<1>2. IsFiniteSet(T)
  BY <1>1, FS_Subset DEF PlacesOf
<1>3. \A i, j \in T : f[i] = f[j] => i = j
  BY DEF Lists, PlacesOf
<1>4. \A u \in U : \E i \in T : f[i] = u
  BY DEF Lists, PlacesOf
<1>5. f \in [T -> U]
  BY DEF PlacesOf
<1> HIDE DEF f
<1>6. f \in Bijection(T, U)
  BY <1>3, <1>4, <1>5 DEF Bijection, Injection, IsInjective, Surjection
<1>7. ExistsBijection(T, U)
  BY <1>6 DEF ExistsBijection
<1> QED
  BY <1>2, <1>7, FS_Bijection

\* A sorted sequence has the same integers, each as often, in increasing order.
LEMMA SortedProperties ==
  ASSUME NEW s \in Seq(Int)
  PROVE  /\ Sorted(s) \in Seq(Int) /\ Len(Sorted(s)) = Len(s) /\ DOMAIN Sorted(s) = 1 .. Len(s)
         /\ \A i, j \in 1 .. Len(s) : i <= j => Sorted(s)[i] <= Sorted(s)[j]
         /\ \E at :
              /\ Lists(at, Len(s), DOMAIN s)
              /\ \A i \in 1 .. Len(s) : Sorted(s)[i] = s[at[i]]
<1> DEFINE D  == DOMAIN s
           R  == {p \in D \X D : s[p[1]] < s[p[2]] \/ (s[p[1]] = s[p[2]] /\ p[1] < p[2])}
           at == Arranged(D, R)
           n  == Len(s)
<1>1. D = 1 .. n /\ n \in Nat /\ \A i \in D : s[i] \in Int
  BY LenProperties, ElementOfSeq
<1>2. IsFiniteSet(D) /\ Cardinality(D) = n
  BY <1>1, FS_Interval
<1>3. \A a, b \in D : <<a, b>> \in R <=> s[a] < s[b] \/ (s[a] = s[b] /\ a < b)
  OBVIOUS
<1> HIDE DEF R, n
<1>4. Orders(R, D)
  <2>1. \A a \in D : <<a, a>> \notin R
    BY <1>1, <1>3
  <2>2. ASSUME NEW a \in D, NEW b \in D, NEW c \in D, <<a, b>> \in R, <<b, c>> \in R
        PROVE  <<a, c>> \in R
    BY <1>1, <1>3, <2>2
  <2>3. \A a, b \in D : a # b => <<a, b>> \in R \/ <<b, a>> \in R
    BY <1>1, <1>3
  <2> QED
    BY <2>1, <2>2, <2>3 DEF Orders
<1>5. /\ \A i, j \in 1 .. n : i < j <=> <<at[i], at[j]>> \in R
      /\ \A i, j \in 1 .. n : at[i] = at[j] => i = j
      /\ \A d \in D : \E i \in 1 .. n : at[i] = d
      /\ at \in Seq(D) /\ Len(at) = n
  BY <1>2, <1>4, ArrangedProperties
<1> HIDE DEF at
<1>6. \A i \in 1 .. n : at[i] \in D
  BY <1>5
<1>7. Sorted(s) = [i \in 1 .. n |-> s[at[i]]]
  BY <1>1 DEF Sorted, at, R
<1>8. Sorted(s) \in Seq(Int) /\ Len(Sorted(s)) = n /\ DOMAIN Sorted(s) = 1 .. n
  BY <1>1, <1>6, <1>7
<1>9. ASSUME NEW i \in 1 .. n, NEW j \in 1 .. n, i <= j
      PROVE  Sorted(s)[i] <= Sorted(s)[j]
  <2>1. Sorted(s)[i] = s[at[i]] /\ Sorted(s)[j] = s[at[j]]
    BY <1>7
  <2>2. at[i] \in D /\ at[j] \in D /\ s[at[i]] \in Int /\ s[at[j]] \in Int
    BY <1>1, <1>6
  <2>3. CASE i = j
    BY <2>1, <2>2, <2>3
  <2>4. CASE i # j
    <3>1. <<at[i], at[j]>> \in R
      BY <1>1, <1>5, <1>9, <2>4
    <3> QED
      BY <1>3, <2>1, <2>2, <3>1
  <2> QED
    BY <2>3, <2>4
<1>10. Lists(at, n, D) /\ \A i \in 1 .. n : Sorted(s)[i] = s[at[i]]
  BY <1>5, <1>6, <1>7 DEF Lists
<1> QED
  BY <1>1, <1>5, <1>8, <1>9, <1>10 DEF n

\* The kth smallest of the integers is not smaller than k of them, and larger than
\* fewer.
LEMMA RankInSorted ==
  ASSUME NEW s \in Seq(Int), NEW k \in 1 .. Len(s)
  PROVE  /\ Sorted(s)[k] \in Int
         /\ Cardinality({i \in DOMAIN s : s[i] <= Sorted(s)[k]}) \in Nat
         /\ k <= Cardinality({i \in DOMAIN s : s[i] <= Sorted(s)[k]})
         /\ Cardinality({i \in DOMAIN s : s[i] <= Sorted(s)[k] - 1}) \in Nat
         /\ Cardinality({i \in DOMAIN s : s[i] <= Sorted(s)[k] - 1}) < k
<1> DEFINE n == Len(s)
           t == Sorted(s)
           U(x) == {i \in DOMAIN s : s[i] <= x}
           V(x) == {i \in 1 .. n : t[i] <= x}
<1>1. DOMAIN s = 1 .. n /\ n \in Nat
  BY LenProperties
<1>2. /\ t \in Seq(Int) /\ Len(t) = n
      /\ \A i, j \in 1 .. n : i <= j => t[i] <= t[j]
  BY SortedProperties
<1>3. PICK at : Lists(at, n, DOMAIN s) /\ \A i \in 1 .. n : t[i] = s[at[i]]
  BY SortedProperties
<1> HIDE DEF t, n
<1>4. ASSUME NEW x
      PROVE  IsFiniteSet(V(x)) /\ Cardinality(V(x)) = Cardinality(U(x)) /\ Cardinality(V(x)) \in Nat
  <2>1. U(x) \subseteq DOMAIN s
    OBVIOUS
  <2>2. PlacesOf(V(x), at, n, U(x))
    BY <1>3 DEF Lists, PlacesOf
  <2>3. Cardinality(V(x)) = Cardinality(U(x)) /\ IsFiniteSet(V(x))
    <3> HIDE DEF U, V
    <3> QED
      BY <1>1, <1>3, <2>1, <2>2, CountedThrough
  <2> QED
    BY <2>3, FS_CardinalityType
<1>5. t[k] \in Int /\ k \in 1 .. n
  BY <1>2, ElementOfSeq DEF n
<1>6. \A i \in 1 .. n : t[i] \in Int
  BY <1>2, ElementOfSeq
<1>7. k <= Cardinality(V(t[k]))
  <2>1. 1 .. k \subseteq V(t[k])
    BY <1>1, <1>2, <1>5
  <2>2. IsFiniteSet(1 .. k) /\ Cardinality(1 .. k) = k
    BY <1>5, FS_Interval
  <2>3. Cardinality(1 .. k) <= Cardinality(V(t[k]))
    <3> HIDE DEF V
    <3> QED
      BY <1>4, <2>1, FS_Subset
  <2> QED
    BY <2>2, <2>3
<1>8. Cardinality(V(t[k] - 1)) < k
  <2>1. V(t[k] - 1) \subseteq 1 .. k - 1
    <3> SUFFICES ASSUME NEW i \in 1 .. n, t[i] <= t[k] - 1 PROVE i \in 1 .. k - 1
      OBVIOUS
    <3>1. ~(k <= i)
      BY <1>2, <1>5, <1>6
    <3> QED
      BY <1>5, <3>1
  <2>2. IsFiniteSet(1 .. k - 1) /\ Cardinality(1 .. k - 1) = k - 1
    BY <1>5, FS_Interval
  <2>3. Cardinality(V(t[k] - 1)) <= Cardinality(1 .. k - 1)
    <3> HIDE DEF V
    <3> QED
      BY <2>1, <2>2, FS_Subset
  <2>4. Cardinality(V(t[k] - 1)) \in Nat
    BY <1>4
  <2> QED
    BY <1>5, <2>2, <2>3, <2>4
<1> QED
  BY <1>4, <1>5, <1>7, <1>8 DEF t
=============================================================================
