------------------------------ MODULE Stepwise ------------------------------
(***************************************************************************)
(* Counting up: induction over an interval of natural numbers, with a set  *)
(* in the place of a predicate, and what it says of recursive functions.   *)
(* The proofs about the recursive functions of the models rest on it.      *)
(***************************************************************************)
EXTENDS Integers, SequencesExt, FiniteSetTheorems, TLAPS

\* A set that has 0, and n + 1 whenever it has n, has all numbers up to m.
LEMMA CountingUp ==
  ASSUME NEW m \in Nat, NEW S, 0 \in S,
         \A n \in 0 .. m : n < m /\ n \in S => n + 1 \in S
  PROVE  \A n \in 0 .. m : n \in S
<1> SUFFICES ASSUME NEW k \in 0 .. m, k \notin S PROVE FALSE
  OBVIOUS
<1> DEFINE All == 0 .. m
           T == {0 .. l : l \in {i \in All : i \notin S}}
<1>1. IsWellFoundedOn(StrictSubsetOrdering(All), SUBSET All)
  <2>1. IsFiniteSet(All)
    BY FS_Interval
  <2> HIDE DEF All
  <2> QED BY <2>1, FS_FiniteSubsetsOfFinite, FS_StrictSubsetOrderingWellFounded
<1>2. T \subseteq SUBSET All /\ T # {}
  OBVIOUS
<1>3. PICK below \in T : \A other \in T : ~(<<other, below>> \in StrictSubsetOrdering(All))
  <2> HIDE DEF All, T
  <2> QED BY <1>1, <1>2, WFMin
<1>4. PICK l \in 0 .. m : l \notin S /\ below = 0 .. l
  OBVIOUS
<1>5. l - 1 \in 0 .. m /\ l - 1 < m /\ (l - 1) + 1 = l
  BY <1>4
<1>6. l - 1 \notin S
  BY <1>4, <1>5
<1>7. 0 .. (l - 1) \in T /\ 0 .. (l - 1) \in SUBSET All /\ below \in SUBSET All
  BY <1>2, <1>5, <1>6
<1>8. 0 .. (l - 1) \subseteq below /\ 0 .. (l - 1) # below
  <2>1. l \in below /\ l \notin 0 .. (l - 1)
    BY <1>4
  <2>2. 0 .. (l - 1) \subseteq below
    BY <1>4
  <2> QED BY <2>1, <2>2
<1>9. <<0 .. (l - 1), below>> \in StrictSubsetOrdering(All)
  <2> HIDE DEF All, T
  <2> QED BY <1>7, <1>8 DEF StrictSubsetOrdering
<1> QED BY <1>3, <1>7, <1>9

\* f starts at a and goes on by G up to m.
Iterates(f, m, a, G) == f = [n \in 0 .. m |-> IF n = 0 THEN a ELSE G[n][f[n - 1]]]

\* Iteration from a by the functions G[1], G[2], .. is well defined.
LEMMA IterationExists ==
  ASSUME NEW T, NEW a \in T, NEW m \in Nat, NEW G \in [1 .. m -> [T -> T]]
  PROVE  \E f \in [0 .. m -> T] : Iterates(f, m, a, G)
<1> DEFINE S == {k \in 0 .. m : \E f \in [0 .. k -> T] : Iterates(f, k, a, G)}
<1>1. 0 \in S
  <2>1. [n \in 0 .. 0 |-> a] \in [0 .. 0 -> T]
    OBVIOUS
  <2>2. Iterates([n \in 0 .. 0 |-> a], 0, a, G)
    BY DEF Iterates
  <2> QED BY <2>1, <2>2
<1>2. ASSUME NEW k \in 0 .. m, k < m, k \in S PROVE k + 1 \in S
  <2>1. PICK f \in [0 .. k -> T] : Iterates(f, k, a, G)
    BY <1>2
  <2> DEFINE g == [n \in 0 .. k + 1 |-> IF n = k + 1 THEN G[k + 1][f[k]] ELSE f[n]]
  <2>2. k + 1 \in 1 .. m /\ f[k] \in T /\ G[k + 1][f[k]] \in T
    BY <1>2
  <2>3. g \in [0 .. k + 1 -> T]
    BY <2>2
  <2>4. ASSUME NEW n \in 0 .. k + 1
        PROVE  g[n] = IF n = 0 THEN a ELSE G[n][g[n - 1]]
    <3>1. CASE n = k + 1
      BY <2>4, <3>1
    <3>2. CASE n # k + 1
      <4>1. n \in 0 .. k /\ g[n] = f[n] /\ (n # 0 => g[n - 1] = f[n - 1])
        BY <2>4, <3>2
      <4> QED BY <2>1, <4>1 DEF Iterates
    <3> QED BY <3>1, <3>2
  <2>5. Iterates(g, k + 1, a, G)
    BY <2>3, <2>4 DEF Iterates
  <2> QED BY <1>2, <2>3, <2>5
<1>3. m \in S
  <2>1. \A k \in 0 .. m : k < m /\ k \in S => k + 1 \in S
    BY <1>2
  <2>2. m \in 0 .. m
    OBVIOUS
  <2> HIDE DEF S
  <2> QED BY <1>1, <2>1, <2>2, CountingUp
<1> QED BY <1>3

\* The same without an end.
IteratesOn(f, a, g) == f = [n \in Nat |-> IF n = 0 THEN a ELSE g[f[n - 1]]]

LEMMA IterationGoesOn ==
  ASSUME NEW T, NEW a \in T, NEW g \in [T -> T]
  PROVE  \E f \in [Nat -> T] : IteratesOn(f, a, g)
<1> DEFINE G(m) == [n \in 1 .. m |-> g]
           To(h, m) == h \in [0 .. m -> T] /\ Iterates(h, m, a, G(m))
           h(m) == CHOOSE x : To(x, m)
           f == [n \in Nat |-> h(n)[n]]
<1>1. ASSUME NEW m \in Nat PROVE To(h(m), m)
  <2>1. G(m) \in [1 .. m -> [T -> T]]
    OBVIOUS
  <2>2. \E x : To(x, m)
    <3> HIDE DEF G
    <3> QED BY <2>1, IterationExists
  <2> HIDE DEF To
  <2> QED BY <2>2
<1> HIDE DEF h
<1>2. ASSUME NEW m \in Nat
      PROVE  /\ h(m) \in [0 .. m -> T] /\ h(m)[0] = a
             /\ \A n \in 0 .. m : n < m => h(m)[n + 1] = g[h(m)[n]]
  <2>1. To(h(m), m)
    BY <1>1
  <2>2. h(m) = [n \in 0 .. m |-> IF n = 0 THEN a ELSE G(m)[n][h(m)[n - 1]]]
    BY <2>1 DEF Iterates
  <2>3. ASSUME NEW n \in 0 .. m, n < m PROVE h(m)[n + 1] = g[h(m)[n]]
    <3>1. n + 1 \in 1 .. m /\ n + 1 \in 0 .. m /\ (n + 1) - 1 = n /\ n + 1 # 0
      BY <2>3
    <3>2. G(m)[n + 1] = g
      BY <3>1
    <3>3. h(m)[n + 1] = G(m)[n + 1][h(m)[(n + 1) - 1]]
      <4> HIDE DEF G, To
      <4> QED BY <2>2, <3>1
    <3> QED BY <3>1, <3>2, <3>3
  <2>4. 0 \in 0 .. m
    OBVIOUS
  <2> QED BY <2>1, <2>2, <2>3, <2>4
<1> HIDE DEF To
<1>3. ASSUME NEW m \in Nat PROVE h(m + 1)[m] = h(m)[m]
  <2> DEFINE S == {n \in 0 .. m : h(m + 1)[n] = h(m)[n]}
  <2>1. 0 \in S
    BY <1>2
  <2>2. ASSUME NEW n \in 0 .. m, n < m, n \in S PROVE n + 1 \in S
    <3>1. n \in 0 .. m + 1 /\ n < m + 1 /\ m + 1 \in Nat /\ n + 1 \in 0 .. m
      BY <2>2
    <3>2. h(m + 1)[n + 1] = g[h(m + 1)[n]]
      BY <1>2, <3>1
    <3>3. h(m)[n + 1] = g[h(m)[n]]
      BY <1>2, <2>2
    <3> QED BY <2>2, <3>1, <3>2, <3>3
  <2>3. \A n \in 0 .. m : n < m /\ n \in S => n + 1 \in S
    BY <2>2
  <2>4. m \in 0 .. m
    OBVIOUS
  <2>5. m \in S
    <3> HIDE DEF S
    <3> QED BY <2>1, <2>3, <2>4, CountingUp
  <2> QED BY <2>5
<1>4. ASSUME NEW n \in Nat PROVE f[n] = IF n = 0 THEN a ELSE g[f[n - 1]]
  <2>1. CASE n = 0
    BY <1>2, <2>1
  <2>2. CASE n # 0
    <3>1. n - 1 \in Nat /\ (n - 1) + 1 = n /\ n - 1 \in 0 .. n /\ n - 1 < n
      BY <2>2
    <3>2. h(n)[(n - 1) + 1] = g[h(n)[n - 1]]
      BY <1>2, <3>1
    <3>3. h((n - 1) + 1)[n - 1] = h(n - 1)[n - 1]
      BY <1>3, <3>1
    <3> QED BY <2>2, <3>1, <3>2, <3>3
  <2> QED BY <2>1, <2>2
<1>5. \A n \in Nat : f[n] \in T
  <2> SUFFICES ASSUME NEW n \in Nat PROVE h(n)[n] \in T
    OBVIOUS
  <2>1. n \in 0 .. n
    OBVIOUS
  <2> QED BY <1>2, <2>1
<1>6. f \in [Nat -> T]
  BY <1>5
<1>7. f = [n \in Nat |-> IF n = 0 THEN a ELSE g[f[n - 1]]]
  <2>1. f = [n \in Nat |-> f[n]]
    OBVIOUS
  <2> HIDE DEF f
  <2> QED BY <1>4, <2>1
<1> QED BY <1>6, <1>7 DEF IteratesOn

\* f starts with some part of B, and G only adds to it.
GrowsBy(f, B, m, G) ==
  /\ G \in [SUBSET B -> SUBSET B]
  /\ \A X \in SUBSET B : X \subseteq G[X]
  /\ f \in [0 .. m -> SUBSET B]
  /\ \A n \in 0 .. m : n < m => f[n + 1] = G[f[n]]

\* What only grows, within a finite B, has stopped growing after as many steps
\* as B has elements.
LEMMA GrowthStops ==
  ASSUME NEW m \in Nat, NEW B, IsFiniteSet(B), Cardinality(B) <= m,
         NEW f, NEW G, GrowsBy(f, B, m, G)
  PROVE  G[f[m]] = f[m]
<1> USE DEF GrowsBy
<1> DEFINE S == {n \in 0 .. m : G[f[n]] = f[n] \/ Cardinality(f[n]) >= n}
<1>1. ASSUME NEW X \in SUBSET B
      PROVE  IsFiniteSet(X) /\ Cardinality(X) \in Nat /\ Cardinality(X) <= Cardinality(B)
  BY FS_Subset, FS_CardinalityType
<1>2. 0 \in S
  <2>1. f[0] \in SUBSET B /\ 0 \in 0 .. m
    OBVIOUS
  <2>2. Cardinality(f[0]) >= 0
    BY <1>1, <2>1
  <2> QED BY <2>1, <2>2
<1>3. ASSUME NEW n \in 0 .. m, n < m, n \in S PROVE n + 1 \in S
  <2>1. n + 1 \in 0 .. m /\ f[n] \in SUBSET B /\ f[n + 1] = G[f[n]]
    BY <1>3
  <2>2. CASE G[f[n]] = f[n]
    BY <2>1, <2>2
  <2>3. CASE G[f[n]] # f[n]
    <3>1. Cardinality(f[n]) >= n
      BY <1>3, <2>3
    <3>2. f[n + 1] \in SUBSET B /\ f[n] \in SUBSET f[n + 1] /\ f[n] # f[n + 1]
      BY <2>1, <2>3
    <3>3. Cardinality(f[n]) <= Cardinality(f[n + 1]) /\ Cardinality(f[n]) # Cardinality(f[n + 1])
      BY <1>1, <3>2, FS_Subset
    <3>4. Cardinality(f[n]) \in Nat /\ Cardinality(f[n + 1]) \in Nat
      BY <1>1, <2>1, <3>2
    <3>5. Cardinality(f[n + 1]) >= n + 1
      BY <3>1, <3>3, <3>4
    <3> QED BY <2>1, <3>5
  <2> QED BY <2>2, <2>3
<1>4. m \in S
  <2>1. \A n \in 0 .. m : n < m /\ n \in S => n + 1 \in S
    BY <1>3
  <2>2. m \in 0 .. m
    OBVIOUS
  <2> HIDE DEF S
  <2> QED BY <1>2, <2>1, <2>2, CountingUp
<1>5. CASE Cardinality(f[m]) >= m
  <2>1. f[m] \in SUBSET B /\ G[f[m]] \in SUBSET B /\ f[m] \subseteq G[f[m]]
    OBVIOUS
  <2>2. Cardinality(f[m]) \in Nat /\ Cardinality(B) \in Nat /\ Cardinality(f[m]) <= Cardinality(B)
    BY <1>1, <2>1
  <2>3. Cardinality(f[m]) = Cardinality(B)
    BY <1>5, <2>2
  <2>4. f[m] = B
    BY <2>1, <2>3, FS_Subset
  <2> QED BY <2>1, <2>4
<1> QED BY <1>4, <1>5

\* A set of bounded numbers that is not empty has a greatest and a least one.
LEMMA GreatestExists ==
  ASSUME NEW m \in Nat, NEW S, S \subseteq -1 .. m, NEW e \in S
  PROVE  \E x \in S : \A y \in S : y <= x
<1> SUFFICES ASSUME \A x \in S : \E y \in S : ~(y <= x) PROVE FALSE
  OBVIOUS
<1> DEFINE T == {n \in 0 .. m + 1 : \E x \in S : n - 1 <= x}
<1>1. 0 \in T
  OBVIOUS
<1>2. ASSUME NEW n \in 0 .. m + 1, n < m + 1, n \in T PROVE n + 1 \in T
  <2>1. PICK x \in S : n - 1 <= x
    BY <1>2
  <2>2. PICK y \in S : ~(y <= x)
    OBVIOUS
  <2>3. (n + 1) - 1 <= y /\ n + 1 \in 0 .. m + 1
    BY <1>2, <2>1, <2>2
  <2> QED BY <2>3
<1>3. m + 1 \in T
  <2>1. \A n \in 0 .. m + 1 : n < m + 1 /\ n \in T => n + 1 \in T
    BY <1>2
  <2>2. m + 1 \in Nat /\ m + 1 \in 0 .. m + 1
    OBVIOUS
  <2> HIDE DEF T
  <2> QED BY <1>1, <2>1, <2>2, CountingUp
<1>4. PICK x \in S : (m + 1) - 1 <= x
  BY <1>3
<1>5. PICK y \in S : ~(y <= x)
  OBVIOUS
<1> QED BY <1>4, <1>5

LEMMA LeastExists ==
  ASSUME NEW m \in Nat, NEW S, S \subseteq -1 .. m, NEW e \in S
  PROVE  \E x \in S : \A y \in S : x <= y
<1> DEFINE R == {z \in -1 .. m : (m - 1) - z \in S}
<1>1. R \subseteq -1 .. m /\ (m - 1) - e \in R
  OBVIOUS
<1>2. PICK z \in R : \A y \in R : y <= z
  <2> HIDE DEF R
  <2> QED BY <1>1, GreatestExists
<1>3. ASSUME NEW y \in S PROVE (m - 1) - z <= y
  <2>1. (m - 1) - y \in R
    OBVIOUS
  <2> QED BY <1>2, <2>1
<1> QED BY <1>2, <1>3

-----------------------------------------------------------------------------
(***************************************************************************)
(* FlattenSeq, by positions: s is what ss[1], .., ss[n] make one after     *)
(* another, ss[k] in the places after at[k - 1].                           *)
(***************************************************************************)
Places(s, ss, n, at) ==
  /\ at \in [0 .. n -> Nat] /\ at[0] = 0 /\ at[n] = Len(s)
  /\ \A k \in 1 .. n : at[k] = at[k - 1] + Len(ss[k])
  /\ \A j, k \in 0 .. n : j <= k => at[j] <= at[k]
  /\ \A x \in 1 .. Len(s) : \E k \in 1 .. n : at[k - 1] < x /\ x <= at[k]
  /\ \A k \in 1 .. n : \A o \in 1 .. Len(ss[k]) : s[at[k - 1] + o] = ss[k][o]

LEMMA PlacesGrow ==
  ASSUME NEW T, NEW n \in Nat, NEW ss, NEW s \in Seq(T), NEW at, Places(s, ss, n, at),
         ss[n + 1] \in Seq(T)
  PROVE  \E more : Places(s \o ss[n + 1], ss, n + 1, more)
<1> DEFINE t == ss[n + 1]
           u == s \o t
           new == [j \in 0 .. n + 1 |-> IF j = n + 1 THEN at[n] + Len(t) ELSE at[j]]
<1> USE DEF Places
<1>1. t \in Seq(T) /\ Len(t) \in Nat /\ Len(s) \in Nat /\ Len(s) = at[n] /\ n \in 0 .. n
  OBVIOUS
<1>2. Len(u) = Len(s) + Len(t) /\ Len(u) \in Nat
  BY <1>1
<1>3. new \in [0 .. n + 1 -> Nat] /\ new[0] = 0 /\ new[n + 1] = Len(u)
  BY <1>1, <1>2
<1>4. \A j \in 0 .. n : new[j] = at[j] /\ at[j] \in Nat /\ at[j] <= at[n]
  BY <1>1
<1>5. ASSUME NEW o \in 1 .. Len(t) PROVE u[at[n] + o] = t[o]
  BY <1>1
<1>6. ASSUME NEW x \in 1 .. Len(s) PROVE u[x] = s[x]
  BY <1>1
<1>7. \A k \in 1 .. n : Len(ss[k]) = at[k] - at[k - 1]
  BY <1>4
<1> HIDE DEF u, t, new
<1>8. ASSUME NEW k \in 1 .. n + 1
      PROVE  /\ new[k] = new[k - 1] + Len(ss[k])
             /\ \A o \in 1 .. Len(ss[k]) : u[new[k - 1] + o] = ss[k][o]
  <2>1. CASE k = n + 1
    <3>1. new[k - 1] = at[n] /\ new[k] = Len(u) /\ ss[k] = t
      BY <1>1, <1>3, <1>4, <2>1 DEF t
    <3> QED BY <1>1, <1>2, <1>5, <3>1
  <2>2. CASE k # n + 1
    <3>1. k \in 1 .. n /\ k \in 0 .. n /\ k - 1 \in 0 .. n
      BY <2>2
    <3>2. new[k - 1] = at[k - 1] /\ new[k] = at[k] /\ at[k] = at[k - 1] + Len(ss[k])
      BY <1>4, <3>1
    <3>3. at[k] \in Nat /\ at[k - 1] \in Nat /\ at[k] <= at[n] /\ Len(ss[k]) \in Int
      BY <1>4, <1>7, <3>1
    <3>4. ASSUME NEW o \in 1 .. Len(ss[k]) PROVE at[k - 1] + o \in 1 .. Len(s)
      <4> DEFINE l == Len(ss[k])
                 b == at[k - 1]
      <4>1. b \in Nat /\ l \in Int /\ b + l <= at[n] /\ at[n] \in Nat
        BY <1>1, <3>2, <3>3
      <4>2. o \in 1 .. l
        OBVIOUS
      <4> HIDE DEF l, b
      <4>3. b + o \in 1 .. at[n]
        BY <4>1, <4>2
      <4> QED BY <1>1, <4>3 DEF b
    <3> QED BY <1>6, <3>1, <3>2, <3>4
  <2> QED BY <2>1, <2>2
<1>9. \A j, k \in 0 .. n + 1 : j <= k => new[j] <= new[k]
  <2> SUFFICES ASSUME NEW j \in 0 .. n + 1, NEW k \in 0 .. n + 1, j <= k PROVE new[j] <= new[k]
    OBVIOUS
  <2>1. new[n + 1] = Len(u) /\ Len(u) >= at[n]
    BY <1>1, <1>2, <1>3
  <2>2. CASE k = n + 1
    <3>1. CASE j = n + 1
      BY <2>1, <2>2, <3>1, <1>2
    <3>2. CASE j # n + 1
      <4>1. j \in 0 .. n
        BY <3>2
      <4> QED BY <1>1, <1>2, <1>4, <2>1, <2>2, <4>1
    <3> QED BY <3>1, <3>2
  <2>3. CASE k # n + 1
    <3>1. j \in 0 .. n /\ k \in 0 .. n
      BY <2>3
    <3> QED BY <1>4, <3>1
  <2> QED BY <2>2, <2>3
<1>10. ASSUME NEW x \in 1 .. Len(u) PROVE \E k \in 1 .. n + 1 : new[k - 1] < x /\ x <= new[k]
  <2>1. CASE x <= Len(s)
    <3>1. x \in 1 .. Len(s)
      BY <1>1, <1>2, <2>1
    <3>2. PICK k \in 1 .. n : at[k - 1] < x /\ x <= at[k]
      BY <3>1
    <3>3. k \in 0 .. n /\ k - 1 \in 0 .. n /\ k \in 1 .. n + 1
      OBVIOUS
    <3> QED BY <1>4, <3>2, <3>3
  <2>2. CASE x > Len(s)
    <3>1. n + 1 \in 1 .. n + 1 /\ (n + 1) - 1 = n /\ n \in 0 .. n
      OBVIOUS
    <3> QED BY <1>1, <1>3, <1>4, <2>2, <3>1
  <2> QED BY <1>1, <1>2, <2>1, <2>2
<1>11. Places(u, ss, n + 1, new)
  BY <1>3, <1>8, <1>9, <1>10
<1>12. \E more : Places(u, ss, n + 1, more)
  <2> HIDE DEF Places
  <2> QED BY <1>11
<1> QED BY <1>12 DEF u, t

LEMMA FlattenPlaces ==
  ASSUME NEW T, NEW n \in Nat, n >= 1, NEW ss \in [1 .. n -> Seq(T)]
  PROVE  FlattenSeq(ss) \in Seq(T) /\ \E at : Places(FlattenSeq(ss), ss, n, at)
<1> DEFINE Path(g) == g = [i \in 1 .. n |-> IF i = 1 THEN ss[i] ELSE g[i - 1] \o ss[i]]
           flatten == CHOOSE g : Path(g)
           upTo == [i \in 0 .. n |-> IF i = 0 THEN <<>> ELSE flatten[i]]
<1>1. ss \in Seq(Seq(T)) /\ Len(ss) = n
  OBVIOUS
<1>2. FlattenSeq(ss) = flatten[n]
  BY <1>1 DEF FlattenSeq
<1>3. \E g : Path(g)
  <2> DEFINE G == [i \in 1 .. n |-> [x \in Seq(T) |-> x \o ss[i]]]
  <2>1. G \in [1 .. n -> [Seq(T) -> Seq(T)]] /\ <<>> \in Seq(T)
    OBVIOUS
  <2>2. PICK f \in [0 .. n -> Seq(T)] : Iterates(f, n, <<>>, G)
    <3> HIDE DEF G
    <3> QED BY <2>1, IterationExists
  <2>3. ASSUME NEW i \in 1 .. n PROVE f[i] = f[i - 1] \o ss[i] /\ ss[i] \in Seq(T)
    <3>1. f[i] = G[i][f[i - 1]] /\ f[i - 1] \in Seq(T)
      <4> HIDE DEF G
      <4> QED BY <2>2 DEF Iterates
    <3> QED BY <3>1
  <2>4. f[1] = ss[1]
    <3>1. f[0] = <<>>
      BY <2>2 DEF Iterates
    <3>2. 1 \in 1 .. n /\ 1 - 1 = 0
      OBVIOUS
    <3>3. f[1] = f[0] \o ss[1] /\ ss[1] \in Seq(T)
      BY <2>3, <3>2
    <3> QED BY <3>1, <3>3
  <2> DEFINE g == [i \in 1 .. n |-> f[i]]
  <2>5. ASSUME NEW i \in 1 .. n PROVE f[i] = IF i = 1 THEN ss[i] ELSE g[i - 1] \o ss[i]
    <3>1. CASE i # 1
      <4>1. i - 1 \in 1 .. n
        BY <3>1
      <4> QED BY <2>3, <3>1, <4>1
    <3> QED BY <2>4, <3>1
  <2>6. Path(g)
    BY <2>5
  <2> QED BY <2>6
<1>4. Path(flatten)
  <2> HIDE DEF Path
  <2> QED BY <1>3
<1>5. upTo[0] = <<>> /\ \A i \in 0 .. n : i < n => upTo[i + 1] = upTo[i] \o ss[i + 1]
  <2> HIDE DEF flatten
  <2>1. flatten = [i \in 1 .. n |-> IF i = 1 THEN ss[i] ELSE flatten[i - 1] \o ss[i]]
    BY <1>4
  <2>2. ASSUME NEW i \in 0 .. n, i < n PROVE upTo[i + 1] = upTo[i] \o ss[i + 1]
    <3>1. i + 1 \in 1 .. n /\ i + 1 \in 0 .. n /\ (i + 1) - 1 = i /\ ss[i + 1] \in Seq(T)
      BY <2>2
    <3>2. upTo[i + 1] = flatten[i + 1]
      BY <3>1
    <3>3. CASE i = 0
      <4>1. flatten[1] = ss[1]
        BY <2>1
      <4> QED BY <3>1, <3>2, <3>3, <4>1
    <3>4. CASE i # 0
      <4>1. upTo[i] = flatten[i]
        BY <2>2, <3>4
      <4>2. i + 1 # 1
        BY <3>4
      <4>3. flatten[i + 1] = flatten[(i + 1) - 1] \o ss[i + 1]
        BY <2>1, <3>1, <4>2
      <4> QED BY <3>1, <3>2, <4>1, <4>3
    <3> QED BY <3>3, <3>4
  <2>3. upTo[0] = <<>>
    BY DEF upTo
  <2> HIDE DEF upTo
  <2> QED BY <2>2, <2>3
<1> HIDE DEF upTo
<1> DEFINE S == {k \in 0 .. n : upTo[k] \in Seq(T) /\ \E at : Places(upTo[k], ss, k, at)}
<1>6. 0 \in S
  <2>1. Places(<<>>, ss, 0, [j \in 0 .. 0 |-> 0])
    BY DEF Places
  <2>2. <<>> \in Seq(T) /\ 0 \in 0 .. n
    OBVIOUS
  <2> QED BY <1>5, <2>1, <2>2
<1>7. ASSUME NEW k \in 0 .. n, k < n, k \in S PROVE k + 1 \in S
  <2>1. ss[k + 1] \in Seq(T) /\ k \in Nat /\ k + 1 \in 0 .. n
    BY <1>7
  <2>2. upTo[k] \in Seq(T)
    BY <1>7
  <2>3. PICK at : Places(upTo[k], ss, k, at)
    BY <1>7
  <2>4. \E more : Places(upTo[k] \o ss[k + 1], ss, k + 1, more)
    BY <2>1, <2>2, <2>3, PlacesGrow
  <2>5. upTo[k] \o ss[k + 1] \in Seq(T)
    BY <2>1, <2>2
  <2> QED BY <1>5, <1>7, <2>1, <2>4, <2>5
<1>8. n \in S
  <2>1. \A k \in 0 .. n : k < n /\ k \in S => k + 1 \in S
    BY <1>7
  <2>2. n \in 0 .. n
    OBVIOUS
  <2> HIDE DEF S
  <2> QED BY <1>6, <2>1, <2>2, CountingUp
<1>9. upTo[n] = flatten[n]
  BY DEF upTo
<1> QED BY <1>2, <1>8, <1>9


\* The elements of a sequence at the places in "keep".
Chosen(s, keep) == FlattenSeq([i \in DOMAIN s |-> IF i \in keep THEN <<s[i]>> ELSE <<>>])

ChosenAt(c, s, keep, from) ==
  /\ from \in [1 .. Len(c) -> keep]
  /\ \A x \in 1 .. Len(c) : c[x] = s[from[x]]
  /\ \A x, y \in 1 .. Len(c) : x < y => from[x] < from[y]
  /\ \A i \in keep : \E x \in 1 .. Len(c) : from[x] = i

LEMMA ChosenFrom ==
  ASSUME NEW T, NEW s \in Seq(T), NEW keep, keep \subseteq DOMAIN s
  PROVE  Chosen(s, keep) \in Seq(T) /\ \E from : ChosenAt(Chosen(s, keep), s, keep, from)
<1> DEFINE n == Len(s)
           kept == [i \in DOMAIN s |-> IF i \in keep THEN <<s[i]>> ELSE <<>>]
           c == FlattenSeq(kept)
<1>1. n \in Nat /\ DOMAIN s = 1 .. n /\ \A i \in 1 .. n : s[i] \in T
  OBVIOUS
<1>2. kept \in [1 .. n -> Seq(T)] /\ \A i \in 1 .. n : kept[i] = IF i \in keep THEN <<s[i]>> ELSE <<>>
  BY <1>1
<1>3. c = Chosen(s, keep)
  BY DEF Chosen
<1> HIDE DEF kept, c
<1>4. CASE n = 0
  <2>1. kept = <<>> /\ Len(kept) = 0 /\ keep = {}
    BY <1>1, <1>2, <1>4
  <2>2. c = <<>>
    BY <2>1 DEF FlattenSeq, c
  <2>3. ChosenAt(c, s, keep, <<>>)
    BY <2>1, <2>2 DEF ChosenAt
  <2> QED BY <1>3, <2>2, <2>3
<1>5. CASE n # 0
  <2>1. n >= 1
    BY <1>1, <1>5
  <2> HIDE DEF n
  <2>2. c \in Seq(T) /\ Len(c) \in Nat
    <3>1. c \in Seq(T)
      BY <1>1, <1>2, <2>1, FlattenPlaces DEF c
    <3> QED BY <3>1
  <2>3. PICK at : Places(c, kept, n, at)
    BY <1>1, <1>2, <2>1, FlattenPlaces DEF c
  <2>4. /\ at \in [0 .. n -> Nat] /\ at[n] = Len(c)
        /\ \A k \in 1 .. n : at[k] = at[k - 1] + Len(kept[k])
        /\ \A j, k \in 0 .. n : j <= k => at[j] <= at[k]
        /\ \A x \in 1 .. Len(c) : \E k \in 1 .. n : at[k - 1] < x /\ x <= at[k]
        /\ \A k \in 1 .. n : \A o \in 1 .. Len(kept[k]) : c[at[k - 1] + o] = kept[k][o]
    BY <2>3 DEF Places
  <2>5. ASSUME NEW x \in 1 .. Len(c), NEW k \in 1 .. n, at[k - 1] < x, x <= at[k]
        PROVE  k \in keep /\ c[x] = s[k] /\ at[k] = x
    <3>1. at[k] \in Nat /\ at[k - 1] \in Nat /\ at[k] = at[k - 1] + Len(kept[k]) /\ x \in Nat
      <4>1. k \in 0 .. n /\ k - 1 \in 0 .. n
        BY <1>1
      <4>2. at[k] \in Nat /\ at[k - 1] \in Nat /\ at[k] = at[k - 1] + Len(kept[k])
        BY <2>4, <4>1
      <4> QED BY <2>2, <4>2
    <3>2. k \in keep
      <4>1. CASE k \notin keep
        <5>1. Len(kept[k]) = 0
          BY <1>2, <4>1
        <5> QED BY <2>5, <3>1, <5>1
      <4> QED BY <4>1
    <3>3. kept[k] = <<s[k]>> /\ Len(kept[k]) = 1 /\ kept[k][1] = s[k]
      BY <1>2, <3>2
    <3>4. x = at[k] /\ x = at[k - 1] + 1
      BY <2>5, <3>1, <3>3
    <3>5. c[at[k - 1] + 1] = kept[k][1]
      <4>1. \A o \in 1 .. Len(kept[k]) : c[at[k - 1] + o] = kept[k][o]
        BY <2>4
      <4>2. 1 \in 1 .. Len(kept[k])
        BY <3>3
      <4> QED BY <4>1, <4>2
    <3> QED BY <3>2, <3>3, <3>4, <3>5
  <2>6. \A k, l \in 1 .. n : at[k] < at[l] => k < l
    <3> SUFFICES ASSUME NEW k \in 1 .. n, NEW l \in 1 .. n, at[k] < at[l], ~(k < l) PROVE FALSE
      OBVIOUS
    <3>1. k \in 0 .. n /\ l \in 0 .. n /\ l <= k
      BY <1>1
    <3>2. at[l] <= at[k] /\ at[l] \in Nat /\ at[k] \in Nat
      BY <2>4, <3>1
    <3> QED BY <3>2
  <2> DEFINE from == [x \in 1 .. Len(c) |-> CHOOSE k \in 1 .. n : at[k - 1] < x /\ x <= at[k]]
  <2>7. ASSUME NEW x \in 1 .. Len(c)
        PROVE  /\ from[x] \in 1 .. n /\ at[from[x] - 1] < x /\ x <= at[from[x]]
               /\ from[x] \in keep /\ c[x] = s[from[x]] /\ at[from[x]] = x
    <3>1. from[x] \in 1 .. n /\ at[from[x] - 1] < x /\ x <= at[from[x]]
      BY <2>4
    <3> HIDE DEF from
    <3> QED BY <2>5, <3>1
  <2>8. from \in [1 .. Len(c) -> keep]
    BY <2>7
  <2> HIDE DEF from
  <2>9. ASSUME NEW x \in 1 .. Len(c), NEW y \in 1 .. Len(c), x < y PROVE from[x] < from[y]
    BY <2>6, <2>7, <2>9, SMTT(20)
  <2>10. ASSUME NEW i \in keep PROVE \E x \in 1 .. Len(c) : from[x] = i
    <3>1. i \in 1 .. n /\ i \in 0 .. n /\ i - 1 \in 0 .. n /\ n \in 0 .. n /\ i <= n
      BY <1>1
    <3>2. Len(kept[i]) = 1
      BY <1>2, <3>1
    <3>3. at[i] = at[i - 1] + 1 /\ at[i] \in Nat /\ at[i - 1] \in Nat /\ at[i] <= Len(c)
      BY <2>4, <3>1, <3>2
    <3>4. PICK x : x = at[i]
      OBVIOUS
    <3>5. x \in 1 .. Len(c)
      BY <2>2, <3>3, <3>4
    <3>6. PICK k : k = from[x]
      OBVIOUS
    <3>7. k \in 1 .. n /\ at[k] = at[i] /\ k \in 0 .. n /\ k - 1 \in 0 .. n /\ at[k - 1] < at[k]
      BY <1>1, <2>7, <3>4, <3>5, <3>6
    <3>8. ~(k < i)
      <4> SUFFICES ASSUME k < i PROVE FALSE
        OBVIOUS
      <4>1. k <= i - 1
        BY <1>1, <3>1, <3>7
      <4>2. at[k] <= at[i - 1]
        BY <2>4, <3>1, <3>7, <4>1
      <4> QED BY <3>3, <3>7, <4>2
    <3>9. ~(i < k)
      <4> SUFFICES ASSUME i < k PROVE FALSE
        OBVIOUS
      <4>1. i <= k - 1
        BY <1>1, <3>1, <3>7
      <4>2. at[i] <= at[k - 1] /\ at[k - 1] \in Nat
        BY <2>4, <3>1, <3>7, <4>1
      <4> QED BY <3>3, <3>7, <4>2
    <3>10. k = i
      BY <1>1, <3>1, <3>7, <3>8, <3>9
    <3> QED BY <3>5, <3>6, <3>10
  <2>11. ChosenAt(c, s, keep, from)
    BY <2>7, <2>8, <2>9, <2>10 DEF ChosenAt
  <2> QED BY <1>3, <2>2, <2>11
<1> QED BY <1>4, <1>5
=============================================================================
