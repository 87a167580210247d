----------------------------- MODULE TextProofs -----------------------------
(***************************************************************************)
(* What the conversions of texts of MCInputs are proved to do for texts of *)
(* every length: the paths of requests and the links of the page           *)
(* (PathNames), and a message on its way from a client to the store and    *)
(* from there to the page and the stream (MessageText).                    *)
(***************************************************************************)
EXTENDS MCInputs, SequenceTheorems, FiniteSetTheorems, WellFoundedInduction, TLAPS

-----------------------------------------------------------------------------
(* Induction over numbers, recursive functions and folds. *)

\* A set of natural numbers that is not empty has a least element.
LEMMA LeastNumber ==
    ASSUME NEW T, T \subseteq Nat, T # {}
    PROVE  \E x \in T : \A y \in T : x <= y
<1>. DEFINE R == OpToRel(<, Nat)
<1>1. IsWellFoundedOn(R, Nat)
  BY NatLessThanWellFounded
<1>2. \A x, y \in Nat : x < y => <<x, y>> \in R
  BY DEF OpToRel
<1>. HIDE DEF R
<1>3. PICK x \in T : \A y \in T : ~(<<y, x>> \in R)
  BY <1>1, WFMin
<1>4. \A y \in T : ~(y < x)
  BY <1>2, <1>3
<1>5. \A y \in T : x <= y
  BY <1>4
<1>. QED  BY <1>5

\* Induction over numbers, for a set of them: what holds for a number whenever
\* it holds for all smaller ones holds for every number.
LEMMA Induction ==
    ASSUME NEW T, \A n \in Nat : (\A m \in 0 .. n - 1 : m \in T) => n \in T
    PROVE  \A n \in Nat : n \in T
<1>. SUFFICES ASSUME Nat \ T # {} PROVE FALSE
  OBVIOUS
<1>1. PICK x \in Nat \ T : \A y \in Nat \ T : x <= y
  BY LeastNumber
<1>2. \A m \in 0 .. x - 1 : m \in T
  BY <1>1
<1>. QED  BY <1>1, <1>2

\* Upwards from 0.
LEMMA Ascent ==
    ASSUME NEW T, NEW n \in Nat, 0 \in T, \A k \in 0 .. n - 1 : k \in T => k + 1 \in T
    PROVE  \A k \in 0 .. n : k \in T
<1>. DEFINE U == {k \in Nat : k \in 0 .. n => k \in T}
<1>1. ASSUME NEW k \in Nat, \A m \in 0 .. k - 1 : m \in U
      PROVE  k \in U
  <2>1. CASE k = 0 \/ k > n
    BY <2>1
  <2>2. CASE k > 0 /\ k <= n
    <3>1. k - 1 \in 0 .. k - 1 /\ k - 1 \in 0 .. n - 1 /\ (k - 1) + 1 = k
      BY <2>2
    <3>2. k - 1 \in T
      BY <1>1, <3>1
    <3>. QED  BY <3>1, <3>2
  <2>. QED  BY <2>1, <2>2
<1>2. \A k \in Nat : k \in U
  <2>. HIDE DEF U
  <2>. QED  BY <1>1, Induction
<1>. QED  BY <1>2

\* Downwards from n.
LEMMA Descent ==
    ASSUME NEW T, NEW n \in Nat, n \in T, \A k \in 1 .. n : k \in T => k - 1 \in T
    PROVE  \A k \in 0 .. n : k \in T
<1>. DEFINE U == {k \in Nat : n - k \in T}
<1>1. 0 \in U
  OBVIOUS
<1>2. ASSUME NEW k \in 0 .. n - 1, k \in U
      PROVE  k + 1 \in U
  <2>1. n - k \in 1 .. n /\ n - k \in T
    BY <1>2
  <2>2. (n - k) - 1 \in T /\ (n - k) - 1 = n - (k + 1)
    BY <2>1
  <2>. QED  BY <2>2
<1>3. \A k \in 0 .. n : k \in U
  <2>. HIDE DEF U
  <2>. QED  BY <1>1, <1>2, Ascent
<1>4. ASSUME NEW k \in 0 .. n
      PROVE  k \in T
  <2>1. n - k \in 0 .. n /\ n - (n - k) = k
    OBVIOUS
  <2>2. n - k \in U
    BY <1>3, <2>1
  <2>. QED  BY <2>1, <2>2
<1>. QED  BY <1>4

\* F[x][g] is what a recursive definition says of x if g is the function, and
\* looks at g only where the measure is smaller.
Recursive(S, A, M, mu, F) ==
    /\ A # {} /\ M \in Nat /\ mu \in [S -> 0 .. M]
    /\ F \in [S -> [[S -> A] -> A]]
    /\ \A x \in S : \A g, h \in [S -> A] :
          (\A y \in S : mu[y] < mu[x] => g[y] = h[y]) => F[x][g] = F[x][h]

\* Such a definition has a solution.
LEMMA Recursion ==
    ASSUME NEW S, NEW A, NEW M, NEW mu, NEW F, Recursive(S, A, M, mu, F)
    PROVE  \E g \in [S -> A] : \A x \in S : g[x] = F[x][g]
<1>. USE DEF Recursive
<1>. PICK a : a \in A
  OBVIOUS
<1>. DEFINE Good(g, k) == \A x \in S : mu[x] < k => g[x] = F[x][g]
            T == {k \in Nat : \E g \in [S -> A] : Good(g, k)}
<1>1. ASSUME NEW n \in Nat, \A m \in 0 .. n - 1 : m \in T
      PROVE  n \in T
  <2>1. CASE n = 0
    <3>1. [x \in S |-> a] \in [S -> A] /\ Good([x \in S |-> a], 0)
      OBVIOUS
    <3>. QED  BY <2>1, <3>1
  <2>2. CASE n > 0
    <3>1. PICK g \in [S -> A] : Good(g, n - 1)
      <4>1. n - 1 \in T
        <5>. HIDE DEF T
        <5>. QED  BY <1>1, <2>2
      <4>. QED  BY <4>1
    <3>. DEFINE h == [x \in S |-> IF mu[x] = n - 1 THEN F[x][g] ELSE g[x]]
    <3>2. h \in [S -> A] /\ \A x \in S : mu[x] # n - 1 => h[x] = g[x]
      OBVIOUS
    <3>3. \A x \in S : mu[x] = n - 1 => h[x] = F[x][g]
      OBVIOUS
    <3>. HIDE DEF h
    <3>4. ASSUME NEW x \in S, mu[x] < n
          PROVE  h[x] = F[x][h]
      <4>1. \A y \in S : mu[y] < mu[x] => g[y] = h[y]
        BY <2>2, <3>2, <3>4
      <4>2. F[x][g] = F[x][h]
        BY <3>2, <4>1
      <4>3. CASE mu[x] = n - 1
        BY <3>3, <4>2, <4>3
      <4>4. CASE mu[x] # n - 1
        <5>1. mu[x] < n - 1
          <6>1. mu[x] \in Nat
            OBVIOUS
          <6>2. n \in Nat
            OBVIOUS
          <6>3. \A u, w \in Nat : u < w /\ u # w - 1 => u < w - 1
            OBVIOUS
          <6>. QED  BY <3>4, <4>4, <6>1, <6>2, <6>3
        <5>2. g[x] = F[x][g]
          BY <3>1, <5>1
        <5>. QED  BY <3>2, <4>2, <4>4, <5>2
      <4>. QED  BY <4>3, <4>4
    <3>5. Good(h, n)
      BY <3>4
    <3>. QED  BY <3>2, <3>5
  <2>. QED  BY <2>1, <2>2
<1>2. \A n \in Nat : n \in T
  <2>. HIDE DEF T
  <2>. QED  BY <1>1, Induction
<1>3. M + 1 \in T
  <2>1. M + 1 \in Nat
    OBVIOUS
  <2>. HIDE DEF T
  <2>. QED  BY <1>2, <2>1
<1>4. PICK g \in [S -> A] : Good(g, M + 1)
  BY <1>3
<1>5. \A x \in S : g[x] = F[x][g]
  BY <1>4
<1>. QED  BY <1>5

\* The Max of FiniteSetsExt, for a set of positions.
Greatest(s) == CHOOSE x \in s : \A y \in s : x >= y

\* It is in the set, and no position of the set is beyond it.
LEMMA GreatestNumber ==
    ASSUME NEW n \in Nat, NEW s \in SUBSET (1 .. n), s # {}
    PROVE  Greatest(s) \in s /\ \A y \in s : Greatest(s) >= y
<1>. DEFINE T == {k \in Nat : n - k \in s}
<1>1. T \subseteq Nat
  OBVIOUS
<1>2. PICK z : z \in s
  OBVIOUS
<1>3. z \in 1 .. n /\ n - z \in Nat /\ n - (n - z) = z
  BY <1>2
<1>4. n - z \in T
  BY <1>2, <1>3
<1>5. PICK k \in T : \A j \in T : k <= j
  <2>. HIDE DEF T
  <2>. QED  BY <1>1, <1>4, LeastNumber
<1>6. n - k \in s
  OBVIOUS
<1>7. ASSUME NEW y \in s
      PROVE  n - k >= y
  <2>1. y \in 1 .. n /\ n - y \in Nat /\ n - (n - y) = y
    OBVIOUS
  <2>2. n - y \in T
    BY <2>1
  <2>3. k <= n - y
    BY <1>5, <2>2
  <2>. QED  BY <2>1, <2>3
<1>. QED  BY <1>6, <1>7 DEF Greatest

\* F[i] is what a fold that starts with a does with the i-th of n elements.
Folding(n, A, a, F) == n \in Nat /\ a \in A /\ F \in [1 .. n -> [A -> A]]

\* g is the function that MapThenFoldSet makes of it.
FoldBy(n, A, a, F, g) ==
    /\ g \in [SUBSET (1 .. n) -> A]
    /\ \A s \in SUBSET (1 .. n) :
          g[s] = IF s = {} THEN a ELSE F[Greatest(s)][g[s \ {Greatest(s)}]]

\* The function that MapThenFoldSet defines, and with it FoldLeft, exists.
LEMMA FoldExists ==
    ASSUME NEW n, NEW A, NEW a, NEW F, Folding(n, A, a, F)
    PROVE  \E g : FoldBy(n, A, a, F, g)
<1>. USE DEF Folding
<1>. DEFINE S == SUBSET (1 .. n)
            mu == [s \in S |-> Cardinality(s)]
            G == [s \in S |-> [g \in [S -> A] |->
                    IF s = {} THEN a ELSE F[Greatest(s)][g[s \ {Greatest(s)}]]]]
<1>1. \A s \in S : s # {} => Greatest(s) \in 1 .. n /\ s \ {Greatest(s)} \in S
  BY GreatestNumber
<1>2. G \in [S -> [[S -> A] -> A]]
  <2>1. ASSUME NEW s \in S, NEW g \in [S -> A]
        PROVE  (IF s = {} THEN a ELSE F[Greatest(s)][g[s \ {Greatest(s)}]]) \in A
    BY <1>1
  <2>. QED  BY <2>1
<1>3. \A s \in S : IsFiniteSet(s) /\ Cardinality(s) \in 0 .. n
  <2>1. IsFiniteSet(1 .. n) /\ Cardinality(1 .. n) = n
    BY FS_Interval
  <2>2. ASSUME NEW s \in S
        PROVE  IsFiniteSet(s) /\ Cardinality(s) \in 0 .. n
    <3>. DEFINE I == 1 .. n
    <3>1. IsFiniteSet(s) /\ Cardinality(s) <= n
      <4>1. s \in SUBSET I /\ IsFiniteSet(I) /\ Cardinality(I) = n
        BY <2>1
      <4>. HIDE DEF I
      <4>. QED  BY ONLY <4>1, FS_Subset
    <3>2. Cardinality(s) \in Nat
      BY <3>1, FS_CardinalityType
    <3>. QED  BY <3>1, <3>2
  <2>. QED  BY <2>2
<1>4. mu \in [S -> 0 .. n]
  BY <1>3
<1>5. ASSUME NEW s \in S, NEW g \in [S -> A], NEW h \in [S -> A],
             \A y \in S : mu[y] < mu[s] => g[y] = h[y]
      PROVE  G[s][g] = G[s][h]
  <2>1. CASE s = {}
    BY <2>1
  <2>2. CASE s # {}
    <3>. DEFINE x == Greatest(s)
    <3>1. x \in s /\ s \ {x} \in S
      BY <2>2, GreatestNumber
    <3>2. Cardinality(s \ {x}) = Cardinality(s) - 1
      BY <1>3, <3>1, FS_RemoveElement
    <3>3. Cardinality(s) \in Nat
      BY <1>3
    <3>4. mu[s \ {x}] < mu[s]
      BY <3>1, <3>2, <3>3
    <3>5. g[s \ {x}] = h[s \ {x}]
      BY <1>5, <3>1, <3>4
    <3>. QED  BY <2>2, <3>5
  <2>. QED  BY <2>1, <2>2
<1>6. Recursive(S, A, n, mu, G)
  <2>. HIDE DEF S, mu, G
  <2>1. \A x \in S : \A g, h \in [S -> A] :
           (\A y \in S : mu[y] < mu[x] => g[y] = h[y]) => G[x][g] = G[x][h]
    BY <1>5
  <2>2. A # {} /\ n \in Nat
    OBVIOUS
  <2>. QED  BY ONLY <1>2, <1>4, <2>1, <2>2 DEF Recursive
<1>7. PICK g \in [S -> A] : \A s \in S : g[s] = G[s][g]
  <2>. HIDE DEF S, mu, G
  <2>. QED  BY <1>6, Recursion
<1>8. \A s \in S : g[s] = IF s = {} THEN a ELSE F[Greatest(s)][g[s \ {Greatest(s)}]]
  BY <1>7
<1>. QED  BY <1>8 DEF FoldBy

\* Two texts one after the other.
LEMMA Concat ==
    ASSUME NEW C, NEW s \in Seq(C), NEW t \in Seq(C)
    PROVE  /\ s \o t \in Seq(C) /\ Len(s \o t) = Len(s) + Len(t)
           /\ \A i \in 1 .. Len(s) : (s \o t)[i] = s[i]
           /\ \A i \in 1 .. Len(t) : (s \o t)[Len(s) + i] = t[i]
OBVIOUS

\* How FlattenSeq gets there: at[k] is what the first k sequences make.
Grows(C, E, at) ==
    /\ at[0] = <<>> /\ \A k \in 1 .. Len(E) : at[k] = at[k - 1] \o E[k]
    /\ \A k \in 0 .. Len(E) : at[k] \in Seq(C)

\* The steps exist, and FlattenSeq is the last of them.
LEMMA FlatGrows ==
    ASSUME NEW C, NEW E \in Seq(Seq(C))
    PROVE  \E at : Grows(C, E, at) /\ Path!FlattenSeq(E) = at[Len(E)]
<1>. DEFINE n == Len(E)
            Eq(g) == g = [i \in 1 .. n |-> IF i = 1 THEN E[i] ELSE g[i - 1] \o E[i]]
            f == CHOOSE g : Eq(g)
<1>1. Path!FlattenSeq(E) = IF n = 0 THEN E ELSE f[n]
  BY DEF Path!FlattenSeq
<1>2. \E g : Eq(g)
  <2>. DEFINE S == 1 .. n  A == Seq(C)
              mu == [i \in S |-> i]
              G == [i \in S |-> [g \in [S -> A] |-> IF i = 1 THEN E[i] ELSE g[i - 1] \o E[i]]]
  <2>1. G \in [S -> [[S -> A] -> A]]
    <3>1. ASSUME NEW i \in S, NEW g \in [S -> A]
          PROVE  (IF i = 1 THEN E[i] ELSE g[i - 1] \o E[i]) \in A
      <4>1. E[i] \in A
        OBVIOUS
      <4>2. i # 1 => i - 1 \in S
        OBVIOUS
      <4>3. \A k \in S : g[k] \in A
        OBVIOUS
      <4>4. i # 1 => g[i - 1] \in A
        BY ONLY <4>2, <4>3
      <4>. QED  BY <4>1, <4>4
    <3>. QED  BY <3>1
  <2>2. ASSUME NEW x \in S, NEW g \in [S -> A], NEW h \in [S -> A],
               \A y \in S : mu[y] < mu[x] => g[y] = h[y]
        PROVE  G[x][g] = G[x][h]
    <3>1. CASE x = 1
      BY <3>1
    <3>2. CASE x # 1
      <4>1. x - 1 \in S /\ mu[x - 1] < mu[x]
        BY <3>2
      <4>2. g[x - 1] = h[x - 1]
        BY <2>2, <4>1
      <4>. QED  BY <3>2, <4>2
    <3>. QED  BY <3>1, <3>2
  <2>3. A # {} /\ n \in Nat /\ mu \in [S -> 0 .. n]
    OBVIOUS
  <2>4. Recursive(S, A, n, mu, G)
    <3>. HIDE DEF n, S, A, mu, G
    <3>. QED  BY <2>1, <2>2, <2>3 DEF Recursive
  <2>5. PICK g \in [S -> A] : \A x \in S : g[x] = G[x][g]
    <3>. HIDE DEF n, S, A, mu, G
    <3>. QED  BY <2>4, Recursion
  <2>6. Eq(g)
    BY <2>5
  <2>. QED  BY <2>6
<1>3. Eq(f)
  <2>. HIDE DEF Eq
  <2>. QED  BY <1>2
<1>. HIDE DEF f
<1>4. \A i \in 1 .. n : f[i] = IF i = 1 THEN E[i] ELSE f[i - 1] \o E[i]
  BY <1>3
<1>. DEFINE at == [k \in 0 .. n |-> IF k = 0 THEN <<>> ELSE f[k]]
<1>5. n \in Nat /\ at[0] = <<>> /\ (n > 0 => at[n] = f[n]) /\ \A k \in 1 .. n : E[k] \in Seq(C)
  OBVIOUS
<1>6. ASSUME NEW k \in 1 .. n, at[k - 1] \in Seq(C)
      PROVE  at[k] = at[k - 1] \o E[k]
  <2>1. at[k] = f[k] /\ E[k] \in Seq(C)
    OBVIOUS
  <2>2. CASE k = 1
    <3>1. at[k - 1] = <<>> /\ f[k] = E[k]
      BY <1>4, <2>2
    <3>. QED  BY <2>1, <3>1, ConcatEmptySeq
  <2>3. CASE k # 1
    <3>1. k - 1 \in 0 .. n /\ k - 1 # 0
      BY <1>5, <2>3
    <3>2. at[k - 1] = f[k - 1]
      BY <3>1
    <3>3. f[k] = f[k - 1] \o E[k]
      BY <1>4, <2>3
    <3>. QED  BY ONLY <2>1, <3>2, <3>3
  <2>. QED  BY <2>2, <2>3
<1>7. Path!FlattenSeq(E) = at[n]
  <2>1. CASE n = 0
    <3>1. E = <<>>
      BY <2>1
    <3>. QED  BY <1>1, <1>5, <2>1, <3>1
  <2>2. CASE n # 0
    BY <1>1, <1>5, <2>2
  <2>. QED  BY <2>1, <2>2
<1>. HIDE DEF at, n
<1>. DEFINE T == {m \in 0 .. n : at[m] \in Seq(C)}
<1>8. \A m \in 0 .. n : at[m] \in Seq(C)
  <2>1. 0 \in T
    <3>1. 0 \in 0 .. n /\ at[0] \in Seq(C)
      BY <1>5, EmptySeq
    <3>. QED  BY <3>1
  <2>2. ASSUME NEW m \in 0 .. n - 1, m \in T
        PROVE  m + 1 \in T
    <3>1. m + 1 \in 1 .. n /\ (m + 1) - 1 = m /\ at[m] \in Seq(C)
      BY <1>5, <2>2
    <3>2. at[m + 1] = at[m] \o E[m + 1] /\ E[m + 1] \in Seq(C)
      BY <1>5, <1>6, <3>1
    <3>3. at[m + 1] \in Seq(C) /\ m + 1 \in 0 .. n
      BY <3>1, <3>2, Concat
    <3>. QED  BY <3>3
  <2>3. \A m \in 0 .. n : m \in T
    <3>. HIDE DEF T
    <3>. QED  BY <1>5, <2>1, <2>2, Ascent
  <2>. QED  BY <2>3
<1>9. \A k \in 1 .. n : at[k] = at[k - 1] \o E[k]
  <2>1. \A k \in 1 .. n : k - 1 \in 0 .. n
    BY <1>5
  <2>. QED  BY <1>6, <1>8, <2>1
<1>10. Grows(C, E, at)
  BY <1>5, <1>8, <1>9 DEF Grows, n
<1>. QED  BY <1>7, <1>10 DEF n

\* FlattenSeq writes the sequences one after the other: off[k] is where the k-th
\* one ends.
FlatAt(E, s, off) ==
    /\ off \in [0 .. Len(E) -> Nat] /\ off[0] = 0 /\ off[Len(E)] = Len(s)
    /\ \A k \in 1 .. Len(E) :
          /\ off[k] = off[k - 1] + Len(E[k]) /\ off[k] <= Len(s)
          /\ \A j \in 1 .. Len(E[k]) : s[off[k - 1] + j] = E[k][j]

\* So FlattenSeq writes a text of the same characters, sequence after sequence.
LEMMA Flattened ==
    ASSUME NEW C, NEW E \in Seq(Seq(C))
    PROVE  /\ Path!FlattenSeq(E) \in Seq(C)
           /\ \E off : FlatAt(E, Path!FlattenSeq(E), off)
<1>. DEFINE n == Len(E)
<1>1. PICK at : Grows(C, E, at) /\ Path!FlattenSeq(E) = at[n]
  BY FlatGrows
<1>5. n \in Nat /\ at[0] = <<>> /\ \A k \in 1 .. n : E[k] \in Seq(C)
  BY <1>1 DEF Grows
<1>. HIDE DEF n
<1>6. \A k \in 1 .. n : at[k] = at[k - 1] \o E[k]
  BY <1>1 DEF Grows, n
<1>7. Path!FlattenSeq(E) = at[n]
  BY <1>1
<1>8. \A m \in 0 .. n : at[m] \in Seq(C)
  BY <1>1 DEF Grows, n
<1>9. ASSUME NEW k \in 1 .. n
      PROVE  /\ Len(at[k]) = Len(at[k - 1]) + Len(E[k])
             /\ \A j \in 1 .. Len(at[k - 1]) : at[k][j] = at[k - 1][j]
             /\ \A j \in 1 .. Len(E[k]) : at[k][Len(at[k - 1]) + j] = E[k][j]
  <2>1. at[k - 1] \in Seq(C) /\ E[k] \in Seq(C)
    BY <1>5, <1>8
  <2>2. at[k] = at[k - 1] \o E[k]
    BY <1>6, <2>1
  <2>. DEFINE u == at[k - 1]  v == E[k]  w == at[k]
  <2>3. u \in Seq(C) /\ v \in Seq(C) /\ w = u \o v
    BY <2>1, <2>2
  <2>. HIDE DEF u, v, w
  <2>4. /\ Len(w) = Len(u) + Len(v)
        /\ \A j \in 1 .. Len(u) : w[j] = u[j]
        /\ \A j \in 1 .. Len(v) : w[Len(u) + j] = v[j]
    BY ONLY <2>3, Concat
  <2>. QED  BY <2>4 DEF u, v, w
<1>. DEFINE Pre(k) == /\ Len(at[k]) <= Len(at[n])
                      /\ \A j \in 1 .. Len(at[k]) : at[n][j] = at[k][j]
            U == {k \in 0 .. n : Pre(k)}
<1>10. \A k \in 0 .. n : Len(at[k]) \in Nat
  BY <1>8
<1>11. \A k \in 0 .. n : Pre(k)
  <2>1. n \in U
    BY <1>5, <1>10
  <2>2. ASSUME NEW k \in 1 .. n, k \in U
        PROVE  k - 1 \in U
    <3>1. k - 1 \in 0 .. n /\ k \in 0 .. n /\ Len(E[k]) \in Nat
      BY <1>5
    <3>2. Len(at[k - 1]) \in Nat /\ Len(at[k]) \in Nat /\ Len(at[n]) \in Nat
      BY <1>5, <1>10, <3>1
    <3>3. Len(at[k - 1]) <= Len(at[k])
      <4>1. \A x, y, z \in Nat : x = y + z => y <= x
        OBVIOUS
      <4>. QED  BY <1>9, <3>1, <3>2, <4>1
    <3>4. \A j \in 1 .. Len(at[k - 1]) : j \in 1 .. Len(at[k])
      BY <3>2, <3>3
    <3>5. Len(at[k - 1]) <= Len(at[n])
      <4>1. \A x, y, z \in Nat : x <= y /\ y <= z => x <= z
        OBVIOUS
      <4>2. Len(at[k]) <= Len(at[n])
        BY <2>2
      <4>. QED  BY ONLY <3>2, <3>3, <4>1, <4>2
    <3>6. \A j \in 1 .. Len(at[k - 1]) : at[n][j] = at[k - 1][j]
      BY <1>9, <2>2, <3>4
    <3>. QED  BY <3>1, <3>5, <3>6
  <2>3. \A k \in 0 .. n : k \in U
    <3>. HIDE DEF U
    <3>. QED  BY <1>5, <2>1, <2>2, Descent
  <2>. QED  BY <2>3
<1>. DEFINE off == [k \in 0 .. n |-> Len(at[k])]  s == at[n]
<1>12. s \in Seq(C)
  BY <1>5, <1>8
<1>13. off \in [0 .. n -> Nat] /\ off[0] = 0 /\ off[n] = Len(s)
  BY <1>5, <1>10
<1>14. ASSUME NEW k \in 1 .. n
       PROVE  /\ off[k] = off[k - 1] + Len(E[k]) /\ off[k] <= Len(s)
              /\ \A j \in 1 .. Len(E[k]) : s[off[k - 1] + j] = E[k][j]
  <2>1. k - 1 \in 0 .. n /\ k \in 0 .. n /\ Len(E[k]) \in Nat
    BY <1>5
  <2>2. off[k] = Len(at[k]) /\ off[k - 1] = Len(at[k - 1])
    BY <2>1
  <2>3. Len(at[k - 1]) \in Nat /\ Len(at[k]) \in Nat
    BY <1>10, <2>1
  <2>4. off[k] = off[k - 1] + Len(E[k]) /\ off[k] <= Len(s)
    BY <1>9, <1>11, <2>1, <2>2
  <2>5. ASSUME NEW j \in 1 .. Len(E[k])
        PROVE  s[off[k - 1] + j] = E[k][j]
    <3>1. at[k][Len(at[k - 1]) + j] = E[k][j]
      BY <1>9
    <3>2. Len(at[k - 1]) + j \in 1 .. Len(at[k])
      <4>1. \A x, y, z \in Nat : \A i \in 1 .. z : x = y + z => y + i \in 1 .. x
        OBVIOUS
      <4>2. Len(at[k]) = Len(at[k - 1]) + Len(E[k])
        BY <1>9
      <4>3. j \in 1 .. Len(E[k])
        OBVIOUS
      <4>. QED  BY ONLY <2>1, <2>3, <4>1, <4>2, <4>3
    <3>3. s[Len(at[k - 1]) + j] = at[k][Len(at[k - 1]) + j]
      BY <1>11, <2>1, <3>2
    <3>. QED  BY <2>2, <3>1, <3>3
  <2>. QED  BY <2>4, <2>5
<1>15. FlatAt(E, s, off)
  <2>. HIDE DEF off, s
  <2>. QED  BY <1>13, <1>14 DEF FlatAt, n
<1>. QED  BY <1>7, <1>12, <1>15

-----------------------------------------------------------------------------
(* PathNames: texts and their segments. *)

\* strchr: where the first c of a text is.
LEMMA FirstOf ==
    ASSUME NEW C, NEW s \in Seq(C), NEW c, Path!Has(c, s)
    PROVE  /\ Path!First(c, s) \in 1 .. Len(s) /\ s[Path!First(c, s)] = c
           /\ \A i \in 1 .. Path!First(c, s) - 1 : s[i] # c
<1>. DEFINE P == Path!Positions(c, s)  f == Path!First(c, s)
<1>1. P # {} /\ P \subseteq Nat /\ \A i \in P : i \in 1 .. Len(s) /\ s[i] = c
  BY DEF Path!Has, Path!Positions
<1>2. \E i \in P : \A j \in P : i <= j
  <2>. HIDE DEF P
  <2>. QED  BY <1>1, LeastNumber
<1>3. f \in P /\ \A j \in P : f <= j
  <2>1. f = CHOOSE i \in P : \A j \in P : i <= j
    BY DEF Path!First
  <2>. HIDE DEF P, f
  <2>. QED  BY <1>2, <2>1
<1>. HIDE DEF f
<1>4. f \in 1 .. Len(s) /\ s[f] = c
  BY <1>1, <1>3
<1>5. ASSUME NEW i \in 1 .. f - 1
      PROVE  s[i] # c
  <2>1. i \in 1 .. Len(s) /\ ~(f <= i)
    BY <1>4
  <2>. QED  BY <1>3, <2>1 DEF Path!Positions
<1>. QED  BY <1>4, <1>5 DEF f

\* The first c of a text is where there is one and none before it.
LEMMA FirstIsAt ==
    ASSUME NEW C, NEW s \in Seq(C), NEW c, NEW k \in 1 .. Len(s),
           s[k] = c, \A i \in 1 .. k - 1 : s[i] # c
    PROVE  Path!Has(c, s) /\ Path!First(c, s) = k
<1>1. Path!Has(c, s)
  BY DEF Path!Has, Path!Positions
<1>. DEFINE f == Path!First(c, s)
<1>2. /\ f \in 1 .. Len(s) /\ s[f] = c
      /\ \A i \in 1 .. f - 1 : s[i] # c
  BY <1>1, FirstOf
<1>. HIDE DEF f
<1>3. f = k
  BY <1>2
<1>. QED  BY <1>1, <1>3 DEF f

\* A text without c.
Lacks(c, s) == \A i \in 1 .. Len(s) : s[i] # c

\* strchr finds c or there is none.
LEMMA HasOrLacks ==
    ASSUME NEW C, NEW s \in Seq(C), NEW c
    PROVE  Path!Has(c, s) <=> ~Lacks(c, s)
BY DEF Path!Has, Path!Positions, Lacks

\* The characters of u c v.
LEMMA Between ==
    ASSUME NEW C, NEW u \in Seq(C), NEW v \in Seq(C), NEW c \in C
    PROVE  LET s == u \o <<c>> \o v IN
           /\ s \in Seq(C) /\ Len(s) = Len(u) + 1 + Len(v) /\ s[Len(u) + 1] = c
           /\ \A i \in 1 .. Len(u) : s[i] = u[i]
           /\ \A i \in 1 .. Len(v) : s[Len(u) + 1 + i] = v[i]
OBVIOUS

\* What strchr cuts off: with u c v it is u and v.
LEMMA CutAt ==
    ASSUME NEW C, NEW u \in Seq(C), NEW v \in Seq(C), NEW c \in C, Lacks(c, u)
    PROVE  LET s == u \o <<c>> \o v IN
           /\ s \in Seq(C) /\ Len(s) = Len(u) + 1 + Len(v)
           /\ Path!Has(c, s) /\ Path!First(c, s) = Len(u) + 1
           /\ Path!Before(c, s) = u /\ Path!After(c, s) = v
<1>. DEFINE s == u \o <<c>> \o v
<1>1. /\ s \in Seq(C) /\ Len(s) = Len(u) + 1 + Len(v) /\ s[Len(u) + 1] = c
      /\ \A i \in 1 .. Len(u) : s[i] = u[i]
      /\ \A i \in 1 .. Len(v) : s[Len(u) + 1 + i] = v[i]
  BY Between
<1>. HIDE DEF s
<1>2. Path!Has(c, s) /\ Path!First(c, s) = Len(u) + 1
  <2>. DEFINE k == Len(u) + 1
  <2>1. k \in 1 .. Len(s) /\ s[k] = c /\ \A i \in 1 .. k - 1 : s[i] # c
    BY SMTT(40), <1>1 DEF Lacks
  <2>2. s \in Seq(C)
    BY <1>1
  <2>. HIDE DEF k
  <2>3. Path!Has(c, s) /\ Path!First(c, s) = k
    BY ONLY <2>1, <2>2, FirstIsAt
  <2>. QED  BY <2>3 DEF k
<1>3. SubSeq(s, 1, Len(u)) = u
  BY <1>1
<1>4. SubSeq(s, Len(u) + 2, Len(s)) = v
  BY <1>1
<1>5. Path!Before(c, s) = u
  BY <1>2, <1>3 DEF Path!Before
<1>6. Path!After(c, s) = v
  BY <1>2, <1>4 DEF Path!After
<1>. QED  BY <1>1, <1>2, <1>5, <1>6 DEF s

\* Every text lacks c or is cut by its first c.
LEMMA Split ==
    ASSUME NEW C, NEW s \in Seq(C), NEW c, Path!Has(c, s)
    PROVE  LET u == Path!Before(c, s)  v == Path!After(c, s) IN
           /\ u \in Seq(C) /\ v \in Seq(C) /\ c \in C /\ Lacks(c, u)
           /\ s = u \o <<c>> \o v
           /\ Len(u) = Path!First(c, s) - 1 /\ Len(v) = Len(s) - Path!First(c, s)
<1>. DEFINE f == Path!First(c, s)
<1>1. f \in 1 .. Len(s) /\ s[f] = c /\ \A i \in 1 .. f - 1 : s[i] # c
  BY FirstOf
<1>2. Path!Before(c, s) = SubSeq(s, 1, f - 1) /\ Path!After(c, s) = SubSeq(s, f + 1, Len(s))
  BY DEF Path!Before, Path!After
<1>. HIDE DEF f
<1>. DEFINE u == SubSeq(s, 1, f - 1)  v == SubSeq(s, f + 1, Len(s))
<1>3. u \in Seq(C) /\ Len(u) = f - 1 /\ \A i \in 1 .. f - 1 : u[i] = s[i]
  BY <1>1
<1>4. v \in Seq(C) /\ Len(v) = Len(s) - f /\ \A i \in 1 .. Len(v) : v[i] = s[f + i]
  BY SMTT(40), <1>1
<1>5. c \in C /\ Lacks(c, u)
  BY <1>1, <1>3 DEF Lacks
<1>. HIDE DEF u, v
<1>6. s = u \o <<c>> \o v
  <2>. DEFINE w == u \o <<c>> \o v
  <2>1. /\ w \in Seq(C) /\ Len(w) = Len(u) + 1 + Len(v) /\ w[Len(u) + 1] = c
        /\ \A i \in 1 .. Len(u) : w[i] = u[i]
        /\ \A i \in 1 .. Len(v) : w[Len(u) + 1 + i] = v[i]
    <3>1. u \in Seq(C) /\ v \in Seq(C) /\ c \in C
      BY <1>3, <1>4, <1>5
    <3>. QED  BY ONLY <3>1, Between
  <2>. HIDE DEF w
  <2>2. Len(w) = Len(s)
    BY <1>1, <1>3, <1>4, <2>1
  <2>3. ASSUME NEW i \in 1 .. Len(s)
        PROVE  w[i] = s[i]
    <3>1. CASE i < f
      BY <1>1, <1>3, <2>1, <3>1
    <3>2. CASE i = f
      BY <1>1, <1>3, <2>1, <3>2
    <3>3. CASE i > f
      <4>1. i - f \in 1 .. Len(v) /\ f + (i - f) = i /\ Len(u) + 1 + (i - f) = i
        BY <1>1, <1>3, <1>4, <3>3
      <4>. QED  BY <1>4, <2>1, <4>1
    <3>. QED  BY <1>1, <3>1, <3>2, <3>3
  <2>4. s = w
    BY <2>1, <2>2, <2>3, SeqEqual
  <2>. QED  BY <2>4 DEF w
<1>. QED  BY <1>1, <1>2, <1>3, <1>4, <1>5, <1>6 DEF f, u, v

\* The last n characters, and how the loops over a text use them.
Suffix(p, n) == SubSeq(p, Len(p) - n + 1, Len(p))

\* Its length and its characters.
LEMMA SuffixFacts ==
    ASSUME NEW C, NEW p \in Seq(C), NEW n \in 0 .. Len(p)
    PROVE  /\ Suffix(p, n) \in Seq(C) /\ Len(Suffix(p, n)) = n
           /\ \A i \in 1 .. n : Suffix(p, n)[i] = p[Len(p) - n + i]
BY DEF Suffix

\* All characters are the text.
LEMMA WholeSuffix ==
    ASSUME NEW C, NEW p \in Seq(C)
    PROVE  Suffix(p, Len(p)) = p
<1>1. Len(p) \in 0 .. Len(p)
  OBVIOUS
<1>2. /\ Suffix(p, Len(p)) \in Seq(C) /\ Len(Suffix(p, Len(p))) = Len(p)
      /\ \A i \in 1 .. Len(p) : Suffix(p, Len(p))[i] = p[Len(p) - Len(p) + i]
  BY <1>1, SuffixFacts
<1>3. \A i \in 1 .. Len(p) : Len(p) - Len(p) + i = i
  OBVIOUS
<1>. QED  BY <1>2, <1>3, SeqEqual

\* The end of an end of a text is an end of the text.
LEMMA SuffixOfSuffix ==
    ASSUME NEW C, NEW p \in Seq(C), NEW k \in 0 .. Len(p), NEW m \in 0 .. k
    PROVE  Suffix(Suffix(p, k), m) = Suffix(p, m)
<1>. DEFINE v == Suffix(p, k)
<1>1. v \in Seq(C) /\ Len(v) = k /\ \A i \in 1 .. k : v[i] = p[Len(p) - k + i]
  BY SuffixFacts
<1>. HIDE DEF v
<1>2. m \in 0 .. Len(v) /\ m \in 0 .. Len(p)
  BY <1>1
<1>3. /\ Suffix(v, m) \in Seq(C) /\ Len(Suffix(v, m)) = m
      /\ \A i \in 1 .. m : Suffix(v, m)[i] = v[Len(v) - m + i]
  BY ZenonT(60), <1>1, <1>2, SuffixFacts
<1>4. /\ Suffix(p, m) \in Seq(C) /\ Len(Suffix(p, m)) = m
      /\ \A i \in 1 .. m : Suffix(p, m)[i] = p[Len(p) - m + i]
  BY <1>2, SuffixFacts
<1>5. ASSUME NEW i \in 1 .. m
      PROVE  Suffix(v, m)[i] = Suffix(p, m)[i]
  <2>1. k - m + i \in 1 .. k /\ Len(p) - k + (k - m + i) = Len(p) - m + i
    OBVIOUS
  <2>2. v[k - m + i] = p[Len(p) - m + i]
    BY <1>1, <2>1
  <2>. QED  BY <1>1, <1>3, <1>4, <2>2
<1>6. Suffix(v, m) = Suffix(p, m)
  BY <1>3, <1>4, <1>5, SeqEqual
<1>. QED  BY <1>6 DEF v

\* What stands behind c in u c v.
LEMMA SuffixBehind ==
    ASSUME NEW C, NEW u \in Seq(C), NEW v \in Seq(C), NEW c \in C
    PROVE  Suffix(u \o <<c>> \o v, Len(v)) = v
<1>. DEFINE s == u \o <<c>> \o v
<1>1. /\ s \in Seq(C) /\ Len(s) = Len(u) + 1 + Len(v)
      /\ \A i \in 1 .. Len(v) : s[Len(u) + 1 + i] = v[i]
  BY Between
<1>. HIDE DEF s
<1>2. Len(v) \in 0 .. Len(s) /\ Len(s) - Len(v) = Len(u) + 1
  BY <1>1
<1>3. /\ Suffix(s, Len(v)) \in Seq(C) /\ Len(Suffix(s, Len(v))) = Len(v)
      /\ \A i \in 1 .. Len(v) : Suffix(s, Len(v))[i] = s[Len(s) - Len(v) + i]
  <2>. DEFINE n == Len(v)
  <2>1. s \in Seq(C) /\ n \in 0 .. Len(s)
    BY <1>1, <1>2
  <2>. HIDE DEF n
  <2>2. /\ Suffix(s, n) \in Seq(C) /\ Len(Suffix(s, n)) = n
        /\ \A i \in 1 .. n : Suffix(s, n)[i] = s[Len(s) - n + i]
    BY ONLY <2>1, SuffixFacts
  <2>. QED  BY <2>2 DEF n
<1>4. \A i \in 1 .. Len(v) : Suffix(s, Len(v))[i] = v[i]
  BY <1>1, <1>2, <1>3
<1>5. Suffix(s, Len(v)) = v
  BY <1>3, <1>4, SeqEqual
<1>. QED  BY <1>5 DEF s

\* What Segments says of a suffix, if f is the function.
SplitAt(p, f, n) ==
    LET rest == Suffix(p, n)
    IN IF ~Path!Has("/", rest) THEN <<rest>>
       ELSE <<Path!Before("/", rest)>> \o f[n - Path!First("/", rest)]

SplitFn(p) == CHOOSE f : f = [n \in 0 .. Len(p) |-> SplitAt(p, f, n)]

\* The recursive function of Segments exists, and Segments is its value for the
\* whole text.
LEMMA SplitIs ==
    ASSUME NEW C, NEW p \in Seq(C)
    PROVE  /\ Path!Segments(p) = SplitFn(p)[Len(p)]
           /\ \A n \in 0 .. Len(p) : SplitFn(p)[n] = SplitAt(p, SplitFn(p), n)
<1>1. Path!Segments(p) = SplitFn(p)[Len(p)]
  BY DEF Path!Segments, SplitFn, SplitAt, Suffix
<1>. DEFINE S == 0 .. Len(p)  A == Seq(Seq(C))  M == Len(p)
            mu == [n \in S |-> n]
            G == [n \in S |-> [f \in [S -> A] |-> SplitAt(p, f, n)]]
<1>2. ASSUME NEW n \in S, Path!Has("/", Suffix(p, n))
      PROVE  /\ n - Path!First("/", Suffix(p, n)) \in S
             /\ n - Path!First("/", Suffix(p, n)) < n
  <2>1. Suffix(p, n) \in Seq(C) /\ Len(Suffix(p, n)) = n
    BY SuffixFacts
  <2>2. Path!First("/", Suffix(p, n)) \in 1 .. n
    BY <1>2, <2>1, FirstOf
  <2>. QED  BY <2>2
<1>3. ASSUME NEW n \in S, NEW f \in [S -> A]
      PROVE  SplitAt(p, f, n) \in A
  <2>1. Suffix(p, n) \in Seq(C)
    BY SuffixFacts
  <2>2. CASE ~Path!Has("/", Suffix(p, n))
    BY <2>1, <2>2 DEF SplitAt
  <2>3. CASE Path!Has("/", Suffix(p, n))
    <3>1. Path!Before("/", Suffix(p, n)) \in Seq(C)
      BY <2>1, <2>3, Split
    <3>2. f[n - Path!First("/", Suffix(p, n))] \in A
      BY <1>2, <2>3
    <3>3. SplitAt(p, f, n) =
             <<Path!Before("/", Suffix(p, n))>> \o f[n - Path!First("/", Suffix(p, n))]
      BY <2>3 DEF SplitAt
    <3>. QED  BY <3>1, <3>2, <3>3
  <2>. QED  BY <2>2, <2>3
<1>4. G \in [S -> [[S -> A] -> A]]
  BY <1>3
<1>5. ASSUME NEW n \in S, NEW g \in [S -> A], NEW h \in [S -> A],
             \A y \in S : mu[y] < mu[n] => g[y] = h[y]
      PROVE  G[n][g] = G[n][h]
  <2>1. Path!Has("/", Suffix(p, n)) =>
           g[n - Path!First("/", Suffix(p, n))] = h[n - Path!First("/", Suffix(p, n))]
    BY <1>2, <1>5
  <2>2. SplitAt(p, g, n) = SplitAt(p, h, n)
    BY <2>1 DEF SplitAt
  <2>. QED  BY <2>2
<1>6. A # {} /\ M \in Nat /\ mu \in [S -> 0 .. M]
  <2>1. <<>> \in A
    BY EmptySeq
  <2>2. M \in Nat /\ mu \in [S -> 0 .. M]
    OBVIOUS
  <2>. HIDE DEF A
  <2>. QED  BY <2>1, <2>2
<1>7. Recursive(S, A, M, mu, G)
  <2>. HIDE DEF S, A, M, mu, G
  <2>. QED  BY <1>4, <1>5, <1>6 DEF Recursive
<1>8. PICK g \in [S -> A] : \A n \in S : g[n] = G[n][g]
  <2>. HIDE DEF S, A, M, mu, G
  <2>. QED  BY <1>7, Recursion
<1>9. g = [n \in S |-> SplitAt(p, g, n)]
  BY <1>8
<1>10. SplitFn(p) = [n \in S |-> SplitAt(p, SplitFn(p), n)]
  <2>. DEFINE Eq(f) == f = [n \in S |-> SplitAt(p, f, n)]
  <2>1. Eq(g) /\ SplitFn(p) = CHOOSE f : Eq(f)
    BY <1>9 DEF SplitFn
  <2>2. Eq(SplitFn(p))
    <3>. HIDE DEF Eq
    <3>. QED  BY <2>1
  <2>. QED  BY <2>2
<1>11. \A n \in 0 .. Len(p) : SplitFn(p)[n] = SplitAt(p, SplitFn(p), n)
  BY <1>10
<1>. QED  BY <1>1, <1>11

\* Its other values are the segments of the ends of the text.
LEMMA SplitOfSuffix ==
    ASSUME NEW C, NEW p \in Seq(C), NEW k \in 0 .. Len(p)
    PROVE  SplitFn(p)[k] = Path!Segments(Suffix(p, k))
<1>. DEFINE v == Suffix(p, k)
            T == {m \in Nat : m \in 0 .. k => SplitFn(p)[m] = SplitFn(v)[m]}
<1>1. v \in Seq(C) /\ Len(v) = k
  BY SuffixFacts
<1>2. ASSUME NEW m \in Nat, \A i \in 0 .. m - 1 : i \in T
      PROVE  m \in T
  <2>. SUFFICES ASSUME m \in 0 .. k
                PROVE  SplitFn(p)[m] = SplitFn(v)[m]
    OBVIOUS
  <2>. DEFINE r == Suffix(p, m)
  <2>1. Suffix(v, m) = r
    BY SuffixOfSuffix
  <2>2. m \in 0 .. Len(p) /\ r \in Seq(C) /\ Len(r) = m
    BY SuffixFacts
  <2>. HIDE DEF v
  <2>3. SplitFn(p)[m] = SplitAt(p, SplitFn(p), m) /\ SplitFn(v)[m] = SplitAt(v, SplitFn(v), m)
    BY <1>1, <2>2, SplitIs
  <2>4. CASE ~Path!Has("/", r)
    BY <2>1, <2>3, <2>4 DEF SplitAt
  <2>5. CASE Path!Has("/", r)
    <3>. DEFINE f == Path!First("/", r)
    <3>1. f \in 1 .. m
      BY <2>2, <2>5, FirstOf
    <3>2. m - f \in 0 .. m - 1 /\ m - f \in 0 .. k
      BY <3>1
    <3>3. SplitFn(p)[m - f] = SplitFn(v)[m - f]
      BY <1>2, <3>2
    <3>. QED  BY <2>1, <2>3, <2>5, <3>3 DEF SplitAt
  <2>. QED  BY <2>4, <2>5
<1>3. k \in T
  <2>1. \A m \in Nat : m \in T
    <3>. HIDE DEF T
    <3>. QED  BY <1>2, Induction
  <2>2. k \in Nat
    OBVIOUS
  <2>. HIDE DEF T
  <2>. QED  BY <2>1, <2>2
<1>4. SplitFn(p)[k] = SplitFn(v)[k]
  BY <1>3
<1>5. Path!Segments(v) = SplitFn(v)[k]
  <2>. HIDE DEF v
  <2>. QED  BY <1>1, SplitIs
<1>. QED  BY <1>4, <1>5

\* A text without a slash is one segment; a slash ends the first one.
LEMMA OneSegment ==
    ASSUME NEW C, NEW u \in Seq(C), Lacks("/", u)
    PROVE  Path!Segments(u) = <<u>>
<1>1. Path!Segments(u) = SplitAt(u, SplitFn(u), Len(u))
  BY SplitIs
<1>2. Suffix(u, Len(u)) = u
  BY WholeSuffix
<1>3. ~Path!Has("/", u)
  BY HasOrLacks
<1>. QED  BY <1>1, <1>2, <1>3 DEF SplitAt

\* The segments of u/v, if u has no slash: u and those of v.
LEMMA FirstSegment ==
    ASSUME NEW C, "/" \in C, NEW u \in Seq(C), NEW v \in Seq(C), Lacks("/", u)
    PROVE  Path!Segments(u \o <<"/">> \o v) = <<u>> \o Path!Segments(v)
<1>. DEFINE p == u \o <<"/">> \o v
<1>1. /\ p \in Seq(C) /\ Len(p) = Len(u) + 1 + Len(v)
      /\ Path!Has("/", p) /\ Path!First("/", p) = Len(u) + 1 /\ Path!Before("/", p) = u
  BY CutAt
<1>2. Suffix(p, Len(v)) = v
  BY SuffixBehind
<1>. HIDE DEF p
<1>3. Path!Segments(p) = SplitAt(p, SplitFn(p), Len(p))
  <2>1. p \in Seq(C) /\ Len(p) \in 0 .. Len(p)
    BY <1>1
  <2>. QED  BY ONLY <2>1, SplitIs
<1>4. Suffix(p, Len(p)) = p
  BY <1>1, WholeSuffix
<1>5. Path!Segments(p) = <<u>> \o SplitFn(p)[Len(p) - (Len(u) + 1)]
  BY <1>1, <1>3, <1>4 DEF SplitAt
<1>6. Len(p) - (Len(u) + 1) = Len(v) /\ Len(v) \in 0 .. Len(p)
  BY <1>1
<1>7. SplitFn(p)[Len(v)] = Path!Segments(v)
  BY <1>1, <1>2, <1>6, SplitOfSuffix
<1>. QED  BY <1>5, <1>6, <1>7 DEF p

\* Segments are texts.
LEMMA SegmentsType ==
    ASSUME NEW C, "/" \in C, NEW p \in Seq(C)
    PROVE  Path!Segments(p) \in Seq(Seq(C)) /\ Len(Path!Segments(p)) > 0
<1>. DEFINE Ok(s) == Path!Segments(s) \in Seq(Seq(C)) /\ Len(Path!Segments(s)) > 0
            T == {n \in Nat : \A s \in Seq(C) : Len(s) = n => Ok(s)}
<1>1. ASSUME NEW n \in Nat, \A m \in 0 .. n - 1 : m \in T
      PROVE  n \in T
  <2>. SUFFICES ASSUME NEW s \in Seq(C), Len(s) = n
                PROVE  Ok(s)
    OBVIOUS
  <2>1. CASE Lacks("/", s)
    <3>1. Path!Segments(s) = <<s>>
      BY <2>1, OneSegment
    <3>2. <<s>> \in Seq(Seq(C)) /\ Len(<<s>>) = 1
      OBVIOUS
    <3>. QED  BY <3>1, <3>2
  <2>2. CASE ~Lacks("/", s)
    <3>1. Path!Has("/", s)
      BY <2>2, HasOrLacks
    <3>. DEFINE u == Path!Before("/", s)  v == Path!After("/", s)
    <3>2. /\ u \in Seq(C) /\ v \in Seq(C) /\ Lacks("/", u)
          /\ s = u \o <<"/">> \o v
      BY <3>1, Split
    <3>. HIDE DEF u, v
    <3>3. Len(s) = Len(u) + 1 + Len(v)
      BY <3>2, Between
    <3>4. Len(v) \in 0 .. n - 1
      BY <3>2, <3>3
    <3>5. Ok(v)
      BY <1>1, <3>2, <3>4
    <3>6. Path!Segments(s) = <<u>> \o Path!Segments(v)
      BY <3>2, FirstSegment
    <3>7. <<u>> \in Seq(Seq(C)) /\ Len(<<u>>) = 1
      BY <3>2
    <3>8. /\ <<u>> \o Path!Segments(v) \in Seq(Seq(C))
          /\ Len(<<u>> \o Path!Segments(v)) = 1 + Len(Path!Segments(v))
      BY <3>5, <3>7, Concat
    <3>9. Len(Path!Segments(v)) \in Nat
      BY <3>5
    <3>. QED  BY <3>5, <3>6, <3>8, <3>9
  <2>. QED  BY <2>1, <2>2
<1>2. \A n \in Nat : n \in T
  <2>. HIDE DEF T
  <2>. QED  BY <1>1, Induction
<1>. QED  BY <1>2

\* A slash between two texts puts their segments together.
LEMMA SegmentsOfJoin ==
    ASSUME NEW C, "/" \in C, NEW b \in Seq(C), NEW t \in Seq(C)
    PROVE  Path!Segments(b \o <<"/">> \o t) = Path!Segments(b) \o Path!Segments(t)
<1>. DEFINE Ok(s) == Path!Segments(s \o <<"/">> \o t) = Path!Segments(s) \o Path!Segments(t)
            T == {n \in Nat : \A s \in Seq(C) : Len(s) = n => Ok(s)}
<1>1. ASSUME NEW n \in Nat, \A m \in 0 .. n - 1 : m \in T
      PROVE  n \in T
  <2>. SUFFICES ASSUME NEW s \in Seq(C), Len(s) = n
                PROVE  Ok(s)
    OBVIOUS
  <2>1. CASE Lacks("/", s)
    <3>1. Path!Segments(s) = <<s>>
      BY <2>1, OneSegment
    <3>2. Path!Segments(s \o <<"/">> \o t) = <<s>> \o Path!Segments(t)
      BY <2>1, FirstSegment
    <3>. QED  BY <3>1, <3>2
  <2>2. CASE ~Lacks("/", s)
    <3>1. Path!Has("/", s)
      BY <2>2, HasOrLacks
    <3>. DEFINE u == Path!Before("/", s)  v == Path!After("/", s)
    <3>2. /\ u \in Seq(C) /\ v \in Seq(C) /\ Lacks("/", u)
          /\ s = u \o <<"/">> \o v
      BY <3>1, Split
    <3>. HIDE DEF u, v
    <3>3. Len(s) = Len(u) + 1 + Len(v)
      BY <3>2, Between
    <3>4. Len(v) \in 0 .. n - 1
      BY <3>2, <3>3
    <3>5. Ok(v)
      BY <1>1, <3>2, <3>4
    <3>6. Path!Segments(s) = <<u>> \o Path!Segments(v)
      BY <3>2, FirstSegment
    <3>. DEFINE w == v \o <<"/">> \o t
    <3>7. w \in Seq(C)
      BY <3>2, Between
    <3>8. s \o <<"/">> \o t = u \o <<"/">> \o w
      <4>1. (u \o <<"/">> \o v) \o <<"/">> \o t = u \o <<"/">> \o (v \o <<"/">> \o t)
        <5>. DEFINE z == <<"/">>  x == u \o z  y == v \o z
        <5>1. x \in Seq(C) /\ z \in Seq(C) /\ y \in Seq(C) /\ v \in Seq(C) /\ t \in Seq(C)
          BY <3>2
        <5>. HIDE DEF x, z
        <5>2. (x \o v) \o z = x \o y
          BY ONLY SMTT(40), <5>1, ConcatAssociative DEF y
        <5>. HIDE DEF y
        <5>3. (x \o y) \o t = x \o (y \o t)
          <6>1. x \in Seq(C) /\ y \in Seq(C) /\ t \in Seq(C)
            BY <5>1
          <6>. QED  BY ONLY SMTT(40), <6>1, ConcatAssociative
        <5>. QED  BY <5>2, <5>3 DEF x, y, z
      <4>2. s = u \o <<"/">> \o v
        BY <3>2
      <4>. QED  BY ONLY <4>1, <4>2
    <3>. HIDE DEF w
    <3>9. Path!Segments(u \o <<"/">> \o w) = <<u>> \o Path!Segments(w)
      BY <3>2, <3>7, FirstSegment
    <3>10. Path!Segments(w) = Path!Segments(v) \o Path!Segments(t)
      BY <3>5 DEF w
    <3>11. Path!Segments(v) \in Seq(Seq(C)) /\ Path!Segments(t) \in Seq(Seq(C))
      BY <3>2, SegmentsType
    <3>12. <<u>> \in Seq(Seq(C))
      BY <3>2
    <3>13. <<u>> \o (Path!Segments(v) \o Path!Segments(t))
              = (<<u>> \o Path!Segments(v)) \o Path!Segments(t)
      <4>. DEFINE x == Path!Segments(v)  y == Path!Segments(t)  D == Seq(C)
      <4>1. x \in Seq(D) /\ y \in Seq(D) /\ <<u>> \in Seq(D)
        BY <3>11, <3>12
      <4>. HIDE DEF x, y, D
      <4>2. <<u>> \o (x \o y) = (<<u>> \o x) \o y
        BY ONLY SMTT(40), <4>1, ConcatAssociative
      <4>. QED  BY <4>2 DEF x, y
    <3>. QED  BY <3>6, <3>8, <3>9, <3>10, <3>13
  <2>. QED  BY <2>1, <2>2
<1>2. \A n \in Nat : n \in T
  <2>. HIDE DEF T
  <2>. QED  BY <1>1, Induction
<1>. QED  BY <1>2

-----------------------------------------------------------------------------
(* PathNames: walks. *)

\* One segment of a walk, and the function FoldLeft makes of it.
WalkStep(at, segment) ==
    IF at = Path!Nowhere \/ segment \in {<<>>, <<".">>} THEN at
    ELSE IF segment = <<".", ".">> THEN IF at = <<>> THEN Path!Nowhere ELSE Path!Front(at)
    ELSE Append(at, segment)

WalkFn(q) ==
    CHOOSE g : g = [s \in SUBSET (DOMAIN q) |->
                      IF s = {} THEN <<>>
                      ELSE WalkStep(g[s \ {Greatest(s)}], q[Greatest(s)])]

\* Where a walk along q is after each segment.
Trail(q, at) ==
    /\ at[0] = <<>>
    /\ \A i \in 1 .. Len(q) : at[i] = WalkStep(at[i - 1], q[i])

\* Walk is the fold over the segments.
LEMMA WalkFolds ==
    ASSUME NEW p
    PROVE  Path!Walk(p) = WalkFn(Path!Segments(p))[DOMAIN Path!Segments(p)]
BY DEF Path!Walk, Path!FoldLeft, Path!MapThenFoldSet, Path!Max, WalkFn, WalkStep, Greatest

\* A step of a walk leads to a place, or nowhere.
LEMMA WalkStepType ==
    ASSUME NEW D, NEW at \in Seq(D) \cup {Path!Nowhere}, NEW segment \in D
    PROVE  WalkStep(at, segment) \in Seq(D) \cup {Path!Nowhere}
<1>1. CASE at = Path!Nowhere
  BY <1>1 DEF WalkStep
<1>2. CASE at # Path!Nowhere
  <2>1. at \in Seq(D)
    BY <1>2
  <2>2. CASE segment \in {<<>>, <<".">>}
    BY <1>2, <2>1, <2>2 DEF WalkStep
  <2>3. CASE segment \notin {<<>>, <<".">>} /\ segment = <<".", ".">>
    <3>1. at # <<>> => Path!Front(at) \in Seq(D)
      BY <2>1 DEF Path!Front
    <3>2. WalkStep(at, segment) = IF at = <<>> THEN Path!Nowhere ELSE Path!Front(at)
      BY <1>2, <2>3 DEF WalkStep
    <3>. QED  BY <3>1, <3>2
  <2>4. CASE segment \notin {<<>>, <<".">>} /\ segment # <<".", ".">>
    <3>1. WalkStep(at, segment) = Append(at, segment)
      BY <1>2, <2>4 DEF WalkStep
    <3>. QED  BY <2>1, <3>1
  <2>. QED  BY <2>2, <2>3, <2>4
<1>. QED  BY <1>1, <1>2

\* A walk takes its segments one after the other.
LEMMA WalkIs ==
    ASSUME NEW C, "/" \in C, NEW p \in Seq(C)
    PROVE  \E at : Trail(Path!Segments(p), at) /\ Path!Walk(p) = at[Len(Path!Segments(p))]
<1>. DEFINE q == Path!Segments(p)  n == Len(q)  D == Seq(C)
            A == Seq(D) \cup {Path!Nowhere}
            Eq(g) == g = [s \in SUBSET (DOMAIN q) |->
                            IF s = {} THEN <<>>
                            ELSE WalkStep(g[s \ {Greatest(s)}], q[Greatest(s)])]
            F == [i \in 1 .. n |-> [a \in A |-> WalkStep(a, q[i])]]
<1>1. Path!Walk(p) = WalkFn(q)[DOMAIN q]
  BY WalkFolds
<1>2. q \in Seq(D)
  BY SegmentsType
<1>. HIDE DEF q, D
<1>3. n \in Nat /\ DOMAIN q = 1 .. n /\ \A i \in 1 .. n : q[i] \in D
  BY <1>2
<1>. HIDE DEF n
<1>4. \A i \in 1 .. n : \A a \in A : WalkStep(a, q[i]) \in A
  BY <1>3, WalkStepType
<1>. HIDE DEF A
<1>5. F \in [1 .. n -> [A -> A]]
  BY <1>4
<1>6. <<>> \in A
  BY EmptySeq DEF A
<1>7. PICK g : FoldBy(n, A, <<>>, F, g)
  <2>. HIDE DEF F
  <2>1. Folding(n, A, <<>>, F)
    BY <1>3, <1>5, <1>6 DEF Folding
  <2>. QED  BY <2>1, FoldExists
<1>8. ASSUME NEW s \in SUBSET (1 .. n), s # {}
      PROVE  F[Greatest(s)][g[s \ {Greatest(s)}]]
                = WalkStep(g[s \ {Greatest(s)}], q[Greatest(s)])
  <2>1. Greatest(s) \in 1 .. n
    BY <1>3, <1>8, GreatestNumber
  <2>2. g[s \ {Greatest(s)}] \in A
    BY <1>7 DEF FoldBy
  <2>. QED  BY <2>1, <2>2
<1>9. Eq(g)
  <2>. HIDE DEF F
  <2>. QED  BY <1>3, <1>7, <1>8 DEF FoldBy
<1>10. Eq(WalkFn(q))
  <2>1. WalkFn(q) = CHOOSE h : Eq(h)
    BY DEF WalkFn
  <2>. HIDE DEF Eq
  <2>. QED  BY <1>9, <2>1
<1>. DEFINE f == WalkFn(q)  at == [i \in 0 .. n |-> f[1 .. i]]
<1>11. f[{}] = <<>>
  BY <1>10
<1>12. ASSUME NEW i \in 1 .. n
       PROVE  f[1 .. i] = WalkStep(f[1 .. i - 1], q[i])
  <2>1. 1 .. i \in SUBSET (1 .. n) /\ 1 .. i # {} /\ (1 .. i) \ {i} = 1 .. i - 1
    <3>1. i \in Nat /\ i <= n /\ i \in 1 .. i
      BY <1>3
    <3>2. 1 .. i \subseteq 1 .. n
      BY <1>3, <3>1
    <3>3. \A j : j \in (1 .. i) \ {i} <=> j \in 1 .. i - 1
      BY <3>1
    <3>. QED  BY <3>1, <3>2, <3>3
  <2>2. Greatest(1 .. i) = i
    <3>1. /\ Greatest(1 .. i) \in 1 .. i
          /\ \A y \in 1 .. i : Greatest(1 .. i) >= y
      BY <1>3, <2>1, GreatestNumber
    <3>. QED  BY <3>1
  <2>3. \A s \in SUBSET (1 .. n) :
           f[s] = IF s = {} THEN <<>> ELSE WalkStep(f[s \ {Greatest(s)}], q[Greatest(s)])
    BY <1>3, <1>10
  <2>. HIDE DEF f
  <2>. QED  BY <2>1, <2>2, <2>3
<1>. HIDE DEF f
<1>13. 1 .. 0 = {} /\ at[0] = <<>> /\ at[n] = f[1 .. n]
  BY <1>3, <1>11
<1>14. \A i \in 1 .. n : at[i] = WalkStep(at[i - 1], q[i])
  <2>1. ASSUME NEW i \in 1 .. n
        PROVE  at[i] = WalkStep(at[i - 1], q[i])
    <3>1. at[i] = f[1 .. i] /\ at[i - 1] = f[1 .. i - 1]
      BY <1>3
    <3>. QED  BY <1>12, <3>1
  <2>. QED  BY <2>1
<1>15. Trail(q, at)
  <2>. HIDE DEF at
  <2>. QED  BY <1>13, <1>14 DEF Trail, n
<1>16. Path!Walk(p) = at[Len(q)]
  <2>. HIDE DEF at
  <2>. QED  BY <1>1, <1>3, <1>13 DEF f, n
<1>. QED  BY <1>15, <1>16 DEF q

\* Segments that a walk appends as they are.
Plain(q) == \A i \in 1 .. Len(q) : q[i] \notin {<<>>, <<".">>, <<".", ".">>}

\* Nowhere is no place: "error" is not a character.
LEMMA SomewhereIsNot ==
    ASSUME NEW C, "error" \notin C, NEW q \in Seq(Seq(C))
    PROVE  q # Path!Nowhere
<1>. SUFFICES ASSUME q = <<<<"error">>>> PROVE FALSE
  BY DEF Path!Nowhere, Path!Error
<1>1. Len(q) = 1 /\ q[1] = <<"error">>
  OBVIOUS
<1>2. q[1] \in Seq(C)
  BY <1>1
<1>3. <<"error">> \in Seq(C) /\ Len(<<"error">>) = 1 /\ <<"error">>[1] = "error"
  BY <1>1, <1>2
<1>. QED  BY <1>3

\* A walk that has a place after q goes on along the plain segments z, and
\* perhaps an empty one after them; and arrives below them.
GoesOn(C, q, r, z, at) ==
    /\ "error" \notin C /\ q \in Seq(Seq(C)) /\ r \in Seq(Seq(C)) /\ z \in Seq(Seq(C))
    /\ Plain(z) /\ r \in {z, z \o <<<<>>>>}
    /\ Trail(q \o r, at) /\ at[Len(q)] \in Seq(Seq(C))

Arrives(q, r, z, at) == at[Len(q \o r)] = at[Len(q)] \o z

\* Plain segments lead down, one level each.
LEMMA PlainWalk ==
    ASSUME NEW C, NEW q, NEW r, NEW z, NEW at, GoesOn(C, q, r, z, at)
    PROVE  Arrives(q, r, z, at)
<1>. /\ "error" \notin C /\ q \in Seq(Seq(C)) /\ r \in Seq(Seq(C)) /\ z \in Seq(Seq(C))
     /\ Plain(z) /\ r \in {z, z \o <<<<>>>>}
     /\ Trail(q \o r, at) /\ at[Len(q)] \in Seq(Seq(C))
  BY DEF GoesOn
<1>. DEFINE D == Seq(C)  a == at[Len(q)]  n == Len(z)  k == Len(q)
            T == {j \in 0 .. n : at[k + j] = a \o SubSeq(z, 1, j)}
<1>1. <<>> \in D
  BY EmptySeq
<1>. HIDE DEF D
<1>2. q \in Seq(D) /\ r \in Seq(D) /\ z \in Seq(D) /\ a \in Seq(D) /\ <<<<>>>> \in Seq(D)
  BY <1>1 DEF D
<1>3. /\ n \in Nat /\ k \in Nat /\ Len(r) >= n /\ Len(q \o r) = k + Len(r)
      /\ \A i \in 1 .. n : r[i] = z[i]
      /\ r # z => Len(r) = n + 1 /\ r[n + 1] = <<>>
  <2>. DEFINE w == q \o r
  <2>3. Len(w) = Len(q) + Len(r) /\ n \in Nat /\ k \in Nat
    BY <1>2, Concat
  <2>. HIDE DEF w
  <2>1. CASE r = z
    BY <2>1, <2>3 DEF w
  <2>2. CASE r # z
    <3>1. r = z \o <<<<>>>> /\ Len(<<<<>>>>) = 1 /\ <<<<>>>>[1] = <<>>
      BY <2>2
    <3>2. /\ Len(r) = n + 1 /\ r[n + 1] = <<>>
          /\ \A i \in 1 .. n : r[i] = z[i]
      BY <1>2, <3>1, Concat
    <3>. QED  BY <2>3, <3>2 DEF w
  <2>. QED  BY <2>1, <2>2
<1>4. ASSUME NEW i \in 1 .. Len(r)
      PROVE  at[k + i] = WalkStep(at[k + i - 1], r[i])
  <2>. DEFINE w == q \o r  j == k + i
  <2>1. w[j] = r[i] /\ j \in 1 .. Len(w)
    BY <1>2, <1>3, Concat
  <2>2. Trail(w, at)
    OBVIOUS
  <2>. HIDE DEF w, j
  <2>3. at[j] = WalkStep(at[j - 1], r[i])
    BY ONLY <2>1, <2>2 DEF Trail
  <2>. QED  BY <2>3 DEF j
<1>. HIDE DEF n, k, a
<1>5. ASSUME NEW j \in 0 .. n
      PROVE  a \o SubSeq(z, 1, j) \in Seq(D) /\ a \o SubSeq(z, 1, j) # Path!Nowhere
  <2>1. SubSeq(z, 1, j) \in Seq(D)
    BY <1>2, <1>3 DEF n
  <2>2. a \o SubSeq(z, 1, j) \in Seq(D)
    BY <1>2, <2>1, Concat
  <2>. QED  BY <2>2, SomewhereIsNot DEF D
<1>6. \A j \in 0 .. n : j \in T
  <2>1. 0 \in T
    <3>1. 0 \in 0 .. n /\ k + 0 = k /\ SubSeq(z, 1, 0) = <<>>
      BY <1>2, <1>3
    <3>2. a \o <<>> = a
      BY <1>2, ConcatEmptySeq
    <3>. QED  BY <3>1, <3>2 DEF a, k
  <2>2. ASSUME NEW j \in 0 .. n - 1, j \in T
        PROVE  j + 1 \in T
    <3>1. j + 1 \in 1 .. Len(r) /\ j + 1 \in 1 .. n /\ k + (j + 1) - 1 = k + j /\ j \in 0 .. n
      BY <1>3
    <3>2. at[k + (j + 1)] = WalkStep(at[k + j], z[j + 1])
      BY <1>3, <1>4, <3>1
    <3>3. at[k + j] = a \o SubSeq(z, 1, j)
      BY <2>2
    <3>4. z[j + 1] \notin {<<>>, <<".">>, <<".", ".">>}
      BY <3>1 DEF Plain, n
    <3>5. at[k + (j + 1)] = Append(a \o SubSeq(z, 1, j), z[j + 1])
      BY <1>5, <3>1, <3>2, <3>3, <3>4 DEF WalkStep
    <3>6. Append(a \o SubSeq(z, 1, j), z[j + 1]) = a \o SubSeq(z, 1, j + 1)
      <4>1. SubSeq(z, 1, j) \in Seq(D) /\ z[j + 1] \in D
        BY SMTT(40), <1>2, <3>1 DEF n
      <4>2. SubSeq(z, 1, j + 1) = SubSeq(z, 1, j) \o <<z[j + 1]>>
        BY <1>2, <3>1 DEF n
      <4>. DEFINE s == SubSeq(z, 1, j)  e == <<z[j + 1]>>
      <4>3. s \in Seq(D) /\ e \in Seq(D)
        BY <4>1
      <4>4. Append(a \o s, z[j + 1]) = (a \o s) \o e
        <5>1. a \o s \in Seq(D) /\ z[j + 1] \in D
          BY <1>2, <4>1, <4>3, Concat
        <5>. HIDE DEF s
        <5>. QED  BY <5>1, AppendIsConcat
      <4>. HIDE DEF s, e
      <4>5. (a \o s) \o e = a \o (s \o e)
        <5>1. a \in Seq(D) /\ s \in Seq(D) /\ e \in Seq(D)
          BY <1>2, <4>3
        <5>. QED  BY ONLY SMTT(40), <5>1, ConcatAssociative
      <4>. QED  BY <4>2, <4>4, <4>5 DEF s, e
    <3>7. j + 1 \in 0 .. n
      BY <3>1
    <3>8. at[k + (j + 1)] = a \o SubSeq(z, 1, j + 1)
      BY ONLY <3>5, <3>6
    <3>. QED  BY <3>7, <3>8
  <2>. HIDE DEF T
  <2>. QED  BY <1>3, <2>1, <2>2, Ascent
<1>7. at[k + n] = a \o z
  <2>1. n \in T
    <3>1. n \in 0 .. n
      BY <1>3
    <3>. HIDE DEF T
    <3>. QED  BY <1>6, <3>1
  <2>2. SubSeq(z, 1, n) = z
    BY <1>2 DEF n
  <2>. QED  BY <2>1, <2>2
<1>8. at[Len(q \o r)] = a \o z
  <2>1. CASE r = z
    BY <1>3, <1>7, <2>1 DEF n
  <2>2. CASE r # z
    <3>1. n + 1 \in 1 .. Len(r) /\ k + (n + 1) - 1 = k + n /\ Len(q \o r) = k + (n + 1)
      <4>1. Len(r) = n + 1 /\ n \in Nat /\ k \in Nat /\ Len(q \o r) = k + Len(r)
        BY <1>3, <2>2
      <4>2. n + 1 \in 1 .. n + 1 /\ k + (n + 1) - 1 = k + n
        BY ONLY <4>1
      <4>. QED  BY ONLY <4>1, <4>2
    <3>2. at[k + (n + 1)] = WalkStep(a \o z, <<>>)
      BY <1>3, <1>4, <1>7, <2>2, <3>1
    <3>. QED  BY <3>1, <3>2 DEF WalkStep
  <2>. QED  BY <2>1, <2>2
<1>. QED  BY <1>8 DEF a, k, Arrives

-----------------------------------------------------------------------------
(* PathNames: fs_validate_relative_path. *)

BadSegments == {<<>>, <<".">>, <<".", ".">>}

\* What its loop says of a suffix, if f is the function.
OkAt(p, f, n) ==
    LET rest == Suffix(p, n)
    IN \/ n = 0
       \/ /\ Path!Before("/", rest) \notin BadSegments
          /\ \/ ~Path!Has("/", rest)
             \/ f[n - Path!First("/", rest)]

OkFn(p) == CHOOSE f : f = [n \in 0 .. Len(p) |-> OkAt(p, f, n)]

Okay(p) == OkFn(p)[Len(p)]

\* fs_validate_relative_path is its tests of the whole text and the loop over
\* the segments.
LEMMA ValidateIs ==
    ASSUME NEW p
    PROVE  Path!ValidateRelativePath(p) <=>
               p # <<>> /\ p[1] # "/" /\ ~Path!Has("\\", p) /\ Okay(p)
BY DEF Path!ValidateRelativePath, Okay, OkFn, OkAt, Suffix, BadSegments

\* The recursive function of the loop exists.
LEMMA OkIs ==
    ASSUME NEW C, NEW p \in Seq(C)
    PROVE  \A n \in 0 .. Len(p) : OkFn(p)[n] = OkAt(p, OkFn(p), n)
<1>. DEFINE S == 0 .. Len(p)  A == BOOLEAN  M == Len(p)
            mu == [n \in S |-> n]
            G == [n \in S |-> [f \in [S -> A] |-> OkAt(p, f, n)]]
<1>2. ASSUME NEW n \in S, Path!Has("/", Suffix(p, n))
      PROVE  /\ n - Path!First("/", Suffix(p, n)) \in S
             /\ n - Path!First("/", Suffix(p, n)) < n
  <2>1. Suffix(p, n) \in Seq(C) /\ Len(Suffix(p, n)) = n
    BY SuffixFacts
  <2>2. Path!First("/", Suffix(p, n)) \in 1 .. n
    BY <1>2, <2>1, FirstOf
  <2>. QED  BY <2>2
<1>3. ASSUME NEW n \in S, NEW f \in [S -> A]
      PROVE  OkAt(p, f, n) \in A
  BY DEF OkAt
<1>4. G \in [S -> [[S -> A] -> A]]
  BY <1>3
<1>5. ASSUME NEW n \in S, NEW g \in [S -> A], NEW h \in [S -> A],
             \A y \in S : mu[y] < mu[n] => g[y] = h[y]
      PROVE  G[n][g] = G[n][h]
  <2>1. Path!Has("/", Suffix(p, n)) =>
           g[n - Path!First("/", Suffix(p, n))] = h[n - Path!First("/", Suffix(p, n))]
    BY <1>2, <1>5
  <2>2. OkAt(p, g, n) = OkAt(p, h, n)
    BY <2>1 DEF OkAt
  <2>. QED  BY <2>2
<1>6. A # {} /\ M \in Nat /\ mu \in [S -> 0 .. M]
  <2>1. A # {}
    OBVIOUS
  <2>2. M \in Nat /\ mu \in [S -> 0 .. M]
    OBVIOUS
  <2>. QED  BY <2>1, <2>2
<1>7. Recursive(S, A, M, mu, G)
  <2>. HIDE DEF S, A, M, mu, G
  <2>. QED  BY <1>4, <1>5, <1>6 DEF Recursive
<1>8. PICK g \in [S -> A] : \A n \in S : g[n] = G[n][g]
  <2>. HIDE DEF S, A, M, mu, G
  <2>. QED  BY <1>7, Recursion
<1>9. g = [n \in S |-> OkAt(p, g, n)]
  BY <1>8
<1>10. OkFn(p) = [n \in S |-> OkAt(p, OkFn(p), n)]
  <2>. DEFINE Eq(f) == f = [n \in S |-> OkAt(p, f, n)]
  <2>1. Eq(g) /\ OkFn(p) = CHOOSE f : Eq(f)
    BY <1>9 DEF OkFn
  <2>2. Eq(OkFn(p))
    <3>. HIDE DEF Eq
    <3>. QED  BY <2>1
  <2>. QED  BY <2>2
<1>. QED  BY <1>10

\* What the loop says of the rest of a text is what it says of that text.
LEMMA OkOfSuffix ==
    ASSUME NEW C, NEW p \in Seq(C), NEW k \in 0 .. Len(p)
    PROVE  OkFn(p)[k] = Okay(Suffix(p, k))
<1>. DEFINE v == Suffix(p, k)
            T == {m \in Nat : m \in 0 .. k => OkFn(p)[m] = OkFn(v)[m]}
<1>1. v \in Seq(C) /\ Len(v) = k
  BY SuffixFacts
<1>2. ASSUME NEW m \in Nat, \A i \in 0 .. m - 1 : i \in T
      PROVE  m \in T
  <2>. SUFFICES ASSUME m \in 0 .. k
                PROVE  OkFn(p)[m] = OkFn(v)[m]
    OBVIOUS
  <2>. DEFINE r == Suffix(p, m)
  <2>1. Suffix(v, m) = r
    BY SuffixOfSuffix
  <2>2. m \in 0 .. Len(p) /\ r \in Seq(C) /\ Len(r) = m
    BY SuffixFacts
  <2>. HIDE DEF v
  <2>3. OkFn(p)[m] = OkAt(p, OkFn(p), m) /\ OkFn(v)[m] = OkAt(v, OkFn(v), m)
    BY <1>1, <2>2, OkIs
  <2>4. CASE ~Path!Has("/", r)
    BY <2>1, <2>3, <2>4 DEF OkAt
  <2>5. CASE Path!Has("/", r)
    <3>. DEFINE f == Path!First("/", r)
    <3>1. f \in 1 .. m
      BY <2>2, <2>5, FirstOf
    <3>2. m - f \in 0 .. m - 1 /\ m - f \in 0 .. k
      BY <3>1
    <3>3. OkFn(p)[m - f] = OkFn(v)[m - f]
      BY <1>2, <3>2
    <3>. QED  BY <2>1, <2>3, <2>5, <3>3 DEF OkAt
  <2>. QED  BY <2>4, <2>5
<1>3. k \in T
  <2>1. \A m \in Nat : m \in T
    <3>. HIDE DEF T
    <3>. QED  BY <1>2, Induction
  <2>2. k \in Nat
    OBVIOUS
  <2>. HIDE DEF T
  <2>. QED  BY <2>1, <2>2
<1>4. OkFn(p)[k] = OkFn(v)[k]
  BY <1>3
<1>5. Okay(v) = OkFn(v)[k]
  BY <1>1 DEF Okay
<1>. QED  BY <1>4, <1>5

\* The loop looks at one segment after the other, and not at an empty rest.
LEMMA LastOkay ==
    ASSUME NEW C, NEW u \in Seq(C), Lacks("/", u)
    PROVE  Okay(u) <=> u = <<>> \/ u \notin BadSegments
<1>1. Okay(u) = OkAt(u, OkFn(u), Len(u))
  BY OkIs DEF Okay
<1>2. Suffix(u, Len(u)) = u
  BY WholeSuffix
<1>3. ~Path!Has("/", u) /\ Path!Before("/", u) = u
  BY HasOrLacks DEF Path!Before
<1>4. Len(u) = 0 <=> u = <<>>
  OBVIOUS
<1>. QED  BY <1>1, <1>2, <1>3, <1>4 DEF OkAt

\* The loop accepts u/v, if u has no slash, when it accepts u and v.
LEMMA FirstOkay ==
    ASSUME NEW C, "/" \in C, NEW u \in Seq(C), NEW v \in Seq(C), Lacks("/", u)
    PROVE  Okay(u \o <<"/">> \o v) <=> u \notin BadSegments /\ Okay(v)
<1>. DEFINE p == u \o <<"/">> \o v
<1>1. /\ p \in Seq(C) /\ Len(p) = Len(u) + 1 + Len(v)
      /\ Path!Has("/", p) /\ Path!First("/", p) = Len(u) + 1 /\ Path!Before("/", p) = u
  BY CutAt
<1>2. Suffix(p, Len(v)) = v
  BY SuffixBehind
<1>. HIDE DEF p
<1>3. Okay(p) = OkAt(p, OkFn(p), Len(p))
  <2>1. p \in Seq(C) /\ Len(p) \in 0 .. Len(p)
    BY <1>1
  <2>. QED  BY ONLY <2>1, OkIs DEF Okay
<1>4. Suffix(p, Len(p)) = p
  BY <1>1, WholeSuffix
<1>5. Okay(p) <=> u \notin BadSegments /\ OkFn(p)[Len(p) - (Len(u) + 1)]
  BY <1>1, <1>3, <1>4 DEF OkAt
<1>6. Len(p) - (Len(u) + 1) = Len(v) /\ Len(v) \in 0 .. Len(p)
  BY <1>1
<1>7. OkFn(p)[Len(v)] = Okay(v)
  BY <1>1, <1>2, <1>6, OkOfSuffix
<1>. QED  BY <1>5, <1>6, <1>7 DEF p

\* A path without the slash it may end with.
Stripped(t) == IF Path!Last(t) = "/" THEN Path!Front(t) ELSE t

\* What one more segment in front means.
LEMMA PlainFirst ==
    ASSUME NEW D, NEW u \in D, NEW q \in Seq(D)
    PROVE  Plain(<<u>> \o q) <=> u \notin BadSegments /\ Plain(q)
<1>. DEFINE w == <<u>> \o q
<1>1. <<u>> \in Seq(D) /\ Len(<<u>>) = 1 /\ <<u>>[1] = u
  OBVIOUS
<1>2. /\ Len(w) = 1 + Len(q) /\ w[1] = u /\ \A i \in 1 .. Len(q) : w[1 + i] = q[i]
  BY <1>1, Concat
<1>3. Len(q) \in Nat
  OBVIOUS
<1>. HIDE DEF w
<1>4. ASSUME u \notin BadSegments, Plain(q), NEW i \in 1 .. Len(w)
      PROVE  w[i] \notin BadSegments
  <2>1. CASE i = 1
    BY <1>2, <1>4, <2>1
  <2>2. CASE i # 1
    <3>1. i - 1 \in 1 .. Len(q) /\ 1 + (i - 1) = i
      BY <1>2, <1>3, <2>2
    <3>2. w[i] = q[i - 1]
      BY <1>2, <3>1
    <3>. QED  BY <1>4, <3>1, <3>2 DEF Plain, BadSegments
  <2>. QED  BY <2>1, <2>2
<1>5. ASSUME Plain(w)
      PROVE  u \notin BadSegments /\ Plain(q)
  <2>1. 1 \in 1 .. Len(w) /\ \A i \in 1 .. Len(q) : 1 + i \in 1 .. Len(w)
    BY <1>2, <1>3
  <2>. QED  BY <1>2, <1>5, <2>1 DEF Plain, BadSegments
<1>6. Plain(w) <=> u \notin BadSegments /\ Plain(q)
  BY <1>4, <1>5 DEF Plain, BadSegments
<1>. QED  BY <1>6 DEF w

\* One segment is plain if it is none of those the loop refuses.
LEMMA PlainOne ==
    ASSUME NEW u
    PROVE  Plain(<<u>>) <=> u \notin BadSegments
BY DEF Plain, BadSegments

\* What the validator lets through are plain segments, up to a slash at the end.
LEMMA OkayIsPlain ==
    ASSUME NEW C, "/" \in C, NEW t \in Seq(C), t # <<>>, Okay(t)
    PROVE  /\ Stripped(t) \in Seq(C) /\ Plain(Path!Segments(Stripped(t)))
           /\ Path!Segments(t) \in {Path!Segments(Stripped(t)),
                                    Path!Segments(Stripped(t)) \o <<<<>>>>}
<1>. DEFINE Good(s) ==
              /\ Stripped(s) \in Seq(C) /\ Plain(Path!Segments(Stripped(s)))
              /\ Path!Segments(s) \in {Path!Segments(Stripped(s)),
                                       Path!Segments(Stripped(s)) \o <<<<>>>>}
            T == {n \in Nat : \A s \in Seq(C) : Len(s) = n /\ s # <<>> /\ Okay(s) => Good(s)}
<1>1. ASSUME NEW n \in Nat, \A m \in 0 .. n - 1 : m \in T
      PROVE  n \in T
  <2>. SUFFICES ASSUME NEW s \in Seq(C), Len(s) = n, s # <<>>, Okay(s)
                PROVE  Good(s)
    OBVIOUS
  <2>0. Len(s) \in Nat \ {0}
    BY EmptySeq
  <2>1. CASE Lacks("/", s)
    <3>1. Path!Segments(s) = <<s>> /\ s \notin BadSegments
      BY <2>1, OneSegment, LastOkay
    <3>2. Stripped(s) = s
      BY <2>0, <2>1 DEF Stripped, Path!Last, Lacks
    <3>. QED  BY <3>1, <3>2, PlainOne
  <2>2. CASE ~Lacks("/", s)
    <3>1. Path!Has("/", s)
      BY <2>2, HasOrLacks
    <3>. DEFINE u == Path!Before("/", s)  v == Path!After("/", s)
    <3>2. /\ u \in Seq(C) /\ v \in Seq(C) /\ Lacks("/", u)
          /\ s = u \o <<"/">> \o v
      BY <3>1, Split
    <3>. HIDE DEF u, v
    <3>3. /\ Len(s) = Len(u) + 1 + Len(v) /\ s[Len(u) + 1] = "/"
          /\ \A i \in 1 .. Len(u) : s[i] = u[i]
          /\ \A i \in 1 .. Len(v) : s[Len(u) + 1 + i] = v[i]
      BY SMTT(40), <3>2, Between
    <3>4. u \notin BadSegments /\ Okay(v)
      BY <3>2, FirstOkay
    <3>5. Path!Segments(s) = <<u>> \o Path!Segments(v)
      BY <3>2, FirstSegment
    <3>6. CASE v = <<>>
      <4>1. Len(v) = 0 /\ Lacks("/", v)
        BY <3>6 DEF Lacks
      <4>2. Path!Last(s) = "/"
        BY <3>2, <3>3, <4>1 DEF Path!Last
      <4>3. Path!Front(s) = u
        BY <3>2, <3>3, <4>1 DEF Path!Front
      <4>4. Stripped(s) = u
        BY <4>2, <4>3 DEF Stripped
      <4>5. Path!Segments(u) = <<u>> /\ Path!Segments(v) = <<v>>
        BY <3>2, <4>1, OneSegment
      <4>. QED  BY <3>2, <3>4, <3>5, <3>6, <4>4, <4>5, PlainOne
    <3>7. CASE v # <<>>
      <4>1. Len(v) \in 0 .. n - 1 /\ Len(v) \in Nat \ {0}
        BY <3>2, <3>3, <3>7, EmptySeq
      <4>2. Good(v)
        BY <1>1, <3>2, <3>4, <3>7, <4>1
      <4>. DEFINE w == Stripped(v)
      <4>3. w \in Seq(C)
        BY <4>2
      <4>4. Path!Last(s) = Path!Last(v)
        BY <3>2, <3>3, <4>1 DEF Path!Last
      <4>5. Stripped(s) = u \o <<"/">> \o w
        <5>1. CASE Path!Last(v) = "/"
          <6>. DEFINE x == u \o <<"/">> \o w
          <6>1. Stripped(s) = Path!Front(s) /\ w = Path!Front(v)
            BY <4>4, <5>1 DEF Stripped
          <6>2. Len(w) = Len(v) - 1 /\ \A i \in 1 .. Len(w) : w[i] = v[i]
            <7>1. /\ Len(Path!Front(v)) = Len(v) - 1
                  /\ \A i \in 1 .. Len(v) - 1 : Path!Front(v)[i] = v[i]
              BY <3>2, <4>1 DEF Path!Front
            <7>. HIDE DEF w
            <7>. QED  BY <6>1, <7>1
          <6>3. /\ Path!Front(s) \in Seq(C) /\ Len(Path!Front(s)) = Len(s) - 1
                /\ \A i \in 1 .. Len(s) - 1 : Path!Front(s)[i] = s[i]
            BY <2>0 DEF Path!Front
          <6>. HIDE DEF w
          <6>4. /\ x \in Seq(C) /\ Len(x) = Len(u) + 1 + Len(w) /\ x[Len(u) + 1] = "/"
                /\ \A i \in 1 .. Len(u) : x[i] = u[i]
                /\ \A i \in 1 .. Len(w) : x[Len(u) + 1 + i] = w[i]
            BY <3>2, <4>3, Between
          <6>. HIDE DEF x
          <6>5. Len(x) = Len(s) - 1 /\ Len(u) \in Nat
            BY <3>2, <3>3, <4>1, <6>2, <6>4
          <6>6. ASSUME NEW i \in 1 .. Len(s) - 1
                PROVE  x[i] = s[i]
            <7>1. CASE i <= Len(u)
              BY <3>3, <6>4, <6>5, <7>1
            <7>2. CASE i = Len(u) + 1
              BY <3>3, <6>4, <7>2
            <7>3. CASE i > Len(u) + 1
              <8>1. /\ i - Len(u) - 1 \in 1 .. Len(w) /\ i - Len(u) - 1 \in 1 .. Len(v)
                    /\ Len(u) + 1 + (i - Len(u) - 1) = i
                BY <2>0, <4>1, <6>2, <6>4, <6>5, <7>3
              <8>. QED  BY ZenonT(60), <3>3, <6>2, <6>4, <8>1
            <7>. QED  BY <2>0, <6>5, <7>1, <7>2, <7>3
          <6>7. x = Path!Front(s)
            BY <6>3, <6>4, <6>5, <6>6, SeqEqual
          <6>. QED  BY <6>1, <6>7 DEF x
        <5>2. CASE Path!Last(v) # "/"
          BY <3>2, <4>4, <5>2 DEF Stripped
        <5>. QED  BY <5>1, <5>2
      <4>. HIDE DEF w
      <4>6. Path!Segments(Stripped(s)) = <<u>> \o Path!Segments(w)
        BY <3>2, <4>3, <4>5, FirstSegment
      <4>7. Stripped(s) \in Seq(C)
        <5>1. u \in Seq(C) /\ w \in Seq(C) /\ "/" \in C
          BY <3>2, <4>3
        <5>2. u \o <<"/">> \o w \in Seq(C)
          BY ONLY <5>1, Between
        <5>. QED  BY <4>5, <5>2
      <4>. DEFINE D == Seq(C)
      <4>8. Path!Segments(w) \in Seq(D) /\ u \in D /\ <<u>> \in Seq(D) /\ <<<<>>>> \in Seq(D)
        BY <3>2, <4>3, SegmentsType
      <4>9. Plain(Path!Segments(w)) /\ Path!Segments(v) \in
              {Path!Segments(w), Path!Segments(w) \o <<<<>>>>}
        BY <4>2 DEF w
      <4>. HIDE DEF D
      <4>10. Plain(Path!Segments(Stripped(s)))
        BY <3>4, <4>6, <4>8, <4>9, PlainFirst
      <4>11. <<u>> \o (Path!Segments(w) \o <<<<>>>>) = (<<u>> \o Path!Segments(w)) \o <<<<>>>>
        <5>. DEFINE x == Path!Segments(w)  y == <<u>>  z == <<<<>>>>
        <5>1. x \in Seq(D) /\ y \in Seq(D) /\ z \in Seq(D)
          BY <4>8
        <5>. HIDE DEF x, y, z
        <5>2. y \o (x \o z) = (y \o x) \o z
          BY ONLY SMTT(40), <5>1, ConcatAssociative
        <5>. QED  BY <5>2 DEF x, y, z
      <4>. QED  BY <3>5, <4>6, <4>7, <4>9, <4>10, <4>11
    <3>. QED  BY <3>6, <3>7
  <2>. QED  BY <2>1, <2>2
<1>2. \A n \in Nat : n \in T
  <2>. HIDE DEF T
  <2>. QED  BY <1>1, Induction
<1>. QED  BY <1>2

\* Plain segments pass the validator.
LEMMA PlainIsOkay ==
    ASSUME NEW C, "/" \in C, NEW t \in Seq(C), Plain(Path!Segments(t))
    PROVE  Okay(t) /\ t # <<>> /\ t[1] # "/"
<1>. DEFINE Good(s) == Okay(s) /\ s # <<>> /\ s[1] # "/"
            T == {n \in Nat : \A s \in Seq(C) : Len(s) = n /\ Plain(Path!Segments(s)) => Good(s)}
<1>1. ASSUME NEW n \in Nat, \A m \in 0 .. n - 1 : m \in T
      PROVE  n \in T
  <2>. SUFFICES ASSUME NEW s \in Seq(C), Len(s) = n, Plain(Path!Segments(s))
                PROVE  Good(s)
    OBVIOUS
  <2>1. CASE Lacks("/", s)
    <3>1. Path!Segments(s) = <<s>>
      BY <2>1, OneSegment
    <3>2. s \notin BadSegments
      BY <3>1, PlainOne
    <3>3. Okay(s) /\ s # <<>>
      BY <2>1, <3>2, LastOkay DEF BadSegments
    <3>4. 1 \in 1 .. Len(s)
      BY <3>3, EmptySeq
    <3>. QED  BY <2>1, <3>3, <3>4 DEF Lacks
  <2>2. CASE ~Lacks("/", s)
    <3>1. Path!Has("/", s)
      BY <2>2, HasOrLacks
    <3>. DEFINE u == Path!Before("/", s)  v == Path!After("/", s)  D == Seq(C)
    <3>2. /\ u \in Seq(C) /\ v \in Seq(C) /\ Lacks("/", u)
          /\ s = u \o <<"/">> \o v
      BY <3>1, Split
    <3>. HIDE DEF u, v
    <3>3. /\ Len(s) = Len(u) + 1 + Len(v)
          /\ \A i \in 1 .. Len(u) : s[i] = u[i]
      BY <3>2, Between
    <3>4. Path!Segments(s) = <<u>> \o Path!Segments(v)
      BY <3>2, FirstSegment
    <3>5. u \in D /\ Path!Segments(v) \in Seq(D)
      BY <3>2, SegmentsType
    <3>6. u \notin BadSegments /\ Plain(Path!Segments(v))
      <4>. HIDE DEF D
      <4>. QED  BY <3>4, <3>5, PlainFirst
    <3>7. Len(v) \in 0 .. n - 1
      BY <3>2, <3>3
    <3>8. Okay(v)
      BY <1>1, <3>2, <3>6, <3>7
    <3>9. Okay(s)
      BY <3>2, <3>6, <3>8, FirstOkay
    <3>10. u # <<>>
      BY <3>6 DEF BadSegments
    <3>11. 1 \in 1 .. Len(u) /\ s # <<>>
      BY <3>2, <3>3, <3>10, EmptySeq
    <3>12. s[1] = u[1] /\ u[1] # "/"
      BY <3>2, <3>3, <3>11 DEF Lacks
    <3>. QED  BY <3>9, <3>11, <3>12
  <2>. QED  BY <2>1, <2>2
<1>2. \A n \in Nat : n \in T
  <2>. HIDE DEF T
  <2>. QED  BY SMTT(40), <1>1, Induction
<1>. QED  BY <1>2

\* A path of plain segments leads to them.
LEMMA PlainPath ==
    ASSUME NEW C, "error" \notin C, "/" \in C, NEW t \in Seq(C),
           NEW z \in Seq(Seq(C)), Plain(z), Path!Segments(t) \in {z, z \o <<<<>>>>}
    PROVE  Path!Walk(t) = z
<1>. DEFINE r == Path!Segments(t)  e == <<>>  D == Seq(C)
<1>1. PICK at : Trail(r, at) /\ Path!Walk(t) = at[Len(r)]
  BY WalkIs
<1>2. r \in Seq(D) /\ e \in Seq(D) /\ z \in Seq(D) /\ r \in {z, z \o <<<<>>>>}
  BY SegmentsType, EmptySeq
<1>. HIDE DEF r, D
<1>3. e \o r = r /\ Len(e) = 0 /\ e \o z = z
  BY <1>2, ConcatEmptySeq
<1>4. at[0] = e
  BY <1>1 DEF Trail
<1>5. at[Len(e)] \in Seq(D)
  BY <1>2, <1>3, <1>4
<1>6. Trail(e \o r, at)
  BY <1>1, <1>3
<1>. HIDE DEF e
<1>7. at[Len(e \o r)] = at[Len(e)] \o z
  <2>1. /\ e \in Seq(Seq(C)) /\ r \in Seq(Seq(C)) /\ z \in Seq(Seq(C)) /\ Plain(z)
        /\ r \in {z, z \o <<<<>>>>} /\ "error" \notin C
        /\ at[Len(e)] \in Seq(Seq(C)) /\ Trail(e \o r, at)
    BY <1>2, <1>5, <1>6 DEF D
  <2>2. GoesOn(C, e, r, z, at)
    BY ONLY <2>1 DEF GoesOn
  <2>3. Arrives(e, r, z, at)
    BY ONLY <2>2, PlainWalk
  <2>. QED  BY <2>3 DEF Arrives
<1>. QED  BY Zenon, <1>1, <1>3, <1>4, <1>7

\* Plain segments behind plain segments are plain.
LEMMA PlainConcat ==
    ASSUME NEW D, NEW x \in Seq(D), NEW y \in Seq(D), Plain(x), Plain(y)
    PROVE  Plain(x \o y)
<1>. DEFINE w == x \o y
<1>1. /\ Len(w) = Len(x) + Len(y) /\ Len(x) \in Nat /\ Len(y) \in Nat
      /\ \A i \in 1 .. Len(x) : w[i] = x[i]
      /\ \A i \in 1 .. Len(y) : w[Len(x) + i] = y[i]
  BY Concat
<1>. HIDE DEF w
<1>2. ASSUME NEW i \in 1 .. Len(w)
      PROVE  w[i] \notin BadSegments
  <2>1. CASE i <= Len(x)
    <3>1. i \in 1 .. Len(x)
      BY <1>1, <2>1
    <3>. QED  BY <1>1, <3>1 DEF Plain, BadSegments
  <2>2. CASE i > Len(x)
    <3>1. i - Len(x) \in 1 .. Len(y) /\ Len(x) + (i - Len(x)) = i
      BY <1>1, <2>2
    <3>2. w[i] = y[i - Len(x)]
      BY <1>1, <3>1
    <3>. QED  BY <3>1, <3>2 DEF Plain, BadSegments
  <2>. QED  BY <1>1, <2>1, <2>2
<1>3. Plain(w)
  BY <1>2 DEF Plain, BadSegments
<1>. QED  BY <1>3 DEF w

\* What the validator lets through leads below the directory it starts in.
LEMMA OkayWalk ==
    ASSUME NEW C, "error" \notin C, "/" \in C, NEW t \in Seq(C), t # <<>>, Okay(t)
    PROVE  Path!Walk(t) = Path!Segments(Stripped(t)) /\ Path!Walk(t) # <<>>
<1>1. /\ Stripped(t) \in Seq(C) /\ Plain(Path!Segments(Stripped(t)))
      /\ Path!Segments(t) \in {Path!Segments(Stripped(t)),
                               Path!Segments(Stripped(t)) \o <<<<>>>>}
  BY OkayIsPlain
<1>2. Path!Segments(Stripped(t)) \in Seq(Seq(C)) /\ Len(Path!Segments(Stripped(t))) > 0
  BY <1>1, SegmentsType
<1>3. Path!Walk(t) = Path!Segments(Stripped(t))
  <2>. DEFINE z == Path!Segments(Stripped(t))
  <2>1. z \in Seq(Seq(C)) /\ Plain(z) /\ Path!Segments(t) \in {z, z \o <<<<>>>>}
    BY <1>1, <1>2
  <2>. HIDE DEF z
  <2>2. Path!Walk(t) = z
    BY <2>1, PlainPath
  <2>. QED  BY <2>2 DEF z
<1>4. Len(<<>>) = 0
  OBVIOUS
<1>. QED  BY <1>2, <1>3, <1>4

\* A text that the validator accepts leads, behind a base, as far down from the
\* base as it leads from the root.
LEMMA WalkBelow ==
    ASSUME NEW C, "error" \notin C, "/" \in C, NEW b \in Seq(C), Plain(Path!Segments(b)),
           NEW t \in Seq(C), t # <<>>, Okay(t)
    PROVE  Path!Walk(b \o <<"/">> \o t) = Path!Segments(b) \o Path!Walk(t)
<1>. DEFINE D == Seq(C)  y == Path!Segments(Stripped(t))  x == Path!Segments(b)
            r == Path!Segments(t)  e == <<<<>>>>  p == b \o <<"/">> \o t
<1>1. Stripped(t) \in Seq(C) /\ Plain(y) /\ r \in {y, y \o e}
  BY OkayIsPlain
<1>2. x \in Seq(D) /\ y \in Seq(D) /\ e \in Seq(D) /\ Plain(x)
  BY <1>1, SegmentsType, EmptySeq
<1>3. p \in Seq(C)
  BY Between
<1>4. Path!Segments(p) = x \o r
  BY SegmentsOfJoin
<1>5. Path!Walk(t) = y
  BY OkayWalk
<1>. HIDE DEF x, y, r, e, p, D
<1>6. x \o (y \o e) = (x \o y) \o e
  BY SMTT(40), <1>2, ConcatAssociative
<1>7. Plain(x \o y) /\ x \o y \in Seq(D)
  <2>1. x \in Seq(D) /\ y \in Seq(D) /\ Plain(x) /\ Plain(y)
    BY <1>1, <1>2
  <2>2. Plain(x \o y)
    BY ONLY <2>1, PlainConcat
  <2>3. x \o y \in Seq(D)
    BY ONLY <2>1, Concat
  <2>. QED  BY <2>2, <2>3
<1>. DEFINE z == x \o y
<1>8. z \in Seq(Seq(C)) /\ Plain(z) /\ Path!Segments(p) \in {z, z \o <<<<>>>>}
  BY <1>1, <1>4, <1>6, <1>7 DEF D, e
<1>. HIDE DEF z
<1>9. Path!Walk(p) = z
  BY <1>3, <1>8, PlainPath
<1>. QED  BY <1>5, <1>9 DEF p, x, z

-----------------------------------------------------------------------------
(* PathNames: what a request target is decoded to. *)

\* What strchr cuts off are texts.
LEMMA CutType ==
    ASSUME NEW C, NEW s \in Seq(C), NEW c
    PROVE  Path!Before(c, s) \in Seq(C) /\ Path!After(c, s) \in Seq(C)
<1>1. CASE Path!Has(c, s)
  BY <1>1, Split
<1>2. CASE ~Path!Has(c, s)
  BY <1>2, EmptySeq DEF Path!Before, Path!After
<1>. QED  BY <1>1, <1>2

\* What http_decode_name says of the text from i on, if f is the function.
BytesAt(s, f, i) ==
    IF i > Len(s) THEN <<>>
    ELSE IF s[i] # "%"
         THEN IF f[i + 1] = Path!Error THEN Path!Error ELSE <<s[i]>> \o f[i + 1]
    ELSE IF i + 2 <= Len(s) /\ s[i + 1] \in Path!HexDigits /\ s[i + 2] \in Path!HexDigits
         THEN IF f[i + 3] = Path!Error THEN Path!Error
              ELSE <<Path!Byte(s[i + 1], s[i + 2])>> \o f[i + 3]
         ELSE Path!Error

BytesFn(s) == CHOOSE f : f = [i \in 1 .. Len(s) + 1 |-> BytesAt(s, f, i)]

EscapedBytes == {".", "/", "%", "&", "?", "=", "\\", "0x00", "x"}

\* http_decode_name is its loop from the first character, and the C string of
\* the result.
LEMMA DecodeIs ==
    ASSUME NEW s
    PROVE  Path!DecodeName(s) = IF BytesFn(s)[1] = Path!Error THEN Path!Error
                                ELSE Path!CString(BytesFn(s)[1])
BY DEF Path!DecodeName, BytesFn, BytesAt

\* An escape stands for one of these bytes.
LEMMA ByteType ==
    ASSUME NEW hi, NEW lo
    PROVE  Path!Byte(hi, lo) \in EscapedBytes
BY DEF Path!Byte, EscapedBytes, Path!NUL

\* The loop of http_decode_name gives a text or fails, if it does so further
\* on.
LEMMA BytesStep ==
    ASSUME NEW C, EscapedBytes \subseteq C, NEW s \in Seq(C), NEW i \in 1 .. Len(s) + 1, NEW f,
           \A j \in i + 1 .. Len(s) + 1 : f[j] \in Seq(C) \cup {Path!Error}
    PROVE  BytesAt(s, f, i) \in Seq(C) \cup {Path!Error}
<1>0. Len(s) \in Nat
  OBVIOUS
<1>1. CASE i > Len(s)
  BY <1>1, EmptySeq DEF BytesAt
<1>2. CASE i <= Len(s) /\ s[i] # "%"
  <2>1. i + 1 \in i + 1 .. Len(s) + 1 /\ s[i] \in C
    BY <1>0, <1>2
  <2>2. f[i + 1] \in Seq(C) \cup {Path!Error}
    BY <2>1
  <2>3. BytesAt(s, f, i) = IF f[i + 1] = Path!Error THEN Path!Error ELSE <<s[i]>> \o f[i + 1]
    BY <1>0, <1>2 DEF BytesAt
  <2>4. f[i + 1] # Path!Error => <<s[i]>> \o f[i + 1] \in Seq(C)
    BY <2>1, <2>2
  <2>. QED  BY <2>3, <2>4
<1>3. CASE i <= Len(s) /\ s[i] = "%"
  <2>. DEFINE b == Path!Byte(s[i + 1], s[i + 2])
              hex == i + 2 <= Len(s) /\ s[i + 1] \in Path!HexDigits /\ s[i + 2] \in Path!HexDigits
  <2>0. b \in C
    BY ByteType
  <2>3. BytesAt(s, f, i) =
           IF hex THEN IF f[i + 3] = Path!Error THEN Path!Error ELSE <<b>> \o f[i + 3]
           ELSE Path!Error
    BY <1>0, <1>3 DEF BytesAt
  <2>1. hex => i + 3 \in i + 1 .. Len(s) + 1
    BY <1>0
  <2>2. hex => f[i + 3] \in Seq(C) \cup {Path!Error}
    BY <2>1
  <2>. HIDE DEF b, hex
  <2>4. hex /\ f[i + 3] # Path!Error => <<b>> \o f[i + 3] \in Seq(C)
    BY <2>0, <2>2
  <2>. QED  BY <2>3, <2>4
<1>. QED  BY <1>0, <1>1, <1>2, <1>3

\* The recursive function of the loop exists and gives texts or errors.
LEMMA BytesIs ==
    ASSUME NEW C, EscapedBytes \subseteq C, NEW s \in Seq(C)
    PROVE  \A i \in 1 .. Len(s) + 1 :
              /\ BytesFn(s)[i] = BytesAt(s, BytesFn(s), i)
              /\ BytesFn(s)[i] \in Seq(C) \cup {Path!Error}
<1>. DEFINE M == Len(s) + 1  S == 1 .. M  A == Seq(C) \cup {Path!Error}
            mu == [i \in S |-> M - i]
            G == [i \in S |-> [f \in [S -> A] |-> BytesAt(s, f, i)]]
<1>1. A # {} /\ M \in Nat /\ mu \in [S -> 0 .. M]
  <2>1. <<>> \in A
    BY EmptySeq
  <2>2. M \in Nat /\ mu \in [S -> 0 .. M]
    OBVIOUS
  <2>. HIDE DEF A
  <2>. QED  BY <2>1, <2>2
<1>2. ASSUME NEW i \in S, NEW f, \A j \in i + 1 .. Len(s) + 1 : f[j] \in A
      PROVE  BytesAt(s, f, i) \in A
  BY <1>2, BytesStep
<1>3. G \in [S -> [[S -> A] -> A]]
  <2>1. ASSUME NEW i \in S, NEW f \in [S -> A]
        PROVE  BytesAt(s, f, i) \in A
    <3>1. \A j \in i + 1 .. Len(s) + 1 : j \in S
      OBVIOUS
    <3>2. \A j \in i + 1 .. Len(s) + 1 : f[j] \in A
      <4>. HIDE DEF A, S
      <4>. QED  BY <3>1
    <3>. HIDE DEF A, S
    <3>. QED  BY <1>2, <3>2
  <2>. HIDE DEF A, S
  <2>. QED  BY <2>1
<1>4. ASSUME NEW i \in S, NEW g, NEW h, \A j \in S : j > i => g[j] = h[j]
      PROVE  BytesAt(s, g, i) = BytesAt(s, h, i)
  <2>1. i <= Len(s) => g[i + 1] = h[i + 1]
    BY <1>4
  <2>2. i + 2 <= Len(s) => g[i + 3] = h[i + 3]
    BY <1>4
  <2>. QED  BY <2>1, <2>2 DEF BytesAt
<1>5. ASSUME NEW i \in S, NEW g \in [S -> A], NEW h \in [S -> A],
             \A y \in S : mu[y] < mu[i] => g[y] = h[y]
      PROVE  G[i][g] = G[i][h]
  <2>1. \A j \in S : j > i => mu[j] < mu[i]
    BY <1>1
  <2>2. BytesAt(s, g, i) = BytesAt(s, h, i)
    <3>. HIDE DEF A, S, mu
    <3>. QED  BY <1>4, <1>5, <2>1
  <2>. QED  BY <2>2
<1>6. Recursive(S, A, M, mu, G)
  <2>. HIDE DEF S, A, M, mu, G
  <2>. QED  BY <1>1, <1>3, <1>5 DEF Recursive
<1>7. PICK g \in [S -> A] : \A i \in S : g[i] = G[i][g]
  <2>. HIDE DEF S, A, M, mu, G
  <2>. QED  BY <1>6, Recursion
<1>8. g = [i \in S |-> BytesAt(s, g, i)]
  BY <1>7
<1>9. BytesFn(s) = [i \in S |-> BytesAt(s, BytesFn(s), i)]
  <2>. DEFINE Eq(f) == f = [i \in S |-> BytesAt(s, f, i)]
  <2>1. Eq(g) /\ BytesFn(s) = CHOOSE f : Eq(f)
    BY <1>8 DEF BytesFn
  <2>2. Eq(BytesFn(s))
    <3>. HIDE DEF Eq
    <3>. QED  BY <2>1
  <2>. QED  BY <2>2
<1>. DEFINE f == BytesFn(s)  T == {k \in Nat : k < M => f[M - k] \in A}
<1>10. ASSUME NEW k \in Nat, \A m \in 0 .. k - 1 : m \in T
       PROVE  k \in T
  <2>. SUFFICES ASSUME k < M PROVE f[M - k] \in A
    OBVIOUS
  <2>1. M - k \in S
    BY <1>1
  <2>2. ASSUME NEW j \in (M - k) + 1 .. Len(s) + 1
        PROVE  f[j] \in A
    <3>1. M - j \in 0 .. k - 1 /\ M - j < M /\ M - (M - j) = j
      BY <1>1
    <3>2. M - j \in T
      <4>. HIDE DEF T
      <4>. QED  BY <1>10, <3>1
    <3>. QED  BY <3>1, <3>2
  <2>. HIDE DEF f, A, S, M, T
  <2>3. BytesAt(s, f, M - k) \in A
    BY <1>2, <2>1, <2>2
  <2>4. f[M - k] = BytesAt(s, f, M - k)
    BY <1>9, <2>1 DEF f
  <2>. QED  BY <2>3, <2>4
<1>11. \A k \in Nat : k \in T
  <2>. HIDE DEF T
  <2>. QED  BY <1>10, Induction
<1>12. ASSUME NEW i \in S
       PROVE  f[i] \in A
  <2>1. M - i \in Nat /\ M - i < M /\ M - (M - i) = i
    BY <1>1
  <2>2. M - i \in T
    <3>. HIDE DEF T
    <3>. QED  BY <1>11, <2>1
  <2>. QED  BY <2>1, <2>2
<1>. QED  BY <1>9, <1>12

\* http_decode_name gives a text or fails.
LEMMA DecodeType ==
    ASSUME NEW C, EscapedBytes \subseteq C, NEW s \in Seq(C)
    PROVE  Path!DecodeName(s) \in Seq(C) \cup {Path!Error}
<1>1. 1 \in 1 .. Len(s) + 1
  OBVIOUS
<1>2. BytesFn(s)[1] \in Seq(C) \cup {Path!Error}
  BY <1>1, BytesIs
<1>3. BytesFn(s)[1] # Path!Error => Path!CString(BytesFn(s)[1]) \in Seq(C)
  BY <1>2, CutType DEF Path!CString
<1>. QED  BY <1>2, <1>3, DecodeIs

\* What http_query_get_value says of the last n characters, if f is the function.
ValueAt(query, f, n) ==
    LET rest == Suffix(query, n)
        entry == Path!Before("&", rest)
    IN IF n = 0 THEN Path!Error
       ELSE IF Path!Before("=", entry) = <<"path">> THEN Path!After("=", entry)
       ELSE IF ~Path!Has("&", rest) THEN Path!Error
       ELSE f[n - Path!First("&", rest)]

ValueFn(query) == CHOOSE f : f = [n \in 0 .. Len(query) |-> ValueAt(query, f, n)]

\* The recursive function of http_query_get_value exists, and gives a text or
\* fails.
LEMMA ValueIs ==
    ASSUME NEW C, NEW q \in Seq(C)
    PROVE  /\ Path!QueryValue(q) = ValueAt(q, ValueFn(q), Len(q))
           /\ Path!QueryValue(q) \in Seq(C) \cup {Path!Error}
<1>1. Path!QueryValue(q) = ValueFn(q)[Len(q)]
  BY DEF Path!QueryValue, ValueFn, ValueAt, Suffix
<1>. DEFINE M == Len(q)  S == 0 .. M  A == Seq(C) \cup {Path!Error}
            mu == [n \in S |-> n]
            G == [n \in S |-> [f \in [S -> A] |-> ValueAt(q, f, n)]]
<1>2. ASSUME NEW n \in S
      PROVE  /\ Path!After("=", Path!Before("&", Suffix(q, n))) \in Seq(C)
             /\ Path!Has("&", Suffix(q, n)) =>
                   n - Path!First("&", Suffix(q, n)) \in 0 .. n - 1
  <2>1. Suffix(q, n) \in Seq(C) /\ Len(Suffix(q, n)) = n
    BY SuffixFacts
  <2>2. Path!Has("&", Suffix(q, n)) => Path!First("&", Suffix(q, n)) \in 1 .. n
    BY <2>1, FirstOf
  <2>3. Path!Before("&", Suffix(q, n)) \in Seq(C)
    BY <2>1, CutType
  <2>4. Path!After("=", Path!Before("&", Suffix(q, n))) \in Seq(C)
    BY <2>3, CutType
  <2>. QED  BY <2>2, <2>4
<1>3. ASSUME NEW n \in S, NEW f, \A m \in 0 .. n - 1 : f[m] \in A
      PROVE  ValueAt(q, f, n) \in A
  <2>1. Path!Has("&", Suffix(q, n)) => f[n - Path!First("&", Suffix(q, n))] \in A
    BY <1>2, <1>3
  <2>2. Path!Error \in A /\ Path!After("=", Path!Before("&", Suffix(q, n))) \in A
    BY <1>2
  <2>. HIDE DEF A
  <2>. QED  BY <2>1, <2>2 DEF ValueAt
<1>4. G \in [S -> [[S -> A] -> A]]
  <2>1. ASSUME NEW n \in S, NEW f \in [S -> A]
        PROVE  ValueAt(q, f, n) \in A
    <3>1. \A m \in 0 .. n - 1 : f[m] \in A
      <4>1. \A m \in 0 .. n - 1 : m \in S
        OBVIOUS
      <4>. HIDE DEF A, S
      <4>. QED  BY <4>1
    <3>. HIDE DEF A, S
    <3>. QED  BY <1>3, <3>1
  <2>. HIDE DEF A, S
  <2>. QED  BY <2>1
<1>5. ASSUME NEW n \in S, NEW g \in [S -> A], NEW h \in [S -> A],
             \A y \in S : mu[y] < mu[n] => g[y] = h[y]
      PROVE  G[n][g] = G[n][h]
  <2>1. \A m \in 0 .. n - 1 : m \in S /\ mu[m] < mu[n]
    OBVIOUS
  <2>2. \A m \in 0 .. n - 1 : g[m] = h[m]
    BY <1>5, <2>1
  <2>3. Path!Has("&", Suffix(q, n)) =>
           g[n - Path!First("&", Suffix(q, n))] = h[n - Path!First("&", Suffix(q, n))]
    BY <1>2, <2>2
  <2>4. ValueAt(q, g, n) = ValueAt(q, h, n)
    BY <2>3 DEF ValueAt
  <2>. QED  BY <2>4
<1>6. A # {} /\ M \in Nat /\ mu \in [S -> 0 .. M]
  <2>1. Path!Error \in A
    OBVIOUS
  <2>2. M \in Nat /\ mu \in [S -> 0 .. M]
    OBVIOUS
  <2>. HIDE DEF A
  <2>. QED  BY <2>1, <2>2
<1>7. Recursive(S, A, M, mu, G)
  <2>. HIDE DEF S, A, M, mu, G
  <2>. QED  BY <1>4, <1>5, <1>6 DEF Recursive
<1>8. PICK g \in [S -> A] : \A n \in S : g[n] = G[n][g]
  <2>. HIDE DEF S, A, M, mu, G
  <2>. QED  BY <1>7, Recursion
<1>9. g = [n \in S |-> ValueAt(q, g, n)]
  BY <1>8
<1>10. ValueFn(q) = [n \in S |-> ValueAt(q, ValueFn(q), n)]
  <2>. DEFINE Eq(f) == f = [n \in S |-> ValueAt(q, f, n)]
  <2>1. Eq(g) /\ ValueFn(q) = CHOOSE f : Eq(f)
    BY <1>9 DEF ValueFn
  <2>2. Eq(ValueFn(q))
    <3>. HIDE DEF Eq
    <3>. QED  BY <2>1
  <2>. QED  BY <2>2
<1>. DEFINE f == ValueFn(q)  T == {n \in Nat : n \in S => f[n] \in A}
<1>11. ASSUME NEW n \in Nat, \A m \in 0 .. n - 1 : m \in T
       PROVE  n \in T
  <2>. SUFFICES ASSUME n \in S PROVE f[n] \in A
    OBVIOUS
  <2>1. \A m \in 0 .. n - 1 : m \in S
    OBVIOUS
  <2>2. \A m \in 0 .. n - 1 : f[m] \in A
    <3>. HIDE DEF S, A, f
    <3>. QED  BY <1>11, <2>1
  <2>. HIDE DEF S, A, f, T
  <2>3. ValueAt(q, f, n) \in A
    BY <1>3, <2>2
  <2>. QED  BY <1>10, <2>3 DEF f
<1>12. \A n \in Nat : n \in T
  <2>. HIDE DEF T
  <2>. QED  BY <1>11, Induction
<1>13. M \in S /\ f[M] \in A
  <2>1. M \in Nat /\ M \in S
    OBVIOUS
  <2>2. M \in T
    <3>. HIDE DEF T, M
    <3>. QED  BY <1>12, <2>1
  <2>. QED  BY <2>1, <2>2
<1>. QED  BY <1>1, <1>10, <1>13

-----------------------------------------------------------------------------
(* PathNames: no target leads outside. *)

\* The characters of paths, targets and directories: no text is the mark of an
\* error.
Letters ==
    {"a", ".", "/", "\\", "%", "?", "&", "=", "0", "2", "3", "5", "6", "C", "D", "E", "F",
     "0x00", "x", "d", "e", "path", "/api/files", "/api/files/"}

\* The letters the proofs refer to.
LEMMA LettersFacts ==
    "error" \notin Letters /\ "/" \in Letters /\ EscapedBytes \subseteq Letters
BY DEF Letters, EscapedBytes

\* No text is taken for a failure.
LEMMA ErrorIsNoText == Path!Error \notin Seq(Letters)
<1>. SUFFICES ASSUME <<"error">> \in Seq(Letters) PROVE FALSE
  BY DEF Path!Error
<1>1. <<"error">>[1] \in Letters /\ <<"error">>[1] = "error"
  OBVIOUS
<1>. QED  BY <1>1, LettersFacts

\* A request is a text in these characters.
PathInv == path \in Seq(Letters)

\* The receive directories of the model: their own segments are plain, and what
\* is joined to them comes behind a slash.
LEMMA BaseFacts ==
    ASSUME NEW base \in MCBases
    PROVE  \E b \in Seq(Letters) :
              /\ Plain(Path!Segments(b)) /\ Path!Walk(base) = Path!Segments(b)
              /\ \A t \in Seq(Letters) : Path!JoinPath(base, t) = b \o <<"/">> \o t
<1>. DEFINE D == Seq(Letters)  z == <<<<>>>>
<1>1. /\ <<"d">> \in D /\ <<"e">> \in D /\ <<"/">> \in D /\ <<>> \in D
      /\ <<"d", "/">> \in D /\ <<"d", "/", "e">> \in D
  BY DEF Letters
<1>2. /\ <<"d", "/">> = <<"d">> \o <<"/">> \o <<>>
      /\ <<"d", "/", "e">> = <<"d">> \o <<"/">> \o <<"e">>
      /\ <<"d", "/">> = <<"d">> \o <<"/">>
  OBVIOUS
<1>3. Lacks("/", <<"d">>) /\ Lacks("/", <<"e">>) /\ Lacks("/", <<>>)
  BY DEF Lacks
<1>4. Path!Segments(<<"d">>) = <<<<"d">>>> /\ Path!Segments(<<"e">>) = <<<<"e">>>>
      /\ Path!Segments(<<>>) = <<<<>>>>
  BY <1>1, <1>3, OneSegment
<1>5. Path!Segments(<<"d", "/">>) = <<<<"d">>>> \o <<<<>>>>
  BY <1>1, <1>2, <1>3, <1>4, FirstSegment, LettersFacts
<1>6. Path!Segments(<<"d", "/", "e">>) = <<<<"d">>>> \o <<<<"e">>>>
  BY <1>1, <1>2, <1>3, <1>4, FirstSegment, LettersFacts
<1>7. <<<<"d">>>> \in Seq(D) /\ <<<<"e">>>> \in Seq(D)
  BY <1>1
<1>8. Plain(<<<<"d">>>>) /\ Plain(<<<<"e">>>>)
  <2>1. <<"d">> \notin BadSegments /\ <<"e">> \notin BadSegments
    BY DEF BadSegments
  <2>. QED  BY <2>1, PlainOne
<1>9. Plain(<<<<"d">>>> \o <<<<"e">>>>) /\ <<<<"d">>>> \o <<<<"e">>>> \in Seq(D)
  <2>. DEFINE x == <<<<"d">>>>  y == <<<<"e">>>>
  <2>1. x \in Seq(D) /\ y \in Seq(D) /\ Plain(x) /\ Plain(y)
    BY <1>7, <1>8
  <2>. HIDE DEF x, y, D
  <2>2. Plain(x \o y)
    BY ONLY <2>1, PlainConcat
  <2>3. x \o y \in Seq(D)
    BY ONLY <2>1, Concat
  <2>. QED  BY <2>2, <2>3 DEF x, y
<1>10. CASE base \in {<<"d">>, <<"d", "/">>}
  <2>1. Path!Walk(base) = <<<<"d">>>>
    <3>1. base \in D /\ Path!Segments(base) \in {<<<<"d">>>>, <<<<"d">>>> \o <<<<>>>>}
      BY <1>1, <1>4, <1>5, <1>10
    <3>. QED  BY <1>7, <1>8, <3>1, PlainPath, LettersFacts
  <2>2. ASSUME NEW t \in Seq(Letters)
        PROVE  Path!JoinPath(base, t) = <<"d">> \o <<"/">> \o t
    <3>1. CASE base = <<"d">>
      BY <3>1 DEF Path!JoinPath, Path!Last
    <3>2. CASE base = <<"d", "/">>
      <4>1. base # <<>> /\ Path!Last(base) = "/"
        BY <3>2 DEF Path!Last
      <4>2. Path!JoinPath(base, t) = base \o t
        BY <4>1 DEF Path!JoinPath
      <4>. QED  BY <1>2, <3>2, <4>2
    <3>. QED  BY <1>10, <3>1, <3>2
  <2>. QED  BY <1>1, <1>4, <1>8, <2>1, <2>2
<1>11. CASE base = <<"d", "/", "e">>
  <2>1. Path!Walk(base) = <<<<"d">>>> \o <<<<"e">>>>
    <3>. DEFINE w == <<<<"d">>>> \o <<<<"e">>>>
    <3>1. base \in D /\ w \in Seq(D) /\ Plain(w) /\ Path!Segments(base) \in {w, w \o <<<<>>>>}
      BY <1>1, <1>6, <1>9, <1>11
    <3>. HIDE DEF w
    <3>2. Path!Walk(base) = w
      BY <3>1, PlainPath, LettersFacts
    <3>. QED  BY <3>2 DEF w
  <2>2. ASSUME NEW t \in Seq(Letters)
        PROVE  Path!JoinPath(base, t) = base \o <<"/">> \o t
    BY <1>11 DEF Path!JoinPath, Path!Last
  <2>. QED  BY <1>1, <1>6, <1>9, <1>11, <2>1, <2>2
<1>. QED  BY <1>10, <1>11 DEF MCBases

\* Walking a validated path below a receive directory.
LEMMA StaysBelow ==
    ASSUME NEW base \in MCBases, NEW t \in Seq(Letters),
           t # <<>> => Path!ValidateRelativePath(t)
    PROVE  Path!Walk(Path!JoinRelativePath(base, t)) = Path!Walk(base) \o Path!Walk(t)
<1>. DEFINE D == Seq(Letters)
<1>1. PICK b \in D :
         /\ Plain(Path!Segments(b)) /\ Path!Walk(base) = Path!Segments(b)
         /\ \A s \in D : Path!JoinPath(base, s) = b \o <<"/">> \o s
  BY BaseFacts
<1>2. CASE t # <<>>
  <2>1. Okay(t)
    BY <1>2, ValidateIs
  <2>2. Path!JoinRelativePath(base, t) = b \o <<"/">> \o t
    BY <1>1, <1>2 DEF Path!JoinRelativePath
  <2>3. Path!Walk(b \o <<"/">> \o t) = Path!Segments(b) \o Path!Walk(t)
    BY <1>1, <1>2, <2>1, WalkBelow, LettersFacts
  <2>. QED  BY <1>1, <2>2, <2>3
<1>3. CASE t = <<>>
  <2>1. Path!JoinRelativePath(base, t) = base
    BY <1>3 DEF Path!JoinRelativePath
  <2>2. Path!Segments(t) = <<<<>>>>
    <3>1. Lacks("/", t)
      BY <1>3 DEF Lacks
    <3>. QED  BY <1>3, <3>1, OneSegment
  <2>3. Path!Walk(t) = <<>>
    <3>. DEFINE e == <<>>
    <3>1. e \in Seq(D) /\ Plain(e) /\ e \o <<<<>>>> = <<<<>>>>
      BY DEF Plain
    <3>2. Path!Segments(t) \in {e, e \o <<<<>>>>}
      BY <2>2, <3>1
    <3>. HIDE DEF e
    <3>3. Path!Walk(t) = e
      BY <3>1, <3>2, PlainPath, LettersFacts
    <3>. QED  BY <3>3 DEF e
  <2>4. Path!Segments(b) \in Seq(D)
    BY SegmentsType, LettersFacts
  <2>5. Path!Segments(b) \o <<>> = Path!Segments(b)
    BY <2>4, ConcatEmptySeq
  <2>. QED  BY <1>1, <2>1, <2>3, <2>5
<1>. QED  BY <1>2, <1>3

\* What a request names is a text the validator has seen.
LEMMA FileTargetType ==
    ASSUME NEW target \in Seq(Letters), Path!FileTarget(target) # Path!Error
    PROVE  /\ Path!FileTarget(target) \in Seq(Letters)
           /\ Path!ValidateRelativePath(Path!FileTarget(target))
<1>. DEFINE p == Path!TargetPath(target)  n == Path!DecodeName(Tail(p))
<1>1. Path!FileTarget(target) = n /\ p # <<>> /\ n # Path!Error /\ Path!ValidateRelativePath(n)
  BY DEF Path!FileTarget
<1>2. p \in Seq(Letters)
  BY CutType DEF Path!TargetPath
<1>3. Tail(p) \in Seq(Letters)
  BY <1>1, <1>2
<1>4. n \in Seq(Letters) \cup {Path!Error}
  BY <1>3, DecodeType, LettersFacts
<1>. QED  BY <1>1, <1>4

\* The directory of a listing is the receive directory or a path that the
\* validator accepted.
LEMMA DirTargetType ==
    ASSUME NEW target \in Seq(Letters), Path!DirTarget(target) # Path!Error
    PROVE  /\ Path!DirTarget(target) \in Seq(Letters)
           /\ Path!DirTarget(target) # <<>> =>
                 Path!ValidateRelativePath(Path!DirTarget(target))
<1>. DEFINE v == Path!QueryValue(Path!TargetQuery(target))
            n == IF v = Path!Error THEN <<>> ELSE Path!DecodeName(v)
<1>1. /\ Path!DirTarget(target) = n /\ n # Path!Error
      /\ n # <<>> => Path!ValidateRelativePath(n)
  BY DEF Path!DirTarget
<1>2. v \in Seq(Letters) \cup {Path!Error}
  <2>1. Path!TargetQuery(target) \in Seq(Letters)
    BY CutType DEF Path!TargetQuery
  <2>. QED  BY <2>1, ValueIs
<1>3. n \in Seq(Letters) \cup {Path!Error}
  <2>. HIDE DEF v
  <2>1. CASE v = Path!Error
    BY <2>1, EmptySeq
  <2>2. CASE v # Path!Error
    BY <1>2, <2>2, DecodeType, LettersFacts
  <2>. QED  BY <2>1, <2>2
<1>. QED  BY <1>1, <1>3

\* Whatever the path, its targets stay inside.
LEMMA InsideOf == PathInv => TargetStaysInside
<1>. SUFFICES ASSUME PathInv, NEW base \in MCBases
              PROVE  /\ LET t == Path!FileTarget(<<Path!FilesPrefix>> \o path) IN
                          t # Path!Error =>
                            /\ Path!Walk(Path!JoinRelativePath(base, t))
                                  = Path!Walk(base) \o Path!Walk(t)
                            /\ Path!Walk(t) # <<>>
                            /\ Path!Walk(t) = Path!Segments(Stripped(t))
                     /\ LET t == Path!DirTarget(<<Path!FilesPath, "?", "path", "=">> \o path) IN
                          t # Path!Error =>
                            Path!Walk(Path!JoinRelativePath(base, t))
                              = Path!Walk(base) \o Path!Walk(t)
  BY DEF TargetStaysInside, Path!TargetStaysInside, Stripped
<1>1. /\ <<Path!FilesPrefix>> \o path \in Seq(Letters)
      /\ <<Path!FilesPath, "?", "path", "=">> \o path \in Seq(Letters)
  <2>1. /\ <<Path!FilesPrefix>> \in Seq(Letters)
        /\ <<Path!FilesPath, "?", "path", "=">> \in Seq(Letters)
    BY DEF Path!FilesPrefix, Path!FilesPath, Letters
  <2>. QED  BY <2>1 DEF PathInv
<1>2. ASSUME NEW t, t = Path!FileTarget(<<Path!FilesPrefix>> \o path), t # Path!Error
      PROVE  /\ Path!Walk(Path!JoinRelativePath(base, t)) = Path!Walk(base) \o Path!Walk(t)
             /\ Path!Walk(t) # <<>>
             /\ Path!Walk(t) = Path!Segments(Stripped(t))
  <2>1. t \in Seq(Letters) /\ Path!ValidateRelativePath(t)
    BY <1>1, <1>2, FileTargetType
  <2>2. t # <<>> /\ Okay(t)
    BY <2>1, ValidateIs
  <2>. QED  BY <2>1, <2>2, StaysBelow, OkayWalk, LettersFacts
<1>3. ASSUME NEW t, t = Path!DirTarget(<<Path!FilesPath, "?", "path", "=">> \o path),
             t # Path!Error
      PROVE  Path!Walk(Path!JoinRelativePath(base, t)) = Path!Walk(base) \o Path!Walk(t)
  <2>1. t \in Seq(Letters) /\ (t # <<>> => Path!ValidateRelativePath(t))
    BY <1>1, <1>3, DirTargetType
  <2>. QED  BY <2>1, StaysBelow
<1>. QED  BY <1>2, <1>3

\* The text of a request, of any length, is made of these characters.
THEOREM PathInvariant == InputSpec => []PathInv
<1>1. InputInit => PathInv
  BY DEF InputInit, Path!Init, PathInv
<1>2. PathInv /\ [InputNext]_<<input, vars, pathVars, messageVars, lineVars, frameVars, stateVars>>
        => PathInv'
  <2>. SUFFICES ASSUME PathInv,
                  [InputNext]_<<input, vars, pathVars, messageVars, lineVars, frameVars, stateVars>>
                PROVE  PathInv'
    OBVIOUS
  <2>1. Path!Next \/ UNCHANGED pathVars
    BY DEF InputNext
  <2>2. CASE Path!Next
    <3>1. PICK p \in MCPieces : path' = path \o p
      BY <2>2 DEF Path!Next, Path!Grow
    <3>2. p \in Seq(Letters)
      <4>1. \A c, d, e \in Letters : <<c>> \in Seq(Letters) /\ <<c, d, e>> \in Seq(Letters)
        OBVIOUS
      <4>2. {"a", ".", "/", "\\", "%", "?", "&", "=", "0", "2", "E", "F"} \subseteq Letters
        BY DEF Letters
      <4>3. \A c \in {"a", ".", "/", "\\", "%", "?", "&", "="} : <<c>> \in Seq(Letters)
        BY <4>1, <4>2
      <4>4. /\ <<"%", "2", "E">> \in Seq(Letters) /\ <<"%", "2", "F">> \in Seq(Letters)
            /\ <<"%", "0", "0">> \in Seq(Letters)
        BY <4>1, <4>2
      <4>. QED  BY <4>3, <4>4 DEF MCPieces
    <3>. QED  BY <3>1, <3>2, Concat DEF PathInv
  <2>3. CASE UNCHANGED pathVars
    BY <2>3 DEF PathInv, pathVars
  <2>. QED  BY <2>1, <2>2, <2>3
<1>. QED  BY <1>1, <1>2, PTL DEF InputSpec

\* Whatever target a request has, of any length and with any escapes in it, the
\* file or directory that the server opens for it is below the receive
\* directory, and http_decode_name and fs_validate_relative_path leave one
\* spelling of it, up to a slash at the end.
THEOREM TargetStaysInsideHolds == InputSpec => []TargetStaysInside
BY InsideOf, PathInvariant, PTL

-----------------------------------------------------------------------------
(* PathNames: a link leads to the entry it stands for. *)

\* A segment makes a walk longer by one at most, and a bad one not at all.
LEMMA StepLength ==
    ASSUME NEW D, NEW at \in Seq(D), at # Path!Nowhere, NEW segment \in D,
           WalkStep(at, segment) # Path!Nowhere
    PROVE  /\ WalkStep(at, segment) \in Seq(D)
           /\ Len(WalkStep(at, segment)) <= Len(at) + 1
           /\ segment \in BadSegments => Len(WalkStep(at, segment)) <= Len(at)
<1>1. CASE segment \in {<<>>, <<".">>}
  BY <1>1 DEF WalkStep
<1>2. CASE segment \notin {<<>>, <<".">>} /\ segment = <<".", ".">>
  <2>1. WalkStep(at, segment) = IF at = <<>> THEN Path!Nowhere ELSE Path!Front(at)
    BY <1>2 DEF WalkStep
  <2>2. at # <<>> /\ WalkStep(at, segment) = Path!Front(at)
    BY <2>1
  <2>3. Path!Front(at) \in Seq(D) /\ Len(Path!Front(at)) <= Len(at)
    BY <2>2 DEF Path!Front
  <2>4. Len(at) \in Nat /\ Len(Path!Front(at)) \in Nat
    BY <2>3
  <2>. QED  BY <2>2, <2>3, <2>4
<1>3. CASE segment \notin BadSegments
  <2>1. WalkStep(at, segment) = Append(at, segment)
    BY <1>3 DEF WalkStep, BadSegments
  <2>. QED  BY <1>3, <2>1
<1>. QED  BY <1>1, <1>2, <1>3 DEF BadSegments

\* A walk that arrives at its own segments went down all of them.
LEMMA ListedIsPlain ==
    ASSUME NEW C, "error" \notin C, "/" \in C, NEW p \in Seq(C),
           Path!Walk(p) = Path!Segments(p)
    PROVE  Plain(Path!Segments(p))
<1>. DEFINE q == Path!Segments(p)  n == Len(q)  D == Seq(C)
<1>1. q \in Seq(D)
  BY SegmentsType
<1>2. PICK at : Trail(q, at) /\ q = at[n]
  BY WalkIs
<1>3. \A w \in Seq(D) : w # Path!Nowhere
  BY SomewhereIsNot
<1>. HIDE DEF q, D
<1>4. n \in Nat /\ at[0] = <<>> /\ \A i \in 1 .. n : q[i] \in D /\ at[i] = WalkStep(at[i - 1], q[i])
  BY <1>1, <1>2 DEF Trail
<1>. HIDE DEF n
<1>. DEFINE U == {k \in 0 .. n : /\ at[k] \in Seq(D) \cup {Path!Nowhere}
                                 /\ at[k] # Path!Nowhere => Len(at[k]) <= k}
            T == {k \in 0 .. n : at[k] # Path!Nowhere /\ Len(at[k]) >= k}
<1>5. \A k \in 0 .. n : k \in U
  <2>1. 0 \in U
    <3>1. 0 \in 0 .. n /\ <<>> \in Seq(D) /\ Len(<<>>) <= 0
      BY <1>4
    <3>2. at[0] \in Seq(D) /\ Len(at[0]) <= 0
      BY ONLY <1>4, <3>1
    <3>. QED  BY <3>1, <3>2
  <2>2. ASSUME NEW k \in 0 .. n - 1, k \in U
        PROVE  k + 1 \in U
    <3>. DEFINE a == at[k]  b == at[k + 1]  e == q[k + 1]
    <3>1. k + 1 \in 1 .. n /\ k + 1 \in 0 .. n /\ (k + 1) - 1 = k
      BY <1>4
    <3>2. e \in D /\ b = WalkStep(a, e)
      BY <1>4, <3>1
    <3>3. a \in Seq(D) \cup {Path!Nowhere} /\ (a # Path!Nowhere => Len(a) <= k)
      BY <2>2
    <3>. HIDE DEF a, b, e
    <3>4. b \in Seq(D) \cup {Path!Nowhere}
      BY <3>2, <3>3, WalkStepType
    <3>5. ASSUME b # Path!Nowhere PROVE Len(b) <= k + 1
      <4>1. a # Path!Nowhere
        BY <3>2, <3>5 DEF WalkStep
      <4>2. a \in Seq(D) /\ Len(a) <= k /\ Len(a) \in Nat
        BY <3>3, <4>1
      <4>3. Len(b) <= Len(a) + 1 /\ b \in Seq(D)
        BY <3>2, <3>5, <4>1, <4>2, StepLength
      <4>4. Len(b) \in Nat
        BY <4>3
      <4>. QED  BY <4>2, <4>3, <4>4
    <3>. QED  BY <3>1, <3>4, <3>5 DEF b
  <2>. HIDE DEF U
  <2>. QED  BY <1>4, <2>1, <2>2, Ascent
<1>6. \A k \in 0 .. n : k \in T
  <2>1. n \in T
    <3>1. n \in 0 .. n
      BY <1>4
    <3>2. at[n] = q /\ q # Path!Nowhere /\ Len(q) = n
      BY <1>1, <1>2, <1>3 DEF n
    <3>3. n >= n
      BY <1>4
    <3>. QED  BY <3>1, <3>2, <3>3
  <2>2. ASSUME NEW k \in 1 .. n, k \in T
        PROVE  k - 1 \in T
    <3>. DEFINE a == at[k - 1]  b == at[k]  e == q[k]
    <3>1. k - 1 \in 0 .. n
      BY <1>4
    <3>2. e \in D /\ b = WalkStep(a, e)
      BY <1>4
    <3>3. k - 1 \in U
      <4>. HIDE DEF U
      <4>. QED  BY <1>5, <3>1
    <3>4. a \in Seq(D) \cup {Path!Nowhere}
      BY <3>3
    <3>5. b # Path!Nowhere /\ Len(b) >= k
      BY <2>2
    <3>. HIDE DEF a, b, e
    <3>6. a # Path!Nowhere /\ a \in Seq(D)
      BY <3>2, <3>4, <3>5 DEF WalkStep
    <3>7. Len(b) <= Len(a) + 1 /\ b \in Seq(D)
      BY <3>2, <3>5, <3>6, StepLength
    <3>8. Len(a) \in Nat /\ Len(b) \in Nat
      BY <3>6, <3>7
    <3>9. Len(a) >= k - 1
      BY <3>5, <3>7, <3>8
    <3>. QED  BY <3>1, <3>6, <3>9 DEF a
  <2>. HIDE DEF T
  <2>. QED  BY <1>4, <2>1, <2>2, Descent
<1>7. ASSUME NEW k \in 1 .. n
      PROVE  q[k] \notin BadSegments
  <2>. SUFFICES ASSUME q[k] \in BadSegments PROVE FALSE
    OBVIOUS
  <2>. DEFINE a == at[k - 1]  b == at[k]  e == q[k]
  <2>1. k - 1 \in 0 .. n /\ k \in 0 .. n
    BY <1>4
  <2>2. k - 1 \in U /\ k - 1 \in T /\ k \in T
    <3>. HIDE DEF U, T
    <3>. QED  BY <1>5, <1>6, <2>1
  <2>3. /\ a \in Seq(D) \cup {Path!Nowhere} /\ a # Path!Nowhere /\ Len(a) <= k - 1
        /\ b # Path!Nowhere /\ Len(b) >= k /\ e \in BadSegments
    BY <2>2
  <2>4. e \in D /\ b = WalkStep(a, e)
    BY <1>4
  <2>. HIDE DEF a, b, e
  <2>5. a \in Seq(D)
    BY <2>3
  <2>6. Len(b) <= Len(a) /\ b \in Seq(D)
    BY <2>3, <2>4, <2>5, StepLength
  <2>7. Len(a) \in Nat /\ Len(b) \in Nat
    BY <2>5, <2>6
  <2>. QED  BY <2>3, <2>6, <2>7
<1>. QED  BY <1>7 DEF Plain, BadSegments, q, n

\* What encodeURIComponent leaves in a text.
SafeLetters == Letters \ {"?", "&", "="}

\* encodeURIComponent writes a character as itself, and never a percent sign
\* so, or as an escape that http_decode_name reads as the character.
LEMMA EscapeType ==
    ASSUME NEW c \in Letters
    PROVE  /\ Path!Escape(c) \in Seq(SafeLetters)
           /\ \/ c # "%" /\ Path!Escape(c) = <<c>>
              \/ \E hi, lo \in Path!HexDigits :
                    Path!Escape(c) = <<"%", hi, lo>> /\ Path!Byte(hi, lo) = c
<1>0. \A x, y, z \in SafeLetters : <<x>> \in Seq(SafeLetters) /\ <<x, y, z>> \in Seq(SafeLetters)
  OBVIOUS
<1>1. {"%", "2", "3", "5", "6", "C", "D", "F"} \subseteq SafeLetters
  BY DEF SafeLetters, Letters
<1>2. {"2", "3", "5", "6", "C", "D", "F"} \subseteq Path!HexDigits
  BY DEF Path!HexDigits
<1>3. CASE c \notin {"/", "%", "?", "&", "=", "\\"}
  <2>1. Path!Escape(c) = <<c>>
    BY <1>3 DEF Path!Escape
  <2>2. c \in SafeLetters
    BY <1>3 DEF SafeLetters
  <2>. QED  BY <1>0, <1>3, <2>1, <2>2
<1>4. ASSUME NEW hi \in {"2", "3", "5"}, NEW lo \in {"F", "5", "6", "D", "C"},
             Path!Escape(c) = <<"%", hi, lo>>, Path!Byte(hi, lo) = c
      PROVE  /\ Path!Escape(c) \in Seq(SafeLetters)
             /\ \E h, l \in Path!HexDigits :
                    Path!Escape(c) = <<"%", h, l>> /\ Path!Byte(h, l) = c
  <2>1. "%" \in SafeLetters /\ hi \in SafeLetters /\ lo \in SafeLetters
    BY <1>1
  <2>2. <<"%", hi, lo>> \in Seq(SafeLetters)
    BY <1>0, <2>1
  <2>3. hi \in Path!HexDigits /\ lo \in Path!HexDigits
    BY <1>2
  <2>. QED  BY <1>4, <2>2, <2>3
<1>5. CASE c = "/"
  <2>1. Path!Escape(c) = <<"%", "2", "F">> /\ Path!Byte("2", "F") = c
    BY <1>5 DEF Path!Escape, Path!Byte
  <2>. QED  BY <1>4, <2>1
<1>6. CASE c = "%"
  <2>1. Path!Escape(c) = <<"%", "2", "5">> /\ Path!Byte("2", "5") = c
    BY <1>6 DEF Path!Escape, Path!Byte
  <2>. QED  BY <1>4, <2>1
<1>7. CASE c = "?"
  <2>1. Path!Escape(c) = <<"%", "3", "F">> /\ Path!Byte("3", "F") = c
    BY <1>7 DEF Path!Escape, Path!Byte
  <2>. QED  BY <1>4, <2>1
<1>8. CASE c = "&"
  <2>1. Path!Escape(c) = <<"%", "2", "6">> /\ Path!Byte("2", "6") = c
    BY <1>8 DEF Path!Escape, Path!Byte
  <2>. QED  BY <1>4, <2>1
<1>9. CASE c = "="
  <2>1. Path!Escape(c) = <<"%", "3", "D">> /\ Path!Byte("3", "D") = c
    BY <1>9 DEF Path!Escape, Path!Byte
  <2>. QED  BY <1>4, <2>1
<1>10. CASE c = "\\"
  <2>1. Path!Escape(c) = <<"%", "5", "C">> /\ Path!Byte("5", "C") = c
    BY <1>10 DEF Path!Escape, Path!Byte
  <2>. QED  BY <1>4, <2>1
<1>. QED  BY <1>3, <1>5, <1>6, <1>7, <1>8, <1>9, <1>10

\* A text and the character before it.
LEMMA SuffixLonger ==
    ASSUME NEW C, NEW p \in Seq(C), NEW k \in 1 .. Len(p)
    PROVE  <<p[k]>> \o Suffix(p, Len(p) - k) = Suffix(p, Len(p) - k + 1)
<1>. DEFINE n == Len(p)  m == n - k  s == Suffix(p, m)  t == Suffix(p, m + 1)  w == <<p[k]>> \o s
<1>1. n \in Nat /\ m \in 0 .. n /\ m + 1 \in 0 .. n /\ n - (m + 1) = k - 1 /\ p[k] \in C
  OBVIOUS
<1>2. s \in Seq(C) /\ Len(s) = m /\ \A i \in 1 .. m : s[i] = p[n - m + i]
  <2>. HIDE DEF m
  <2>. QED  BY <1>1, SuffixFacts
<1>3. t \in Seq(C) /\ Len(t) = m + 1 /\ \A i \in 1 .. m + 1 : t[i] = p[n - (m + 1) + i]
  <2>. DEFINE j == m + 1
  <2>1. j \in 0 .. Len(p)
    BY <1>1
  <2>. HIDE DEF j
  <2>2. /\ Suffix(p, j) \in Seq(C) /\ Len(Suffix(p, j)) = j
        /\ \A i \in 1 .. j : Suffix(p, j)[i] = p[Len(p) - j + i]
    BY <2>1, SuffixFacts
  <2>. QED  BY <2>2 DEF j
<1>4. <<p[k]>> \in Seq(C) /\ Len(<<p[k]>>) = 1 /\ <<p[k]>>[1] = p[k]
  BY <1>1
<1>5. /\ w \in Seq(C) /\ Len(w) = 1 + m /\ w[1] = p[k]
      /\ \A i \in 1 .. m : w[1 + i] = s[i]
  <2>. DEFINE x == <<p[k]>>
  <2>1. x \in Seq(C) /\ s \in Seq(C) /\ Len(x) = 1 /\ x[1] = p[k]
    BY <1>2, <1>4
  <2>. HIDE DEF s, x
  <2>2. x \in Seq(C) /\ s \in Seq(C)
    BY <2>1
  <2>3. /\ x \o s \in Seq(C) /\ Len(x \o s) = Len(x) + Len(s)
        /\ \A i \in 1 .. Len(x) : (x \o s)[i] = x[i]
        /\ \A i \in 1 .. Len(s) : (x \o s)[Len(x) + i] = s[i]
    BY ONLY <2>2, Concat
  <2>. QED  BY <1>2, <2>1, <2>3 DEF x
<1>. HIDE DEF s, t, w
<1>6. ASSUME NEW i \in 1 .. m + 1
      PROVE  w[i] = t[i]
  <2>1. CASE i = 1
    <3>1. t[1] = p[n - (m + 1) + 1] /\ n - (m + 1) + 1 = k
      BY <1>1, <1>3
    <3>. QED  BY <1>5, <2>1, <3>1
  <2>2. CASE i # 1
    <3>1. i - 1 \in 1 .. m /\ 1 + (i - 1) = i /\ n - m + (i - 1) = n - (m + 1) + i
      BY <1>1, <2>2
    <3>2. w[i] = s[i - 1]
      BY <1>5, <3>1
    <3>3. s[i - 1] = p[n - (m + 1) + i]
      BY <1>2, <3>1
    <3>. QED  BY <1>3, <3>2, <3>3
  <2>. QED  BY <2>1, <2>2
<1>7. w = t
  <2>1. Len(w) = Len(t) /\ \A i \in 1 .. Len(w) : w[i] = t[i]
    BY <1>1, <1>3, <1>5, <1>6
  <2>. QED  BY <1>3, <1>5, <2>1, SeqEqual
<1>. QED  BY <1>7 DEF w, t, s

\* What http_decode_name makes of an escape, and of what needs none.
LEMMA DecodeOne ==
    ASSUME NEW s \in Seq(Letters), NEW f, NEW c \in Letters, NEW i \in 1 .. Len(s),
           i + Len(Path!Escape(c)) - 1 <= Len(s),
           \A j \in 1 .. Len(Path!Escape(c)) : s[i + j - 1] = Path!Escape(c)[j],
           f[i + Len(Path!Escape(c))] \in Seq(Letters)
    PROVE  BytesAt(s, f, i) = <<c>> \o f[i + Len(Path!Escape(c))]
<1>0. Len(s) \in Nat
  OBVIOUS
<1>1. CASE c # "%" /\ Path!Escape(c) = <<c>>
  <2>1. s[i] = c /\ Len(Path!Escape(c)) = 1
    <3>1. Len(<<c>>) = 1 /\ <<c>>[1] = c /\ 1 \in 1 .. 1 /\ i + 1 - 1 = i
      OBVIOUS
    <3>. QED  BY <1>1, <3>1
  <2>2. f[i + 1] # Path!Error
    BY <2>1, ErrorIsNoText
  <2>. QED  BY <1>0, <1>1, <2>1, <2>2 DEF BytesAt
<1>2. ASSUME NEW hi \in Path!HexDigits, NEW lo \in Path!HexDigits,
             Path!Escape(c) = <<"%", hi, lo>>, Path!Byte(hi, lo) = c
      PROVE  BytesAt(s, f, i) = <<c>> \o f[i + Len(Path!Escape(c))]
  <2>0. Len(Path!Escape(c)) = 3
    BY <1>2
  <2>1. s[i] = "%" /\ s[i + 1] = hi /\ s[i + 2] = lo
    <3>1. /\ <<"%", hi, lo>>[1] = "%" /\ <<"%", hi, lo>>[2] = hi /\ <<"%", hi, lo>>[3] = lo
      OBVIOUS
    <3>2. 1 \in 1 .. 3 /\ 2 \in 1 .. 3 /\ 3 \in 1 .. 3 /\ i + 1 - 1 = i /\ i + 2 - 1 = i + 1
          /\ i + 3 - 1 = i + 2
      OBVIOUS
    <3>3. \A j \in 1 .. 3 : s[i + j - 1] = <<"%", hi, lo>>[j]
      BY <1>2, <2>0
    <3>4. s[i + 1 - 1] = "%" /\ s[i + 2 - 1] = hi /\ s[i + 3 - 1] = lo
      BY ONLY <3>1, <3>2, <3>3
    <3>. QED  BY <3>2, <3>4
  <2>2. i + 2 <= Len(s) /\ f[i + 3] \in Seq(Letters)
    BY <1>0, <2>0
  <2>3. f[i + 3] # Path!Error
    BY <2>2, ErrorIsNoText
  <2>4. ~(i > Len(s))
    BY <1>0
  <2>5. BytesAt(s, f, i) = <<Path!Byte(hi, lo)>> \o f[i + 3]
    BY <2>1, <2>2, <2>3, <2>4 DEF BytesAt
  <2>. QED  BY <1>2, <2>0, <2>5
<1>. QED  BY <1>1, <1>2, EscapeType

\* http_decode_name takes back what encodeURIComponent did.
LEMMA DecodesEncoding ==
    ASSUME NEW p \in Seq(Letters)
    PROVE  /\ Path!EncodeURIComponent(p) \in Seq(SafeLetters)
           /\ Path!EncodeURIComponent(p) \in Seq(Letters)
           /\ ~Path!Has(Path!NUL, p) => Path!DecodeName(Path!EncodeURIComponent(p)) = p
<1>. DEFINE n == Len(p)  E == [i \in 1 .. n |-> Path!Escape(p[i])]
            s == Path!EncodeURIComponent(p)
<1>1. n \in Nat /\ \A i \in 1 .. n : p[i] \in Letters
  OBVIOUS
<1>2. E \in Seq(Seq(SafeLetters)) /\ Len(E) = n /\ \A i \in 1 .. n : E[i] = Path!Escape(p[i])
  <2>1. \A i \in 1 .. n : Path!Escape(p[i]) \in Seq(SafeLetters)
    BY <1>1, EscapeType
  <2>. QED  BY <1>1, <2>1
<1>3. s = Path!FlattenSeq(E)
  BY DEF Path!EncodeURIComponent
<1>. HIDE DEF n, E, s
<1>4. s \in Seq(SafeLetters) /\ \E o : FlatAt(E, s, o)
  BY <1>2, <1>3, Flattened
<1>5. s \in Seq(Letters)
  <2>1. SafeLetters \subseteq Letters
    BY DEF SafeLetters
  <2>. QED  BY <1>4, <2>1
<1>6. PICK off : FlatAt(E, s, off)
  BY <1>4
<1>7. /\ off[0] = 0 /\ off[n] = Len(s) /\ \A k \in 0 .. n : off[k] \in Nat
      /\ \A k \in 1 .. n :
            /\ off[k] = off[k - 1] + Len(Path!Escape(p[k])) /\ off[k] <= Len(s)
            /\ \A j \in 1 .. Len(Path!Escape(p[k])) : s[off[k - 1] + j] = Path!Escape(p[k])[j]
  BY ZenonT(60), <1>2, <1>6 DEF FlatAt
<1>. DEFINE f == BytesFn(s)
            T == {k \in 0 .. n : f[off[k] + 1] = Suffix(p, n - k)}
<1>8. \A i \in 1 .. Len(s) + 1 : f[i] = BytesAt(s, f, i)
  BY <1>5, BytesIs, LettersFacts
<1>. HIDE DEF f
<1>9. \A k \in 0 .. n : k \in T
  <2>1. n \in T
    <3>1. off[n] + 1 \in 1 .. Len(s) + 1 /\ off[n] + 1 > Len(s)
      BY <1>5, <1>7
    <3>2. f[off[n] + 1] = <<>>
      BY <1>8, <3>1 DEF BytesAt
    <3>3. n - n = 0 /\ n \in 0 .. n /\ 0 \in 0 .. Len(p)
      BY <1>1 DEF n
    <3>4. Suffix(p, 0) \in Seq(Letters) /\ Len(Suffix(p, 0)) = 0
      BY <3>3, SuffixFacts
    <3>5. Suffix(p, 0) = <<>>
      BY <3>4
    <3>. QED  BY <3>2, <3>3, <3>5
  <2>2. ASSUME NEW k \in 1 .. n, k \in T
        PROVE  k - 1 \in T
    <3>. DEFINE c == p[k]  i == off[k - 1] + 1  e == Path!Escape(c)  r == Suffix(p, n - k)
    <3>1. c \in Letters /\ k \in 0 .. n /\ k - 1 \in 0 .. n /\ n - (k - 1) = n - k + 1
      BY <1>1
    <3>2. e \in Seq(SafeLetters) /\ Len(e) \in Nat /\ Len(e) >= 1
      <4>1. e \in Seq(SafeLetters)
        BY <3>1, EscapeType
      <4>2. Len(e) >= 1
        <5>1. \A x, y, z : Len(<<x>>) >= 1 /\ Len(<<x, y, z>>) >= 1
          OBVIOUS
        <5>2. e = <<c>> \/ \E x, y : e = <<"%", x, y>>
          BY <3>1, EscapeType
        <5>. QED  BY ONLY <5>1, <5>2
      <4>. QED  BY <4>1, <4>2
    <3>3. /\ off[k] = off[k - 1] + Len(e) /\ off[k] <= Len(s)
          /\ off[k] \in Nat /\ off[k - 1] \in Nat
          /\ \A j \in 1 .. Len(e) : s[off[k - 1] + j] = e[j]
      BY <1>7, <3>1
    <3>4. f[off[k] + 1] = r
      BY <2>2
    <3>5. r \in Seq(Letters)
      <4>1. n - k \in 0 .. Len(p)
        BY <1>1 DEF n
      <4>. QED  BY <4>1, SuffixFacts
    <3>. HIDE DEF e, c, r
    <3>6. /\ i \in 1 .. Len(s) /\ i + Len(e) = off[k] + 1 /\ i + Len(e) - 1 <= Len(s)
          /\ i \in 1 .. Len(s) + 1
      <4>. DEFINE a == off[k - 1]  b == off[k]  l == Len(e)  m == Len(s)
      <4>1. a \in Nat /\ b \in Nat /\ l \in Nat /\ l >= 1 /\ m \in Nat /\ b = a + l /\ b <= m
        BY <1>5, <3>2, <3>3
      <4>. HIDE DEF a, b, l, m
      <4>2. /\ a + 1 \in 1 .. m /\ a + 1 + l = b + 1 /\ a + 1 + l - 1 <= m
            /\ a + 1 \in 1 .. m + 1
        BY ONLY <4>1
      <4>. QED  BY <4>2 DEF a, b, l, m
    <3>7. \A j \in 1 .. Len(e) : s[i + j - 1] = e[j]
      <4>1. \A j \in 1 .. Len(e) : i + j - 1 = off[k - 1] + j
        BY <3>2, <3>3
      <4>. QED  BY <3>3, <4>1
    <3>8. BytesAt(s, f, i) = <<c>> \o r
      <4>1. f[i + Len(e)] = r
        BY <3>4, <3>6
      <4>. HIDE DEF i
      <4>. QED  BY <1>5, <3>1, <3>5, <3>6, <3>7, <4>1, DecodeOne DEF e
    <3>9. f[i] = <<c>> \o r
      BY <1>8, <3>6, <3>8
    <3>10. <<c>> \o r = Suffix(p, n - k + 1)
      BY SuffixLonger DEF c, r, n
    <3>. QED  BY <3>1, <3>9, <3>10
  <2>. HIDE DEF T
  <2>. QED  BY <1>1, <2>1, <2>2, Descent
<1>10. f[1] = p
  <2>1. 0 \in 0 .. n /\ n - 0 = n
    BY <1>1
  <2>2. 0 \in T
    <3>. HIDE DEF T
    <3>. QED  BY <1>9, <2>1
  <2>3. f[off[0] + 1] = Suffix(p, n)
    BY <2>1, <2>2
  <2>4. Suffix(p, n) = p
    BY WholeSuffix DEF n
  <2>. QED  BY <1>7, <2>3, <2>4
<1>11. ASSUME ~Path!Has(Path!NUL, p)
       PROVE  Path!DecodeName(s) = p
  <2>1. p # Path!Error
    BY ErrorIsNoText
  <2>2. Path!CString(p) = p
    BY <1>11 DEF Path!CString, Path!Before
  <2>. QED  BY <1>10, <2>1, <2>2, DecodeIs DEF f
<1>. QED  BY <1>4, <1>5, <1>11 DEF s

\* Nothing in such a text ends a path, a field or a name of a query.
LEMMA SafeLacks ==
    ASSUME NEW s \in Seq(SafeLetters)
    PROVE  Lacks("?", s) /\ Lacks("&", s) /\ Lacks("=", s)
BY DEF Lacks, SafeLetters

\* The Download link.
LEMMA FileLinkReaches ==
    ASSUME NEW p \in Seq(Letters), ~Path!Has(Path!NUL, p), Path!ValidateRelativePath(p)
    PROVE  Path!FileTarget(Path!FileLink(p)) =
              IF Len(Path!FileLink(p)) < PathMax THEN p ELSE Path!Error
<1>. DEFINE e == Path!EncodeURIComponent(p)  h == <<Path!FilesPrefix>>  t == h \o e
<1>1. e \in Seq(SafeLetters) /\ e \in Seq(Letters) /\ Path!DecodeName(e) = p
  BY DecodesEncoding
<1>2. Path!FileLink(p) = t
  BY DEF Path!FileLink
<1>3. h \in Seq(SafeLetters) /\ Len(h) = 1 /\ h[1] = Path!FilesPrefix
  BY DEF Path!FilesPrefix, SafeLetters, Letters
<1>. HIDE DEF e, h
<1>4. /\ t \in Seq(SafeLetters) /\ Len(t) = 1 + Len(e) /\ t[1] = Path!FilesPrefix
      /\ \A i \in 1 .. Len(e) : t[1 + i] = e[i]
  <2>1. h \in Seq(SafeLetters) /\ e \in Seq(SafeLetters)
    BY <1>1, <1>3
  <2>2. /\ t \in Seq(SafeLetters) /\ Len(t) = Len(h) + Len(e)
        /\ \A i \in 1 .. Len(h) : t[i] = h[i]
        /\ \A i \in 1 .. Len(e) : t[Len(h) + i] = e[i]
    BY ONLY <2>1, Concat
  <2>. HIDE DEF t
  <2>. QED  BY <1>3, <2>2
<1>. HIDE DEF t
<1>5. Path!TargetPath(t) = t
  <2>1. ~Path!Has("?", t)
    BY <1>4, SafeLacks, HasOrLacks
  <2>. QED  BY <2>1 DEF Path!TargetPath, Path!Before
<1>6. t # <<>> /\ Tail(t) = e
  <2>1. Len(t) \in Nat /\ Len(e) \in Nat
    BY <1>1, <1>4
  <2>2. t # <<>>
    BY <1>4, <2>1
  <2>3. /\ Tail(t) \in Seq(SafeLetters) /\ Len(Tail(t)) = Len(t) - 1
        /\ \A i \in 1 .. Len(t) - 1 : Tail(t)[i] = t[i + 1]
    BY <1>4, <2>2
  <2>4. Len(Tail(t)) = Len(e) /\ \A i \in 1 .. Len(e) : Tail(t)[i] = e[i]
    BY <1>4, <2>1, <2>3
  <2>. QED  BY <1>1, <2>2, <2>3, <2>4, SeqEqual
<1>7. p # Path!Error
  BY ErrorIsNoText
<1>8. Len(t) >= PathMax <=> ~(Len(t) < PathMax)
  <2>1. Len(t) \in Nat
    BY <1>4
  <2>. QED  BY <2>1, PathAssumption
<1>9. Path!FileTarget(t) = IF Len(t) < PathMax THEN p ELSE Path!Error
  BY <1>1, <1>4, <1>5, <1>6, <1>7, <1>8 DEF Path!FileTarget
<1>. QED  BY <1>2, <1>9

\* The Open link of a directory.
LEMMA DirLinkReaches ==
    ASSUME NEW p \in Seq(Letters), ~Path!Has(Path!NUL, p), Path!ValidateRelativePath(p)
    PROVE  Path!DirTarget(Path!DirLink(p)) =
              IF Len(Path!DirLink(p)) < PathMax THEN p ELSE Path!Error
<1>. DEFINE e == Path!EncodeURIComponent(p)  h == <<Path!FilesPath>>  k == <<"path">>
            q == k \o <<"=">> \o e  t == h \o <<"?">> \o q
<1>1. e \in Seq(SafeLetters) /\ e \in Seq(Letters) /\ Path!DecodeName(e) = p
  BY DecodesEncoding
<1>2. h \in Seq(Letters) /\ k \in Seq(Letters) /\ "=" \in Letters /\ "?" \in Letters
      /\ Lacks("?", h) /\ Lacks("=", k) /\ Lacks("&", k)
  BY DEF Path!FilesPath, Letters, Lacks
<1>3. /\ q \in Seq(Letters) /\ Path!Before("=", q) = k /\ Path!After("=", q) = e
      /\ Len(q) = Len(k) + 1 + Len(e)
  <2>1. k \in Seq(Letters) /\ e \in Seq(Letters) /\ "=" \in Letters /\ Lacks("=", k)
    BY <1>1, <1>2
  <2>. HIDE DEF k, e
  <2>. QED  BY ONLY <2>1, CutAt
<1>4. Lacks("&", q)
  <2>1. /\ Len(q) = Len(k) + 1 + Len(e) /\ q[Len(k) + 1] = "="
        /\ \A i \in 1 .. Len(k) : q[i] = k[i]
        /\ \A i \in 1 .. Len(e) : q[Len(k) + 1 + i] = e[i]
    <3>1. k \in Seq(Letters) /\ e \in Seq(Letters) /\ "=" \in Letters
      BY <1>1, <1>2
    <3>. HIDE DEF k, e
    <3>. QED  BY ONLY <3>1, Between
  <2>2. Lacks("&", e)
    BY <1>1, SafeLacks
  <2>. HIDE DEF q, k, e
  <2>3. Len(k) \in Nat /\ Len(e) \in Nat
    BY <1>1, <1>2
  <2>4. ASSUME NEW i \in 1 .. Len(q)
        PROVE  q[i] # "&"
    <3>1. CASE i <= Len(k)
      BY <1>2, <2>1, <2>3, <3>1 DEF Lacks
    <3>2. CASE i = Len(k) + 1
      BY <2>1, <3>2
    <3>3. CASE i > Len(k) + 1
      <4>1. i - Len(k) - 1 \in 1 .. Len(e) /\ Len(k) + 1 + (i - Len(k) - 1) = i
        BY <2>1, <2>3, <3>3
      <4>2. q[i] = e[i - Len(k) - 1]
        BY <2>1, <4>1
      <4>. QED  BY <2>2, <4>1, <4>2 DEF Lacks
    <3>. QED  BY <2>3, <3>1, <3>2, <3>3
  <2>. QED  BY <2>4 DEF Lacks
<1>5. /\ t \in Seq(Letters) /\ Path!Before("?", t) = h /\ Path!After("?", t) = q
  <2>1. h \in Seq(Letters) /\ q \in Seq(Letters) /\ "?" \in Letters /\ Lacks("?", h)
    BY <1>2, <1>3
  <2>. HIDE DEF h, q
  <2>. QED  BY ONLY <2>1, CutAt
<1>6. Path!DirLink(p) = t
  <2>1. h \o <<"?">> \o (k \o <<"=">> \o e) = <<Path!FilesPath, "?", "path", "=">> \o e
    <3>. DEFINE x == h \o <<"?">>  y == k \o <<"=">>
    <3>1. x \in Seq(Letters) /\ y \in Seq(Letters) /\ e \in Seq(Letters)
      <4>1. <<"?">> \in Seq(Letters) /\ <<"=">> \in Seq(Letters)
        BY <1>2
      <4>. HIDE DEF e, h, k
      <4>. QED  BY <1>1, <1>2, <4>1, Concat
    <3>2. x \o (y \o e) = (x \o y) \o e
      <4>. HIDE DEF x, y, e
      <4>. QED  BY SMTT(40), <3>1, ConcatAssociative
    <3>3. x \o y = <<Path!FilesPath, "?", "path", "=">>
      <4>. DEFINE w == x \o y  v == <<Path!FilesPath, "?", "path", "=">>
      <4>1. /\ Len(x) = 2 /\ x[1] = Path!FilesPath /\ x[2] = "?"
            /\ Len(y) = 2 /\ y[1] = "path" /\ y[2] = "="
        OBVIOUS
      <4>2. /\ v \in Seq(Letters) /\ Len(v) = 4 /\ v[1] = Path!FilesPath /\ v[2] = "?"
            /\ v[3] = "path" /\ v[4] = "="
        BY DEF Path!FilesPath, Letters
      <4>. HIDE DEF x, y, v
      <4>3. /\ w \in Seq(Letters) /\ Len(w) = Len(x) + Len(y)
            /\ \A i \in 1 .. Len(x) : w[i] = x[i]
            /\ \A i \in 1 .. Len(y) : w[Len(x) + i] = y[i]
        BY <3>1, Concat
      <4>. HIDE DEF w
      <4>4. Len(w) = 4 /\ w[1] = x[1] /\ w[2] = x[2] /\ w[2 + 1] = y[1] /\ w[2 + 2] = y[2]
        BY <4>1, <4>3
      <4>5. \A i \in 1 .. 4 : w[i] = v[i]
        BY <4>1, <4>2, <4>4
      <4>6. w = v
        BY <4>2, <4>3, <4>4, <4>5, SeqEqual
      <4>. QED  BY <4>6 DEF w, v
    <3>. QED  BY <3>2, <3>3
  <2>. QED  BY <2>1 DEF Path!DirLink
<1>7. Path!QueryValue(q) = e
  <2>1. Len(q) # 0
    <3>1. Len(k) \in Nat /\ Len(e) \in Nat
      BY <1>1, <1>2
    <3>. HIDE DEF q, k, e
    <3>. QED  BY <1>3, <3>1
  <2>. HIDE DEF q, k, e
  <2>2. Path!QueryValue(q) = ValueAt(q, ValueFn(q), Len(q))
    BY <1>3, ValueIs
  <2>3. Suffix(q, Len(q)) = q
    BY <1>3, WholeSuffix
  <2>4. Path!Before("&", q) = q
    BY <1>3, <1>4, HasOrLacks DEF Path!Before
  <2>. QED  BY <1>3, <2>1, <2>2, <2>3, <2>4 DEF ValueAt, k
<1>. HIDE DEF e, h, k, q, t
<1>8. p # Path!Error /\ e # Path!Error
  BY <1>1, ErrorIsNoText
<1>9. Len(t) >= PathMax <=> ~(Len(t) < PathMax)
  <2>1. Len(t) \in Nat
    BY <1>5
  <2>. QED  BY <2>1, PathAssumption
<1>10. Path!TargetPath(t) = <<Path!FilesPath>> /\ Path!TargetQuery(t) = q
  BY <1>5 DEF Path!TargetPath, Path!TargetQuery, h
<1>11. Path!DirTarget(t) = IF Len(t) < PathMax THEN p ELSE Path!Error
  BY <1>1, <1>7, <1>8, <1>9, <1>10 DEF Path!DirTarget
<1>. QED  BY <1>6, <1>11

\* Whatever the path, its links reach the entry.
LEMMA ReachesOf == PathInv => LinkReachesEntry
<1>. SUFFICES ASSUME PathInv PROVE Path!LinkReachesEntry /\ Path!NativeNamesAreServed
  BY DEF LinkReachesEntry
<1>0. path \in Seq(Letters)
  BY DEF PathInv
<1>1. Path!LinkReachesEntry
  <2>. SUFFICES ASSUME Path!Listed(path)
                PROVE  /\ Path!FileTarget(Path!FileLink(path)) =
                            IF Len(Path!FileLink(path)) < PathMax THEN path ELSE Path!Error
                       /\ Path!DirTarget(Path!DirLink(path)) =
                            IF Len(Path!DirLink(path)) < PathMax THEN path ELSE Path!Error
    BY DEF Path!LinkReachesEntry
  <2>1. ~Path!Has("\\", path) /\ ~Path!Has(Path!NUL, path) /\ Path!Walk(path) = Path!Segments(path)
    BY DEF Path!Listed
  <2>2. Plain(Path!Segments(path))
    BY <1>0, <2>1, ListedIsPlain, LettersFacts
  <2>3. Path!ValidateRelativePath(path)
    BY <1>0, <2>1, <2>2, PlainIsOkay, LettersFacts, ValidateIs
  <2>. QED  BY <1>0, <2>1, <2>3, FileLinkReaches, DirLinkReaches
<1>2. Path!NativeNamesAreServed
  <2>. SUFFICES ASSUME Path!ValidateFileName(path), path # <<".">>
                PROVE  Path!ValidateRelativePath(path) /\ Path!Walk(path) = <<path>>
    BY DEF Path!NativeNamesAreServed
  <2>1. /\ path # <<>> /\ ~Path!Has("/", path) /\ ~Path!Has("\\", path)
        /\ ~\E i \in 1 .. Len(path) - 1 : path[i] = "." /\ path[i + 1] = "."
    BY DEF Path!ValidateFileName
  <2>2. path # <<".", ".">>
    <3>. SUFFICES ASSUME path = <<".", ".">> PROVE FALSE
      OBVIOUS
    <3>1. 1 \in 1 .. Len(path) - 1 /\ path[1] = "." /\ path[1 + 1] = "."
      OBVIOUS
    <3>. QED  BY <2>1, <3>1
  <2>3. path \notin BadSegments
    BY <2>1, <2>2 DEF BadSegments
  <2>4. Path!Segments(path) = <<path>>
    <3>1. Lacks("/", path)
      BY <1>0, <2>1, HasOrLacks
    <3>. QED  BY <1>0, <3>1, OneSegment
  <2>5. Plain(<<path>>)
    BY <2>3, PlainOne
  <2>6. Path!ValidateRelativePath(path)
    BY <1>0, <2>1, <2>4, <2>5, PlainIsOkay, LettersFacts, ValidateIs
  <2>7. Path!Walk(path) = <<path>>
    <3>. DEFINE z == <<path>>
    <3>1. z \in Seq(Seq(Letters)) /\ Plain(z) /\ Path!Segments(path) \in {z, z \o <<<<>>>>}
      BY <1>0, <2>4, <2>5
    <3>. HIDE DEF z
    <3>2. Path!Walk(path) = z
      BY <1>0, <3>1, PlainPath, LettersFacts
    <3>. QED  BY <3>2 DEF z
  <2>. QED  BY <2>6, <2>7
<1>. QED  BY <1>1, <1>2

\* A link of the page leads to the entry it stands for, however long its path is
\* and whatever characters are in it: encodeURIComponent, http_query_get_value
\* and http_decode_name give the path back, or the request is refused as too
\* long; and a name that fs_validate_file_name accepts from a native client is
\* one plain segment for the HTTP side.
THEOREM LinkReachesEntryHolds == InputSpec => []LinkReachesEntry
BY ReachesOf, PathInvariant, PTL

-----------------------------------------------------------------------------
(* MessageText: the parser of strings. *)

\* The two instances of FlattenSeq are one operator.
LEMMA SameFlatten ==
    ASSUME NEW E
    PROVE  Message!FlattenSeq(E) = Path!FlattenSeq(E)
BY DEF Message!FlattenSeq, Path!FlattenSeq

\* Everything a text, a body or an event is made of.
Tokens ==
    {"a", "SPACE", "/", "QUOTE", "BACKSLASH", "LF", "CR", "TAB", "BS", "FF", "VT", "CTL", "NUL",
     "NBSP", "EMO", "LONE", "END", "{", "}", ":", "message", "n", "r", "t", "b", "f", "u",
     "0000", "0001", "000B", "00A0", "0061", "D83D", "DE00", "event: message", "data: "}

\* The characters of a text.
LEMMA CharsAre ==
    /\ Message!Chars =
         {"a", "SPACE", "/", "QUOTE", "BACKSLASH", "LF", "CR", "TAB", "BS", "FF", "VT", "CTL",
          "NUL", "NBSP", "EMO", "LONE"}
    /\ Message!Chars \subseteq Tokens
<1>1. Message!Chars =
         {"a", "SPACE", "/", "QUOTE", "BACKSLASH", "LF", "CR", "TAB", "BS", "FF", "VT", "CTL",
          "NUL", "NBSP", "EMO", "LONE"}
  BY DEF Message!Chars, Message!Quote, Message!BSlash, Message!LF, Message!CR, Message!Tab,
         Message!Bs, Message!Ff, Message!VTab, Message!Ctl, Message!Nul, Message!Nbsp,
         Message!Emo, Message!Lone
<1>. QED  BY <1>1 DEF Tokens

\* One character of a JSON string.
ReadAt(s, p) ==
    IF s[p] = Message!BSlash THEN Message!Unescape(s, p)
    ELSE [ok |-> TRUE, char |-> s[p], next |-> p + 1]

\* What http_json_parse_string says of position p, if f is the function.
ParseAt(s, f, p) ==
    IF p > Len(s) THEN Message!Failed
    ELSE IF s[p] = Message!Quote THEN [ok |-> TRUE, val |-> <<>>, next |-> p + 1]
    ELSE LET e == ReadAt(s, p)
         IN IF ~e.ok \/ ~f[e.next].ok THEN Message!Failed
            ELSE [ok |-> TRUE, val |-> <<e.char>> \o f[e.next].val, next |-> f[e.next].next]

ParseFn(s, start) == CHOOSE f : f = [p \in start .. Len(s) + 6 |-> ParseAt(s, f, p)]

\* http_json_parse_string is that function at the start.
LEMMA ParseStringIs ==
    ASSUME NEW s, NEW start
    PROVE  Message!ParseString(s, start) = ParseFn(s, start)[start]
BY DEF Message!ParseString, ParseFn, ParseAt, ReadAt

Results == {Message!Failed} \cup [ok : {TRUE}, val : Seq(Tokens), next : Int]

\* A result has a text and a position, or is the failure.
LEMMA ResultFacts ==
    ASSUME NEW x \in Results
    PROVE  /\ x.ok \in BOOLEAN /\ (x.ok => x.val \in Seq(Tokens) /\ x.next \in Int)
           /\ ~x.ok => x = Message!Failed
<1>1. CASE x = [ok |-> FALSE]
  <2>1. x.ok = FALSE
    BY <1>1
  <2>. QED  BY <1>1, <2>1 DEF Message!Failed
<1>2. CASE x \in [ok : {TRUE}, val : Seq(Tokens), next : Int]
  <2>1. x.ok = TRUE /\ x.val \in Seq(Tokens) /\ x.next \in Int
    BY <1>2
  <2>. QED  BY <2>1
<1>. QED  BY <1>1, <1>2 DEF Results, Message!Failed

\* What an escape is read as.
Read(c, n) == [ok |-> TRUE, char |-> c, next |-> n]

\* The fields of what was read.
LEMMA ReadFacts ==
    ASSUME NEW c, NEW n
    PROVE  Read(c, n).ok = TRUE /\ Read(c, n).char = c /\ Read(c, n).next = n
BY DEF Read

Peek(s, p, k) == IF p + k <= Len(s) THEN s[p + k] ELSE "END"

\* The code units that are characters of their own.
Hexes == {"0000", "0001", "000B", "00A0", "0061"}

\* The escapes that are read, by the characters behind the backslash.
LEMMA UnescapeIs ==
    ASSUME NEW s, NEW p
    PROVE  Message!Unescape(s, p) =
             CASE Peek(s, p, 1) \in {"QUOTE", "BACKSLASH", "/"} -> Read(Peek(s, p, 1), p + 2)
               [] Peek(s, p, 1) = "n" -> Read("LF", p + 2)
               [] Peek(s, p, 1) = "r" -> Read("CR", p + 2)
               [] Peek(s, p, 1) = "t" -> Read("TAB", p + 2)
               [] Peek(s, p, 1) = "b" -> Read("BS", p + 2)
               [] Peek(s, p, 1) = "f" -> Read("FF", p + 2)
               [] Peek(s, p, 1) = "u" /\ Peek(s, p, 2) \in Hexes ->
                    Read(Message!CodePoint(Peek(s, p, 2)), p + 3)
               [] /\ Peek(s, p, 1) = "u" /\ Peek(s, p, 2) = "D83D"
                  /\ Peek(s, p, 3) = "BACKSLASH" /\ Peek(s, p, 4) = "u"
                  /\ Peek(s, p, 5) = "DE00" -> Read("EMO", p + 6)
               [] OTHER -> Message!Failed
BY DEF Message!Unescape, Peek, Read, Hexes, Message!Quote, Message!BSlash, Message!LF,
       Message!CR, Message!Tab, Message!Bs, Message!Ff, Message!Emo

\* What a code unit stands for.
LEMMA CodePointIs ==
    /\ Message!CodePoint("0000") = "NUL" /\ Message!CodePoint("0001") = "CTL"
    /\ Message!CodePoint("000B") = "VT" /\ Message!CodePoint("00A0") = "NBSP"
    /\ Message!CodePoint("0061") = "a"
BY DEF Message!CodePoint, Message!Nul, Message!Ctl, Message!VTab, Message!Nbsp

\* A character of the string is read and the position moves on, or the parser
\* fails.
LEMMA ReadType ==
    ASSUME NEW s \in Seq(Tokens), NEW p \in Int, p >= 1, p <= Len(s)
    PROVE  \/ ReadAt(s, p) = Message!Failed
           \/ \E c \in Tokens : \E n \in p + 1 .. Len(s) + 6 : ReadAt(s, p) = Read(c, n)
<1>0. Len(s) \in Nat /\ s[p] \in Tokens
  OBVIOUS
<1>1. CASE s[p] # Message!BSlash
  <2>1. ReadAt(s, p) = Read(s[p], p + 1) /\ p + 1 \in p + 1 .. Len(s) + 6
    BY <1>0, <1>1 DEF ReadAt, Read
  <2>. QED  BY <1>0, <2>1
<1>2. CASE s[p] = Message!BSlash
  <2>. DEFINE a == Peek(s, p, 1)  b == Peek(s, p, 2)  u == Message!Unescape(s, p)
  <2>1. ReadAt(s, p) = u
    BY <1>2 DEF ReadAt
  <2>2. p + 2 \in p + 1 .. Len(s) + 6 /\ p + 3 \in p + 1 .. Len(s) + 6 /\ p + 6 \in p + 1 .. Len(s) + 6
    BY <1>0
  <2>3. b \in Hexes => Message!CodePoint(b) \in Tokens
    <3>1. \A c \in {"NUL", "CTL", "VT", "NBSP", "a"} : c \in Tokens
      BY ONLY Zenon DEF Tokens
    <3>. HIDE DEF b
    <3>. QED  BY <3>1, CodePointIs DEF Hexes
  <2>4. \/ u = Message!Failed
        \/ a \in {"QUOTE", "BACKSLASH", "/"} /\ u = Read(a, p + 2)
        \/ \E c \in {"LF", "CR", "TAB", "BS", "FF"} : u = Read(c, p + 2)
        \/ u = Read("EMO", p + 6)
        \/ b \in Hexes /\ u = Read(Message!CodePoint(b), p + 3)
    BY UnescapeIs
  <2>. HIDE DEF a, b, u
  <2>5. \A c, n : c \in Tokens /\ n \in {p + 2, p + 3, p + 6} /\ u = Read(c, n) =>
           \E d \in Tokens : \E m \in p + 1 .. Len(s) + 6 : ReadAt(s, p) = Read(d, m)
    BY <2>1, <2>2
  <2>6. \A c \in {"LF", "CR", "TAB", "BS", "FF", "EMO", "QUOTE", "BACKSLASH", "/"} : c \in Tokens
    BY ONLY Zenon DEF Tokens
  <2>. QED  BY <2>1, <2>3, <2>4, <2>5, <2>6
<1>. QED  BY <1>1, <1>2

\* The parser has a result at p, if it has one further on.
LEMMA ParseStep ==
    ASSUME NEW s \in Seq(Tokens), NEW p \in Nat, p >= 1, NEW f,
           \A j \in p + 1 .. Len(s) + 6 : f[j] \in Results
    PROVE  ParseAt(s, f, p) \in Results
<1>0. Len(s) \in Nat /\ Message!Failed \in Results
  BY DEF Results
<1>1. CASE p > Len(s)
  BY <1>0, <1>1 DEF ParseAt
<1>2. CASE p <= Len(s) /\ s[p] = Message!Quote
  <2>1. ParseAt(s, f, p) = [ok |-> TRUE, val |-> <<>>, next |-> p + 1]
    BY <1>0, <1>2 DEF ParseAt
  <2>. QED  BY <2>1, EmptySeq DEF Results
<1>3. CASE p <= Len(s) /\ s[p] # Message!Quote
  <2>. DEFINE e == ReadAt(s, p)
  <2>1. ParseAt(s, f, p) = IF ~e.ok \/ ~f[e.next].ok THEN Message!Failed
            ELSE [ok |-> TRUE, val |-> <<e.char>> \o f[e.next].val, next |-> f[e.next].next]
    BY <1>0, <1>3 DEF ParseAt
  <2>2. e = Message!Failed \/ \E c \in Tokens : \E n \in p + 1 .. Len(s) + 6 : e = Read(c, n)
    <3>1. p \in Int /\ p >= 1 /\ p <= Len(s) /\ s \in Seq(Tokens)
      BY <1>3
    <3>. QED  BY ONLY <3>1, ReadType
  <2>. HIDE DEF e
  <2>3. CASE e = Message!Failed
    <3>1. ~e.ok
      BY <2>3 DEF Message!Failed
    <3>. QED  BY <1>0, <2>1, <3>1
  <2>4. ASSUME NEW c \in Tokens, NEW n \in p + 1 .. Len(s) + 6, e = Read(c, n)
        PROVE  ParseAt(s, f, p) \in Results
    <3>1. e.ok = TRUE /\ e.char = c /\ e.next = n
      BY ZenonT(60), <2>4, ReadFacts
    <3>2. f[n] \in Results
      OBVIOUS
    <3>. DEFINE x == f[n]
    <3>3. ParseAt(s, f, p) = IF ~x.ok THEN Message!Failed
            ELSE [ok |-> TRUE, val |-> <<c>> \o x.val, next |-> x.next]
      BY <2>1, <3>1
    <3>. HIDE DEF x
    <3>4. x.ok \in BOOLEAN /\ (x.ok => x.val \in Seq(Tokens) /\ x.next \in Int)
      BY <3>2, ResultFacts DEF x
    <3>5. CASE ~x.ok
      BY <1>0, <3>3, <3>5
    <3>6. CASE x.ok
      <4>1. <<c>> \o x.val \in Seq(Tokens) /\ x.next \in Int
        BY <3>4, <3>6
      <4>2. ParseAt(s, f, p) = [ok |-> TRUE, val |-> <<c>> \o x.val, next |-> x.next]
        BY <3>3, <3>6
      <4>. QED  BY <4>1, <4>2 DEF Results
    <3>. QED  BY <3>4, <3>5, <3>6
  <2>. QED  BY <2>2, <2>3, <2>4
<1>. QED  BY <1>0, <1>1, <1>2, <1>3

\* The recursive function of http_json_parse_string exists.
LEMMA ParseIs ==
    ASSUME NEW s \in Seq(Tokens), NEW start \in Nat, start >= 1, start <= Len(s) + 6
    PROVE  \A p \in start .. Len(s) + 6 :
              ParseFn(s, start)[p] = ParseAt(s, ParseFn(s, start), p)
<1>. DEFINE M == Len(s) + 6  S == start .. M  A == Results
            mu == [p \in S |-> M - p]
            G == [p \in S |-> [f \in [S -> A] |-> ParseAt(s, f, p)]]
<1>1. A # {} /\ M \in Nat /\ mu \in [S -> 0 .. M]
  <2>1. A # {}
    BY DEF Results
  <2>2. M \in Nat /\ mu \in [S -> 0 .. M]
    OBVIOUS
  <2>. QED  BY <2>1, <2>2
<1>. HIDE DEF A
<1>2. G \in [S -> [[S -> A] -> A]]
  <2>1. ASSUME NEW p \in S, NEW f \in [S -> A]
        PROVE  ParseAt(s, f, p) \in A
    <3>1. p \in Nat /\ p >= 1 /\ \A j \in p + 1 .. Len(s) + 6 : j \in S
      OBVIOUS
    <3>2. \A j \in p + 1 .. Len(s) + 6 : f[j] \in Results
      <4>. HIDE DEF S
      <4>. QED  BY <3>1 DEF A
    <3>. HIDE DEF S
    <3>. QED  BY <3>1, <3>2, ParseStep DEF A
  <2>. HIDE DEF S
  <2>. QED  BY <2>1
<1>3. ASSUME NEW p \in S, NEW g, NEW h, \A j \in S : j > p => g[j] = h[j]
      PROVE  ParseAt(s, g, p) = ParseAt(s, h, p)
  <2>0. Len(s) \in Nat /\ p \in Int /\ p >= 1
    OBVIOUS
  <2>1. CASE p > Len(s) \/ s[p] = Message!Quote
    BY <2>1 DEF ParseAt
  <2>2. CASE ~(p > Len(s)) /\ s[p] # Message!Quote
    <3>. DEFINE e == ReadAt(s, p)
    <3>1. p <= Len(s)
      BY <2>0, <2>2
    <3>2. e = Message!Failed \/ \E c \in Tokens : \E n \in p + 1 .. Len(s) + 6 : e = Read(c, n)
      <4>1. s \in Seq(Tokens) /\ p \in Int /\ p >= 1 /\ p <= Len(s)
        BY <2>0, <3>1
      <4>. QED  BY ONLY <4>1, ReadType
    <3>3. CASE e = Message!Failed
      <4>1. ~e.ok
        <5>1. ~[ok |-> FALSE].ok
          OBVIOUS
        <5>. HIDE DEF e
        <5>. QED  BY <3>3, <5>1 DEF Message!Failed
      <4>. QED  BY <2>2, <4>1 DEF ParseAt
    <3>4. ASSUME NEW c \in Tokens, NEW n \in p + 1 .. Len(s) + 6, e = Read(c, n)
          PROVE  ParseAt(s, g, p) = ParseAt(s, h, p)
      <4>1. e.next = n
        <5>. HIDE DEF e
        <5>. QED  BY ZenonT(60), <3>4, ReadFacts
      <4>2. n \in S /\ n > p
        OBVIOUS
      <4>3. g[e.next] = h[e.next]
        <5>. HIDE DEF e, S
        <5>. QED  BY <1>3, <4>1, <4>2
      <4>. QED  BY <2>2, <4>3 DEF ParseAt
    <3>. HIDE DEF e
    <3>. QED  BY <3>2, <3>3, <3>4
  <2>. QED  BY <2>1, <2>2
<1>4. ASSUME NEW p \in S, NEW g \in [S -> A], NEW h \in [S -> A],
             \A y \in S : mu[y] < mu[p] => g[y] = h[y]
      PROVE  G[p][g] = G[p][h]
  <2>1. \A j \in S : j > p => mu[j] < mu[p]
    BY <1>1
  <2>2. ParseAt(s, g, p) = ParseAt(s, h, p)
    <3>. HIDE DEF S, mu
    <3>. QED  BY <1>3, <1>4, <2>1
  <2>. QED  BY <2>2
<1>5. Recursive(S, A, M, mu, G)
  <2>. HIDE DEF S, M, mu, G
  <2>. QED  BY <1>1, <1>2, <1>4 DEF Recursive
<1>6. PICK g \in [S -> A] : \A p \in S : g[p] = G[p][g]
  <2>. HIDE DEF S, M, mu, G
  <2>. QED  BY <1>5, Recursion
<1>7. g = [p \in S |-> ParseAt(s, g, p)]
  BY <1>6
<1>8. ParseFn(s, start) = [p \in S |-> ParseAt(s, ParseFn(s, start), p)]
  <2>. DEFINE Eq(f) == f = [p \in S |-> ParseAt(s, f, p)]
  <2>1. Eq(g) /\ ParseFn(s, start) = CHOOSE f : Eq(f)
    BY <1>7 DEF ParseFn
  <2>2. Eq(ParseFn(s, start))
    <3>. HIDE DEF Eq
    <3>. QED  BY <2>1
  <2>. QED  BY <2>2
<1>. QED  BY <1>8

\* What the clients write for a character.
Code(c, ascii) == IF ascii THEN Message!Ascii(c) ELSE Message!Stringify(c)

\* The characters that JSON does not allow in a string, and what is left.
Raw == {"LF", "CR", "TAB", "BS", "FF", "VT", "CTL", "NUL"}
Printable == Tokens \ Raw

\* Characters that stand for themselves, those with a short escape, and those that
\* are written as a code unit.
Alone == {"a", "SPACE", "/", "NBSP", "EMO"}
ShortOf(c, x) ==
    \/ c \in {"QUOTE", "BACKSLASH", "/"} /\ x = c
    \/ c = "LF" /\ x = "n"
    \/ c = "CR" /\ x = "r"
    \/ c = "TAB" /\ x = "t"
    \/ c = "BS" /\ x = "b"
    \/ c = "FF" /\ x = "f"
HexOf(c, x) ==
    \/ c = "NUL" /\ x = "0000"
    \/ c = "CTL" /\ x = "0001"
    \/ c = "VT" /\ x = "000B"
    \/ c = "NBSP" /\ x = "00A0"

\* The codes: the character itself, or a backslash and what follows it.
CodeOf(c, e) ==
    \/ c \in Alone /\ e = <<c>>
    \/ \E x : ShortOf(c, x) /\ e = <<"BACKSLASH", x>>
    \/ \E x : HexOf(c, x) /\ e = <<"BACKSLASH", "u", x>>
    \/ c = "EMO" /\ e = <<"BACKSLASH", "u", "D83D", "BACKSLASH", "u", "DE00">>

\* Half of a surrogate pair has a code that stands for nothing.
LoneCode == <<"BACKSLASH", "u", "DE00">>
Spells(c, e) == IF c = "LONE" THEN e = LoneCode ELSE CodeOf(c, e)

\* Both clients write these codes.
LEMMA CodeIs ==
    ASSUME NEW c \in Message!Chars, NEW ascii \in BOOLEAN
    PROVE  Spells(c, Code(c, ascii))
<1>. USE DEF Message!Quote, Message!BSlash, Message!LF, Message!CR, Message!Tab, Message!Bs,
             Message!Ff, Message!VTab, Message!Ctl, Message!Nul, Message!Nbsp, Message!Emo,
             Message!Lone
<1>1. ASSUME c \in Alone
      PROVE  Message!Stringify(c) = <<c>>
  BY <1>1 DEF Alone, Message!Stringify
<1>2. ASSUME NEW x, ShortOf(c, x), c # "/"
      PROVE  Message!Stringify(c) = <<"BACKSLASH", x>>
  BY <1>2 DEF ShortOf, Message!Stringify
<1>3. ASSUME NEW x, HexOf(c, x), c # "NBSP"
      PROVE  Message!Stringify(c) = <<"BACKSLASH", "u", x>>
  BY <1>3 DEF HexOf, Message!Stringify
<1>4. c = "LONE" => Message!Stringify(c) = LoneCode
  BY DEF Message!Stringify, LoneCode
<1>5. \/ c \in Alone
      \/ c # "/" /\ \E x : ShortOf(c, x)
      \/ c # "NBSP" /\ \E x : HexOf(c, x)
      \/ c = "LONE"
  BY CharsAre DEF Alone, ShortOf, HexOf
<1>6. c = "LONE" => c \notin Alone /\ \A x : ~ShortOf(c, x) /\ ~HexOf(c, x)
  BY DEF Alone, ShortOf, HexOf
<1>7. Spells(c, Message!Stringify(c))
  <2>. HIDE DEF Alone, ShortOf, HexOf
  <2>. QED  BY <1>1, <1>2, <1>3, <1>4, <1>5, <1>6 DEF Spells, CodeOf
<1>8. Spells(c, Message!Ascii(c))
  <2>1. CASE c \notin {"EMO", "NBSP", "/"}
    BY <1>7, <2>1 DEF Message!Ascii
  <2>2. CASE c = "EMO"
    BY <2>2 DEF Message!Ascii, Spells, CodeOf
  <2>3. CASE c = "NBSP"
    BY <2>3 DEF Message!Ascii, Spells, CodeOf, HexOf
  <2>4. CASE c = "/"
    BY <2>4 DEF Message!Ascii, Spells, CodeOf, ShortOf
  <2>. QED  BY <2>1, <2>2, <2>3, <2>4
<1>. QED  BY <1>7, <1>8 DEF Code

\* A code is not empty and needs no escape.
LEMMA CodeType ==
    ASSUME NEW c, NEW e, CodeOf(c, e) \/ e = LoneCode
    PROVE  e \in Seq(Printable) /\ e \in Seq(Tokens) /\ Len(e) \in Nat /\ Len(e) >= 1
<1>0. /\ \A x \in {"a", "SPACE", "/", "NBSP", "EMO", "QUOTE", "BACKSLASH", "n", "r", "t", "b", "f",
                   "u", "0000", "0001", "000B", "00A0", "D83D", "DE00"} : x \in Printable
      /\ Printable \subseteq Tokens
  <2>1. \A x \in {"a", "SPACE", "/", "NBSP", "EMO", "QUOTE", "BACKSLASH", "n", "r", "t", "b", "f",
                 "u", "0000", "0001", "000B", "00A0", "D83D", "DE00"} : x \in Tokens
    BY ONLY Zenon DEF Tokens
  <2>2. \A x \in {"a", "SPACE", "/", "NBSP", "EMO", "QUOTE", "BACKSLASH", "n", "r", "t", "b", "f",
                 "u", "0000", "0001", "000B", "00A0", "D83D", "DE00"} : x \notin Raw
    BY ONLY DEF Raw
  <2>. QED  BY ONLY <2>1, <2>2 DEF Printable
<1>1. \A x, y, z, u, v, w \in Printable :
         /\ <<x>> \in Seq(Printable) /\ <<x, y>> \in Seq(Printable) /\ <<x, y, z>> \in Seq(Printable)
         /\ <<x, y, z, u, v, w>> \in Seq(Printable)
  OBVIOUS
<1>2. \A x, y, z, u, v, w : /\ Len(<<x>>) >= 1 /\ Len(<<x, y>>) >= 1 /\ Len(<<x, y, z>>) >= 1
                            /\ Len(<<x, y, z, u, v, w>>) >= 1
  OBVIOUS
<1>3. Len(e) >= 1
  BY <1>2 DEF CodeOf, LoneCode
<1>4. e \in Seq(Printable)
  <2>1. \A x \in Alone : <<x>> \in Seq(Printable)
    BY <1>0, <1>1 DEF Alone
  <2>2. \A x : ShortOf(c, x) => <<"BACKSLASH", x>> \in Seq(Printable)
    <3>1. \A x : ShortOf(c, x) => x \in Printable
      BY <1>0 DEF ShortOf
    <3>. QED  BY <1>0, <1>1, <3>1
  <2>3. \A x : HexOf(c, x) \/ x = "DE00" => <<"BACKSLASH", "u", x>> \in Seq(Printable)
    <3>1. \A x : HexOf(c, x) \/ x = "DE00" => x \in Printable
      BY <1>0 DEF HexOf
    <3>. QED  BY <1>0, <1>1, <3>1
  <2>4. <<"BACKSLASH", "u", "D83D", "BACKSLASH", "u", "DE00">> \in Seq(Printable)
    BY <1>0, <1>1
  <2>. QED  BY <2>1, <2>2, <2>3, <2>4, Zenon DEF CodeOf, LoneCode
<1>5. e \in Seq(Tokens)
  BY <1>0, <1>4
<1>. QED  BY <1>3, <1>4, <1>5

\* e stands at p, or as much of it as there is.
Stands(s, p, e) == \A j \in 1 .. Len(e) : p + j - 1 <= Len(s) => s[p + j - 1] = e[j]

\* What is read behind the start of a code is the code, as far as the text
\* goes.
LEMMA PeekIs ==
    ASSUME NEW s \in Seq(Tokens), NEW p \in Nat, NEW e \in Seq(Tokens), Stands(s, p, e),
           NEW k \in Nat, k + 1 <= Len(e)
    PROVE  Peek(s, p, k) = IF p + k <= Len(s) THEN e[k + 1] ELSE "END"
<1>1. k + 1 \in 1 .. Len(e) /\ p + (k + 1) - 1 = p + k
  OBVIOUS
<1>2. p + k <= Len(s) => s[p + k] = e[k + 1]
  BY <1>1 DEF Stands
<1>. QED  BY <1>2 DEF Peek

\* http_json_parse_string reads a code as the character it is for; of a code that
\* is cut it makes nothing.
LEMMA ReadOne ==
    ASSUME NEW s \in Seq(Tokens), NEW p \in Nat, p >= 1, p <= Len(s),
           NEW c, NEW e, CodeOf(c, e), Stands(s, p, e)
    PROVE  /\ s[p] # Message!Quote
           /\ ReadAt(s, p) = IF p + Len(e) - 1 <= Len(s) THEN Read(c, p + Len(e))
                             ELSE Message!Failed
<1>0. Len(s) \in Nat /\ e \in Seq(Tokens) /\ Len(e) \in Nat /\ Len(e) >= 1
  BY CodeType
<1>1. s[p] = e[1]
  <2>1. 1 \in 1 .. Len(e) /\ p + 1 - 1 = p
    BY <1>0
  <2>. QED  BY <2>1 DEF Stands
<1>2. \A k \in Nat : k + 1 <= Len(e) =>
         Peek(s, p, k) = IF p + k <= Len(s) THEN e[k + 1] ELSE "END"
  BY <1>0, PeekIs
<1>3. CASE c \in Alone /\ e = <<c>>
  <2>1. Len(e) = 1 /\ e[1] = c /\ c # "QUOTE" /\ c # "BACKSLASH"
    BY <1>3 DEF Alone
  <2>2. s[p] = c /\ p + 1 - 1 <= Len(s)
    BY <1>0, <1>1, <2>1
  <2>. QED  BY <2>1, <2>2 DEF ReadAt, Read, Message!BSlash, Message!Quote
<1>4. CASE e[1] = "BACKSLASH"
  <2>1. s[p] = Message!BSlash /\ s[p] # Message!Quote
    BY <1>1, <1>4 DEF Message!BSlash, Message!Quote
  <2>2. ReadAt(s, p) = Message!Unescape(s, p)
    BY <2>1 DEF ReadAt
  <2>3. ASSUME NEW x, ShortOf(c, x), e = <<"BACKSLASH", x>>
        PROVE  ReadAt(s, p) = IF p + Len(e) - 1 <= Len(s) THEN Read(c, p + Len(e))
                              ELSE Message!Failed
    <3>0. Len(e) = 2 /\ e[2] = x /\ p + 2 - 1 = p + 1
      BY <2>3
    <3>1. Peek(s, p, 1) = IF p + 1 <= Len(s) THEN x ELSE "END"
      BY <1>2, <3>0
    <3>2. CASE p + 1 <= Len(s)
      <4>1. Peek(s, p, 1) = x
        BY <3>1, <3>2
      <4>2. Message!Unescape(s, p) = Read(c, p + 2)
        BY <2>3, <4>1, UnescapeIs DEF ShortOf
      <4>. QED  BY <2>2, <3>0, <3>2, <4>2
    <3>3. CASE ~(p + 1 <= Len(s))
      <4>1. Peek(s, p, 1) = "END"
        BY <3>1, <3>3
      <4>2. Message!Unescape(s, p) = Message!Failed
        BY <4>1, UnescapeIs
      <4>. QED  BY <2>2, <3>0, <3>3, <4>2
    <3>. QED  BY <3>2, <3>3
  <2>4. ASSUME NEW x, HexOf(c, x), e = <<"BACKSLASH", "u", x>>
        PROVE  ReadAt(s, p) = IF p + Len(e) - 1 <= Len(s) THEN Read(c, p + Len(e))
                              ELSE Message!Failed
    <3>1. Len(e) = 3 /\ e[2] = "u" /\ e[3] = x /\ p + 3 - 1 = p + 2
      BY <2>4
    <3>2. /\ Peek(s, p, 1) = IF p + 1 <= Len(s) THEN "u" ELSE "END"
          /\ Peek(s, p, 2) = IF p + 2 <= Len(s) THEN x ELSE "END"
      <4>1. 1 \in Nat /\ 2 \in Nat /\ 1 + 1 = 2 /\ 2 + 1 = 3 /\ 2 <= 3 /\ 3 <= 3
        OBVIOUS
      <4>. QED  BY <1>2, <3>1, <4>1
    <3>3. x \in Hexes /\ Message!CodePoint(x) = c
      BY <2>4, CodePointIs DEF HexOf, Hexes
    <3>4. CASE p + 2 <= Len(s)
      <4>1. Peek(s, p, 1) = "u" /\ Peek(s, p, 2) = x
        BY <1>0, <3>2, <3>4
      <4>2. Message!Unescape(s, p) = Read(c, p + 3)
        <5>1. "u" \notin {"QUOTE", "BACKSLASH", "/", "n", "r", "t", "b", "f"} /\ x # "D83D"
          BY <3>3 DEF Hexes
        <5>2. Message!Unescape(s, p) = Read(Message!CodePoint(Peek(s, p, 2)), p + 3)
          BY <3>3, <4>1, <5>1, UnescapeIs
        <5>. QED  BY <3>3, <4>1, <5>2
      <4>. QED  BY <2>2, <3>1, <3>4, <4>2
    <3>5. CASE ~(p + 2 <= Len(s))
      <4>1. Peek(s, p, 1) \in {"u", "END"} /\ Peek(s, p, 2) = "END"
        BY <3>2, <3>5
      <4>2. Message!Unescape(s, p) = Message!Failed
        BY <4>1, UnescapeIs DEF Hexes
      <4>. QED  BY <2>2, <3>1, <3>5, <4>2
    <3>. QED  BY <3>4, <3>5
  <2>5. CASE c = "EMO" /\ e = <<"BACKSLASH", "u", "D83D", "BACKSLASH", "u", "DE00">>
    <3>1. /\ Len(e) = 6 /\ e[2] = "u" /\ e[3] = "D83D" /\ e[4] = "BACKSLASH" /\ e[5] = "u"
          /\ e[6] = "DE00" /\ p + 6 - 1 = p + 5
      BY <2>5
    <3>2. /\ Peek(s, p, 1) = IF p + 1 <= Len(s) THEN "u" ELSE "END"
          /\ Peek(s, p, 2) = IF p + 2 <= Len(s) THEN "D83D" ELSE "END"
          /\ Peek(s, p, 3) = IF p + 3 <= Len(s) THEN "BACKSLASH" ELSE "END"
          /\ Peek(s, p, 4) = IF p + 4 <= Len(s) THEN "u" ELSE "END"
          /\ Peek(s, p, 5) = IF p + 5 <= Len(s) THEN "DE00" ELSE "END"
      <4>1. \A k \in 1 .. 5 : k \in Nat /\ k + 1 <= 6
        OBVIOUS
      <4>2. \A k \in 1 .. 5 : Peek(s, p, k) = IF p + k <= Len(s) THEN e[k + 1] ELSE "END"
        BY <1>2, <3>1, <4>1
      <4>3. /\ 1 \in 1 .. 5 /\ 2 \in 1 .. 5 /\ 3 \in 1 .. 5 /\ 4 \in 1 .. 5 /\ 5 \in 1 .. 5
            /\ 1 + 1 = 2 /\ 2 + 1 = 3 /\ 3 + 1 = 4 /\ 4 + 1 = 5 /\ 5 + 1 = 6
        OBVIOUS
      <4>. QED  BY <3>1, <4>2, <4>3
    <3>3. CASE p + 5 <= Len(s)
      <4>1. /\ Peek(s, p, 1) = "u" /\ Peek(s, p, 2) = "D83D" /\ Peek(s, p, 3) = "BACKSLASH"
            /\ Peek(s, p, 4) = "u" /\ Peek(s, p, 5) = "DE00"
        BY <1>0, <3>2, <3>3
      <4>2. Message!Unescape(s, p) = Read("EMO", p + 6)
        BY <4>1, UnescapeIs DEF Hexes
      <4>. QED  BY <2>1, <2>2, <2>5, <3>1, <3>3, <4>2
    <3>4. CASE ~(p + 5 <= Len(s))
      <4>1. /\ Peek(s, p, 1) \in {"u", "END"} /\ Peek(s, p, 2) \in {"D83D", "END"}
            /\ Peek(s, p, 5) = "END"
        BY <3>2, <3>4
      <4>2. Message!Unescape(s, p) = Message!Failed
        BY <4>1, UnescapeIs DEF Hexes
      <4>. QED  BY <2>1, <2>2, <3>1, <3>4, <4>2
    <3>. QED  BY <3>3, <3>4
  <2>. QED  BY <1>3, <2>1, <2>3, <2>4, <2>5 DEF CodeOf
<1>5. e[1] = "BACKSLASH" \/ (c \in Alone /\ e = <<c>>)
  <2>1. \A x, y, z, u, v, w : /\ <<x, y>>[1] = x /\ <<x, y, z>>[1] = x
                              /\ <<x, y, z, u, v, w>>[1] = x
    OBVIOUS
  <2>. QED  BY <2>1 DEF CodeOf
<1>. QED  BY <1>3, <1>4, <1>5

\* Of half of a surrogate pair it makes nothing either, whole or cut.
LEMMA LoneFails ==
    ASSUME NEW s \in Seq(Tokens), NEW p \in Nat, p >= 1, p <= Len(s), Stands(s, p, LoneCode)
    PROVE  /\ s[p] # Message!Quote
           /\ ReadAt(s, p) = Message!Failed
<1>. DEFINE e == LoneCode
<1>0. Len(e) = 3 /\ e[1] = "BACKSLASH" /\ e[2] = "u" /\ e[3] = "DE00"
  BY DEF LoneCode
<1>1. e \in Seq(Tokens) /\ Stands(s, p, e)
  BY CodeType
<1>. HIDE DEF e
<1>2. s[p] = "BACKSLASH"
  <2>1. 1 \in 1 .. Len(e) /\ p + 1 - 1 = p
    BY <1>0
  <2>. QED  BY <1>0, <1>1, <2>1 DEF Stands
<1>3. /\ Peek(s, p, 1) = IF p + 1 <= Len(s) THEN "u" ELSE "END"
      /\ Peek(s, p, 2) = IF p + 2 <= Len(s) THEN "DE00" ELSE "END"
  <2>1. 1 \in Nat /\ 2 \in Nat /\ 1 + 1 = 2 /\ 2 + 1 = 3 /\ 2 <= 3 /\ 3 <= 3
    OBVIOUS
  <2>. QED  BY <1>0, <1>1, <2>1, PeekIs
<1>4. Peek(s, p, 1) \in {"u", "END"} /\ Peek(s, p, 2) \in {"DE00", "END"}
  BY <1>3
<1>5. Message!Unescape(s, p) = Message!Failed
  BY <1>4, UnescapeIs DEF Hexes
<1>. QED  BY <1>2, <1>5 DEF ReadAt, Message!BSlash, Message!Quote

\* After the first h tokens of s come the codes of t, or as much of them as there
\* is, and then the closing quote.
Spelled(s, h, t, E, enc, off) ==
    /\ s \in Seq(Tokens) /\ h \in Nat /\ h <= Len(s) /\ t \in Seq(Message!Chars)
    /\ Len(E) = Len(t) /\ \A k \in 1 .. Len(t) : Spells(t[k], E[k])
    /\ FlatAt(E, enc, off) /\ Len(enc) \in Nat
    /\ \A i \in 1 .. Len(enc) : h + i <= Len(s) => s[h + i] = enc[i]
    /\ Len(s) > h + Len(enc) => s[h + Len(enc) + 1] = "QUOTE"

\* No half of a surrogate pair, behind k or anywhere.
SoundFrom(t, k) == \A j \in k + 1 .. Len(t) : t[j] # "LONE"
Sound(t) == \A j \in 1 .. Len(t) : t[j] # "LONE"

Parsed(s, h, t, enc) ==
    IF Len(s) > h + Len(enc) /\ Sound(t)
    THEN [ok |-> TRUE, val |-> t, next |-> h + Len(enc) + 2]
    ELSE Message!Failed

\* One code more in front.
LEMMA ParseOne ==
    ASSUME NEW s \in Seq(Tokens), NEW p \in Nat, p >= 1, p <= Len(s), NEW f,
           NEW c, NEW e, CodeOf(c, e), Stands(s, p, e), NEW x \in Results,
           p + Len(e) - 1 <= Len(s) => f[p + Len(e)] = x
    PROVE  ParseAt(s, f, p) =
             IF p + Len(e) - 1 <= Len(s) /\ x.ok
             THEN [ok |-> TRUE, val |-> <<c>> \o x.val, next |-> x.next] ELSE Message!Failed
<1>1. s[p] # Message!Quote /\ ~(p > Len(s))
  BY ReadOne
<1>2. ReadAt(s, p) = IF p + Len(e) - 1 <= Len(s) THEN Read(c, p + Len(e)) ELSE Message!Failed
  BY ReadOne
<1>. DEFINE r == ReadAt(s, p)
<1>3. ParseAt(s, f, p) = IF ~r.ok \/ ~f[r.next].ok THEN Message!Failed
          ELSE [ok |-> TRUE, val |-> <<r.char>> \o f[r.next].val, next |-> f[r.next].next]
  BY <1>1 DEF ParseAt
<1>. HIDE DEF r
<1>4. CASE p + Len(e) - 1 <= Len(s)
  <2>1. r = Read(c, p + Len(e))
    BY <1>2, <1>4 DEF r
  <2>2. r.ok = TRUE /\ r.char = c /\ r.next = p + Len(e)
    BY <2>1, ReadFacts
  <2>3. f[r.next] = x
    BY <1>4, <2>2
  <2>4. x.ok \in BOOLEAN
    BY ResultFacts
  <2>. QED  BY <1>3, <1>4, <2>2, <2>3, <2>4
<1>5. CASE ~(p + Len(e) - 1 <= Len(s))
  <2>1. r = Message!Failed
    BY <1>2, <1>5 DEF r
  <2>2. r.ok = FALSE
    BY <2>1 DEF Message!Failed
  <2>. QED  BY <1>3, <1>5, <2>2
<1>. QED  BY <1>4, <1>5

\* A code more in front that stands for nothing.
LEMMA ParseLone ==
    ASSUME NEW s \in Seq(Tokens), NEW p \in Nat, p >= 1, p <= Len(s), NEW f,
           Stands(s, p, LoneCode)
    PROVE  ParseAt(s, f, p) = Message!Failed
<1>1. s[p] # Message!Quote /\ ~(p > Len(s)) /\ ReadAt(s, p) = Message!Failed
  BY LoneFails
<1>. DEFINE r == ReadAt(s, p)
<1>2. ParseAt(s, f, p) = IF ~r.ok \/ ~f[r.next].ok THEN Message!Failed
          ELSE [ok |-> TRUE, val |-> <<r.char>> \o f[r.next].val, next |-> f[r.next].next]
  BY <1>1 DEF ParseAt
<1>3. r = Message!Failed
  BY <1>1
<1>. HIDE DEF r
<1>4. r.ok = FALSE
  BY <1>3 DEF Message!Failed
<1>. QED  BY <1>2, <1>4

\* http_json_parse_string gives the text back, whichever codes it was written
\* with, and takes no part of it if the closing quote is missing or half of a
\* surrogate pair is in it.
LEMMA ParseSpelled ==
    ASSUME NEW s, NEW h, NEW t, NEW E, NEW enc, NEW off, Spelled(s, h, t, E, enc, off)
    PROVE  Message!ParseString(s, h + 1) = Parsed(s, h, t, enc)
<1>. DEFINE n == Len(t)  N == Len(s)  L == Len(enc)  start == h + 1  f == ParseFn(s, start)
<1>1. /\ s \in Seq(Tokens) /\ h \in Nat /\ h <= N /\ t \in Seq(Message!Chars)
      /\ Len(E) = n /\ \A k \in 1 .. n : Spells(t[k], E[k])
      /\ FlatAt(E, enc, off) /\ L \in Nat /\ n \in Nat /\ N \in Nat
      /\ \A i \in 1 .. L : h + i <= N => s[h + i] = enc[i]
      /\ N > h + L => s[h + L + 1] = "QUOTE"
  BY DEF Spelled
<1>2. t \in Seq(Tokens)
  <2>1. Message!Chars \subseteq Tokens
    BY CharsAre
  <2>2. t \in Seq(Message!Chars)
    BY <1>1
  <2>. QED  BY ONLY <2>1, <2>2
<1>. HIDE DEF n, N, L
<1>3. /\ off[0] = 0 /\ off[n] = L /\ \A k \in 0 .. n : off[k] \in Nat
      /\ \A k \in 1 .. n :
            /\ off[k] = off[k - 1] + Len(E[k]) /\ off[k] <= L
            /\ \A j \in 1 .. Len(E[k]) : enc[off[k - 1] + j] = E[k][j]
  BY <1>1 DEF FlatAt, L
<1>4. \A p \in start .. N + 6 : f[p] = ParseAt(s, f, p)
  <2>1. start \in Nat /\ start >= 1 /\ start <= N + 6
    BY <1>1
  <2>. HIDE DEF start
  <2>. QED  BY <1>1, <2>1, ParseIs DEF N
<1>. HIDE DEF f
<1>. DEFINE W(k) == N > h + L /\ SoundFrom(t, k)
            R(k) == IF W(k) THEN [ok |-> TRUE, val |-> Suffix(t, n - k), next |-> h + L + 2]
                    ELSE Message!Failed
            T == {k \in 0 .. n : h + off[k] <= N => f[h + off[k] + 1] = R(k)}
<1>5. \A k \in 0 .. n : R(k) \in Results /\ Suffix(t, n - k) \in Seq(Tokens)
  <2>1. ASSUME NEW k \in 0 .. n
        PROVE  Suffix(t, n - k) \in Seq(Tokens)
    <3>1. n - k \in 0 .. Len(t)
      BY <1>1 DEF n
    <3>. QED  BY <1>2, <3>1, SuffixFacts
  <2>2. h + L + 2 \in Int
    BY <1>1
  <2>. QED  BY <2>1, <2>2 DEF Results
<1>6. n \in T
  <2>1. n \in 0 .. n /\ n - n = 0 /\ 0 \in 0 .. n
    BY <1>1
  <2>2. Suffix(t, n - n) = <<>>
    <3>1. 0 \in 0 .. Len(t)
      BY <1>1 DEF n
    <3>2. Suffix(t, 0) \in Seq(Tokens) /\ Len(Suffix(t, 0)) = 0
      BY <1>2, <3>1, SuffixFacts
    <3>. QED  BY <2>1, <3>2
  <2>3. ASSUME h + L <= N
        PROVE  f[h + L + 1] = R(n)
    <3>. DEFINE p == h + L + 1
    <3>1. p \in start .. N + 6
      BY <1>1, <2>3
    <3>2. f[p] = ParseAt(s, f, p)
      BY <1>4, <3>1
    <3>3. CASE N > h + L
      <4>1. ~(p > Len(s)) /\ s[p] = Message!Quote /\ p + 1 = h + L + 2
        BY <1>1, <3>3 DEF N, Message!Quote
      <4>2. ParseAt(s, f, p) = [ok |-> TRUE, val |-> <<>>, next |-> p + 1]
        BY <4>1 DEF ParseAt
      <4>3. W(n)
        BY <1>1, <3>3 DEF SoundFrom, n
      <4>. QED  BY <2>2, <3>2, <4>1, <4>2, <4>3
    <3>4. CASE ~(N > h + L)
      <4>1. p > Len(s)
        BY <1>1, <2>3, <3>4 DEF N
      <4>2. ParseAt(s, f, p) = Message!Failed
        BY <4>1 DEF ParseAt
      <4>. QED  BY <3>2, <3>4, <4>2
    <3>. QED  BY <3>3, <3>4
  <2>. QED  BY <1>3, <2>1, <2>3
<1>7. ASSUME NEW k \in 1 .. n, k \in T
      PROVE  k - 1 \in T
  <2>. DEFINE a == off[k - 1]  b == off[k]  e == E[k]  l == Len(e)  c == t[k]  p == h + a + 1
  <2>1. /\ Spells(c, e) /\ e \in Seq(Tokens) /\ l \in Nat /\ l >= 1 /\ a \in Nat /\ b \in Nat
        /\ b = a + l /\ b <= L /\ \A j \in 1 .. l : enc[a + j] = e[j]
    <3>1. Spells(c, e)
      BY <1>1
    <3>2. e \in Seq(Tokens) /\ Len(e) \in Nat /\ Len(e) >= 1
      BY <3>1, CodeType DEF Spells
    <3>3. k \in 0 .. n /\ k - 1 \in 0 .. n
      BY <1>1
    <3>. QED  BY <1>3, <3>1, <3>2, <3>3
  <2>2. k \in 0 .. n /\ k - 1 \in 0 .. n /\ n - (k - 1) = n - k + 1
    BY <1>1
  <2>3. h + b <= N => f[h + b + 1] = R(k)
    BY <1>7
  <2>4. /\ R(k) \in Results /\ Suffix(t, n - k) \in Seq(Tokens)
        /\ <<c>> \o Suffix(t, n - k) = Suffix(t, n - (k - 1))
    <3>1. k \in 1 .. Len(t)
      BY DEF n
    <3>2. <<c>> \o Suffix(t, Len(t) - k) = Suffix(t, Len(t) - k + 1)
      BY <1>2, <3>1, SuffixLonger
    <3>. QED  BY <1>5, <2>2, <3>2 DEF n
  <2>s. /\ c = "LONE" => ~SoundFrom(t, k - 1)
        /\ c # "LONE" => (SoundFrom(t, k - 1) <=> SoundFrom(t, k))
    <3>1. k \in 1 .. Len(t) /\ k - 1 + 1 = k /\ Len(t) \in Nat
      BY <1>1 DEF n
    <3>2. \A j \in k .. Len(t) : j = k \/ j \in k + 1 .. Len(t)
      BY ONLY <3>1
    <3>3. k \in k .. Len(t) /\ \A j \in k + 1 .. Len(t) : j \in k .. Len(t)
      BY ONLY <3>1
    <3>. QED  BY <3>1, <3>2, <3>3 DEF SoundFrom
  <2>. HIDE DEF a, b, e, l, c
  <2>5. ASSUME h + a <= N
        PROVE  f[p] = R(k - 1)
    <3>1. p \in start .. N + 6 /\ p \in Nat /\ p >= 1
      BY SMTT(40), <1>1, <2>1, <2>5
    <3>2. f[p] = ParseAt(s, f, p)
      BY <1>4, <3>1
    <3>3. CASE h + a = N
      <4>1. p > Len(s) /\ ~(N > h + L)
        BY <1>1, <2>1, <3>3 DEF N
      <4>2. ParseAt(s, f, p) = Message!Failed
        BY <4>1 DEF ParseAt
      <4>. QED  BY <3>2, <4>1, <4>2
    <3>4. CASE h + a < N
      <4>1. p <= Len(s) /\ p + l - 1 = h + b /\ p + l = h + b + 1
        <5>1. h \in Nat /\ a \in Nat /\ b \in Nat /\ l \in Nat /\ N \in Nat /\ b = a + l
          BY <1>1, <2>1
        <5>2. h + a + 1 + l - 1 = h + b /\ h + a + 1 + l = h + b + 1
          BY ONLY <5>1
        <5>3. h + a + 1 <= N
          BY <3>4, <5>1
        <5>. QED  BY <5>2, <5>3 DEF N
      <4>2. Stands(s, p, e)
        <5>1. ASSUME NEW j \in 1 .. l, p + j - 1 <= N
              PROVE  s[p + j - 1] = e[j]
          <6>1. a + j \in 1 .. L /\ h + (a + j) = p + j - 1
            BY <1>1, <2>1
          <6>2. s[h + (a + j)] = enc[a + j]
            BY <1>1, <5>1, <6>1
          <6>. QED  BY <2>1, <6>1, <6>2
        <5>. QED  BY <5>1 DEF Stands, N, l
      <4>a. CASE c = "LONE"
        <5>1. e = LoneCode /\ ~W(k - 1)
          BY <2>1, <2>s, <4>a DEF Spells
        <5>2. ParseAt(s, f, p) = Message!Failed
          <6>1. s \in Seq(Tokens) /\ p \in Nat /\ p >= 1 /\ p <= Len(s) /\ Stands(s, p, LoneCode)
            BY <1>1, <3>1, <4>1, <4>2, <5>1
          <6>. QED  BY ONLY <6>1, ParseLone
        <5>. QED  BY <3>2, <5>1, <5>2
      <4>b. CASE c # "LONE"
        <5>0. CodeOf(c, e) /\ (W(k - 1) <=> W(k))
          BY <2>1, <2>s, <4>b DEF Spells
        <5>. DEFINE x == R(k)
        <5>3. x \in Results /\ (p + l - 1 <= Len(s) => f[p + l] = x)
          BY <2>3, <2>4, <4>1 DEF N
        <5>. HIDE DEF x, p
        <5>4. ParseAt(s, f, p) =
                IF p + l - 1 <= Len(s) /\ x.ok
                THEN [ok |-> TRUE, val |-> <<c>> \o x.val, next |-> x.next] ELSE Message!Failed
          BY <1>1, <3>1, <4>1, <4>2, <5>0, <5>3, ParseOne DEF l
        <5>5. CASE W(k)
          <6>1. p + l - 1 <= Len(s)
            BY <1>1, <2>1, <4>1, <5>5 DEF N
          <6>2. x = [ok |-> TRUE, val |-> Suffix(t, n - k), next |-> h + L + 2]
            BY <5>5 DEF x
          <6>3. x.ok = TRUE /\ x.val = Suffix(t, n - k) /\ x.next = h + L + 2
            BY <6>2
          <6>4. ParseAt(s, f, p) = [ok |-> TRUE, val |-> Suffix(t, n - (k - 1)), next |-> h + L + 2]
            BY <2>4, <5>4, <6>1, <6>3
          <6>. QED  BY <3>2, <5>0, <5>5, <6>4
        <5>6. CASE ~W(k)
          <6>1. x = Message!Failed
            BY <5>6 DEF x
          <6>2. x.ok = FALSE
            BY <6>1 DEF Message!Failed
          <6>3. ParseAt(s, f, p) = Message!Failed
            BY <5>4, <6>2
          <6>. QED  BY <3>2, <5>0, <5>6, <6>3
        <5>. QED  BY <5>5, <5>6
      <4>. QED  BY <4>a, <4>b
    <3>. QED  BY <1>1, <2>1, <2>5, <3>3, <3>4
  <2>. QED  BY <2>2, <2>5 DEF a
<1>8. \A k \in 0 .. n : k \in T
  <2>. HIDE DEF T
  <2>. QED  BY <1>1, <1>6, <1>7, Descent
<1>9. f[start] = R(0)
  <2>1. 0 \in 0 .. n
    BY <1>1
  <2>2. 0 \in T
    <3>. HIDE DEF T
    <3>. QED  BY <1>8, <2>1
  <2>3. h + 0 <= N /\ h + 0 + 1 = start
    BY <1>1
  <2>. QED  BY <1>3, <2>2, <2>3
<1>10. Suffix(t, n - 0) = t
  <2>1. n - 0 = Len(t)
    BY <1>1 DEF n
  <2>. QED  BY <1>2, <2>1, WholeSuffix
<1>11. Message!ParseString(s, start) = f[start]
  BY ParseStringIs DEF f
<1>12. W(0) <=> Len(s) > h + Len(enc) /\ Sound(t)
  BY DEF SoundFrom, Sound, N, L
<1>. QED  BY <1>9, <1>10, <1>11, <1>12 DEF Parsed, L

-----------------------------------------------------------------------------
(* MessageText: http_parse_message_json. *)

\* There is nothing to skip where no white space is,
LEMMA SkipNone ==
    ASSUME NEW s, NEW p \in Nat, Len(s) \in Nat, p <= Len(s), s[p] \notin Message!Space
    PROVE  Message!SkipWs(s, p) = p
<1>. DEFINE stop == {q \in p .. Len(s) : s[q] \notin Message!Space}
<1>1. p \in stop /\ \A r \in stop : p <= r
  OBVIOUS
<1>2. \A q \in stop : (\A r \in stop : q <= r) => q = p
  BY <1>1
<1>3. Message!SkipWs(s, p) =
         IF stop = {} THEN Len(s) + 1 ELSE CHOOSE q \in stop : \A r \in stop : q <= r
  BY DEF Message!SkipWs
<1>. HIDE DEF stop
<1>. QED  BY <1>1, <1>2, <1>3

\* nor behind the end,
LEMMA SkipEnd ==
    ASSUME NEW s, NEW p \in Nat, Len(s) \in Nat, p > Len(s)
    PROVE  Message!SkipWs(s, p) = Len(s) + 1
<1>1. {q \in p .. Len(s) : s[q] \notin Message!Space} = {}
  OBVIOUS
<1>. QED  BY <1>1 DEF Message!SkipWs

\* and otherwise a character at a time.
LEMMA SkipOne ==
    ASSUME NEW s, NEW p \in Nat, Len(s) \in Nat, p <= Len(s), s[p] \in Message!Space
    PROVE  Message!SkipWs(s, p) = Message!SkipWs(s, p + 1)
<1>1. {q \in p .. Len(s) : s[q] \notin Message!Space}
        = {q \in p + 1 .. Len(s) : s[q] \notin Message!Space}
  OBVIOUS
<1>. DEFINE a == {q \in p .. Len(s) : s[q] \notin Message!Space}
            b == {q \in p + 1 .. Len(s) : s[q] \notin Message!Space}
<1>2. /\ Message!SkipWs(s, p) =
           IF a = {} THEN Len(s) + 1 ELSE CHOOSE q \in a : \A r \in a : q <= r
      /\ Message!SkipWs(s, p + 1) =
           IF b = {} THEN Len(s) + 1 ELSE CHOOSE q \in b : \A r \in b : q <= r
  BY DEF Message!SkipWs
<1>3. a = b
  BY <1>1
<1>. HIDE DEF a, b
<1>. QED  BY <1>2, <1>3

\* Where http_parse_message_json looks, and what it finds.
BraceAt(s) == Message!SkipWs(s, 1)
KeyAt(s) == Message!SkipWs(s, BraceAt(s) + 1)
KeyOf(s) == Message!ParseString(s, KeyAt(s) + 1)
ColonAt(s) == Message!SkipWs(s, KeyOf(s).next)
ValueFrom(s) == Message!SkipWs(s, ColonAt(s) + 1)
ValueOf(s) == Message!ParseString(s, ValueFrom(s) + 1)
ClosedAt(s) == Message!SkipWs(s, ValueOf(s).next)
Finds(s, p, c) == p <= Len(s) /\ s[p] = c

\* A string without a NUL is a C string as it is.
LEMMA CStringSame ==
    ASSUME NEW t, \A i \in 1 .. Len(t) : t[i] # "NUL"
    PROVE  Message!CString(t) = t
<1>1. {i \in 1 .. Len(t) : t[i] = Message!Nul} = {}
  BY DEF Message!Nul
<1>. QED  BY <1>1 DEF Message!CString

\* A C string has the characters of its text, but no NUL.
LEMMA CStringType ==
    ASSUME NEW C, NEW t \in Seq(C)
    PROVE  Message!CString(t) \in Seq(C \ {"NUL"})
<1>. DEFINE nul == {i \in 1 .. Len(t) : t[i] = "NUL"}
            m == CHOOSE i \in nul : \A j \in nul : i <= j
<1>1. Message!CString(t) = IF nul = {} THEN t ELSE SubSeq(t, 1, m - 1)
  BY DEF Message!CString, Message!Nul
<1>2. CASE nul = {}
  <2>1. \A i \in 1 .. Len(t) : t[i] \in C \ {"NUL"}
    BY <1>2
  <2>2. t \in Seq(C \ {"NUL"})
    <3>. HIDE DEF nul
    <3>. QED  BY <2>1
  <2>. QED  BY <1>1, <1>2, <2>2
<1>3. CASE nul # {}
  <2>0. nul \subseteq Nat /\ nul \subseteq 1 .. Len(t)
    OBVIOUS
  <2>1. m \in nul /\ \A j \in nul : m <= j
    <3>1. \E i \in nul : \A j \in nul : i <= j
      <4>. HIDE DEF nul
      <4>. QED  BY ONLY <1>3, <2>0, LeastNumber
    <3>. HIDE DEF nul
    <3>. QED  BY <3>1
  <2>2. m \in 1 .. Len(t) /\ m - 1 \in Nat /\ m - 1 <= Len(t) /\ Len(t) \in Nat
    <3>1. m \in 1 .. Len(t) /\ Len(t) \in Nat
      BY <2>0, <2>1
    <3>. HIDE DEF m
    <3>. QED  BY <3>1
  <2>3. \A i \in 1 .. m - 1 : i \in 1 .. Len(t) /\ ~(m <= i)
    <3>. HIDE DEF m
    <3>. QED  BY ONLY <2>2
  <2>4. \A i \in 1 .. m - 1 : t[i] \in C \ {"NUL"}
    <3>1. \A i \in 1 .. m - 1 : i \notin nul /\ i \in 1 .. Len(t)
      <4>. HIDE DEF m, nul
      <4>. QED  BY <2>1, <2>3
    <3>. HIDE DEF m
    <3>. QED  BY <3>1
  <2>. HIDE DEF m
  <2>5. SubSeq(t, 1, m - 1) = [i \in 1 .. m - 1 |-> t[i]]
    <3>1. \A i \in 1 .. m - 1 : i + 1 - 1 = i
      BY <2>2
    <3>. QED  BY <2>2, <3>1
  <2>6. SubSeq(t, 1, m - 1) \in Seq(C \ {"NUL"})
    BY <2>2, <2>4, <2>5
  <2>. QED  BY <1>1, <1>3, <2>6
<1>. QED  BY <1>2, <1>3

\* http_parse_message_json is these tests in this order.
LEMMA MessageJsonIs ==
    ASSUME NEW s
    PROVE  Message!ParseMessageJson(s) =
             IF /\ Finds(s, BraceAt(s), "{") /\ Finds(s, KeyAt(s), "QUOTE") /\ KeyOf(s).ok
                /\ Finds(s, ColonAt(s), ":") /\ Finds(s, ValueFrom(s), "QUOTE") /\ ValueOf(s).ok
                /\ Finds(s, ClosedAt(s), "}")
                /\ Message!SkipWs(s, ClosedAt(s) + 1) > Len(s)
                /\ Message!CString(KeyOf(s).val) = <<"message">>
             THEN Message!CString(ValueOf(s).val) ELSE Message!Refused
BY DEF Message!ParseMessageJson, BraceAt, KeyAt, KeyOf, ColonAt, ValueFrom, ValueOf, ClosedAt,
       Finds, Message!Quote

\* The key of the object.
LEMMA KeyIs ==
    ASSUME NEW s \in Seq(Tokens), Len(s) >= 3 => s[3] = "message", Len(s) >= 4 => s[4] = "QUOTE"
    PROVE  Message!ParseString(s, 3) =
             IF Len(s) >= 4 THEN [ok |-> TRUE, val |-> <<"message">>, next |-> 5]
             ELSE Message!Failed
<1>. DEFINE f == ParseFn(s, 3)  N == Len(s)
<1>0. N \in Nat /\ 3 \in Nat /\ 3 >= 1 /\ 3 <= Len(s) + 6
  OBVIOUS
<1>1. \A p \in 3 .. Len(s) + 6 : f[p] = ParseAt(s, f, p)
  BY <1>0, ParseIs
<1>2. Message!ParseString(s, 3) = f[3]
  BY ParseStringIs
<1>. HIDE DEF f
<1>3. f[3] = ParseAt(s, f, 3) /\ f[4] = ParseAt(s, f, 4)
  BY <1>0, <1>1
<1>4. CASE N < 3
  <2>1. 3 > Len(s) /\ ~(Len(s) >= 4)
    BY <1>0, <1>4
  <2>2. ParseAt(s, f, 3) = Message!Failed
    BY <2>1 DEF ParseAt
  <2>. QED  BY <1>2, <1>3, <2>1, <2>2
<1>5. CASE N >= 3
  <2>1. s[3] # Message!Quote /\ s[3] # Message!BSlash /\ ~(3 > Len(s))
    BY <1>0, <1>5 DEF Message!Quote, Message!BSlash
  <2>2. ReadAt(s, 3) = Read("message", 4)
    <3>1. s[3] = "message" /\ 3 + 1 = 4
      BY <1>5
    <3>2. ReadAt(s, 3) = Read(s[3], 3 + 1)
      BY <2>1 DEF ReadAt, Read
    <3>. QED  BY <3>1, <3>2
  <2>. DEFINE r == ReadAt(s, 3)  x == f[4]
  <2>3. r.ok = TRUE /\ r.char = "message" /\ r.next = 4
    <3>. HIDE DEF r
    <3>1. r = Read("message", 4)
      BY <2>2 DEF r
    <3>2. /\ Read("message", 4).ok = TRUE /\ Read("message", 4).char = "message"
          /\ Read("message", 4).next = 4
      BY DEF Read
    <3>. QED  BY ONLY <3>1, <3>2
  <2>4. ParseAt(s, f, 3) = IF ~r.ok \/ ~f[r.next].ok THEN Message!Failed
          ELSE [ok |-> TRUE, val |-> <<r.char>> \o f[r.next].val, next |-> f[r.next].next]
    BY <2>1 DEF ParseAt
  <2>. HIDE DEF r, x
  <2>5. ParseAt(s, f, 3) = IF ~x.ok THEN Message!Failed
          ELSE [ok |-> TRUE, val |-> <<"message">> \o x.val, next |-> x.next]
    BY <2>3, <2>4 DEF x
  <2>6. CASE N = 3
    <3>1. 4 > Len(s) /\ ~(Len(s) >= 4)
      BY <2>6
    <3>2. x = Message!Failed
      BY <1>3, <3>1 DEF ParseAt, x
    <3>3. x.ok = FALSE
      BY <3>2 DEF Message!Failed
    <3>. QED  BY <1>2, <1>3, <2>5, <3>1, <3>3
  <2>7. CASE N >= 4
    <3>1. ~(4 > Len(s)) /\ s[4] = Message!Quote
      BY <1>0, <2>7 DEF Message!Quote
    <3>2. x = [ok |-> TRUE, val |-> <<>>, next |-> 4 + 1]
      BY <1>3, <3>1 DEF ParseAt, x
    <3>3. x.ok = TRUE /\ x.val = <<>> /\ x.next = 5
      BY <3>2
    <3>4. <<"message">> \o <<>> = <<"message">>
      OBVIOUS
    <3>5. ParseAt(s, f, 3) = [ok |-> TRUE, val |-> <<"message">>, next |-> 5]
      BY <2>5, <3>3, <3>4
    <3>. QED  BY <1>2, <1>3, <2>7, <3>5
  <2>8. N = 3 \/ N >= 4
    <3>. HIDE DEF N
    <3>. QED  BY <1>0, <1>5
  <2>. QED  BY <2>6, <2>7, <2>8
<1>. QED  BY <1>0, <1>4, <1>5

\* A body up to the value: s begins with w, as far as it goes.
Begins(s, w) ==
    /\ s \in Seq(Tokens) /\ w \in Seq(Tokens) /\ Len(w) \in {6, 7}
    /\ w[1] = "{" /\ w[2] = "QUOTE" /\ w[3] = "message" /\ w[4] = "QUOTE" /\ w[5] = ":"
    /\ w[Len(w)] = "QUOTE" /\ (Len(w) = 7 => w[6] = "SPACE")
    /\ \A i \in 1 .. Len(w) : i <= Len(s) => s[i] = w[i]

\* What comes before the value is found if it is there, and only then.
LEMMA IntroParsed ==
    ASSUME NEW s, NEW w, Begins(s, w)
    PROVE  /\ Len(s) < Len(w) => Message!ParseMessageJson(s) = Message!Refused
           /\ Len(s) >= Len(w) =>
                /\ Finds(s, BraceAt(s), "{") /\ Finds(s, KeyAt(s), "QUOTE") /\ KeyOf(s).ok
                /\ Finds(s, ColonAt(s), ":") /\ ValueFrom(s) = Len(w)
                /\ Finds(s, ValueFrom(s), "QUOTE")
                /\ KeyOf(s).val = <<"message">>
<1>. DEFINE N == Len(s)  h == Len(w)
<1>0. s \in Seq(Tokens) /\ N = Len(s) /\ h = Len(w)
  BY DEF Begins
<1>n. N \in Nat /\ (h = 6 \/ h = 7)
  <2>1. h \in {6, 7}
    BY DEF Begins
  <2>2. N \in Nat
    BY <1>0
  <2>. QED  BY ONLY <2>1, <2>2
<1>1. /\ w[1] = "{" /\ w[2] = "QUOTE" /\ w[3] = "message" /\ w[4] = "QUOTE" /\ w[5] = ":"
      /\ w[h] = "QUOTE" /\ (h = 7 => w[6] = "SPACE")
      /\ \A i \in 1 .. h : i <= N => s[i] = w[i]
  BY DEF Begins
<1>. HIDE DEF h, N
<1>2. /\ N >= 1 => s[1] = "{"
      /\ N >= 2 => s[2] = "QUOTE"
      /\ N >= 3 => s[3] = "message"
      /\ N >= 4 => s[4] = "QUOTE"
      /\ N >= 5 => s[5] = ":"
      /\ N >= h => s[h] = "QUOTE"
      /\ h = 7 /\ N >= 6 => s[6] = "SPACE"
  <2>1. 1 \in 1 .. h /\ 2 \in 1 .. h /\ 3 \in 1 .. h /\ 4 \in 1 .. h /\ 5 \in 1 .. h /\ h \in 1 .. h
        /\ (h = 7 => 6 \in 1 .. h)
    BY ONLY <1>n
  <2>2. \A i \in 1 .. h : N >= i <=> i <= N
    BY ONLY <1>n
  <2>. QED  BY ONLY <1>1, <2>1, <2>2
<1>b. 1 \in Nat /\ 2 \in Nat /\ 5 \in Nat /\ 6 \in Nat /\ 7 \in Nat /\ 6 + 1 = 7
  OBVIOUS
<1>3. "SPACE" \in Message!Space /\ \A c \in {"{", "QUOTE", ":"} : c \notin Message!Space
  BY DEF Message!Space, Message!LF, Message!CR, Message!Tab, Message!Ff, Message!VTab
<1>4. \A p \in Nat :
         /\ N < p => Message!SkipWs(s, p) = N + 1
         /\ N >= p /\ s[p] \in {"{", "QUOTE", ":"} => Message!SkipWs(s, p) = p
         /\ N >= p /\ s[p] = "SPACE" => Message!SkipWs(s, p) = Message!SkipWs(s, p + 1)
  <2>1. ASSUME NEW p \in Nat, N < p
        PROVE  Message!SkipWs(s, p) = N + 1
    BY <1>0, <1>n, <2>1, SkipEnd
  <2>2. ASSUME NEW p \in Nat, N >= p, s[p] \in {"{", "QUOTE", ":"}
        PROVE  Message!SkipWs(s, p) = p
    BY <1>0, <1>n, <1>3, <2>2, SkipNone
  <2>3. ASSUME NEW p \in Nat, N >= p, s[p] = "SPACE"
        PROVE  Message!SkipWs(s, p) = Message!SkipWs(s, p + 1)
    BY <1>0, <1>n, <1>3, <2>3, SkipOne
  <2>. QED  BY <2>1, <2>2, <2>3
<1>a. ~(N + 1 <= N)
  BY ONLY <1>n
<1>5. \A p, c : ~(p <= N) => ~Finds(s, p, c)
  BY <1>0 DEF Finds
<1>. DEFINE Fails == Message!ParseMessageJson(s) = Message!Refused
            Found == /\ Finds(s, BraceAt(s), "{") /\ Finds(s, KeyAt(s), "QUOTE") /\ KeyOf(s).ok
                     /\ Finds(s, ColonAt(s), ":") /\ ValueFrom(s) = h
                     /\ Finds(s, ValueFrom(s), "QUOTE")
                     /\ KeyOf(s).val = <<"message">>
<1>6. CASE N < 1
  <2>1. BraceAt(s) = N + 1
    BY <1>b, <1>4, <1>6 DEF BraceAt
  <2>2. Fails
    BY <1>5, <1>a, <2>1, MessageJsonIs
  <2>3. ~(N >= h) /\ N < h
    BY ONLY <1>n, <1>6
  <2>. HIDE DEF Fails, Found
  <2>. QED  BY <1>0, <2>2, <2>3 DEF Fails, Found
<1>7. CASE N >= 1
  <2>1. BraceAt(s) = 1
    BY <1>2, <1>b, <1>4, <1>7 DEF BraceAt
  <2>2. KeyAt(s) = Message!SkipWs(s, 2)
    BY <2>1 DEF KeyAt
  <2>3. CASE N < 2
    <3>1. KeyAt(s) = N + 1
      BY <1>b, <1>4, <2>2, <2>3
    <3>2. Fails
      BY <1>5, <1>a, <3>1, MessageJsonIs
    <3>3. ~(N >= h)
      BY ONLY <1>n, <2>3
    <3>. QED  BY <1>0, <3>2, <3>3
  <2>4. CASE N >= 2
    <3>1. KeyAt(s) = 2
      BY <1>2, <1>b, <1>4, <2>2, <2>4
    <3>2. KeyOf(s) = IF N >= 4 THEN [ok |-> TRUE, val |-> <<"message">>, next |-> 5]
                     ELSE Message!Failed
      <4>1. KeyOf(s) = Message!ParseString(s, 3)
        BY <3>1 DEF KeyOf
      <4>2. s \in Seq(Tokens) /\ (Len(s) >= 3 => s[3] = "message") /\ (Len(s) >= 4 => s[4] = "QUOTE")
        BY <1>0, <1>2
      <4>3. Message!ParseString(s, 3) =
              IF Len(s) >= 4 THEN [ok |-> TRUE, val |-> <<"message">>, next |-> 5]
              ELSE Message!Failed
        BY ONLY <4>2, KeyIs
      <4>. QED  BY <1>0, <4>1, <4>3
    <3>3. CASE ~(N >= 4)
      <4>1. KeyOf(s) = Message!Failed
        BY <3>2, <3>3
      <4>2. KeyOf(s).ok = FALSE
        BY <4>1 DEF Message!Failed
      <4>3. Fails
        BY <4>2, MessageJsonIs
      <4>4. ~(N >= h)
        BY ONLY <1>n, <3>3
      <4>. QED  BY <1>0, <4>3, <4>4
    <3>4. CASE N >= 4
      <4>. DEFINE key == KeyOf(s)
      <4>0. key = [ok |-> TRUE, val |-> <<"message">>, next |-> 5]
        BY <3>2, <3>4
      <4>. HIDE DEF key
      <4>1. key.ok = TRUE /\ key.val = <<"message">> /\ key.next = 5
        BY <4>0
      <4>2. ColonAt(s) = Message!SkipWs(s, 5)
        BY <4>1 DEF ColonAt, key
      <4>3. CASE N < 5
        <5>1. ColonAt(s) = N + 1
          BY <1>b, <1>4, <4>2, <4>3
        <5>2. Fails
          BY <1>5, <1>a, <5>1, MessageJsonIs
        <5>3. ~(N >= h)
          BY ONLY <1>n, <4>3
        <5>. QED  BY <1>0, <5>2, <5>3
      <4>4. CASE N >= 5
        <5>1. ColonAt(s) = 5
          BY <1>2, <1>b, <1>4, <4>2, <4>4
        <5>2. ValueFrom(s) = Message!SkipWs(s, 6)
          BY <5>1 DEF ValueFrom
        <5>3. N >= h => ValueFrom(s) = h
          <6>1. CASE h = 6
            <7>1. N >= 6 => Message!SkipWs(s, 6) = 6
              BY <1>2, <1>b, <1>4, <6>1
            <7>. QED  BY <5>2, <6>1, <7>1
          <6>2. CASE h = 7
            <7>1. N >= 7 => N >= 6
              BY ONLY <1>n
            <7>2. N >= 7 => Message!SkipWs(s, 6) = Message!SkipWs(s, 7)
              BY <1>2, <1>b, <1>4, <6>2, <7>1
            <7>3. N >= 7 => Message!SkipWs(s, 7) = 7
              BY <1>2, <1>b, <1>4, <6>2
            <7>. QED  BY <5>2, <6>2, <7>2, <7>3
          <6>. QED  BY <1>n, <6>1, <6>2
        <5>4. ~(N >= h) => ValueFrom(s) = N + 1
          <6>1. CASE N < 6
            BY <1>b, <1>4, <5>2, <6>1
          <6>2. CASE N >= 6
            <7>1. ~(N >= h) => h = 7 /\ N < 7
              BY ONLY <1>n, <6>2
            <7>2. h = 7 => Message!SkipWs(s, 6) = Message!SkipWs(s, 7)
              BY <1>2, <1>b, <1>4, <6>2
            <7>3. N < 7 => Message!SkipWs(s, 7) = N + 1
              BY <1>b, <1>4
            <7>. QED  BY <5>2, <7>1, <7>2, <7>3
          <6>3. N < 6 \/ N >= 6
            BY ONLY <1>n
          <6>. QED  BY <6>1, <6>2, <6>3
        <5>5. CASE ~(N >= h)
          <6>1. ValueFrom(s) = N + 1
            BY <5>4, <5>5
          <6>2. Fails
            BY <1>5, <1>a, <6>1, MessageJsonIs
          <6>. QED  BY <1>0, <5>5, <6>2
        <5>6. CASE N >= h
          <6>1. 1 <= N /\ 2 <= N /\ 5 <= N /\ h <= N /\ N >= 2
            BY ONLY <1>n, <5>6
          <6>2. /\ Finds(s, BraceAt(s), "{") /\ Finds(s, KeyAt(s), "QUOTE")
                /\ Finds(s, ColonAt(s), ":") /\ Finds(s, ValueFrom(s), "QUOTE")
            BY <1>0, <1>2, <1>7, <2>1, <2>4, <3>1, <4>4, <5>1, <5>3, <5>6, <6>1 DEF Finds
          <6>3. Found
            BY <4>1, <5>3, <5>6, <6>2 DEF key
          <6>4. ~(N < h)
            BY ONLY <1>n, <5>6
          <6>. QED  BY <1>0, <6>3, <6>4
        <5>. QED  BY <5>5, <5>6
      <4>5. N < 5 \/ N >= 5
        BY ONLY <1>n
      <4>. QED  BY <4>3, <4>4, <4>5
    <3>. QED  BY <3>3, <3>4
  <2>5. N < 2 \/ N >= 2
    BY ONLY <1>n
  <2>. QED  BY <2>3, <2>4, <2>5
<1>8. N < 1 \/ N >= 1
  BY ONLY <1>n
<1>. QED  BY <1>6, <1>7, <1>8

\* s is a body, or the beginning of one: the intro w, the codes enc of t, a quote
\* and a brace.
Cut(s, w, t, E, enc, off) ==
    /\ Begins(s, w) /\ Len(enc) \in Nat
    /\ Len(w) <= Len(s) => Spelled(s, Len(w), t, E, enc, off)
    /\ Len(s) <= Len(w) + Len(enc) + 2
    /\ Len(s) = Len(w) + Len(enc) + 2 => s[Len(s)] = "}"

\* http_parse_message_json takes a whole body for its text, as a C string, and
\* refuses every other beginning of it, and all of it for half of a surrogate
\* pair.
LEMMA BodyParsed ==
    ASSUME NEW s, NEW w, NEW t, NEW E, NEW enc, NEW off, Cut(s, w, t, E, enc, off)
    PROVE  Message!ParseMessageJson(s) =
             IF Len(s) = Len(w) + Len(enc) + 2 /\ Sound(t) THEN Message!CString(t)
             ELSE Message!Refused
<1>. DEFINE N == Len(s)  h == Len(w)  L == Len(enc)  v == ValueOf(s)  q == ClosedAt(s)
            P == Message!ParseMessageJson(s)
<1>0. Begins(s, w) /\ (h <= N => Spelled(s, h, t, E, enc, off)) /\ (N = h + L + 2 => s[N] = "}")
  BY DEF Cut
<1>1. N \in Nat /\ h \in Nat /\ L \in Nat /\ N <= h + L + 2
  <2>1. s \in Seq(Tokens) /\ w \in Seq(Tokens)
    BY <1>0 DEF Begins
  <2>2. L \in Nat /\ N <= h + L + 2
    BY DEF Cut
  <2>. QED  BY <2>1, <2>2
<1>2. /\ N < h => P = Message!Refused
      /\ N >= h =>
            /\ Finds(s, BraceAt(s), "{") /\ Finds(s, KeyAt(s), "QUOTE") /\ KeyOf(s).ok
            /\ Finds(s, ColonAt(s), ":") /\ ValueFrom(s) = h
            /\ Finds(s, ValueFrom(s), "QUOTE")
            /\ KeyOf(s).val = <<"message">>
  BY <1>0, IntroParsed
<1>3. P = IF /\ Finds(s, BraceAt(s), "{") /\ Finds(s, KeyAt(s), "QUOTE") /\ KeyOf(s).ok
             /\ Finds(s, ColonAt(s), ":") /\ Finds(s, ValueFrom(s), "QUOTE") /\ v.ok
             /\ Finds(s, q, "}")
             /\ Message!SkipWs(s, q + 1) > N
             /\ Message!CString(KeyOf(s).val) = <<"message">>
          THEN Message!CString(v.val) ELSE Message!Refused
  BY MessageJsonIs
<1>k. N >= h => Message!CString(KeyOf(s).val) = <<"message">>
  <2>1. \A i \in 1 .. Len(<<"message">>) : <<"message">>[i] # "NUL"
    OBVIOUS
  <2>2. Message!CString(<<"message">>) = <<"message">>
    BY <2>1, CStringSame
  <2>. QED  BY <1>2, <2>2
<1>4. q = Message!SkipWs(s, v.next)
  BY DEF ClosedAt
<1>5. h <= N => v = Parsed(s, h, t, enc)
  <2>. HAVE h <= N
  <2>1. N >= h
    BY <1>1
  <2>2. ValueFrom(s) = h
    BY <1>2, <2>1
  <2>3. v = Message!ParseString(s, h + 1)
    BY <2>2 DEF ValueOf
  <2>. QED  BY <1>0, <2>3, ParseSpelled
<1>6. N > h + L /\ Sound(t) => Parsed(s, h, t, enc) = [ok |-> TRUE, val |-> t, next |-> h + L + 2]
  BY DEF Parsed
<1>7. ~(N > h + L /\ Sound(t)) => Parsed(s, h, t, enc) = Message!Failed
  BY DEF Parsed
<1>e. N = Len(s) /\ N \in Nat /\ h = Len(w) /\ L = Len(enc)
  BY <1>1
<1>. HIDE DEF N, h, L, v, q, P
<1>8. CASE N < h
  <2>1. N # h + L + 2
    BY ONLY <1>1, <1>8
  <2>. QED  BY <1>2, <1>8, <2>1, <1>e DEF P
<1>9. CASE N >= h /\ (N <= h + L \/ ~Sound(t))
  <2>1. h <= N /\ ~(N > h + L /\ Sound(t)) /\ ~(N = h + L + 2 /\ Sound(t))
    BY ONLY <1>1, <1>9
  <2>2. v = Message!Failed
    BY <1>5, <1>7, <2>1
  <2>3. v.ok = FALSE
    BY <2>2 DEF Message!Failed
  <2>4. P = Message!Refused
    BY <1>3, <2>3
  <2>. QED  BY <2>1, <2>4, <1>e DEF P
<1>10. CASE N > h + L /\ Sound(t)
  <2>1. h <= N /\ N >= h
    BY ONLY <1>1, <1>10
  <2>2. v = [ok |-> TRUE, val |-> t, next |-> h + L + 2]
    BY <1>5, <1>6, <1>10, <2>1
  <2>3. v.ok = TRUE /\ v.val = t /\ v.next = h + L + 2
    BY <2>2
  <2>4. q = Message!SkipWs(s, h + L + 2)
    BY <1>4, <2>3
  <2>. DEFINE m == h + L + 2
  <2>5. m \in Nat /\ (N = m \/ N + 1 = m)
    BY ONLY <1>1, <1>10
  <2>6. q = Message!SkipWs(s, m)
    BY <2>4
  <2>7. N = h + L + 2 <=> N = m
    OBVIOUS
  <2>8. N = m => s[m] = "}"
    BY <1>0
  <2>. HIDE DEF m
  <2>9. CASE N = m
    <3>1. "}" \notin Message!Space
      BY DEF Message!Space, Message!LF, Message!CR, Message!Tab, Message!Ff, Message!VTab
    <3>2. m <= N /\ m <= Len(s) /\ Len(s) \in Nat
      BY ONLY <1>e, <2>5, <2>9
    <3>3. q = m
      BY <2>5, <2>6, <2>8, <2>9, <3>1, <3>2, SkipNone
    <3>4. Finds(s, q, "}")
      BY <2>8, <2>9, <3>2, <3>3 DEF Finds
    <3>5. m + 1 \in Nat /\ m + 1 > Len(s) /\ N + 1 > N
      BY ONLY <1>e, <2>5, <2>9
    <3>6. Message!SkipWs(s, m + 1) = N + 1
      BY <1>e, <3>5, SkipEnd
    <3>7. P = Message!CString(t)
      BY <1>2, <1>3, <1>k, <2>1, <2>3, <3>3, <3>4, <3>5, <3>6
    <3>. QED  BY <1>10, <2>7, <2>9, <3>7, <1>e DEF P
  <2>10. CASE N + 1 = m
    <3>1. m > Len(s) /\ m = Len(s) + 1 /\ ~(m <= Len(s)) /\ N # m /\ Len(s) \in Nat
      BY ONLY <1>e, <2>5, <2>10
    <3>2. q = m
      BY <2>5, <2>6, <3>1, SkipEnd
    <3>3. ~Finds(s, q, "}")
      BY <3>1, <3>2 DEF Finds
    <3>4. P = Message!Refused
      BY <1>3, <3>3
    <3>. QED  BY <2>7, <3>1, <3>4, <1>e DEF P
  <2>. QED  BY <2>5, <2>9, <2>10
<1>11. N < h \/ (N >= h /\ (N <= h + L \/ ~Sound(t))) \/ (N > h + L /\ Sound(t))
  BY ONLY <1>1
<1>. QED  BY <1>8, <1>9, <1>10, <1>11

\* What the clients send: the codes of a text between the constant parts.
Codes(t, ascii) == [i \in 1 .. Len(t) |-> Code(t[i], ascii)]
Coded(t, ascii) == Path!FlattenSeq(Codes(t, ascii))
Gap(ascii) == IF ascii THEN <<"SPACE">> ELSE <<>>
Intro(ascii) == <<"{", "QUOTE", "message", "QUOTE", ":">> \o Gap(ascii) \o <<"QUOTE">>
Sent(t, ascii) == Intro(ascii) \o Coded(t, ascii) \o <<"QUOTE", "}">>

\* The page and a client that escapes all but ASCII send such bodies.
LEMMA BodyIs ==
    ASSUME NEW t
    PROVE  /\ Message!MessageBody(t, Message!Stringify, <<>>) = Sent(t, FALSE)
           /\ Message!MessageBody(t, Message!Ascii, <<"SPACE">>) = Sent(t, TRUE)
<1>1. /\ Codes(t, FALSE) = [i \in 1 .. Len(t) |-> Message!Stringify(t[i])]
      /\ Codes(t, TRUE) = [i \in 1 .. Len(t) |-> Message!Ascii(t[i])]
  BY DEF Codes, Code
<1>2. /\ Intro(FALSE) = <<"{", "QUOTE", "message", "QUOTE", ":">> \o <<>> \o <<"QUOTE">>
      /\ Intro(TRUE) = <<"{", "QUOTE", "message", "QUOTE", ":">> \o <<"SPACE">> \o <<"QUOTE">>
  BY DEF Intro, Gap
<1>3. /\ Message!MessageBody(t, Message!Stringify, <<>>) =
           Intro(FALSE) \o Message!FlattenSeq(Codes(t, FALSE)) \o <<"QUOTE", "}">>
      /\ Message!MessageBody(t, Message!Ascii, <<"SPACE">>) =
           Intro(TRUE) \o Message!FlattenSeq(Codes(t, TRUE)) \o <<"QUOTE", "}">>
  BY <1>1, <1>2 DEF Message!MessageBody, Message!Quote
<1>. QED  BY <1>3, SameFlatten DEF Sent, Coded

\* The codes of a text stand one behind the other.
LEMMA CodedIs ==
    ASSUME NEW t \in Seq(Message!Chars), NEW ascii \in BOOLEAN
    PROVE  /\ Coded(t, ascii) \in Seq(Printable) /\ Coded(t, ascii) \in Seq(Tokens)
           /\ Len(Codes(t, ascii)) = Len(t)
           /\ \A k \in 1 .. Len(t) : Spells(t[k], Codes(t, ascii)[k])
           /\ \E off : FlatAt(Codes(t, ascii), Coded(t, ascii), off)
<1>. DEFINE E == Codes(t, ascii)
<1>1. \A k \in 1 .. Len(t) : Spells(t[k], Code(t[k], ascii))
  <2>1. \A k \in 1 .. Len(t) : t[k] \in Message!Chars
    OBVIOUS
  <2>. QED  BY <2>1, CodeIs
<1>2. \A k \in 1 .. Len(t) : Code(t[k], ascii) \in Seq(Printable)
  BY <1>1, CodeType DEF Spells
<1>3. Len(t) \in Nat
  OBVIOUS
<1>4. E \in Seq(Seq(Printable)) /\ Len(E) = Len(t)
  BY <1>2, <1>3 DEF Codes
<1>5. \A k \in 1 .. Len(t) : E[k] = Code(t[k], ascii)
  BY DEF Codes
<1>6. \A k \in 1 .. Len(t) : Spells(t[k], E[k])
  BY <1>1, <1>5
<1>. HIDE DEF E
<1>7. /\ Path!FlattenSeq(E) \in Seq(Printable)
      /\ \E off : FlatAt(E, Path!FlattenSeq(E), off)
  BY <1>4, Flattened
<1>8. Seq(Printable) \subseteq Seq(Tokens)
  <2>1. Printable \subseteq Tokens
    BY DEF Printable
  <2>. QED  BY <2>1
<1>. QED  BY <1>4, <1>6, <1>7, <1>8 DEF E, Coded

\* The characters before the codes.
LEMMA IntroFacts ==
    ASSUME NEW ascii \in BOOLEAN
    PROVE  /\ Intro(ascii) \in Seq(Tokens) /\ Len(Intro(ascii)) \in {6, 7}
           /\ Intro(ascii)[1] = "{" /\ Intro(ascii)[2] = "QUOTE" /\ Intro(ascii)[3] = "message"
           /\ Intro(ascii)[4] = "QUOTE" /\ Intro(ascii)[5] = ":"
           /\ Intro(ascii)[Len(Intro(ascii))] = "QUOTE"
           /\ Len(Intro(ascii)) = 7 => Intro(ascii)[6] = "SPACE"
<1>. DEFINE a == <<"{", "QUOTE", "message", "QUOTE", ":">>  g == Gap(ascii)
            q == <<"QUOTE">>  ag == a \o g  w == ag \o q
<1>1. a \in Seq(Tokens) /\ q \in Seq(Tokens) /\ <<"SPACE">> \in Seq(Tokens)
  <2>1. \A c, d, e \in Tokens : <<c>> \in Seq(Tokens) /\ <<c, d, c, d, e>> \in Seq(Tokens)
    OBVIOUS
  <2>2. \A u, c, d, e \in Tokens : <<u, c, d, c, e>> \in Seq(Tokens)
    OBVIOUS
  <2>3. {"{", "QUOTE", "message", ":", "SPACE"} \subseteq Tokens
    BY DEF Tokens
  <2>. QED  BY <2>1, <2>2, <2>3
<1>2. g \in Seq(Tokens) /\ (Len(g) = 0 \/ (Len(g) = 1 /\ g[1] = "SPACE"))
  <2>1. CASE ascii
    BY <1>1, <2>1 DEF Gap
  <2>2. CASE ~ascii
    BY <2>2, EmptySeq DEF Gap
  <2>. QED  BY <2>1, <2>2
<1>3. /\ Len(a) = 5 /\ a[1] = "{" /\ a[2] = "QUOTE" /\ a[3] = "message"
      /\ a[4] = "QUOTE" /\ a[5] = ":" /\ Len(q) = 1 /\ q[1] = "QUOTE"
  OBVIOUS
<1>4. w = Intro(ascii)
  BY DEF Intro
<1>. HIDE DEF a, g, q, w, ag
<1>5. /\ ag \in Seq(Tokens) /\ Len(ag) = Len(a) + Len(g)
      /\ \A i \in 1 .. Len(a) : ag[i] = a[i]
      /\ \A i \in 1 .. Len(g) : ag[Len(a) + i] = g[i]
  BY <1>1, <1>2, Concat DEF ag
<1>6. /\ w \in Seq(Tokens) /\ Len(w) = Len(ag) + Len(q)
      /\ \A i \in 1 .. Len(ag) : w[i] = ag[i]
      /\ \A i \in 1 .. Len(q) : w[Len(ag) + i] = q[i]
  <2>1. ag \in Seq(Tokens) /\ q \in Seq(Tokens)
    BY <1>1, <1>5
  <2>2. /\ ag \o q \in Seq(Tokens) /\ Len(ag \o q) = Len(ag) + Len(q)
        /\ \A i \in 1 .. Len(ag) : (ag \o q)[i] = ag[i]
        /\ \A i \in 1 .. Len(q) : (ag \o q)[Len(ag) + i] = q[i]
    BY ONLY <2>1, Concat
  <2>. QED  BY <2>2 DEF w
<1>. DEFINE m == Len(ag)  n == Len(w)  la == Len(a)  lg == Len(g)  lq == Len(q)
<1>a. la = 5 /\ lq = 1 /\ (lg = 0 \/ lg = 1) /\ m = la + lg /\ n = m + lq
  <2>1. lg = 0 \/ lg = 1
    BY <1>2
  <2>2. la = 5 /\ lq = 1
    BY <1>3
  <2>3. m = la + lg /\ n = m + lq
    BY <1>5, <1>6
  <2>. QED  BY ONLY <2>1, <2>2, <2>3
<1>. HIDE DEF m, n, la, lg, lq
<1>7. n = m + 1 /\ (m = 5 \/ (m = 6 /\ lg = 1))
  BY ONLY <1>a
<1>8. \A i \in 1 .. 5 : w[i] = a[i]
  <2>1. \A i \in 1 .. 5 : i \in 1 .. la /\ i \in 1 .. m
    BY ONLY <1>a
  <2>. QED  BY <1>5, <1>6, <2>1 DEF la, m
<1>9. w[n] = "QUOTE"
  <2>1. 1 \in 1 .. lq /\ n = m + 1
    BY ONLY <1>a
  <2>. QED  BY <1>3, <1>6, <2>1 DEF lq, m
<1>10. n = 7 => w[6] = "SPACE"
  <2>. HAVE n = 7
  <2>0. n = 7
    OBVIOUS
  <2>1. lg = 1 /\ 6 \in 1 .. m /\ 1 \in 1 .. lg /\ la + 1 = 6 /\ lg # 0
    BY ONLY <1>a, <2>0
  <2>2. w[6] = ag[6] /\ ag[6] = g[1]
    <3>1. w[6] = ag[6]
      BY <1>6, <2>1 DEF m
    <3>2. ag[la + 1] = g[1]
      BY ONLY <1>5, <2>1 DEF la, lg
    <3>. QED  BY <2>1, <3>1, <3>2
  <2>3. g[1] = "SPACE"
    BY <1>2, <2>1 DEF lg
  <2>. QED  BY <2>2, <2>3
<1>11. n \in {6, 7}
  BY ONLY <1>a
<1>12. 1 \in 1 .. 5 /\ 2 \in 1 .. 5 /\ 3 \in 1 .. 5 /\ 4 \in 1 .. 5 /\ 5 \in 1 .. 5
  OBVIOUS
<1>13. w[1] = "{" /\ w[2] = "QUOTE" /\ w[3] = "message" /\ w[4] = "QUOTE" /\ w[5] = ":"
  BY <1>3, <1>8, <1>12
<1>. QED  BY <1>4, <1>6, <1>9, <1>10, <1>11, <1>13 DEF n

\* Short sequences.
LEMMA PairType ==
    ASSUME NEW C, NEW c \in C, NEW d \in C
    PROVE  <<c>> \in Seq(C) /\ <<c, d>> \in Seq(C)
OBVIOUS

\* Where the parts of a body or an event are.
PutTogether(C, sent, w, enc, z) ==
    /\ sent \in Seq(C) /\ Len(sent) = Len(w) + Len(enc) + Len(z)
    /\ \A i \in 1 .. Len(w) : sent[i] = w[i]
    /\ \A i \in 1 .. Len(enc) : sent[Len(w) + i] = enc[i]
    /\ \A i \in 1 .. Len(z) : sent[Len(w) + Len(enc) + i] = z[i]

\* Three texts in a row.
LEMMA SentFacts ==
    ASSUME NEW C, NEW w \in Seq(C), NEW enc \in Seq(C), NEW z \in Seq(C), NEW sent,
           sent = w \o enc \o z
    PROVE  PutTogether(C, sent, w, enc, z)
<1>. DEFINE m == w \o enc  h == Len(w)  L == Len(enc)  M == Len(m)
<1>1. w \in Seq(C) /\ enc \in Seq(C) /\ z \in Seq(C)
  OBVIOUS
<1>3. /\ m \in Seq(C) /\ M = h + L
      /\ \A i \in 1 .. h : m[i] = w[i]
      /\ \A i \in 1 .. L : m[h + i] = enc[i]
  BY ONLY <1>1, Concat
<1>4. h \in Nat /\ L \in Nat /\ M \in Nat /\ Len(z) \in Nat
  <2>1. m \in Seq(C)
    BY <1>3
  <2>. QED  BY ONLY <1>1, <2>1
<1>5. sent = m \o z
  OBVIOUS
<1>. HIDE DEF m, M, h, L
<1>6. m \in Seq(C) /\ z \in Seq(C)
  BY <1>1, <1>3
<1>7. /\ m \o z \in Seq(C) /\ Len(m \o z) = Len(m) + Len(z)
      /\ \A i \in 1 .. Len(m) : (m \o z)[i] = m[i]
      /\ \A i \in 1 .. Len(z) : (m \o z)[Len(m) + i] = z[i]
  BY ONLY <1>6, Concat
<1>8. /\ sent \in Seq(C) /\ Len(sent) = M + Len(z)
      /\ \A i \in 1 .. M : sent[i] = m[i]
      /\ \A i \in 1 .. Len(z) : sent[M + i] = z[i]
  BY ONLY <1>5, <1>7 DEF M
<1>9. /\ \A i \in 1 .. h : i \in 1 .. M
      /\ \A i \in 1 .. L : h + i \in 1 .. M
      /\ M = h + L
  <2>1. M = h + L
    BY <1>3
  <2>. QED  BY ONLY <1>4, <2>1
<1>10. /\ \A i \in 1 .. h : sent[i] = w[i]
       /\ \A i \in 1 .. L : sent[h + i] = enc[i]
  BY ONLY <1>3, <1>8, <1>9
<1>11. /\ sent \in Seq(C) /\ Len(sent) = h + L + Len(z)
       /\ \A i \in 1 .. Len(z) : sent[h + L + i] = z[i]
  BY ONLY <1>8, <1>9
<1>. QED  BY <1>10, <1>11 DEF PutTogether, h, L

\* http_parse_message_json returns the text of a body that came to its end, up to
\* a NUL and whichever client wrote it, or refuses it for half of a surrogate
\* pair; and it refuses a body that was cut anywhere.
LEMMA SentParsed ==
    ASSUME NEW t \in Seq(Message!Chars), NEW ascii \in BOOLEAN, NEW n \in 0 .. Len(Sent(t, ascii))
    PROVE  Message!ParseMessageJson(SubSeq(Sent(t, ascii), 1, n)) =
             IF n = Len(Sent(t, ascii)) /\ Sound(t) THEN Message!CString(t)
             ELSE Message!Refused
<1>. DEFINE sent == Sent(t, ascii)  s == SubSeq(sent, 1, n)  w == Intro(ascii)
            enc == Coded(t, ascii)  E == Codes(t, ascii)  h == Len(w)  L == Len(enc)
<1>1. /\ w \in Seq(Tokens) /\ h \in {6, 7}
      /\ w[1] = "{" /\ w[2] = "QUOTE" /\ w[3] = "message" /\ w[4] = "QUOTE" /\ w[5] = ":"
      /\ w[h] = "QUOTE" /\ (h = 7 => w[6] = "SPACE")
  BY IntroFacts
<1>2. /\ enc \in Seq(Tokens) /\ Len(E) = Len(t)
      /\ \A k \in 1 .. Len(t) : Spells(t[k], E[k])
      /\ \E off : FlatAt(E, enc, off)
  BY CodedIs
<1>3. PICK off : FlatAt(E, enc, off)
  BY <1>2
<1>4. sent = w \o enc \o <<"QUOTE", "}">>
  BY DEF Sent
<1>. HIDE DEF sent, w, enc, E
<1>5. /\ sent \in Seq(Tokens) /\ Len(sent) = h + L + 2
      /\ \A i \in 1 .. h : sent[i] = w[i]
      /\ \A i \in 1 .. L : sent[h + i] = enc[i]
      /\ sent[h + L + 1] = "QUOTE" /\ sent[h + L + 2] = "}"
  <2>. DEFINE z == <<"QUOTE", "}">>
  <2>1. w \in Seq(Tokens) /\ enc \in Seq(Tokens) /\ sent = w \o enc \o z
    BY <1>1, <1>2, <1>4
  <2>2. z \in Seq(Tokens)
    <3>1. "QUOTE" \in Tokens /\ "}" \in Tokens
      BY DEF Tokens
    <3>. QED  BY <3>1, PairType
  <2>3. Len(z) = 2 /\ z[1] = "QUOTE" /\ z[2] = "}"
    OBVIOUS
  <2>. HIDE DEF z
  <2>4. PutTogether(Tokens, sent, w, enc, z)
    BY ONLY <2>1, <2>2, SentFacts
  <2>5. 1 \in 1 .. Len(z) /\ 2 \in 1 .. Len(z)
    <3>1. Len(z) = 2
      BY <2>3
    <3>. QED  BY ONLY <3>1
  <2>. QED  BY ONLY <2>3, <2>4, <2>5 DEF PutTogether
<1>6. n \in 0 .. Len(sent)
  BY DEF sent
<1>7. h \in Nat /\ L \in Nat /\ Len(sent) \in Nat
  <2>1. w \in Seq(Tokens) /\ enc \in Seq(Tokens) /\ sent \in Seq(Tokens)
    BY <1>1, <1>2, <1>5
  <2>. QED  BY ONLY <2>1
<1>8. s \in Seq(Tokens) /\ Len(s) = n /\ \A i \in 1 .. n : s[i] = sent[i]
  <2>1. sent \in Seq(Tokens) /\ n \in 0 .. Len(sent)
    BY <1>5, <1>6
  <2>. QED  BY ONLY <2>1
<1>. HIDE DEF s, h, L
<1>9. n \in Nat /\ n <= h + L + 2
  <2>1. Len(sent) = h + L + 2
    BY <1>5
  <2>. QED  BY ONLY <1>6, <1>7, <2>1
<1>10. Begins(s, w)
  <2>1. \A i \in 1 .. h : i <= n => i \in 1 .. n
    BY ONLY <1>7, <1>9
  <2>2. \A i \in 1 .. h : i <= n => s[i] = w[i]
    BY ONLY <1>5, <1>8, <2>1
  <2>. QED  BY <1>1, <1>8, <2>2 DEF Begins, h
<1>11. h <= n => Spelled(s, h, t, E, enc, off)
  <2>. SUFFICES ASSUME h <= n PROVE Spelled(s, h, t, E, enc, off)
    OBVIOUS
  <2>1. \A i \in 1 .. L : h + i <= n => h + i \in 1 .. n
    BY ONLY <1>7, <1>9
  <2>2. \A i \in 1 .. L : h + i <= n => s[h + i] = enc[i]
    BY ONLY <1>5, <1>8, <2>1
  <2>3. n > h + L => h + L + 1 \in 1 .. n
    BY ONLY <1>7, <1>9
  <2>4. n > h + L => s[h + L + 1] = "QUOTE"
    BY ONLY <1>5, <1>8, <2>3
  <2>5. h <= n
    OBVIOUS
  <2>6. /\ \A i \in 1 .. Len(enc) : h + i <= Len(s) => s[h + i] = enc[i]
        /\ Len(s) > h + Len(enc) => s[h + Len(enc) + 1] = "QUOTE"
        /\ h <= Len(s) /\ Len(enc) \in Nat
    BY <1>7, <1>8, <2>2, <2>4, <2>5 DEF L
  <2>. QED  BY <1>2, <1>3, <1>7, <1>8, <2>6 DEF Spelled
<1>12. n = h + L + 2 => s[n] = "}"
  <2>1. n = h + L + 2 => n \in 1 .. n
    BY ONLY <1>7, <1>9
  <2>. QED  BY ONLY <1>5, <1>8, <2>1
<1>13. Cut(s, w, t, E, enc, off)
  BY <1>7, <1>8, <1>9, <1>10, <1>11, <1>12 DEF Cut, h, L
<1>14. Message!ParseMessageJson(s) =
          IF Len(s) = Len(w) + Len(enc) + 2 /\ Sound(t) THEN Message!CString(t)
          ELSE Message!Refused
  BY ONLY <1>13, BodyParsed
<1>. QED  BY <1>5, <1>8, <1>14 DEF s, sent, h, L

-----------------------------------------------------------------------------
(* MessageText: http_json_escape. *)

\* What the store can hold.
Kept == Message!Chars \ {"NUL", "LONE"}

\* What http_json_escape writes for such a character is what JSON.stringify writes.
Escaped(c) ==
    CASE c = Message!BSlash -> <<Message!BSlash, Message!BSlash>>
      [] c = Message!Quote -> <<Message!BSlash, Message!Quote>>
      [] c = Message!LF -> <<Message!BSlash, "n">>
      [] c = Message!CR -> <<Message!BSlash, "r">>
      [] c = Message!Tab -> <<Message!BSlash, "t">>
      [] c = Message!Bs -> <<Message!BSlash, "b">>
      [] c = Message!Ff -> <<Message!BSlash, "f">>
      [] c = Message!VTab -> <<Message!BSlash, "u", "000B">>
      [] c = Message!Ctl -> <<Message!BSlash, "u", "0001">>
      [] OTHER -> <<c>>

\* Character by character.
LEMMA EscapedIs ==
    ASSUME NEW c \in Kept
    PROVE  Escaped(c) = Code(c, FALSE)
<1>0. c \in {"a", "SPACE", "/", "QUOTE", "BACKSLASH", "LF", "CR", "TAB", "BS", "FF", "VT", "CTL",
             "NBSP", "EMO"}
  BY CharsAre DEF Kept
<1>. QED  BY <1>0 DEF Escaped, Code, Message!Stringify, Message!Quote, Message!BSlash, Message!LF,
                      Message!CR, Message!Tab, Message!Bs, Message!Ff, Message!VTab, Message!Ctl,
                      Message!Nul, Message!Lone

\* And so for a text.
LEMMA EscapeIs ==
    ASSUME NEW t \in Seq(Kept)
    PROVE  Message!JsonEscape(t) = Coded(t, FALSE)
<1>1. Message!JsonEscape(t) = Message!FlattenSeq([i \in 1 .. Len(t) |-> Escaped(t[i])])
  BY DEF Message!JsonEscape, Escaped
<1>2. \A i \in 1 .. Len(t) : t[i] \in Kept
  OBVIOUS
<1>3. \A i \in 1 .. Len(t) : Escaped(t[i]) = Code(t[i], FALSE)
  BY <1>2, EscapedIs
<1>4. [i \in 1 .. Len(t) |-> Escaped(t[i])] = Codes(t, FALSE)
  BY <1>3 DEF Codes
<1>. QED  BY <1>1, <1>4, SameFlatten DEF Coded

\* What http_json_escape writes is JSON, and stands for the text.
LEMMA EscapeIsRead ==
    ASSUME NEW t \in Seq(Kept)
    PROVE  Message!JsonParse(Message!JsonEscape(t)) = t
<1>. DEFINE enc == Coded(t, FALSE)  E == Codes(t, FALSE)  s == enc \o <<Message!Quote>>  L == Len(enc)
            RawChars == {Message!LF, Message!CR, Message!Tab, Message!Bs, Message!Ff, Message!VTab,
                         Message!Ctl, Message!Nul}
<1>0. t \in Seq(Message!Chars) /\ Sound(t)
  <2>1. Kept \subseteq Message!Chars /\ "LONE" \notin Kept
    BY DEF Kept
  <2>2. \A i \in 1 .. Len(t) : t[i] \in Kept
    OBVIOUS
  <2>. QED  BY <2>1, <2>2 DEF Sound
<1>1. /\ enc \in Seq(Printable) /\ enc \in Seq(Tokens) /\ Len(E) = Len(t)
      /\ \A k \in 1 .. Len(t) : Spells(t[k], E[k])
      /\ \E off : FlatAt(E, enc, off)
  BY <1>0, CodedIs
<1>2. PICK off : FlatAt(E, enc, off)
  BY <1>1
<1>3. Message!JsonEscape(t) = enc
  BY EscapeIs
<1>4. ~\E i \in 1 .. Len(enc) : enc[i] \in RawChars
  <2>1. \A i \in 1 .. Len(enc) : enc[i] \in Printable
    <3>. HIDE DEF enc
    <3>1. enc \in Seq(Printable)
      BY <1>1
    <3>. QED  BY ONLY <3>1
  <2>2. \A c \in Printable : c \notin RawChars
    BY DEF Printable, Raw, Message!LF, Message!CR, Message!Tab, Message!Bs, Message!Ff,
           Message!VTab, Message!Ctl, Message!Nul
  <2>. QED  BY <2>1, <2>2
<1>. HIDE DEF enc, E
<1>5. <<Message!Quote>> \in Seq(Tokens) /\ Len(<<Message!Quote>>) = 1 /\ <<Message!Quote>>[1] = "QUOTE"
  <2>1. "QUOTE" \in Tokens
    BY DEF Tokens
  <2>. QED  BY <2>1, PairType DEF Message!Quote
<1>. DEFINE z == <<Message!Quote>>
<1>6. L \in Nat
  BY <1>1
<1>. HIDE DEF z
<1>7. /\ enc \o z \in Seq(Tokens) /\ Len(enc \o z) = Len(enc) + Len(z)
      /\ \A i \in 1 .. Len(enc) : (enc \o z)[i] = enc[i]
      /\ \A i \in 1 .. Len(z) : (enc \o z)[Len(enc) + i] = z[i]
  <2>1. enc \in Seq(Tokens) /\ z \in Seq(Tokens)
    BY <1>1, <1>5 DEF z
  <2>. QED  BY ONLY <2>1, Concat
<1>8. Len(z) = 1 /\ z[1] = "QUOTE" /\ s = enc \o z
  BY <1>5 DEF z
<1>9. 1 \in 1 .. Len(z)
  <2>1. Len(z) = 1
    BY <1>8
  <2>. QED  BY ONLY <2>1
<1>10. s \in Seq(Tokens) /\ Len(s) = L + 1 /\ s[L + 1] = "QUOTE" /\ \A i \in 1 .. L : s[i] = enc[i]
  BY ONLY <1>7, <1>8, <1>9 DEF L
<1>11. Spelled(s, 0, t, E, enc, off)
  <2>1. \A i \in 1 .. L : 0 + i = i
    BY ONLY <1>6
  <2>2. \A i \in 1 .. L : 0 + i <= Len(s) => s[0 + i] = enc[i]
    BY ONLY <1>10, <2>1
  <2>3. 0 + L + 1 = L + 1 /\ 0 \in Nat /\ 0 <= L + 1
    BY ONLY <1>6
  <2>4. Len(s) > 0 + L => s[0 + L + 1] = "QUOTE"
    BY ONLY <1>10, <2>3
  <2>5. 0 \in Nat /\ 0 <= Len(s)
    BY ONLY <1>10, <2>3
  <2>6. s \in Seq(Tokens)
    BY <1>10
  <2>. HIDE DEF s
  <2>. QED  BY <1>0, <1>1, <1>2, <1>6, <2>2, <2>4, <2>5, <2>6 DEF Spelled, L
<1>12. Message!ParseString(s, 0 + 1) = Parsed(s, 0, t, enc)
  BY ONLY <1>11, ParseSpelled
<1>. DEFINE v == Message!ParseString(s, 1)
<1>13. v = [ok |-> TRUE, val |-> t, next |-> 0 + L + 2]
  <2>1. Len(s) > 0 + L /\ 0 + 1 = 1
    <3>1. Len(s) = L + 1
      BY <1>10
    <3>. HIDE DEF s, L
    <3>. QED  BY ONLY <1>6, <3>1
  <2>2. Parsed(s, 0, t, enc) = [ok |-> TRUE, val |-> t, next |-> 0 + L + 2]
    BY ONLY <1>0, <2>1 DEF Parsed, L
  <2>. QED  BY ONLY <1>12, <2>1, <2>2
<1>. HIDE DEF v
<1>14. v.ok = TRUE /\ v.val = t
  BY <1>13
<1>15. Message!JsonParse(enc) = IF v.ok THEN v.val ELSE Message!Refused
  BY <1>4 DEF Message!JsonParse, v
<1>. QED  BY <1>3, <1>14, <1>15

-----------------------------------------------------------------------------
(* MessageText: the event stream. *)

\* FlattenSeq of one sequence more.
LEMMA FlatAppend ==
    ASSUME NEW C, NEW E \in Seq(Seq(C)), NEW w \in Seq(C)
    PROVE  /\ Append(E, w) \in Seq(Seq(C))
           /\ Path!FlattenSeq(Append(E, w)) = Path!FlattenSeq(E) \o w
<1>. DEFINE F == Append(E, w)  n == Len(E)
<1>1. /\ F \in Seq(Seq(C)) /\ Len(F) = n + 1 /\ n \in Nat /\ F[n + 1] = w
      /\ \A k \in 1 .. n : F[k] = E[k]
  OBVIOUS
<1>. HIDE DEF F
<1>2. PICK a : Grows(C, E, a) /\ Path!FlattenSeq(E) = a[n]
  BY FlatGrows
<1>3. PICK b : Grows(C, F, b) /\ Path!FlattenSeq(F) = b[n + 1]
  <2>1. \E b : Grows(C, F, b) /\ Path!FlattenSeq(F) = b[Len(F)]
    BY <1>1, FlatGrows
  <2>. QED  BY <1>1, <2>1
<1>4. a[0] = <<>> /\ \A k \in 1 .. n : a[k] = a[k - 1] \o E[k]
  BY <1>2 DEF Grows
<1>5. b[0] = <<>> /\ \A k \in 1 .. n + 1 : b[k] = b[k - 1] \o F[k]
  BY <1>1, <1>3 DEF Grows
<1>. HIDE DEF n
<1>. DEFINE T == {k \in 0 .. n : a[k] = b[k]}
<1>6. \A k \in 0 .. n : k \in T
  <2>1. 0 \in T
    <3>1. 0 \in 0 .. n
      BY <1>1
    <3>. QED  BY <1>4, <1>5, <3>1
  <2>2. ASSUME NEW k \in 0 .. n - 1, k \in T
        PROVE  k + 1 \in T
    <3>0. n \in Nat
      BY <1>1
    <3>1. k + 1 \in 1 .. n /\ k + 1 \in 1 .. n + 1 /\ (k + 1) - 1 = k /\ k + 1 \in 0 .. n
      BY ONLY <3>0, k \in 0 .. n - 1
    <3>2. a[k + 1] = a[k] \o E[k + 1]
      BY <1>4, <3>1
    <3>3. b[k + 1] = b[k] \o F[k + 1]
      BY <1>5, <3>1
    <3>4. a[k] = b[k] /\ F[k + 1] = E[k + 1]
      BY <1>1, <2>2, <3>1
    <3>. QED  BY <3>1, <3>2, <3>3, <3>4
  <2>. HIDE DEF T
  <2>. QED  BY <1>1, <2>1, <2>2, Ascent
<1>7. a[n] = b[n]
  <2>1. n \in 0 .. n
    BY <1>1
  <2>. QED  BY <1>6, <2>1
<1>8. b[n + 1] = b[n] \o w
  <2>1. n + 1 \in 1 .. n + 1 /\ (n + 1) - 1 = n
    BY <1>1
  <2>. QED  BY <1>1, <1>5, <2>1
<1>. QED  BY <1>1, <1>2, <1>3, <1>7, <1>8 DEF F

\* The first i positions, as a fold takes them away.
LEMMA FirstPositions ==
    ASSUME NEW n \in Nat, NEW i \in 1 .. n
    PROVE  /\ 1 .. i \in SUBSET (1 .. n) /\ 1 .. i # {}
           /\ Greatest(1 .. i) = i /\ (1 .. i) \ {i} = 1 .. i - 1
<1>1. 1 .. i \in SUBSET (1 .. n) /\ 1 .. i # {} /\ (1 .. i) \ {i} = 1 .. i - 1
  <2>1. i \in Nat /\ i <= n /\ i \in 1 .. i
    OBVIOUS
  <2>2. 1 .. i \subseteq 1 .. n
    BY <2>1
  <2>3. \A j : j \in (1 .. i) \ {i} <=> j \in 1 .. i - 1
    BY <2>1
  <2>. QED  BY <2>1, <2>2, <2>3
<1>2. /\ Greatest(1 .. i) \in 1 .. i
      /\ \A y \in 1 .. i : Greatest(1 .. i) >= y
  BY <1>1, GreatestNumber
<1>. QED  BY <1>1, <1>2

\* One token of a stream, and the function FoldLeft makes of it.
LineStep(s, acc, i) ==
    IF s[i] = Message!LF /\ i > 1 /\ s[i - 1] = Message!CR THEN acc
    ELSE IF s[i] \in {Message!LF, Message!CR} THEN Append(acc, <<>>)
    ELSE [acc EXCEPT ![Len(acc)] = Append(@, s[i])]

Positions(s) == [i \in 1 .. Len(s) |-> i]

LinesFn(s) ==
    CHOOSE g : g = [z \in SUBSET (DOMAIN Positions(s)) |->
                      IF z = {} THEN <<<<>>>>
                      ELSE LineStep(s, g[z \ {Greatest(z)}], Positions(s)[Greatest(z)])]

\* StreamLines is the fold over the positions of the stream.
LEMMA LinesFold ==
    ASSUME NEW s
    PROVE  Message!StreamLines(s) = Message!Front(LinesFn(s)[DOMAIN Positions(s)])
BY DEF Message!StreamLines, Message!FoldLeft, Message!MapThenFoldSet, Message!Max, LinesFn, LineStep,
       Greatest, Positions

\* The lines so far, the last of them not ended.
Pages(C) == {q \in Seq(Seq(C)) : Len(q) >= 1}

\* A character ends a line or makes the last one longer.
LEMMA LineStepType ==
    ASSUME NEW C, NEW s \in Seq(C), NEW i \in 1 .. Len(s), NEW acc \in Pages(C)
    PROVE  LineStep(s, acc, i) \in Pages(C)
<1>0. acc \in Seq(Seq(C)) /\ Len(acc) \in Nat /\ Len(acc) >= 1 /\ s[i] \in C
  BY DEF Pages
<1>1. Append(acc, <<>>) \in Pages(C)
  <2>1. <<>> \in Seq(C)
    BY EmptySeq
  <2>2. Append(acc, <<>>) \in Seq(Seq(C)) /\ Len(Append(acc, <<>>)) = Len(acc) + 1
    BY <1>0, <2>1
  <2>. QED  BY <1>0, <2>2 DEF Pages
<1>2. [acc EXCEPT ![Len(acc)] = Append(@, s[i])] \in Pages(C)
  <2>. DEFINE l == acc[Len(acc)]  b == [acc EXCEPT ![Len(acc)] = Append(l, s[i])]
  <2>1. l \in Seq(C) /\ Len(acc) \in 1 .. Len(acc)
    BY <1>0
  <2>2. Append(l, s[i]) \in Seq(C)
    BY <1>0, <2>1
  <2>3. b \in Seq(Seq(C)) /\ Len(b) = Len(acc)
    BY <1>0, <2>2
  <2>4. [acc EXCEPT ![Len(acc)] = Append(@, s[i])] = b
    BY <2>1
  <2>. HIDE DEF b
  <2>. QED  BY <1>0, <2>3, <2>4 DEF Pages
<1>. QED  BY <1>1, <1>2 DEF LineStep

\* How the lines grow along s.
Feeds(s, at) ==
    /\ at[0] = <<<<>>>>
    /\ \A i \in 1 .. Len(s) : at[i] = LineStep(s, at[i - 1], i)

\* The lines grow character by character.
LEMMA LinesAre ==
    ASSUME NEW C, NEW s \in Seq(C)
    PROVE  \E at : Feeds(s, at) /\ Message!StreamLines(s) = Message!Front(at[Len(s)])
<1>. DEFINE n == Len(s)  A == Pages(C)  a == <<<<>>>>
            Eq(g) == g = [z \in SUBSET (DOMAIN Positions(s)) |->
                      IF z = {} THEN <<<<>>>>
                      ELSE LineStep(s, g[z \ {Greatest(z)}], Positions(s)[Greatest(z)])]
            F == [i \in 1 .. n |-> [acc \in A |-> LineStep(s, acc, i)]]
<1>1. Message!StreamLines(s) = Message!Front(LinesFn(s)[DOMAIN Positions(s)])
  BY LinesFold
<1>2. n \in Nat /\ DOMAIN Positions(s) = 1 .. n /\ \A i \in 1 .. n : Positions(s)[i] = i
  BY DEF Positions
<1>3. a \in A
  <2>1. <<>> \in Seq(C)
    BY EmptySeq
  <2>2. <<<<>>>> \in Seq(Seq(C)) /\ Len(<<<<>>>>) = 1
    BY <2>1
  <2>. QED  BY <2>2 DEF Pages
<1>4. \A i \in 1 .. n : \A acc \in A : LineStep(s, acc, i) \in A
  BY LineStepType
<1>. HIDE DEF A, n, a
<1>5. F \in [1 .. n -> [A -> A]]
  BY <1>4
<1>6. PICK g : FoldBy(n, A, a, F, g)
  <2>. HIDE DEF F
  <2>1. Folding(n, A, a, F)
    BY <1>2, <1>3, <1>5 DEF Folding
  <2>. QED  BY <2>1, FoldExists
<1>7. ASSUME NEW z \in SUBSET (1 .. n), z # {}
      PROVE  F[Greatest(z)][g[z \ {Greatest(z)}]]
                = LineStep(s, g[z \ {Greatest(z)}], Positions(s)[Greatest(z)])
  <2>1. Greatest(z) \in 1 .. n
    BY <1>2, <1>7, GreatestNumber
  <2>2. g[z \ {Greatest(z)}] \in A
    BY <1>6 DEF FoldBy
  <2>3. Positions(s)[Greatest(z)] = Greatest(z)
    BY <1>2, <2>1
  <2>. QED  BY <2>1, <2>2, <2>3
<1>8. Eq(g)
  <2>. HIDE DEF F
  <2>. QED  BY <1>2, <1>6, <1>7 DEF FoldBy, a
<1>9. Eq(LinesFn(s))
  <2>1. LinesFn(s) = CHOOSE h : Eq(h)
    BY DEF LinesFn
  <2>. HIDE DEF Eq
  <2>. QED  BY <1>8, <2>1
<1>. DEFINE f == LinesFn(s)  at == [i \in 0 .. n |-> f[1 .. i]]
<1>10. f[{}] = <<<<>>>>
  BY <1>9
<1>11. ASSUME NEW i \in 1 .. n
       PROVE  f[1 .. i] = LineStep(s, f[1 .. i - 1], i)
  <2>1. /\ 1 .. i \in SUBSET (1 .. n) /\ 1 .. i # {}
        /\ Greatest(1 .. i) = i /\ (1 .. i) \ {i} = 1 .. i - 1
    BY <1>2, FirstPositions
  <2>2. \A z \in SUBSET (1 .. n) :
           f[z] = IF z = {} THEN <<<<>>>>
                  ELSE LineStep(s, f[z \ {Greatest(z)}], Positions(s)[Greatest(z)])
    BY <1>2, <1>9
  <2>3. Positions(s)[i] = i
    BY <1>2
  <2>. HIDE DEF f
  <2>. QED  BY <2>1, <2>2, <2>3
<1>. HIDE DEF f
<1>12. 1 .. 0 = {} /\ at[0] = <<<<>>>> /\ at[n] = f[1 .. n]
  BY <1>2, <1>10
<1>13. \A i \in 1 .. n : at[i] = LineStep(s, at[i - 1], i)
  <2>1. ASSUME NEW i \in 1 .. n
        PROVE  at[i] = LineStep(s, at[i - 1], i)
    <3>1. at[i] = f[1 .. i] /\ at[i - 1] = f[1 .. i - 1]
      BY <1>2
    <3>. QED  BY <1>11, <3>1
  <2>. QED  BY <2>1
<1>. HIDE DEF at
<1>14. Feeds(s, at)
  BY <1>12, <1>13 DEF Feeds, n
<1>15. Message!StreamLines(s) = Message!Front(at[Len(s)])
  BY <1>1, <1>2, <1>12 DEF f, n
<1>. QED  BY <1>14, <1>15

\* One line of an event stream, and the function FoldLeft makes of it.
EventStep(acc, line) ==
    IF line = <<>>
    THEN IF acc.data = <<>> THEN acc
         ELSE [events |-> Append(acc.events, Message!Front(Message!FlattenSeq(acc.data))),
               data |-> <<>>]
    ELSE IF line[1] = "data: "
    THEN [acc EXCEPT !.data = Append(@, Tail(line) \o <<Message!LF>>)]
    ELSE acc

Silence == [events |-> <<>>, data |-> <<>>]

EventsFn(q) ==
    CHOOSE g : g = [z \in SUBSET (DOMAIN q) |->
                      IF z = {} THEN Silence
                      ELSE EventStep(g[z \ {Greatest(z)}], q[Greatest(z)])]

\* EventSource is the fold over the lines.
LEMMA EventsFold ==
    ASSUME NEW s
    PROVE  Message!EventSource(s) =
             EventsFn(Message!StreamLines(s))[DOMAIN Message!StreamLines(s)].events
BY DEF Message!EventSource, Message!FoldLeft, Message!MapThenFoldSet, Message!Max, EventsFn,
       EventStep, Greatest, Silence

Hearings(C) == [events : Seq(Seq(C)), data : Seq(Seq(C))]

\* Without its last element, a sequence is one over the same set.
LEMMA FrontType ==
    ASSUME NEW C, NEW s \in Seq(C)
    PROVE  Message!Front(s) \in Seq(C)
<1>1. CASE s = <<>>
  <2>1. Message!Front(s) = SubSeq(s, 1, Len(s) - 1)
    BY DEF Message!Front
  <2>2. Len(s) - 1 = -1
    BY <1>1
  <2>. QED  BY <1>1, <2>1, <2>2
<1>2. CASE s # <<>>
  <2>1. Len(s) \in Nat /\ Len(s) >= 1
    BY <1>2
  <2>2. Len(s) - 1 \in 0 .. Len(s)
    BY <2>1
  <2>. QED  BY <2>2 DEF Message!Front
<1>. QED  BY <1>1, <1>2

\* A line makes events and data of those there were.
LEMMA EventStepType ==
    ASSUME NEW C, "LF" \in C, NEW line \in Seq(C), NEW acc \in Hearings(C)
    PROVE  EventStep(acc, line) \in Hearings(C)
<1>0. acc.events \in Seq(Seq(C)) /\ acc.data \in Seq(Seq(C))
  BY DEF Hearings
<1>1. CASE line = <<>>
  <2>. DEFINE e == Message!Front(Message!FlattenSeq(acc.data))
  <2>1. e \in Seq(C)
    <3>1. Path!FlattenSeq(acc.data) \in Seq(C)
      BY <1>0, Flattened
    <3>2. Message!FlattenSeq(acc.data) = Path!FlattenSeq(acc.data)
      BY SameFlatten
    <3>. QED  BY <3>1, <3>2, FrontType
  <2>. HIDE DEF e
  <2>2. Append(acc.events, e) \in Seq(Seq(C)) /\ <<>> \in Seq(Seq(C))
    BY <1>0, <2>1, EmptySeq
  <2>3. EventStep(acc, line) = IF acc.data = <<>> THEN acc
           ELSE [events |-> Append(acc.events, e), data |-> <<>>]
    BY <1>1 DEF EventStep, e
  <2>4. [events |-> Append(acc.events, e), data |-> <<>>] \in Hearings(C)
    BY <2>2 DEF Hearings
  <2>. QED  BY <2>3, <2>4
<1>2. CASE line # <<>>
  <2>. DEFINE d == Tail(line) \o <<Message!LF>>
  <2>1. d \in Seq(C)
    <3>1. Tail(line) \in Seq(C)
      BY <1>2
    <3>2. <<Message!LF>> \in Seq(C)
      BY PairType DEF Message!LF
    <3>. QED  BY <3>1, <3>2, Concat
  <2>. HIDE DEF d
  <2>2. Append(acc.data, d) \in Seq(Seq(C))
    BY <1>0, <2>1
  <2>3. [acc EXCEPT !.data = Append(acc.data, d)] \in Hearings(C)
    BY <2>2 DEF Hearings
  <2>4. EventStep(acc, line) = IF line[1] = "data: "
           THEN [acc EXCEPT !.data = Append(acc.data, d)] ELSE acc
    BY <1>2 DEF EventStep, d, Hearings
  <2>. QED  BY <2>3, <2>4
<1>. QED  BY <1>1, <1>2

\* What a browser has heard after each line.
Hears(q, at) ==
    /\ at[0] = Silence
    /\ \A i \in 1 .. Len(q) : at[i] = EventStep(at[i - 1], q[i])

\* The browser hears line by line.
LEMMA EventsAre ==
    ASSUME NEW C, "LF" \in C, NEW s, NEW q \in Seq(Seq(C)), q = Message!StreamLines(s)
    PROVE  \E at : Hears(q, at) /\ Message!EventSource(s) = at[Len(q)].events
<1>. DEFINE n == Len(q)  A == Hearings(C)
            Eq(g) == g = [z \in SUBSET (DOMAIN q) |->
                      IF z = {} THEN Silence
                      ELSE EventStep(g[z \ {Greatest(z)}], q[Greatest(z)])]
            F == [i \in 1 .. n |-> [acc \in A |-> EventStep(acc, q[i])]]
<1>1. Message!EventSource(s) = EventsFn(q)[DOMAIN q].events
  BY EventsFold
<1>2. n \in Nat /\ DOMAIN q = 1 .. n /\ \A i \in 1 .. n : q[i] \in Seq(C)
  OBVIOUS
<1>3. Silence \in A
  BY EmptySeq DEF Silence, Hearings
<1>. HIDE DEF n
<1>4. \A i \in 1 .. n : \A acc \in A : EventStep(acc, q[i]) \in A
  BY <1>2, EventStepType
<1>. HIDE DEF A
<1>5. F \in [1 .. n -> [A -> A]]
  BY <1>4
<1>6. PICK g : FoldBy(n, A, Silence, F, g)
  <2>. HIDE DEF F
  <2>1. Folding(n, A, Silence, F)
    BY <1>2, <1>3, <1>5 DEF Folding
  <2>. QED  BY <2>1, FoldExists
<1>7. ASSUME NEW z \in SUBSET (1 .. n), z # {}
      PROVE  F[Greatest(z)][g[z \ {Greatest(z)}]]
                = EventStep(g[z \ {Greatest(z)}], q[Greatest(z)])
  <2>1. Greatest(z) \in 1 .. n
    BY <1>2, <1>7, GreatestNumber
  <2>2. g[z \ {Greatest(z)}] \in A
    BY <1>6 DEF FoldBy
  <2>. QED  BY <2>1, <2>2
<1>8. Eq(g)
  <2>. HIDE DEF F
  <2>. QED  BY <1>2, <1>6, <1>7 DEF FoldBy
<1>9. Eq(EventsFn(q))
  <2>1. EventsFn(q) = CHOOSE h : Eq(h)
    BY DEF EventsFn
  <2>. HIDE DEF Eq
  <2>. QED  BY <1>8, <2>1
<1>. DEFINE f == EventsFn(q)  at == [i \in 0 .. n |-> f[1 .. i]]
<1>10. f[{}] = Silence
  BY <1>9
<1>11. ASSUME NEW i \in 1 .. n
       PROVE  f[1 .. i] = EventStep(f[1 .. i - 1], q[i])
  <2>1. /\ 1 .. i \in SUBSET (1 .. n) /\ 1 .. i # {}
        /\ Greatest(1 .. i) = i /\ (1 .. i) \ {i} = 1 .. i - 1
    BY <1>2, FirstPositions
  <2>2. \A z \in SUBSET (1 .. n) :
           f[z] = IF z = {} THEN Silence ELSE EventStep(f[z \ {Greatest(z)}], q[Greatest(z)])
    BY <1>2, <1>9
  <2>. HIDE DEF f
  <2>. QED  BY <2>1, <2>2
<1>. HIDE DEF f
<1>12. 1 .. 0 = {} /\ at[0] = Silence /\ at[n] = f[1 .. n]
  BY <1>2, <1>10
<1>13. \A i \in 1 .. n : at[i] = EventStep(at[i - 1], q[i])
  <2>1. ASSUME NEW i \in 1 .. n
        PROVE  at[i] = EventStep(at[i - 1], q[i])
    <3>1. at[i] = f[1 .. i] /\ at[i - 1] = f[1 .. i - 1]
      BY <1>2
    <3>. QED  BY <1>11, <3>1
  <2>. QED  BY <2>1
<1>. HIDE DEF at
<1>14. Hears(q, at)
  BY <1>12, <1>13 DEF Hears, n
<1>15. Message!EventSource(s) = at[Len(q)].events
  BY <1>1, <1>2, <1>12 DEF f, n
<1>. QED  BY <1>14, <1>15

\* The tokens of an event, for a message without a carriage return.
Plainly == Tokens \ {"CR"}

\* What a token does to the lines.
Feed(acc, c) ==
    IF c = "LF" THEN Append(acc, <<>>) ELSE [acc EXCEPT ![Len(acc)] = Append(@, c)]

\* Without carriage returns, that is all that a character does.
LEMMA FeedIs ==
    ASSUME NEW s \in Seq(Plainly), NEW acc, NEW i \in 1 .. Len(s)
    PROVE  LineStep(s, acc, i) = Feed(acc, s[i])
<1>1. \A j \in 1 .. Len(s) : s[j] \in Plainly
  OBVIOUS
<1>2. s[i] # "CR"
  BY <1>1 DEF Plainly
<1>3. i > 1 => s[i - 1] # "CR"
  <2>1. i > 1 => i - 1 \in 1 .. Len(s)
    OBVIOUS
  <2>. QED  BY <1>1, <2>1 DEF Plainly
<1>. QED  BY <1>2, <1>3 DEF LineStep, Feed, Message!LF, Message!CR

\* Only the last line changes.
LEMMA FeedLast ==
    ASSUME NEW C, NEW p \in Seq(Seq(C)), NEW l \in Seq(C), NEW c \in C
    PROVE  /\ Feed(Append(p, l), "LF") = Append(Append(p, l), <<>>)
           /\ c # "LF" => Feed(Append(p, l), c) = Append(p, Append(l, c))
<1>1. Feed(Append(p, l), "LF") = Append(Append(p, l), <<>>)
  BY DEF Feed
<1>2. ASSUME c # "LF"
      PROVE  Feed(Append(p, l), c) = Append(p, Append(l, c))
  <2>. DEFINE a == Append(p, l)  n == Len(p)
  <2>1. a \in Seq(Seq(C)) /\ Len(a) = n + 1 /\ n \in Nat /\ a[n + 1] = l
        /\ \A i \in 1 .. n : a[i] = p[i]
    OBVIOUS
  <2>2. Append(l, c) \in Seq(C)
    OBVIOUS
  <2>. DEFINE b == [a EXCEPT ![Len(a)] = Append(@, c)]  d == Append(p, Append(l, c))
  <2>3. d \in Seq(Seq(C)) /\ Len(d) = n + 1 /\ d[n + 1] = Append(l, c)
        /\ \A i \in 1 .. n : d[i] = p[i]
    BY <2>2
  <2>. HIDE DEF a, d
  <2>. DEFINE x == Append(l, c)
  <2>. HIDE DEF x
  <2>4. b = [a EXCEPT ![n + 1] = x] /\ x \in Seq(C)
    BY <2>1, <2>2 DEF x
  <2>5. b \in Seq(Seq(C)) /\ Len(b) = n + 1 /\ b[n + 1] = x /\ \A i \in 1 .. n : b[i] = a[i]
    <3>1. n + 1 \in 1 .. n + 1 /\ \A i \in 1 .. n : i # n + 1 /\ i \in 1 .. n + 1
      BY <2>1
    <3>. HIDE DEF b, n
    <3>2. b \in Seq(Seq(C)) /\ Len(b) = n + 1
      BY <2>1, <2>4
    <3>3. b[n + 1] = x /\ \A i \in 1 .. n : b[i] = a[i]
      BY <2>1, <2>4, <3>1
    <3>. QED  BY <3>2, <3>3
  <2>6. \A i \in 1 .. n + 1 : b[i] = d[i]
    <3>1. \A i \in 1 .. n + 1 : i = n + 1 \/ i \in 1 .. n
      BY <2>1
    <3>. HIDE DEF b, n
    <3>. QED  BY <2>1, <2>3, <2>5, <3>1 DEF x
  <2>7. b = d
    <3>. HIDE DEF b, n
    <3>. QED  BY ONLY <2>3, <2>5, <2>6, SeqEqual
  <2>. QED  BY <1>2, <2>7 DEF Feed, a, d
<1>. QED  BY <1>1, <1>2

\* The lines of an event whose data are D, and the data as EventSource keeps them.
LinesOf(D) == [i \in 1 .. Len(D) + 1 |-> IF i = 1 THEN <<"event: message">> ELSE <<"data: ">> \o D[i - 1]]
Ended(D) == [i \in 1 .. Len(D) |-> D[i] \o <<"LF">>]

\* The constant parts of an event have no carriage return.
LEMMA PlainlyFacts ==
    /\ {"LF", "data: ", "event: message"} \subseteq Plainly
    /\ <<"event: message">> \in Seq(Plainly) /\ <<"data: ">> \in Seq(Plainly)
    /\ <<"LF">> \in Seq(Plainly)
<1>1. {"LF", "data: ", "event: message"} \subseteq Plainly
  BY DEF Plainly, Tokens
<1>2. "LF" \in Plainly /\ "data: " \in Plainly /\ "event: message" \in Plainly
  BY <1>1
<1>. QED  BY <1>1, <1>2, PairType

\* How many lines there are.
LEMMA LinesType ==
    ASSUME NEW D \in Seq(Seq(Plainly))
    PROVE  /\ LinesOf(D) \in Seq(Seq(Plainly)) /\ Len(LinesOf(D)) = Len(D) + 1
           /\ Ended(D) \in Seq(Seq(Plainly)) /\ Len(Ended(D)) = Len(D)
<1>. DEFINE n == Len(D)
<1>1. n \in Nat /\ \A i \in 1 .. n : D[i] \in Seq(Plainly)
  OBVIOUS
<1>. HIDE DEF n
<1>2. \A d \in Seq(Plainly) : <<"data: ">> \o d \in Seq(Plainly) /\ d \o <<"LF">> \in Seq(Plainly)
  BY PlainlyFacts, Concat
<1>3. \A i \in 1 .. n + 1 :
         (IF i = 1 THEN <<"event: message">> ELSE <<"data: ">> \o D[i - 1]) \in Seq(Plainly)
  <2>1. \A i \in 1 .. n + 1 : i # 1 => i - 1 \in 1 .. n
    BY <1>1
  <2>. QED  BY <1>1, <1>2, <2>1, PlainlyFacts
<1>4. \A i \in 1 .. n : D[i] \o <<"LF">> \in Seq(Plainly)
  BY <1>1, <1>2
<1>5. n + 1 \in Nat
  BY <1>1
<1>. DEFINE S == Seq(Plainly)
<1>. HIDE DEF S
<1>6. LinesOf(D) \in Seq(S) /\ Len(LinesOf(D)) = n + 1
  <2>1. \A i \in 1 .. n + 1 : (IF i = 1 THEN <<"event: message">> ELSE <<"data: ">> \o D[i - 1]) \in S
    BY <1>3 DEF S
  <2>2. LinesOf(D) = [i \in 1 .. n + 1 |-> IF i = 1 THEN <<"event: message">> ELSE <<"data: ">> \o D[i - 1]]
    BY DEF LinesOf, n
  <2>. DEFINE m == n + 1  x == LinesOf(D)
  <2>3. x \in [1 .. m -> S] /\ m \in Nat
    BY ZenonT(60), <1>5, <2>1, <2>2
  <2>. HIDE DEF m, x
  <2>4. x \in Seq(S) /\ Len(x) = m
    BY ONLY <2>3
  <2>. QED  BY <2>4 DEF m, x
<1>7. Ended(D) \in Seq(S) /\ Len(Ended(D)) = n
  <2>1. \A i \in 1 .. n : D[i] \o <<"LF">> \in S
    BY <1>4 DEF S
  <2>2. Ended(D) = [i \in 1 .. n |-> D[i] \o <<"LF">>]
    BY DEF Ended, n
  <2>. QED  BY <1>1, <2>1, <2>2
<1>. QED  BY <1>6, <1>7 DEF S, n

\* One line of data more.
LEMMA LinesAppend ==
    ASSUME NEW D \in Seq(Seq(Plainly)), NEW m \in Seq(Plainly)
    PROVE  /\ Append(D, m) \in Seq(Seq(Plainly)) /\ Len(Append(D, m)) = Len(D) + 1
           /\ LinesOf(Append(D, m)) = Append(LinesOf(D), <<"data: ">> \o m)
           /\ Ended(Append(D, m)) = Append(Ended(D), m \o <<"LF">>)
<1>. DEFINE S == Seq(Plainly)  G == Append(D, m)  n == Len(D)  x == <<"data: ">> \o m
            y == m \o <<"LF">>
<1>1. G \in Seq(S) /\ Len(G) = n + 1 /\ n \in Nat /\ G[n + 1] = m /\ \A i \in 1 .. n : G[i] = D[i]
  OBVIOUS
<1>2. x \in S /\ y \in S
  BY PlainlyFacts, Concat
<1>3. LinesOf(D) \in Seq(S) /\ Len(LinesOf(D)) = n + 1 /\ Ended(D) \in Seq(S) /\ Len(Ended(D)) = n
  BY LinesType
<1>4. LinesOf(G) \in Seq(S) /\ Len(LinesOf(G)) = Len(G) + 1 /\ Ended(G) \in Seq(S)
      /\ Len(Ended(G)) = Len(G)
  BY <1>1, LinesType
<1>5. \A i \in 1 .. n + 1 :
         LinesOf(D)[i] = IF i = 1 THEN <<"event: message">> ELSE <<"data: ">> \o D[i - 1]
  BY DEF LinesOf
<1>6. \A i \in 1 .. (n + 1) + 1 :
         LinesOf(G)[i] = IF i = 1 THEN <<"event: message">> ELSE <<"data: ">> \o G[i - 1]
  <2>. HIDE DEF G
  <2>. QED  BY <1>1 DEF LinesOf
<1>7. \A i \in 1 .. n : Ended(D)[i] = D[i] \o <<"LF">>
  BY DEF Ended
<1>8. \A i \in 1 .. n + 1 : Ended(G)[i] = G[i] \o <<"LF">>
  <2>. HIDE DEF G
  <2>. QED  BY <1>1 DEF Ended
<1>. DEFINE u == LinesOf(D)  v == LinesOf(G)  e == Ended(D)  f == Ended(G)
            a == Append(u, x)  b == Append(e, y)
<1>. HIDE DEF G, u, v, e, f, n, x, y, S
<1>9. /\ a \in Seq(S) /\ Len(a) = (n + 1) + 1 /\ a[(n + 1) + 1] = x
      /\ \A i \in 1 .. n + 1 : a[i] = u[i]
  <2>1. u \in Seq(S) /\ Len(u) = n + 1 /\ n \in Nat /\ x \in S
    BY <1>1, <1>2, <1>3 DEF u
  <2>. QED  BY ONLY <2>1
<1>10. /\ b \in Seq(S) /\ Len(b) = n + 1 /\ b[n + 1] = y
       /\ \A i \in 1 .. n : b[i] = e[i]
  <2>1. e \in Seq(S) /\ Len(e) = n /\ n \in Nat /\ y \in S
    BY <1>1, <1>2, <1>3 DEF e
  <2>. QED  BY ONLY <2>1
<1>0. n \in Nat
  BY <1>1
<1>. HIDE DEF a, b
<1>11. \A i \in 1 .. (n + 1) + 1 : v[i] = a[i]
  <2>1. ASSUME NEW i \in 1 .. n + 1
        PROVE  v[i] = a[i]
    <3>1. i \in 1 .. (n + 1) + 1 /\ (i # 1 => i - 1 \in 1 .. n)
      BY ONLY <1>0, i \in 1 .. n + 1
    <3>2. i # 1 => G[i - 1] = D[i - 1]
      BY <1>1, <3>1
    <3>3. v[i] = IF i = 1 THEN <<"event: message">> ELSE <<"data: ">> \o G[i - 1]
      BY <1>6, <3>1 DEF v
    <3>4. u[i] = IF i = 1 THEN <<"event: message">> ELSE <<"data: ">> \o D[i - 1]
      BY <1>5 DEF u
    <3>. QED  BY <1>9, <3>2, <3>3, <3>4
  <2>2. v[(n + 1) + 1] = a[(n + 1) + 1]
    <3>1. (n + 1) + 1 \in 1 .. (n + 1) + 1 /\ (n + 1) + 1 # 1 /\ ((n + 1) + 1) - 1 = n + 1
      BY ONLY <1>0
    <3>2. v[(n + 1) + 1] = <<"data: ">> \o G[((n + 1) + 1) - 1]
      BY <1>6, <3>1 DEF v
    <3>3. v[(n + 1) + 1] = <<"data: ">> \o m
      BY <1>1, <3>1, <3>2
    <3>. QED  BY <1>9, <3>3 DEF x
  <2>3. \A i \in 1 .. (n + 1) + 1 : i \in 1 .. n + 1 \/ i = (n + 1) + 1
    BY ONLY <1>0
  <2>. QED  BY <2>1, <2>2, <2>3
<1>12. v = a
  <2>1. v \in Seq(S) /\ Len(v) = (n + 1) + 1
    BY <1>1, <1>4 DEF v
  <2>. QED  BY ONLY <1>9, <1>11, <2>1, SeqEqual
<1>13. \A i \in 1 .. n + 1 : f[i] = b[i]
  <2>1. ASSUME NEW i \in 1 .. n
        PROVE  f[i] = b[i]
    <3>1. i \in 1 .. n + 1
      BY ONLY <1>0, i \in 1 .. n
    <3>. QED  BY <1>1, <1>7, <1>8, <1>10, <3>1 DEF e, f
  <2>2. f[n + 1] = b[n + 1]
    <3>1. n + 1 \in 1 .. n + 1
      BY ONLY <1>0
    <3>. QED  BY <1>1, <1>8, <1>10, <3>1 DEF f, y
  <2>3. \A i \in 1 .. n + 1 : i \in 1 .. n \/ i = n + 1
    BY ONLY <1>0
  <2>. QED  BY <2>1, <2>2, <2>3
<1>14. f = b
  <2>1. f \in Seq(S) /\ Len(f) = n + 1
    BY <1>1, <1>4 DEF f
  <2>. QED  BY ONLY <1>10, <1>13, <2>1, SeqEqual
<1>. QED  BY <1>1, <1>12, <1>14 DEF a, b, u, v, e, f, x, y, G, S, n

\* The lines a, the last of them not ended, are those of the text u: D are its
\* lines that are ended, m is the one that is not.
Holds(a, D, m, u) ==
    /\ D \in Seq(Seq(Plainly)) /\ m \in Seq(Plainly) /\ u \in Seq(Plainly)
    /\ a = Append(LinesOf(D), <<"data: ">> \o m)
    /\ Path!FlattenSeq(Ended(D)) \o m = u

\* A character makes the open line longer.
LEMMA HoldsChar ==
    ASSUME NEW a, NEW D, NEW m, NEW u, Holds(a, D, m, u), NEW c \in Plainly, c # "LF"
    PROVE  Holds(Feed(a, c), D, Append(m, c), Append(u, c))
<1>. DEFINE x == <<"data: ">> \o m  p == LinesOf(D)  f == Path!FlattenSeq(Ended(D))  e == <<c>>
<1>1. /\ D \in Seq(Seq(Plainly)) /\ m \in Seq(Plainly) /\ u \in Seq(Plainly)
      /\ a = Append(p, x) /\ f \o m = u
  BY DEF Holds
<1>2. p \in Seq(Seq(Plainly)) /\ Ended(D) \in Seq(Seq(Plainly))
  BY <1>1, LinesType
<1>3. f \in Seq(Plainly)
  BY <1>2, Flattened
<1>4. x \in Seq(Plainly)
  BY <1>1, PlainlyFacts, Concat
<1>5. e \in Seq(Plainly)
  BY PairType
<1>6. /\ Append(m, c) = m \o e /\ Append(u, c) = u \o e /\ Append(x, c) = x \o e
      /\ Append(m, c) \in Seq(Plainly) /\ Append(u, c) \in Seq(Plainly)
  <2>. HIDE DEF x
  <2>1. m \in Seq(Plainly) /\ u \in Seq(Plainly) /\ x \in Seq(Plainly) /\ c \in Plainly
    BY <1>1, <1>4
  <2>2. \A q \in Seq(Plainly) : Append(q, c) = q \o <<c>> /\ Append(q, c) \in Seq(Plainly)
    BY ONLY <2>1
  <2>. QED  BY ONLY <2>1, <2>2
<1>7. (<<"data: ">> \o m) \o e = <<"data: ">> \o (m \o e)
  <2>. DEFINE d == <<"data: ">>
  <2>1. d \in Seq(Plainly) /\ m \in Seq(Plainly) /\ e \in Seq(Plainly)
    BY <1>1, <1>5, PlainlyFacts
  <2>. HIDE DEF d, e
  <2>2. (d \o m) \o e = d \o (m \o e)
    BY ONLY SMTT(40), <2>1, ConcatAssociative
  <2>. QED  BY <2>2 DEF d
<1>8. (f \o m) \o e = f \o (m \o e)
  <2>1. f \in Seq(Plainly) /\ m \in Seq(Plainly) /\ e \in Seq(Plainly)
    BY <1>1, <1>3, <1>5
  <2>. HIDE DEF f, e
  <2>. QED  BY ONLY <2>1, ConcatAssociative
<1>. HIDE DEF x, p, f, e
<1>9. Feed(Append(p, x), c) = Append(p, Append(x, c))
  BY <1>2, <1>4, FeedLast
<1>10. Append(x, c) = <<"data: ">> \o Append(m, c)
  BY <1>6, <1>7 DEF x
<1>11. Feed(a, c) = Append(p, <<"data: ">> \o Append(m, c))
  BY <1>1, <1>9, <1>10
<1>12. f \o Append(m, c) = Append(u, c)
  BY <1>1, <1>6, <1>8
<1>. QED  BY <1>1, <1>6, <1>11, <1>12 DEF Holds, p, f

\* A line feed of the text ends the line and opens the next, as data.
LEMMA HoldsLine ==
    ASSUME NEW a, NEW D, NEW m, NEW u, Holds(a, D, m, u)
    PROVE  /\ Holds(Feed(Feed(a, "LF"), "data: "), Append(D, m), <<>>, Append(u, "LF"))
           /\ Feed(a, "LF") = Append(LinesOf(Append(D, m)), <<>>)
           /\ Path!FlattenSeq(Ended(Append(D, m))) = Append(u, "LF")
<1>. DEFINE x == <<"data: ">> \o m  p == LinesOf(D)  f == Path!FlattenSeq(Ended(D))  e == <<"LF">>
            G == Append(D, m)
<1>1. /\ D \in Seq(Seq(Plainly)) /\ m \in Seq(Plainly) /\ u \in Seq(Plainly)
      /\ a = Append(p, x) /\ f \o m = u
  BY DEF Holds
<1>2. p \in Seq(Seq(Plainly)) /\ Ended(D) \in Seq(Seq(Plainly))
  BY <1>1, LinesType
<1>3. f \in Seq(Plainly)
  BY <1>2, Flattened
<1>4. x \in Seq(Plainly) /\ e \in Seq(Plainly) /\ m \o e \in Seq(Plainly)
  BY <1>1, PlainlyFacts, Concat
<1>5. "LF" \in Plainly /\ "data: " \in Plainly /\ "data: " # "LF"
  BY PlainlyFacts
<1>6. G \in Seq(Seq(Plainly)) /\ LinesOf(G) = Append(p, x) /\ Ended(G) = Append(Ended(D), m \o e)
  BY <1>1, LinesAppend
<1>7. LinesOf(G) \in Seq(Seq(Plainly))
  BY <1>6, LinesType
<1>8. (f \o m) \o e = f \o (m \o e)
  <2>1. f \in Seq(Plainly) /\ m \in Seq(Plainly) /\ e \in Seq(Plainly)
    BY <1>1, <1>3, <1>4
  <2>. HIDE DEF f, e
  <2>. QED  BY ONLY SMTT(40), <2>1, ConcatAssociative
<1>9. Append(u, "LF") = u \o e /\ Append(u, "LF") \in Seq(Plainly)
  <2>1. u \in Seq(Plainly) /\ "LF" \in Plainly
    BY <1>1, <1>5
  <2>. QED  BY ONLY <2>1
<1>10. <<>> \in Seq(Plainly) /\ <<"data: ">> \o <<>> = <<"data: ">> /\ Append(<<>>, "data: ") = <<"data: ">>
  <2>1. <<>> \in Seq(Plainly)
    BY ONLY EmptySeq
  <2>2. <<"data: ">> \o <<>> = <<"data: ">>
    BY ONLY PlainlyFacts, ConcatEmptySeq
  <2>3. \A c : Append(<<>>, c) = <<c>>
    OBVIOUS
  <2>. QED  BY ONLY <2>1, <2>2, <2>3
<1>. HIDE DEF x, p, e, G
<1>11. Path!FlattenSeq(Ended(G)) = f \o (m \o e)
  <2>. DEFINE E == Ended(D)  w == m \o e
  <2>1. E \in Seq(Seq(Plainly)) /\ w \in Seq(Plainly)
    BY <1>2, <1>4
  <2>. HIDE DEF E, w
  <2>2. Path!FlattenSeq(Append(E, w)) = Path!FlattenSeq(E) \o w
    BY ONLY <2>1, FlatAppend
  <2>. QED  BY <1>6, <2>2 DEF E, w
<1>. HIDE DEF f
<1>12. Path!FlattenSeq(Ended(G)) = Append(u, "LF")
  BY <1>1, <1>8, <1>9, <1>11
<1>13. Feed(a, "LF") = Append(LinesOf(G), <<>>)
  <2>1. p \in Seq(Seq(Plainly)) /\ x \in Seq(Plainly) /\ "LF" \in Plainly
    BY <1>2, <1>4, <1>5
  <2>2. Feed(Append(p, x), "LF") = Append(Append(p, x), <<>>)
    BY ONLY <2>1, FeedLast
  <2>. QED  BY ONLY <1>1, <1>6, <2>2
<1>14. Feed(Append(LinesOf(G), <<>>), "data: ") = Append(LinesOf(G), Append(<<>>, "data: "))
  <2>. DEFINE q == LinesOf(G)  l == <<>>  c == "data: "
  <2>1. q \in Seq(Seq(Plainly)) /\ l \in Seq(Plainly) /\ c \in Plainly /\ c # "LF"
    BY <1>5, <1>7, <1>10
  <2>. HIDE DEF q, l, c
  <2>2. Feed(Append(q, l), c) = Append(q, Append(l, c))
    BY ONLY <2>1, FeedLast
  <2>. QED  BY <2>2 DEF q, l, c
<1>15. Feed(Feed(a, "LF"), "data: ") = Append(LinesOf(G), <<"data: ">> \o <<>>)
  BY <1>10, <1>13, <1>14
<1>16. Path!FlattenSeq(Ended(G)) \o <<>> = Append(u, "LF")
  BY <1>9, <1>12, ConcatEmptySeq
<1>17. Holds(Feed(Feed(a, "LF"), "data: "), G, <<>>, Append(u, "LF"))
  BY <1>6, <1>9, <1>10, <1>15, <1>16 DEF Holds
<1>. QED  BY <1>12, <1>13, <1>17 DEF G

\* http_send_sse_message_event.
Datas(t) == [i \in 1 .. Len(t) |-> IF t[i] = "LF" THEN <<"LF", "data: ">> ELSE <<t[i]>>]
EventHead == <<"event: message", "LF", "data: ">>
EventTail == <<"LF", "LF">>

\* The head, the text with its lines marked as data, and the empty line.
LEMMA EventIs ==
    ASSUME NEW t
    PROVE  Message!SseEvent(t) = EventHead \o Path!FlattenSeq(Datas(t)) \o EventTail
BY SameFlatten DEF Message!SseEvent, EventHead, EventTail, Datas, Message!LF

\* The characters of the head and the tail.
LEMMA EventParts ==
    /\ EventHead \in Seq(Plainly) /\ Len(EventHead) = 3
    /\ EventHead[1] = "event: message" /\ EventHead[2] = "LF" /\ EventHead[3] = "data: "
    /\ EventTail \in Seq(Plainly) /\ Len(EventTail) = 2
    /\ EventTail[1] = "LF" /\ EventTail[2] = "LF"
<1>1. \A c, d, e \in Plainly : <<c, d, e>> \in Seq(Plainly) /\ <<c, d>> \in Seq(Plainly)
  OBVIOUS
<1>2. "LF" \in Plainly /\ "data: " \in Plainly /\ "event: message" \in Plainly
  BY PlainlyFacts
<1>3. EventHead \in Seq(Plainly) /\ EventTail \in Seq(Plainly)
  BY <1>1, <1>2 DEF EventHead, EventTail
<1>. QED  BY <1>3 DEF EventHead, EventTail

\* Sequences of one and two elements.
LEMMA ShortSeq ==
    ASSUME NEW x, NEW y
    PROVE  /\ Append(<<>>, x) = <<x>> /\ Len(<<x>>) = 1 /\ <<x>>[1] = x
           /\ Len(<<x, y>>) = 2 /\ <<x, y>>[1] = x /\ <<x, y>>[2] = y
           /\ [i \in 1 .. 1 |-> x] = <<x>>
OBVIOUS

\* The code of one character.
LEMMA DatasAre ==
    ASSUME NEW t \in Seq(Plainly)
    PROVE  /\ Datas(t) \in Seq(Seq(Plainly)) /\ Len(Datas(t)) = Len(t)
           /\ \A i \in 1 .. Len(t) :
                /\ t[i] = "LF" => /\ Len(Datas(t)[i]) = 2 /\ Datas(t)[i][1] = "LF"
                                  /\ Datas(t)[i][2] = "data: "
                /\ t[i] # "LF" => Len(Datas(t)[i]) = 1 /\ Datas(t)[i][1] = t[i]
<1>. DEFINE n == Len(t)  E == Datas(t)  S == Seq(Plainly)
<1>1. n \in Nat /\ \A i \in 1 .. n : t[i] \in Plainly
  OBVIOUS
<1>2. <<"LF", "data: ">> \in Seq(Plainly)
  BY PlainlyFacts, PairType
<1>3. \A c \in Plainly : <<c>> \in Seq(Plainly)
  BY PairType
<1>4. E = [i \in 1 .. n |-> IF t[i] = "LF" THEN <<"LF", "data: ">> ELSE <<t[i]>>]
  BY DEF Datas
<1>. HIDE DEF n, E, S
<1>5. E \in [1 .. n -> S]
  <2>1. \A i \in 1 .. n : (IF t[i] = "LF" THEN <<"LF", "data: ">> ELSE <<t[i]>>) \in S
    BY <1>1, <1>2, <1>3 DEF S
  <2>. QED  BY <1>4, <2>1
<1>6. E \in Seq(S) /\ Len(E) = n
  BY ONLY <1>1, <1>5
<1>7. \A i \in 1 .. n : E[i] = IF t[i] = "LF" THEN <<"LF", "data: ">> ELSE <<t[i]>>
  BY <1>4
<1>8. ASSUME NEW i \in 1 .. n
      PROVE  /\ t[i] = "LF" => Len(E[i]) = 2 /\ E[i][1] = "LF" /\ E[i][2] = "data: "
             /\ t[i] # "LF" => Len(E[i]) = 1 /\ E[i][1] = t[i]
  <2>1. t[i] = "LF" => E[i] = <<"LF", "data: ">>
    BY <1>7
  <2>2. t[i] # "LF" => E[i] = <<t[i]>>
    BY <1>7
  <2>. DEFINE c == t[i]  e == E[i]
  <2>. HIDE DEF c, e
  <2>0. LET p == <<"LF", "data: ">> IN Len(p) = 2 /\ p[1] = "LF" /\ p[2] = "data: "
    BY ONLY ShortSeq
  <2>3. c = "LF" => Len(e) = 2 /\ e[1] = "LF" /\ e[2] = "data: "
    BY ONLY <2>0, <2>1 DEF c, e
  <2>4. c # "LF" => Len(e) = 1 /\ e[1] = c
    BY ONLY <2>2, ShortSeq DEF c, e
  <2>. QED  BY ONLY <2>3, <2>4 DEF c, e
<1>. QED  BY <1>6, <1>8 DEF n, E, S

\* The lines of an event.
Broken(q, t) ==
    \E D \in Seq(Seq(Plainly)) :
       /\ Len(D) >= 1 /\ q = Append(LinesOf(D), <<>>)
       /\ Path!FlattenSeq(Ended(D)) = Append(t, "LF")

\* Behind the head, nothing of the text has come.
LEMMA HoldsStart ==
    Holds(Append(<<<<"event: message">>>>, <<"data: ">>), <<>>, <<>>, <<>>)
<1>1. <<>> \in Seq(Seq(Plainly)) /\ <<>> \in Seq(Plainly)
  BY EmptySeq
<1>2. LinesOf(<<>>) = <<<<"event: message">>>>
  <2>1. Len(<<>>) + 1 = 1
    OBVIOUS
  <2>2. LinesOf(<<>>) = [i \in 1 .. 1 |-> IF i = 1 THEN <<"event: message">> ELSE <<"data: ">> \o <<>>[i - 1]]
    BY <2>1 DEF LinesOf
  <2>. DEFINE ev == <<"event: message">>
  <2>. HIDE DEF ev
  <2>0. \A i \in 1 .. 1 : i = 1
    OBVIOUS
  <2>3. \A i \in 1 .. 1 : (IF i = 1 THEN ev ELSE <<"data: ">> \o <<>>[i - 1]) = ev
    BY ONLY <2>0
  <2>4. LinesOf(<<>>) = [i \in 1 .. 1 |-> IF i = 1 THEN ev ELSE <<"data: ">> \o <<>>[i - 1]]
    BY <2>2 DEF ev
  <2>5. LinesOf(<<>>) = [i \in 1 .. 1 |-> ev]
    BY ONLY <2>3, <2>4
  <2>6. LinesOf(<<>>) = <<ev>>
    BY ONLY SMTT(40), <2>5, ShortSeq
  <2>. QED  BY <2>6 DEF ev
<1>3. <<"data: ">> \o <<>> = <<"data: ">>
  BY ONLY PlainlyFacts, ConcatEmptySeq
<1>4. Path!FlattenSeq(Ended(<<>>)) \o <<>> = <<>>
  <2>1. Ended(<<>>) = <<>>
    BY DEF Ended
  <2>2. Path!FlattenSeq(<<>>) = <<>>
    BY DEF Path!FlattenSeq
  <2>. QED  BY <2>1, <2>2
<1>. QED  BY <1>1, <1>2, <1>3, <1>4 DEF Holds

\* The head of an event.
LEMMA HeadLines ==
    ASSUME NEW s \in Seq(Plainly), Len(s) >= 3, s[1] = "event: message", s[2] = "LF",
           s[3] = "data: ", NEW at, at[0] = <<<<>>>>,
           \A i \in 1 .. Len(s) : at[i] = Feed(at[i - 1], s[i])
    PROVE  Holds(at[3], <<>>, <<>>, <<>>)
<1>. DEFINE ev == <<"event: message">>  da == <<"data: ">>
<1>1. 1 \in 1 .. Len(s) /\ 2 \in 1 .. Len(s) /\ 3 \in 1 .. Len(s) /\ 1 - 1 = 0 /\ 2 - 1 = 1 /\ 3 - 1 = 2
  <2>1. s \in Seq(Plainly) /\ Len(s) >= 3
    OBVIOUS
  <2>2. Len(s) \in Nat
    BY ONLY <2>1
  <2>. DEFINE N == Len(s)
  <2>3. N \in Nat /\ N >= 3
    BY ONLY <2>1, <2>2
  <2>. HIDE DEF N
  <2>4. 1 \in 1 .. N /\ 2 \in 1 .. N /\ 3 \in 1 .. N /\ 1 - 1 = 0 /\ 2 - 1 = 1 /\ 3 - 1 = 2
    BY ONLY <2>3
  <2>. QED  BY <2>4 DEF N
<1>2. /\ at[1] = Feed(<<<<>>>>, "event: message") /\ at[2] = Feed(at[1], "LF")
      /\ at[3] = Feed(at[2], "data: ")
  BY <1>1
<1>3. \A c : Append(<<>>, c) = <<c>>
  BY ONLY ShortSeq
<1>4. <<>> \in Seq(Seq(Plainly)) /\ <<>> \in Seq(Plainly) /\ ev \in Seq(Plainly)
      /\ <<ev>> \in Seq(Seq(Plainly))
  <2>1. ev \in Seq(Plainly)
    BY PlainlyFacts
  <2>2. <<>> \in Seq(Seq(Plainly)) /\ <<>> \in Seq(Plainly)
    BY ONLY EmptySeq
  <2>. HIDE DEF ev
  <2>3. <<ev>> \in Seq(Seq(Plainly))
    BY ONLY <2>1, PairType
  <2>. QED  BY ONLY <2>1, <2>2, <2>3
<1>5. "LF" \in Plainly /\ "data: " \in Plainly /\ "event: message" \in Plainly
      /\ "data: " # "LF" /\ "event: message" # "LF"
  BY PlainlyFacts
<1>. DEFINE no == <<>>
<1>6. \A c \in Plainly : c # "LF" =>
         /\ Feed(Append(no, no), c) = Append(no, Append(no, c))
         /\ Feed(Append(<<ev>>, no), c) = Append(<<ev>>, Append(no, c))
  <2>. HIDE DEF ev, no
  <2>1. no \in Seq(Seq(Plainly)) /\ no \in Seq(Plainly) /\ <<ev>> \in Seq(Seq(Plainly))
    BY <1>4 DEF no
  <2>. DEFINE q == <<ev>>
  <2>2. q \in Seq(Seq(Plainly))
    BY <2>1
  <2>. HIDE DEF q
  <2>3. ASSUME NEW c \in Plainly, c # "LF"
        PROVE  /\ Feed(Append(no, no), c) = Append(no, Append(no, c))
               /\ Feed(Append(q, no), c) = Append(q, Append(no, c))
    <3>1. c \in Plainly /\ c # "LF"
      BY <2>3
    <3>2. Feed(Append(no, no), c) = Append(no, Append(no, c))
      BY ONLY <2>1, <3>1, FeedLast
    <3>3. Feed(Append(q, no), c) = Append(q, Append(no, c))
      BY ONLY <2>1, <2>2, <3>1, FeedLast
    <3>. QED  BY ONLY <3>2, <3>3
  <2>. QED  BY <2>3 DEF q
<1>7. at[1] = <<ev>>
  <2>1. Feed(Append(no, no), "event: message") = Append(no, Append(no, "event: message"))
    BY <1>5, <1>6
  <2>. QED  BY ONLY <1>2, <1>3, <2>1
<1>8. at[2] = Append(<<ev>>, <<>>)
  BY <1>2, <1>7 DEF Feed
<1>9. at[3] = Append(<<ev>>, da)
  <2>1. Feed(Append(<<ev>>, no), "data: ") = Append(<<ev>>, Append(no, "data: "))
    BY <1>5, <1>6
  <2>. QED  BY ONLY <1>2, <1>3, <1>8, <2>1
<1>. QED  BY <1>9, HoldsStart

\* One character of the message.
LEMMA HoldsMore ==
    ASSUME NEW a, NEW t \in Seq(Plainly), NEW k \in 1 .. Len(t),
           \E D, m : Holds(a, D, m, SubSeq(t, 1, k - 1))
    PROVE  /\ t[k] = "LF" =>
                \E D, m : Holds(Feed(Feed(a, "LF"), "data: "), D, m, SubSeq(t, 1, k))
           /\ t[k] # "LF" => \E D, m : Holds(Feed(a, t[k]), D, m, SubSeq(t, 1, k))
<1>. DEFINE u == SubSeq(t, 1, k - 1)  c == t[k]
<1>1. PICK D, m : Holds(a, D, m, u)
  OBVIOUS
<1>2. SubSeq(t, 1, k) = Append(u, c) /\ c \in Plainly
  <2>1. t \in Seq(Plainly) /\ k \in 1 .. Len(t)
    OBVIOUS
  <2>. QED  BY ONLY <2>1
<1>. HIDE DEF u, c
<1>3. c = "LF" => Holds(Feed(Feed(a, "LF"), "data: "), Append(D, m), <<>>, Append(u, c))
  BY ONLY <1>1, HoldsLine
<1>4. c # "LF" => Holds(Feed(a, c), D, Append(m, c), Append(u, c))
  BY ONLY <1>1, <1>2, HoldsChar
<1>. QED  BY <1>2, <1>3, <1>4 DEF c

\* The lines of the event of a message, as a browser takes the stream apart.
LEMMA EventLines ==
    ASSUME NEW t \in Seq(Plainly)
    PROVE  Broken(Message!StreamLines(Message!SseEvent(t)), t)
<1>. DEFINE s == Message!SseEvent(t)  E == Datas(t)  enc == Path!FlattenSeq(E)  n == Len(t)
            N == Len(s)  L == Len(enc)
<1>1. /\ E \in Seq(Seq(Plainly)) /\ Len(E) = n
      /\ \A i \in 1 .. n :
           /\ t[i] = "LF" => Len(E[i]) = 2 /\ E[i][1] = "LF" /\ E[i][2] = "data: "
           /\ t[i] # "LF" => Len(E[i]) = 1 /\ E[i][1] = t[i]
  BY DatasAre
<1>2. enc \in Seq(Plainly) /\ \E off : FlatAt(E, enc, off)
  BY <1>1, Flattened
<1>3. PICK off : FlatAt(E, enc, off)
  BY <1>2
<1>4. PutTogether(Plainly, s, EventHead, enc, EventTail)
  <2>1. s = EventHead \o enc \o EventTail
    BY EventIs
  <2>2. EventHead \in Seq(Plainly) /\ EventTail \in Seq(Plainly)
    BY EventParts
  <2>. HIDE DEF s, enc
  <2>. QED  BY ONLY <1>2, <2>1, <2>2, SentFacts
<1>. HIDE DEF s, E, enc
<1>5. /\ s \in Seq(Plainly) /\ N = 3 + L + 2
      /\ \A i \in 1 .. 3 : s[i] = EventHead[i]
      /\ \A i \in 1 .. L : s[3 + i] = enc[i]
      /\ \A i \in 1 .. 2 : s[3 + L + i] = EventTail[i]
  BY <1>4, EventParts DEF PutTogether
<1>6. n \in Nat /\ L \in Nat /\ N \in Nat
  <2>1. t \in Seq(Plainly) /\ enc \in Seq(Plainly) /\ s \in Seq(Plainly)
    BY <1>2, <1>5
  <2>. QED  BY ONLY <2>1
<1>. HIDE DEF n, N, L
<1>7. PICK at : Feeds(s, at) /\ Message!StreamLines(s) = Message!Front(at[N])
  BY <1>5, LinesAre DEF N
<1>8. at[0] = <<<<>>>> /\ \A i \in 1 .. N : at[i] = Feed(at[i - 1], s[i])
  <2>1. at[0] = <<<<>>>> /\ \A i \in 1 .. N : at[i] = LineStep(s, at[i - 1], i)
    BY <1>7 DEF Feeds, N
  <2>2. ASSUME NEW i \in 1 .. N
        PROVE  LineStep(s, at[i - 1], i) = Feed(at[i - 1], s[i])
    BY <1>5, FeedIs DEF N
  <2>. QED  BY <2>1, <2>2
<1>9. /\ off[0] = 0 /\ off[n] = L
      /\ \A k \in 0 .. n : off[k] \in Nat
      /\ \A k \in 1 .. n : /\ off[k] = off[k - 1] + Len(E[k]) /\ off[k] <= L
                           /\ \A j \in 1 .. Len(E[k]) : enc[off[k - 1] + j] = E[k][j]
  <2>1. Len(E) = n
    BY <1>1
  <2>. QED  BY <1>3, <2>1 DEF FlatAt, L
<1>10. Holds(at[3], <<>>, <<>>, <<>>)
  <2>1. Len(s) >= 3
    BY <1>5, <1>6 DEF N
  <2>2. s[1] = "event: message" /\ s[2] = "LF" /\ s[3] = "data: "
    <3>1. 1 \in 1 .. 3 /\ 2 \in 1 .. 3 /\ 3 \in 1 .. 3
      OBVIOUS
    <3>. QED  BY <1>5, <3>1, EventParts
  <2>3. s \in Seq(Plainly) /\ \A i \in 1 .. Len(s) : at[i] = Feed(at[i - 1], s[i])
    BY <1>5, <1>8 DEF N
  <2>. QED  BY <1>8, <2>1, <2>2, <2>3, HeadLines
<1>. DEFINE T == {k \in 0 .. n : \E D, m : Holds(at[3 + off[k]], D, m, SubSeq(t, 1, k))}
<1>11. 0 \in T
  <2>1. 0 \in 0 .. n /\ 3 + off[0] = 3
    BY <1>6, <1>9
  <2>2. SubSeq(t, 1, 0) = <<>>
    OBVIOUS
  <2>3. Holds(at[3 + off[0]], <<>>, <<>>, SubSeq(t, 1, 0))
    BY <1>10, <2>1, <2>2
  <2>. QED  BY <2>1, <2>3
<1>12. ASSUME NEW j \in 0 .. n - 1, j \in T
       PROVE  j + 1 \in T
  <2>. DEFINE k == j + 1  p == 3 + off[j]  a == at[p]
  <2>1. k \in 1 .. n /\ k - 1 = j /\ j \in 0 .. n /\ k \in 0 .. n
    BY ONLY <1>6, j \in 0 .. n - 1
  <2>2. \E D, m : Holds(a, D, m, SubSeq(t, 1, k - 1))
    BY <1>12, <2>1
  <2>. HIDE DEF k
  <2>3. /\ t[k] = "LF" =>
             \E D, m : Holds(Feed(Feed(a, "LF"), "data: "), D, m, SubSeq(t, 1, k))
        /\ t[k] # "LF" => \E D, m : Holds(Feed(a, t[k]), D, m, SubSeq(t, 1, k))
    <3>1. t \in Seq(Plainly) /\ k \in 1 .. Len(t)
      BY <2>1 DEF n
    <3>. HIDE DEF a
    <3>. QED  BY ONLY <2>2, <3>1, HoldsMore
  <2>4. /\ off[k] = off[j] + Len(E[k]) /\ off[k] <= L /\ off[j] \in Nat
        /\ \A i \in 1 .. Len(E[k]) : enc[off[j] + i] = E[k][i]
    BY <1>9, <2>1
  <2>5. ASSUME NEW i \in 1 .. Len(E[k]), Len(E[k]) \in Nat
        PROVE  at[p + i] = Feed(at[(p + i) - 1], E[k][i])
    <3>. DEFINE o == off[j]  q == off[k]  l == Len(E[k])
    <3>0. q = o + l /\ q <= L /\ o \in Nat /\ l \in Nat /\ i \in 1 .. l /\ N = 3 + L + 2
      BY <1>5, <2>4, <2>5
    <3>. HIDE DEF o, q, l
    <3>1. o + i \in 1 .. L /\ 3 + o + i \in 1 .. N /\ 3 + (o + i) = 3 + o + i
      BY ONLY <1>6, <3>0
    <3>2. s[3 + o + i] = enc[o + i]
      BY <1>5, <3>1
    <3>3. at[3 + o + i] = Feed(at[(3 + o + i) - 1], s[3 + o + i])
      <4>. DEFINE r == 3 + o + i
      <4>1. r \in 1 .. N
        BY <3>1
      <4>. HIDE DEF r
      <4>2. at[r] = Feed(at[r - 1], s[r])
        BY <1>8, <4>1
      <4>. QED  BY <4>2 DEF r
    <3>. QED  BY <2>4, <3>2, <3>3 DEF o
  <2>6. CASE t[k] = "LF"
    <3>1. Len(E[k]) = 2 /\ E[k][1] = "LF" /\ E[k][2] = "data: "
      BY <1>1, <2>1, <2>6
    <3>2. 1 \in 1 .. Len(E[k]) /\ 2 \in 1 .. Len(E[k]) /\ Len(E[k]) \in Nat
      <4>1. Len(E[k]) = 2
        BY <3>1
      <4>. QED  BY ONLY <4>1
    <3>3. at[p + 1] = Feed(at[(p + 1) - 1], "LF") /\ at[p + 2] = Feed(at[(p + 2) - 1], "data: ")
      BY <2>5, <3>1, <3>2
    <3>4. (p + 1) - 1 = p /\ (p + 2) - 1 = p + 1 /\ p + 2 = 3 + off[k]
      <4>. DEFINE o == off[j]  q == off[k]
      <4>1. q = o + 2 /\ o \in Nat
        BY <2>4, <3>1
      <4>. HIDE DEF o, q
      <4>2. (3 + o + 1) - 1 = 3 + o /\ (3 + o + 2) - 1 = 3 + o + 1 /\ 3 + o + 2 = 3 + q
        BY ONLY <4>1
      <4>. QED  BY <4>2 DEF o, q
    <3>. HIDE DEF p
    <3>5. at[3 + off[k]] = Feed(Feed(a, "LF"), "data: ")
      BY ONLY <3>3, <3>4
    <3>6. \E D, m : Holds(at[3 + off[k]], D, m, SubSeq(t, 1, k))
      BY <2>3, <2>6, <3>5
    <3>. QED  BY <2>1, <3>6 DEF k
  <2>7. CASE t[k] # "LF"
    <3>1. Len(E[k]) = 1 /\ E[k][1] = t[k]
      BY <1>1, <2>1, <2>7
    <3>2. 1 \in 1 .. Len(E[k]) /\ Len(E[k]) \in Nat
      <4>1. Len(E[k]) = 1
        BY <3>1
      <4>. QED  BY ONLY <4>1
    <3>3. at[p + 1] = Feed(at[(p + 1) - 1], t[k])
      BY <2>5, <3>1, <3>2
    <3>4. (p + 1) - 1 = p /\ p + 1 = 3 + off[k]
      <4>. DEFINE o == off[j]  q == off[k]
      <4>1. q = o + 1 /\ o \in Nat
        BY <2>4, <3>1
      <4>. HIDE DEF o, q
      <4>2. (3 + o + 1) - 1 = 3 + o /\ 3 + o + 1 = 3 + q
        BY ONLY <4>1
      <4>. QED  BY <4>2 DEF o, q
    <3>. HIDE DEF p
    <3>5. at[3 + off[k]] = Feed(a, t[k])
      BY ONLY <3>3, <3>4
    <3>6. \E D, m : Holds(at[3 + off[k]], D, m, SubSeq(t, 1, k))
      BY <2>3, <2>7, <3>5
    <3>. QED  BY <2>1, <3>6 DEF k
  <2>. QED  BY <2>6, <2>7
<1>13. \A k \in 0 .. n : k \in T
  <2>. HIDE DEF T
  <2>. QED  BY <1>6, <1>11, <1>12, Ascent
<1>14. PICK D, m : Holds(at[3 + L], D, m, t)
  <2>1. n \in 0 .. n
    BY <1>6
  <2>2. \E D, m : Holds(at[3 + off[n]], D, m, SubSeq(t, 1, n))
    BY <1>13, <2>1
  <2>3. SubSeq(t, 1, n) = t /\ off[n] = L
    BY <1>9 DEF n
  <2>. QED  BY <2>2, <2>3
<1>15. /\ Feed(at[3 + L], "LF") = Append(LinesOf(Append(D, m)), <<>>)
       /\ Path!FlattenSeq(Ended(Append(D, m))) = Append(t, "LF")
  <2>. DEFINE a == at[3 + L]
  <2>1. Holds(a, D, m, t)
    BY <1>14
  <2>. HIDE DEF a
  <2>2. /\ Holds(Feed(Feed(a, "LF"), "data: "), Append(D, m), <<>>, Append(t, "LF"))
        /\ Feed(a, "LF") = Append(LinesOf(Append(D, m)), <<>>)
        /\ Path!FlattenSeq(Ended(Append(D, m))) = Append(t, "LF")
    BY ONLY <2>1, HoldsLine, Zenon
  <2>. QED  BY <2>2 DEF a
<1>16. /\ Append(D, m) \in Seq(Seq(Plainly)) /\ Len(Append(D, m)) >= 1
  <2>1. D \in Seq(Seq(Plainly)) /\ m \in Seq(Plainly)
    BY <1>14 DEF Holds
  <2>2. Append(D, m) \in Seq(Seq(Plainly)) /\ Len(Append(D, m)) = Len(D) + 1
    BY ONLY <2>1, LinesAppend
  <2>3. Len(D) \in Nat
    BY ONLY <2>1
  <2>. QED  BY ONLY <2>2, <2>3
<1>. DEFINE G == Append(D, m)  lines == LinesOf(G)  x == Append(lines, <<>>)
<1>. HIDE DEF G
<1>17. at[N] = Feed(Feed(at[3 + L], "LF"), "LF")
  <2>1. /\ 3 + L + 1 \in 1 .. N /\ 3 + L + 2 \in 1 .. N /\ N = 3 + L + 2
        /\ (3 + L + 1) - 1 = 3 + L /\ (3 + L + 2) - 1 = 3 + L + 1 /\ 1 \in 1 .. 2 /\ 2 \in 1 .. 2
    <3>1. N = 3 + L + 2
      BY <1>5
    <3>. QED  BY ONLY <1>6, <3>1
  <2>2. s[3 + L + 1] = "LF" /\ s[3 + L + 2] = "LF"
    BY <1>5, <2>1, EventParts
  <2>. DEFINE r == 3 + L + 1  q == 3 + L + 2
  <2>5. r \in 1 .. N /\ q \in 1 .. N /\ s[r] = "LF" /\ s[q] = "LF"
    BY <2>1, <2>2
  <2>6. r - 1 = 3 + L /\ q - 1 = r
    BY ONLY <1>6
  <2>. HIDE DEF r, q
  <2>7. at[r] = Feed(at[r - 1], "LF") /\ at[q] = Feed(at[q - 1], "LF")
    BY <1>8, <2>5
  <2>3. at[3 + L + 1] = Feed(at[3 + L], "LF")
    BY ONLY <2>6, <2>7 DEF r
  <2>4. at[3 + L + 2] = Feed(at[3 + L + 1], "LF")
    BY ONLY <2>6, <2>7 DEF r, q
  <2>. QED  BY ONLY <2>1, <2>3, <2>4
<1>18. lines \in Seq(Seq(Plainly)) /\ <<>> \in Seq(Plainly)
  BY <1>16, LinesType, EmptySeq DEF G
<1>. HIDE DEF lines
<1>19. at[N] = Append(x, <<>>)
  BY <1>15, <1>17 DEF Feed, G, lines
<1>20. Message!Front(Append(x, <<>>)) = x
  <2>. DEFINE S == Seq(Plainly)  e == <<>>
  <2>1. lines \in Seq(S) /\ e \in S
    BY <1>18
  <2>. HIDE DEF S, e
  <2>2. Append(lines, e) \in Seq(S)
    BY ONLY <2>1
  <2>. DEFINE y == Append(lines, e)
  <2>3. y \in Seq(S)
    BY <2>2
  <2>. HIDE DEF y
  <2>4. SubSeq(Append(y, e), 1, Len(Append(y, e)) - 1) = y
    BY ONLY <2>1, <2>3
  <2>. QED  BY <2>4 DEF y, e, Message!Front
<1>. QED  BY <1>7, <1>15, <1>16, <1>19, <1>20 DEF Broken, s, G, lines

\* A line with data.
LEMMA DataLine ==
    ASSUME NEW C, NEW x \in C, NEW d \in Seq(C)
    PROVE  /\ <<x>> \o d # <<>> /\ (<<x>> \o d)[1] = x /\ Tail(<<x>> \o d) = d
OBVIOUS

Heard(data) == [events |-> <<>>, data |-> data]

\* A line of data is kept with a line feed behind it.
LEMMA HeardMore ==
    ASSUME NEW data, NEW d \in Seq(Plainly)
    PROVE  EventStep(Heard(data), <<"data: ">> \o d) = Heard(Append(data, d \o <<"LF">>))
<1>. DEFINE line == <<"data: ">> \o d  acc == Heard(data)
<1>1. line # <<>> /\ line[1] = "data: " /\ Tail(line) = d
  <2>1. "data: " \in Plainly /\ d \in Seq(Plainly)
    BY PlainlyFacts
  <2>. QED  BY ONLY <2>1, DataLine
<1>. HIDE DEF line
<1>2. EventStep(acc, line) = [acc EXCEPT !.data = Append(@, d \o <<"LF">>)]
  BY <1>1 DEF EventStep, Message!LF
<1>3. acc = [events |-> <<>>, data |-> data]
  BY DEF Heard
<1>. HIDE DEF acc
<1>. DEFINE w == d \o <<"LF">>
<1>. HIDE DEF w
<1>4. [acc EXCEPT !.data = Append(@, w)] = [events |-> <<>>, data |-> Append(data, w)]
  BY SMTT(40), <1>3
<1>. QED  BY <1>2, <1>4 DEF acc, line, w, Heard

\* The browser hears one event: the message.
LEMMA EventIsHeard ==
    ASSUME NEW t \in Seq(Plainly)
    PROVE  Message!EventSource(Message!SseEvent(t)) = <<t>>
<1>. DEFINE s == Message!SseEvent(t)  q == Message!StreamLines(s)
<1>1. Broken(q, t)
  BY EventLines
<1>2. PICK D \in Seq(Seq(Plainly)) :
         /\ Len(D) >= 1 /\ q = Append(LinesOf(D), <<>>)
         /\ Path!FlattenSeq(Ended(D)) = Append(t, "LF")
  BY <1>1 DEF Broken
<1>. DEFINE n == Len(D)  lines == LinesOf(D)  E == Ended(D)
<1>3. lines \in Seq(Seq(Plainly)) /\ Len(lines) = n + 1 /\ E \in Seq(Seq(Plainly)) /\ Len(E) = n
  BY LinesType
<1>4. n \in Nat /\ n >= 1 /\ \A i \in 1 .. n : D[i] \in Seq(Plainly)
  <2>1. D \in Seq(Seq(Plainly)) /\ Len(D) >= 1
    BY <1>2
  <2>. QED  BY ONLY <2>1
<1>5. /\ lines[1] = <<"event: message">>
      /\ \A i \in 1 .. n : lines[i + 1] = <<"data: ">> \o D[i]
  <2>1. \A i \in 1 .. n + 1 :
           lines[i] = IF i = 1 THEN <<"event: message">> ELSE <<"data: ">> \o D[i - 1]
    BY DEF LinesOf
  <2>. HIDE DEF lines, n
  <2>2. 1 \in 1 .. n + 1 /\ \A i \in 1 .. n : i + 1 \in 1 .. n + 1 /\ i + 1 # 1 /\ (i + 1) - 1 = i
    BY <1>4
  <2>3. ASSUME NEW i \in 1 .. n
        PROVE  lines[i + 1] = <<"data: ">> \o D[i]
    <3>. DEFINE k == i + 1
    <3>1. k \in 1 .. n + 1 /\ k # 1 /\ k - 1 = i
      BY <2>2
    <3>. HIDE DEF k
    <3>2. lines[k] = <<"data: ">> \o D[k - 1]
      BY <2>1, <3>1
    <3>. QED  BY <3>1, <3>2 DEF k
  <2>4. lines[1] = <<"event: message">>
    BY <2>1, <2>2
  <2>. QED  BY <2>3, <2>4
<1>6. \A i \in 1 .. n : E[i] = D[i] \o <<"LF">>
  BY DEF Ended
<1>. HIDE DEF s, n, lines, E
<1>7. /\ q \in Seq(Seq(Plainly)) /\ Len(q) = (n + 1) + 1 /\ q[(n + 1) + 1] = <<>>
      /\ \A i \in 1 .. n + 1 : q[i] = lines[i]
  <2>. DEFINE S == Seq(Plainly)  e == <<>>
  <2>1. lines \in Seq(S) /\ e \in S /\ Len(lines) = n + 1 /\ n \in Nat
    BY <1>3, <1>4, EmptySeq
  <2>2. q = Append(lines, e)
    BY <1>2 DEF lines
  <2>. HIDE DEF S, e
  <2>. DEFINE y == Append(lines, e)
  <2>3. /\ y \in Seq(S) /\ Len(y) = (n + 1) + 1 /\ y[(n + 1) + 1] = e
        /\ \A i \in 1 .. n + 1 : y[i] = lines[i]
    BY ONLY <2>1
  <2>. HIDE DEF y, q
  <2>4. q = y
    BY <2>2 DEF y
  <2>. QED  BY <2>3, <2>4 DEF S, e
<1>8. PICK at : Hears(q, at) /\ Message!EventSource(s) = at[Len(q)].events
  <2>1. "LF" \in Plainly /\ q \in Seq(Seq(Plainly)) /\ q = Message!StreamLines(s)
    BY <1>7, PlainlyFacts
  <2>. HIDE DEF q
  <2>. QED  BY ONLY <2>1, EventsAre
<1>. HIDE DEF q
<1>9. at[0] = Silence /\ \A i \in 1 .. (n + 1) + 1 : at[i] = EventStep(at[i - 1], q[i])
  BY <1>7, <1>8 DEF Hears
<1>. DEFINE T == {i \in 0 .. n : at[i + 1] = Heard(SubSeq(E, 1, i))}
<1>10. 0 \in T
  <2>1. 0 \in 0 .. n /\ 0 + 1 = 1 /\ 1 \in 1 .. (n + 1) + 1 /\ 1 - 1 = 0 /\ 1 \in 1 .. n + 1
    BY ONLY <1>4
  <2>2. at[1] = EventStep(Silence, <<"event: message">>)
    BY <1>5, <1>7, <1>9, <2>1
  <2>3. LET l == <<"event: message">> IN l # <<>> /\ l[1] # "data: "
    OBVIOUS
  <2>4. EventStep(Silence, <<"event: message">>) = Silence
    BY <2>3 DEF EventStep
  <2>5. SubSeq(E, 1, 0) = <<>>
    <3>1. E \in Seq(Seq(Plainly))
      BY <1>3
    <3>. QED  BY ONLY <3>1
  <2>6. at[0 + 1] = Heard(SubSeq(E, 1, 0))
    BY <2>1, <2>2, <2>4, <2>5 DEF Silence, Heard
  <2>. QED  BY <2>1, <2>6
<1>11. ASSUME NEW i \in 0 .. n - 1, i \in T
       PROVE  i + 1 \in T
  <2>. DEFINE k == i + 1  r == k + 1
  <2>1. /\ k \in 1 .. n /\ k \in 0 .. n /\ r \in 1 .. n + 1 /\ r \in 1 .. (n + 1) + 1 /\ r - 1 = k
        /\ k - 1 = i
    BY ONLY <1>4, i \in 0 .. n - 1
  <2>2. at[k] = Heard(SubSeq(E, 1, k - 1))
    <3>1. at[i + 1] = Heard(SubSeq(E, 1, i))
      BY <1>11
    <3>. QED  BY <2>1, <3>1
  <2>. HIDE DEF k
  <2>3. q[r] = <<"data: ">> \o D[k]
    BY <1>5, <1>7, <2>1
  <2>4. D[k] \in Seq(Plainly) /\ E[k] = D[k] \o <<"LF">>
    BY <1>4, <1>6, <2>1
  <2>. DEFINE d == D[k]  data == SubSeq(E, 1, k - 1)
  <2>5. EventStep(Heard(data), <<"data: ">> \o d) = Heard(Append(data, d \o <<"LF">>))
    <3>1. d \in Seq(Plainly)
      BY <2>4
    <3>. HIDE DEF d, data
    <3>. QED  BY ONLY <3>1, HeardMore
  <2>6. SubSeq(E, 1, k) = Append(data, E[k])
    <3>1. E \in Seq(Seq(Plainly)) /\ k \in 1 .. Len(E)
      BY <1>3, <2>1
    <3>. QED  BY ONLY <3>1
  <2>. HIDE DEF r
  <2>7. at[r] = EventStep(at[r - 1], q[r])
    BY <1>9, <2>1
  <2>8. at[r] = EventStep(Heard(data), <<"data: ">> \o d)
    BY <2>1, <2>2, <2>3, <2>7
  <2>. HIDE DEF data, d
  <2>9. at[r] = Heard(SubSeq(E, 1, k))
    BY <2>4, <2>5, <2>6, <2>8 DEF d
  <2>10. at[k + 1] = Heard(SubSeq(E, 1, k))
    BY <2>9 DEF r
  <2>. QED  BY <2>1, <2>10 DEF k
<1>12. at[n + 1] = Heard(E)
  <2>1. \A i \in 0 .. n : i \in T
    <3>. HIDE DEF T
    <3>. QED  BY <1>4, <1>10, <1>11, Ascent
  <2>2. n \in 0 .. n
    BY ONLY <1>4
  <2>3. at[n + 1] = Heard(SubSeq(E, 1, n))
    BY <2>1, <2>2
  <2>4. SubSeq(E, 1, n) = E
    <3>1. E \in Seq(Seq(Plainly)) /\ n = Len(E)
      BY <1>3
    <3>. QED  BY ONLY <3>1
  <2>. QED  BY <2>3, <2>4
<1>13. at[(n + 1) + 1] = EventStep(Heard(E), <<>>)
  <2>1. (n + 1) + 1 \in 1 .. (n + 1) + 1 /\ ((n + 1) + 1) - 1 = n + 1
    BY ONLY <1>4
  <2>2. at[(n + 1) + 1] = EventStep(at[((n + 1) + 1) - 1], q[(n + 1) + 1])
    BY <1>9, <2>1
  <2>. QED  BY <1>7, <1>12, <2>1, <2>2
<1>14. EventStep(Heard(E), <<>>).events = <<t>>
  <2>1. E # <<>>
    <3>1. Len(E) >= 1
      BY <1>3, <1>4
    <3>. QED  BY ONLY <3>1
  <2>. DEFINE h == Heard(E)
  <2>2. h.data = E /\ h.events = <<>>
    BY DEF Heard
  <2>. HIDE DEF h
  <2>. DEFINE e == Message!Front(Message!FlattenSeq(E))
  <2>3. EventStep(h, <<>>) = [events |-> Append(<<>>, e), data |-> <<>>]
    BY <2>1, <2>2 DEF EventStep
  <2>4. e = Message!Front(Append(t, "LF"))
    BY <1>2, SameFlatten DEF E
  <2>5. Message!Front(Append(t, "LF")) = t
    <3>1. t \in Seq(Plainly) /\ "LF" \in Plainly
      BY PlainlyFacts
    <3>2. SubSeq(Append(t, "LF"), 1, Len(Append(t, "LF")) - 1) = t
      BY ONLY <3>1
    <3>. QED  BY <3>2 DEF Message!Front
  <2>. HIDE DEF e
  <2>6. EventStep(h, <<>>).events = Append(<<>>, e)
    BY <2>3
  <2>7. Append(<<>>, t) = <<t>>
    BY ONLY ShortSeq
  <2>. QED  BY <2>4, <2>5, <2>6, <2>7 DEF h
<1>. QED  BY <1>7, <1>8, <1>13, <1>14 DEF s

-----------------------------------------------------------------------------
(* MessageText: the way of a message. *)

\* The characters of a text; only the carriage return is lost on the stream.
LEMMA CharsFacts ==
    /\ Message!Chars \ {"CR"} \subseteq Plainly
    /\ "refused" \notin Message!Chars /\ "nothing" \notin Message!Chars
<1>1. "refused" \notin Message!Chars /\ "nothing" \notin Message!Chars
  BY CharsAre
<1>. QED  BY <1>1, CharsAre DEF Plainly

\* No text is taken for the absence of one.
LEMMA TextIsSome ==
    ASSUME NEW t \in Seq(Message!Chars)
    PROVE  t # Message!Refused /\ t # Message!Nothing
<1>1. ASSUME NEW x, t = <<x>>
      PROVE  x \in Message!Chars
  <2>1. Len(t) = 1 /\ t[1] = x
    BY <1>1
  <2>. QED  BY <2>1
<1>. QED  BY <1>1, CharsFacts DEF Message!Refused, Message!Nothing

\* message_store_trailing_whitespace_bytes leaves a text.
LEMMA TrimmedIsText ==
    ASSUME NEW C, NEW t \in Seq(C)
    PROVE  Message!Trimmed(t) \in Seq(C)
<1>. DEFINE kept == {i \in 1 .. Len(t) : t[i] \notin Message!Space \cup {Message!Nbsp}}
<1>1. Message!Trimmed(t) = IF kept = {} THEN <<>> ELSE SubSeq(t, 1, Greatest(kept))
  BY DEF Message!Trimmed, Greatest
<1>2. kept \in SUBSET (1 .. Len(t)) /\ Len(t) \in Nat
  OBVIOUS
<1>. HIDE DEF kept
<1>3. kept # {} => Greatest(kept) \in 1 .. Len(t)
  BY <1>2, GreatestNumber
<1>4. <<>> \in Seq(C)
  BY EmptySeq
<1>5. \A i \in 1 .. Len(t) : SubSeq(t, 1, i) \in Seq(C)
  OBVIOUS
<1>. QED  BY <1>1, <1>3, <1>4, <1>5

\* What is stored of a text without half a surrogate pair.
LEMMA StoredIsText ==
    ASSUME NEW t \in Seq(Message!Chars), Sound(t)
    PROVE  Message!Trimmed(Message!CString(t)) \in Seq(Kept)
<1>1. \A i \in 1 .. Len(t) : t[i] \in Message!Chars \ {"LONE"}
  BY DEF Sound
<1>2. t \in Seq(Message!Chars \ {"LONE"})
  BY <1>1
<1>3. Message!CString(t) \in Seq((Message!Chars \ {"LONE"}) \ {"NUL"})
  BY <1>2, CStringType
<1>4. (Message!Chars \ {"LONE"}) \ {"NUL"} = Kept
  BY DEF Kept
<1>5. Message!CString(t) \in Seq(Kept)
  BY <1>3, <1>4
<1>. QED  BY <1>5, TrimmedIsText

\* A body is read as the text, if it is whole and sound, and refused otherwise; what is
\* stored comes from it, and what is shown from what is stored.
MessageInv ==
    /\ text \in Seq(Message!Chars)
    /\ body = Message!Nothing => stored = Message!Nothing
    /\ body # Message!Nothing =>
          Message!ParseMessageJson(body) =
            IF whole /\ Sound(text) THEN Message!CString(text) ELSE Message!Refused
    /\ stored = Message!Nothing => page = Message!Nothing /\ live = Message!Nothing
    /\ MessageIsKept

\* For every length of the text, every client's way of writing it and every
\* place at which its body may be cut.
THEOREM MessageInvariant == InputSpec => []MessageInv
<1>. USE DEF MessageIsKept, Message!StoredIsTyped, Message!PageShowsStored,
             Message!StreamShowsStored
<1>1. InputInit => MessageInv
  <2>1. <<>> \in Seq(Message!Chars)
    BY EmptySeq
  <2>. QED  BY <2>1 DEF InputInit, Message!Init, MessageInv
<1>2. MessageInv /\ [InputNext]_<<input, vars, pathVars, messageVars, lineVars, frameVars, stateVars>>
        => MessageInv'
  <2>. SUFFICES ASSUME MessageInv,
                  [InputNext]_<<input, vars, pathVars, messageVars, lineVars, frameVars, stateVars>>
                PROVE  MessageInv'
    OBVIOUS
  <2>1. Message!Next \/ UNCHANGED messageVars
    BY DEF InputNext
  <2>0. ~(\E i \in 1 .. Len(text) : text[i] = Message!Lone) <=> Sound(text)
    BY DEF Sound, Message!Lone
  <2>2. ASSUME NEW c \in Message!Chars, Message!Type(c)
        PROVE  MessageInv'
    <3>1. text' \in Seq(Message!Chars)
      BY <2>2 DEF Message!Type, MessageInv
    <3>2. /\ body' = body /\ stored' = stored /\ page' = page /\ live' = live
          /\ body = Message!Nothing
      BY <2>2 DEF Message!Type
    <3>3. stored = Message!Nothing /\ page = Message!Nothing /\ live = Message!Nothing
      BY <3>2 DEF MessageInv
    <3>. QED  BY <3>1, <3>2, <3>3 DEF MessageInv
  <2>3. CASE Message!Post
    <3>0. PICK ascii \in BOOLEAN :
             \E n \in 0 .. Len(Sent(text, ascii)) :
                /\ body' = SubSeq(Sent(text, ascii), 1, n)
                /\ whole' = (n = Len(Sent(text, ascii)))
      <4>1. \E sent \in {Sent(text, FALSE), Sent(text, TRUE)} : \E n \in 0 .. Len(sent) :
               body' = SubSeq(sent, 1, n) /\ whole' = (n = Len(sent))
        <5>. DEFINE typed == Message!MessageBody(text, Message!Stringify, <<>>)
                    ascii == Message!MessageBody(text, Message!Ascii, <<"SPACE">>)
        <5>1. typed = Sent(text, FALSE) /\ ascii = Sent(text, TRUE)
          BY BodyIs
        <5>2. \E sent \in {typed, ascii} : \E n \in 0 .. Len(sent) :
                 body' = SubSeq(sent, 1, n) /\ whole' = (n = Len(sent))
          BY ONLY <2>3 DEF Message!Post, Message!MessageBody
        <5>. HIDE DEF typed, ascii
        <5>. QED  BY ONLY <5>1, <5>2
      <4>. QED  BY <4>1
    <3>1. PICK n \in 0 .. Len(Sent(text, ascii)) :
             /\ body' = SubSeq(Sent(text, ascii), 1, n)
             /\ whole' = (n = Len(Sent(text, ascii)))
      BY <3>0
    <3>2. /\ body = Message!Nothing /\ text' = text /\ stored' = stored /\ page' = page
          /\ live' = live
      BY <2>3 DEF Message!Post
    <3>3. /\ text \in Seq(Message!Chars) /\ stored = Message!Nothing /\ page = Message!Nothing
          /\ live = Message!Nothing
      BY <3>2 DEF MessageInv
    <3>4. Message!ParseMessageJson(SubSeq(Sent(text, ascii), 1, n)) =
             IF n = Len(Sent(text, ascii)) /\ Sound(text) THEN Message!CString(text)
             ELSE Message!Refused
      BY <3>3, SentParsed
    <3>5. Message!ParseMessageJson(body') =
             IF whole' /\ Sound(text) THEN Message!CString(text) ELSE Message!Refused
      BY <3>1, <3>4
    <3>6. Message!ParseMessageJson(body)' = Message!ParseMessageJson(body')
      BY DEF Message!ParseMessageJson
    <3>. QED  BY <3>2, <3>3, <3>5, <3>6 DEF MessageInv
  <2>4. CASE Message!Store
    <3>1. /\ body # Message!Nothing /\ stored = Message!Nothing
          /\ stored' = IF Message!ParseMessageJson(body) = Message!Refused THEN Message!Refused
                       ELSE Message!Trimmed(Message!ParseMessageJson(body))
          /\ text' = text /\ body' = body /\ whole' = whole /\ page' = page /\ live' = live
      BY <2>4 DEF Message!Store
    <3>2. /\ text \in Seq(Message!Chars) /\ page = Message!Nothing /\ live = Message!Nothing
          /\ Message!ParseMessageJson(body) =
               IF whole /\ Sound(text) THEN Message!CString(text) ELSE Message!Refused
      BY <3>1 DEF MessageInv
    <3>3. Message!CString(text) # Message!Refused
      <4>1. Message!CString(text) \in Seq(Message!Chars \ {"NUL"})
        BY <3>2, CStringType
      <4>2. Message!CString(text) \in Seq(Message!Chars)
        BY <4>1
      <4>. QED  BY <4>2, TextIsSome
    <3>4. stored' = IF whole /\ Sound(text) THEN Message!Trimmed(Message!CString(text))
                    ELSE Message!Refused
      BY <3>1, <3>2, <3>3
    <3>. HIDE DEF Message!Trimmed, Message!CString
    <3>. QED  BY <2>0, <3>1, <3>2, <3>4 DEF MessageInv
  <2>5. Message!HasMessage => stored \in Seq(Kept) /\ stored # Message!Nothing
    <3>1. Message!HasMessage =>
            /\ stored = Message!Trimmed(Message!CString(text)) /\ stored # Message!Nothing
            /\ Sound(text)
      BY <2>0 DEF MessageInv, Message!HasMessage
    <3>. QED  BY <3>1, StoredIsText DEF MessageInv
  <2>6. CASE Message!LoadLatest
    <3>1. /\ Message!HasMessage /\ page' = Message!JsonParse(Message!JsonEscape(stored))
          /\ text' = text /\ body' = body /\ whole' = whole /\ stored' = stored /\ live' = live
      BY <2>6 DEF Message!LoadLatest
    <3>2. page' = stored /\ stored # Message!Nothing
      BY <2>5, <3>1, EscapeIsRead
    <3>. QED  BY <3>1, <3>2 DEF MessageInv
  <2>7. CASE Message!StreamEvent
    <3>1. /\ Message!HasMessage /\ live' = Message!EventSource(Message!SseEvent(stored))
          /\ text' = text /\ body' = body /\ whole' = whole /\ stored' = stored /\ page' = page
      BY <2>7 DEF Message!StreamEvent
    <3>2. stored \in Seq(Kept) /\ stored # Message!Nothing
      BY <2>5, <3>1
    <3>3. ~(\E i \in 1 .. Len(stored) : stored[i] = Message!CR) => live' = <<stored>>
      <4>. HAVE ~(\E i \in 1 .. Len(stored) : stored[i] = Message!CR)
      <4>1. \A i \in 1 .. Len(stored) : stored[i] \in Message!Chars /\ stored[i] # "CR"
        BY <3>2 DEF Message!CR, Kept
      <4>2. \A i \in 1 .. Len(stored) : stored[i] \in Plainly
        BY <4>1, CharsFacts
      <4>3. stored \in Seq(Plainly)
        BY <3>2, <4>2
      <4>. QED  BY <3>1, <4>3, EventIsHeard
    <3>. QED  BY <3>1, <3>2, <3>3 DEF MessageInv
  <2>8. CASE UNCHANGED messageVars
    BY <2>8 DEF MessageInv, messageVars
  <2>. QED  BY <2>1, <2>2, <2>3, <2>4, <2>6, <2>7, <2>8 DEF Message!Next
<1>. QED  BY <1>1, <1>2, PTL DEF InputSpec

\* The message that is stored is the text that was typed, up to a U+0000 and
\* whichever client wrote it, or nothing of it: a text with half of a surrogate
\* pair and a body that was cut are refused; the page and, but for carriage returns, the stream show
\* what is stored.
THEOREM MessageIsKeptHolds == InputSpec => []MessageIsKept
<1>1. MessageInv => MessageIsKept
  BY DEF MessageInv
<1>. QED  BY <1>1, MessageInvariant, PTL
=============================================================================
