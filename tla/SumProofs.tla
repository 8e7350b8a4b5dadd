----------------------------- MODULE SumProofs -----------------------------
(***************************************************************************)
(* Lemmas about the sums of Sums: what Total returns when an element is    *)
(* added, taken out or changed, and the same for TotalOver and the terms   *)
(* of a set.  They rest on induction over the natural numbers for a set    *)
(* (SetInduction), which is drawn from the pigeonhole fact of the library. *)
(***************************************************************************)
EXTENDS Sums, FiniteSetTheorems, SequenceTheorems, TLAPS

\* A set of numbers that holds zero and the successor of each of its members.
LEMMA SetInduction ==
  ASSUME NEW S, 0 \in S, \A n \in Nat : n \in S => n + 1 \in S
  PROVE  Nat \subseteq S
<1> SUFFICES ASSUME NEW m \in Nat, m \notin S PROVE FALSE
  OBVIOUS
<1> DEFINE T == {n \in 0..m : n \in S}
           U == T \ {0}
           f == [n \in T |-> n + 1]
<1>1. IsFiniteSet(T)
  <2>1. T \in SUBSET (0..m)
    OBVIOUS
  <2>2. IsFiniteSet(0..m)
    BY FS_Interval
  <2> HIDE DEF T
  <2> QED  BY <2>1, <2>2, FS_Subset
<1>4. f \in [T -> U]
  OBVIOUS
<1>6. \A x, y \in T : f[x] = f[y] => x = y
  OBVIOUS
<1>7. 0 \in T
  OBVIOUS
<1> HIDE DEF f
<1>2. IsFiniteSet(U) /\ Cardinality(U) = Cardinality(T) - 1
  <2> HIDE DEF T
  <2> QED BY <1>1, <1>7, FS_RemoveElement, Zenon
<1>3. Cardinality(U) < Cardinality(T)
  <2> HIDE DEF T, U
  <2> QED BY <1>1, <1>2, FS_CardinalityType
<1>5. \E x, y \in T : x # y /\ f[x] = f[y]
  <2> HIDE DEF T, U
  <2> QED BY <1>1, <1>2, <1>3, <1>4, FS_PigeonHole, Zenon
<1> QED  BY <1>5, <1>6

\* g[i] is the sum of the first i terms of xs, for every i up to n.
Partial(g, xs, n) ==
  /\ g \in [0..n -> Int]
  /\ g[0] = 0
  /\ \A i \in 1..n : g[i] = g[i - 1] + xs[i]

\* Every sequence of integers has its partial sums.
LEMMA PartialExists ==
  ASSUME NEW xs \in Seq(Int)
  PROVE  \E g : Partial(g, xs, Len(xs))
<1> DEFINE S == {n \in Nat : n <= Len(xs) => \E g : Partial(g, xs, n)}
<1>1. 0 \in S
  <2>1. Partial([i \in 0..0 |-> 0], xs, 0)
    BY DEF Partial
  <2> QED  BY <2>1
<1>2. ASSUME NEW n \in Nat, n \in S, n + 1 <= Len(xs)
      PROVE  \E g : Partial(g, xs, n + 1)
  <2>1. PICK g : Partial(g, xs, n)
    BY <1>2
  <2> DEFINE h == [i \in 0..(n + 1) |-> IF i = n + 1 THEN g[n] + xs[i] ELSE g[i]]
  <2>2. xs[n + 1] \in Int /\ g[n] \in Int
    BY <1>2, <2>1 DEF Partial
  <2>3. h \in [0..(n + 1) -> Int]
    BY <2>1, <2>2 DEF Partial
  <2>4. h[0] = 0
    BY <2>1 DEF Partial
  <2>5. ASSUME NEW i \in 1..(n + 1) PROVE h[i] = h[i - 1] + xs[i]
    <3>1. CASE i = n + 1
      BY <3>1
    <3>2. CASE i # n + 1
      BY <3>2, <2>1 DEF Partial
    <3> QED  BY <3>1, <3>2
  <2> QED  BY <2>3, <2>4, <2>5 DEF Partial
<1>3. Nat \subseteq S
  <2>1. \A n \in Nat : n \in S => n + 1 \in S
    BY <1>2
  <2> HIDE DEF S
  <2> QED  BY <1>1, <2>1, SetInduction
<1>4. Len(xs) \in S
  BY <1>3
<1> QED  BY <1>4

\* Total is the last of the partial sums.
LEMMA TotalIsPartial ==
  ASSUME NEW xs \in Seq(Int), NEW g, Partial(g, xs, Len(xs))
  PROVE  Total(xs) = g[Len(xs)]
<1> DEFINE Eq(u) == u = [n \in 0..Len(xs) |-> IF n = 0 THEN 0 ELSE u[n - 1] + xs[n]]
           upto == CHOOSE u : Eq(u)
<1>1. Eq(g)
  BY DEF Partial
<1>2. Eq(upto)
  BY <1>1
<1>3. ASSUME NEW u, Eq(u) PROVE u = g
  <2> DEFINE S == {n \in Nat : n <= Len(xs) => u[n] = g[n]}
  <2>1. 0 \in S
    BY <1>3 DEF Partial
  <2>2. \A n \in Nat : n \in S => n + 1 \in S
    <3> SUFFICES ASSUME NEW n \in Nat, n \in S, n + 1 <= Len(xs) PROVE u[n + 1] = g[n + 1]
      OBVIOUS
    <3>1. u[n] = g[n] /\ n + 1 \in 1..Len(xs) /\ (n + 1) - 1 = n
      OBVIOUS
    <3>2. u[n + 1] = u[n] + xs[n + 1]
      BY <1>3, <3>1
    <3> QED  BY <3>1, <3>2 DEF Partial
  <2>3. Nat \subseteq S
    <3> HIDE DEF S
    <3> QED  BY <2>1, <2>2, SetInduction
  <2>4. \A n \in 0..Len(xs) : u[n] = g[n]
    BY <2>3
  <2>5. u = [n \in 0..Len(xs) |-> u[n]]
    BY <1>3
  <2> QED  BY <2>4, <2>5 DEF Partial
<1>4. upto = g
  <2> HIDE DEF upto
  <2> QED  BY <1>2, <1>3
<1>5. Total(xs) = upto[Len(xs)]
  BY DEF Total
<1> QED  BY <1>4, <1>5

-----------------------------------------------------------------------------
(* Sums of sequences *)

\* The sum of integers is an integer.
LEMMA TotalType == ASSUME NEW xs \in Seq(Int) PROVE Total(xs) \in Int
<1>1. PICK g : Partial(g, xs, Len(xs))
  BY PartialExists
<1>2. g[Len(xs)] \in Int
  BY <1>1 DEF Partial
<1> QED  BY <1>1, <1>2, TotalIsPartial

\* An empty sequence adds up to zero.
LEMMA TotalEmpty == ASSUME NEW xs \in Seq(Int), Len(xs) = 0 PROVE Total(xs) = 0
<1>1. PICK g : Partial(g, xs, Len(xs))
  BY PartialExists
<1> QED  BY <1>1, TotalIsPartial DEF Partial

\* A last element is added.
LEMMA TotalSnoc ==
  ASSUME NEW xs \in Seq(Int), NEW ys \in Seq(Int), Len(ys) = Len(xs) + 1,
         \A i \in 1..Len(xs) : ys[i] = xs[i]
  PROVE  Total(ys) = Total(xs) + ys[Len(ys)]
<1>1. PICK g : Partial(g, xs, Len(xs))
  BY PartialExists
<1> DEFINE n == Len(xs)
           h == [i \in 0..(n + 1) |-> IF i = n + 1 THEN g[n] + ys[i] ELSE g[i]]
<1>2. ys[n + 1] \in Int /\ g[n] \in Int
  BY <1>1 DEF Partial
<1>3. h \in [0..(n + 1) -> Int]
  BY <1>1, <1>2 DEF Partial
<1>4. ASSUME NEW i \in 1..(n + 1) PROVE h[i] = h[i - 1] + ys[i]
  <2>1. CASE i = n + 1
    BY <2>1
  <2>2. CASE i # n + 1
    BY <2>2, <1>1 DEF Partial
  <2> QED  BY <2>1, <2>2
<1>5. h[0] = 0
  BY <1>1 DEF Partial
<1>6. Partial(h, ys, Len(ys))
  BY <1>3, <1>4, <1>5 DEF Partial
<1>7. h[n + 1] = g[n] + ys[n + 1]
  OBVIOUS
<1> HIDE DEF h
<1> QED  BY <1>1, <1>6, <1>7, TotalIsPartial

\* The element at position k is taken out.
LEMMA TotalWithout ==
  ASSUME NEW xs \in Seq(Int), NEW ys \in Seq(Int), NEW k \in 1..Len(xs),
         Len(ys) = Len(xs) - 1,
         \A i \in 1..Len(ys) : ys[i] = xs[IF i < k THEN i ELSE i + 1]
  PROVE  Total(ys) = Total(xs) - xs[k]
<1>1. PICK n \in Nat : n = Len(ys) /\ Len(xs) = n + 1
  OBVIOUS
<1>2. PICK g : Partial(g, xs, n + 1)
  BY <1>1, PartialExists
<1>3. /\ g \in [0..(n + 1) -> Int] /\ g[0] = 0
      /\ \A i \in 1..(n + 1) : g[i] = g[i - 1] + xs[i]
      /\ \A i \in 1..(n + 1) : xs[i] \in Int
      /\ k \in 1..(n + 1)
      /\ \A i \in 1..n : ys[i] = xs[IF i < k THEN i ELSE i + 1]
  BY <1>1, <1>2 DEF Partial
<1>0. k \in Int /\ 1 <= k /\ k <= n + 1 /\ xs[k] \in Int
  BY <1>1, <1>3
<1> DEFINE h == [i \in 0..n |-> IF i < k THEN g[i] ELSE g[i + 1] - xs[k]]
<1>4. h \in [0..n -> Int] /\ h[0] = 0
  <2>1. ASSUME NEW i \in 0..n PROVE (IF i < k THEN g[i] ELSE g[i + 1] - xs[k]) \in Int
    <3>1. i \in 0..(n + 1) /\ i + 1 \in 0..(n + 1)
      BY <1>1
    <3>2. g[i] \in Int /\ g[i + 1] \in Int
      BY <1>3, <3>1
    <3> QED  BY <1>0, <3>2
  <2>2. h[0] = 0
    BY <1>0, <1>1, <1>3
  <2> QED  BY <2>1, <2>2
<1>5. ASSUME NEW i \in 1..n PROVE h[i] = h[i - 1] + ys[i]
  <2>1. /\ i \in 1..(n + 1) /\ i + 1 \in 1..(n + 1) /\ (i + 1) - 1 = i
        /\ i \in 0..n /\ i - 1 \in 0..n /\ (i - 1) + 1 = i /\ i \in Int
        /\ i \in 0..(n + 1) /\ i - 1 \in 0..(n + 1) /\ i + 1 \in 0..(n + 1)
    BY <1>1
  <2>2. g[i] = g[i - 1] + xs[i] /\ g[i + 1] = g[i] + xs[i + 1]
    BY <1>3, <2>1
  <2>7. /\ g[i] \in Int /\ g[i - 1] \in Int /\ g[i + 1] \in Int
        /\ xs[i] \in Int /\ xs[i + 1] \in Int
    BY <1>3, <2>1
  <2>3. /\ h[i] = IF i < k THEN g[i] ELSE g[i + 1] - xs[k]
        /\ h[i - 1] = IF i - 1 < k THEN g[i - 1] ELSE g[i] - xs[k]
        /\ ys[i] = IF i < k THEN xs[i] ELSE xs[i + 1]
    BY <1>3, <2>1
  <2> HIDE DEF h
  <2>4. CASE i < k
    <3>1. h[i] = g[i] /\ h[i - 1] = g[i - 1] /\ ys[i] = xs[i]
      BY <1>0, <2>1, <2>3, <2>4
    <3> QED  BY <2>2, <3>1
  <2>5. CASE i = k
    <3>1. h[i] = g[i + 1] - xs[i] /\ h[i - 1] = g[i - 1] /\ ys[i] = xs[i + 1]
      BY <1>0, <2>1, <2>3, <2>5
    <3>2. PICK a, b, c \in Int : a = g[i - 1] /\ b = xs[i] /\ c = xs[i + 1]
      BY <2>7
    <3>5. ((a + b) + c) - b = a + c
      OBVIOUS
    <3>3. ((g[i - 1] + xs[i]) + xs[i + 1]) - xs[i] = g[i - 1] + xs[i + 1]
      BY <3>2, <3>5, Zenon
    <3>4. g[i + 1] = (g[i - 1] + xs[i]) + xs[i + 1]
      BY <2>2, Zenon
    <3> QED  BY <3>1, <3>3, <3>4, Zenon
  <2>6. CASE i > k
    <3>1. h[i] = g[i + 1] - xs[k] /\ h[i - 1] = g[i] - xs[k] /\ ys[i] = xs[i + 1]
      BY <1>0, <2>1, <2>3, <2>6
    <3>2. \A a, b, c \in Int : (a + b) - c = (a - c) + b
      OBVIOUS
    <3>4. g[i] \in Int /\ xs[i + 1] \in Int /\ xs[k] \in Int
      BY <1>0, <2>7
    <3>3. (g[i] + xs[i + 1]) - xs[k] = (g[i] - xs[k]) + xs[i + 1]
      BY <3>2, <3>4, Zenon
    <3> QED  BY <2>2, <3>1, <3>3, Zenon
  <2> QED  BY <1>0, <2>1, <2>4, <2>5, <2>6
<1>6. Partial(h, ys, n)
  BY <1>4, <1>5 DEF Partial
<1>7. h[n] = g[n + 1] - xs[k]
  <2>1. CASE k = n + 1
    <3>1. (n + 1) - 1 = n /\ n + 1 \in 1..(n + 1) /\ n \in 0..(n + 1) /\ n \in 0..n /\ n < k
      BY <1>1, <2>1
    <3>2. g[n + 1] = g[n] + xs[n + 1] /\ g[n] \in Int /\ xs[n + 1] \in Int /\ h[n] = g[n]
      BY <1>3, <3>1
    <3> HIDE DEF h
    <3> QED  BY <2>1, <3>2
  <2>2. CASE k # n + 1
    BY <1>1, <1>3, <2>2
  <2> QED  BY <2>1, <2>2
<1> HIDE DEF h
<1> QED  BY <1>1, <1>2, <1>6, <1>7, TotalIsPartial

\* Term by term.
LEMMA TotalPlus ==
  ASSUME NEW xs \in Seq(Int), NEW ys \in Seq(Int), NEW zs \in Seq(Int),
         Len(ys) = Len(xs), Len(zs) = Len(xs),
         \A i \in 1..Len(xs) : zs[i] = xs[i] + ys[i]
  PROVE  Total(zs) = Total(xs) + Total(ys)
<1>0. PICK n \in Nat : n = Len(xs) /\ n = Len(ys) /\ n = Len(zs)
  OBVIOUS
<1>1. PICK g : Partial(g, xs, n)
  BY <1>0, PartialExists
<1>2. PICK f : Partial(f, ys, n)
  BY <1>0, PartialExists
<1>3. /\ g \in [0..n -> Int] /\ f \in [0..n -> Int] /\ g[0] = 0 /\ f[0] = 0
      /\ \A i \in 1..n : g[i] = g[i - 1] + xs[i]
      /\ \A i \in 1..n : f[i] = f[i - 1] + ys[i]
      /\ \A i \in 1..n : zs[i] = xs[i] + ys[i] /\ xs[i] \in Int /\ ys[i] \in Int
  BY <1>0, <1>1, <1>2 DEF Partial
<1> DEFINE h == [i \in 0..n |-> g[i] + f[i]]
<1>4. h \in [0..n -> Int] /\ h[0] = 0
  BY <1>3
<1>5. ASSUME NEW i \in 1..n PROVE h[i] = h[i - 1] + zs[i]
  <2>1. i - 1 \in 0..n /\ i \in 0..n
    OBVIOUS
  <2>2. /\ g[i] = g[i - 1] + xs[i] /\ f[i] = f[i - 1] + ys[i] /\ zs[i] = xs[i] + ys[i]
        /\ g[i - 1] \in Int /\ f[i - 1] \in Int /\ xs[i] \in Int /\ ys[i] \in Int
    BY <1>3, <2>1
  <2>3. h[i] = g[i] + f[i] /\ h[i - 1] = g[i - 1] + f[i - 1]
    BY <2>1
  <2> HIDE DEF h
  <2>4. PICK a, b, c, d \in Int : a = g[i - 1] /\ b = f[i - 1] /\ c = xs[i] /\ d = ys[i]
    BY <2>2
  <2>5. (a + c) + (b + d) = (a + b) + (c + d)
    OBVIOUS
  <2> QED  BY <2>2, <2>3, <2>4, <2>5, Zenon
<1>6. Partial(h, zs, n)
  BY <1>4, <1>5 DEF Partial
<1>7. h[n] = g[n] + f[n]
  OBVIOUS
<1> HIDE DEF h
<1> QED  BY <1>0, <1>1, <1>2, <1>6, <1>7, TotalIsPartial

\* Zeros add up to zero.
LEMMA TotalZero ==
  ASSUME NEW xs \in Seq(Int), \A i \in 1..Len(xs) : xs[i] = 0
  PROVE  Total(xs) = 0
<1> DEFINE h == [i \in 0..Len(xs) |-> 0]
<1>1. Partial(h, xs, Len(xs))
  BY DEF Partial
<1>2. h[Len(xs)] = 0
  OBVIOUS
<1> HIDE DEF h
<1> QED  BY <1>1, <1>2, TotalIsPartial

\* All terms are zero but the one at k.
LEMMA TotalOne ==
  ASSUME NEW xs \in Seq(Int), NEW k \in 1..Len(xs), \A i \in 1..Len(xs) : i # k => xs[i] = 0
  PROVE  Total(xs) = xs[k]
<1> DEFINE h == [i \in 0..Len(xs) |-> IF i < k THEN 0 ELSE xs[k]]
<1>1. Partial(h, xs, Len(xs))
  BY DEF Partial
<1>2. h[Len(xs)] = xs[k]
  OBVIOUS
<1> HIDE DEF h
<1> QED  BY <1>1, <1>2, TotalIsPartial

\* One term changes.
LEMMA TotalChange ==
  ASSUME NEW xs \in Seq(Int), NEW ys \in Seq(Int), NEW k \in 1..Len(xs), Len(ys) = Len(xs),
         \A i \in 1..Len(xs) : i # k => ys[i] = xs[i]
  PROVE  Total(ys) = Total(xs) + (ys[k] - xs[k])
<1> DEFINE ds == [i \in 1..Len(xs) |-> IF i = k THEN ys[k] - xs[k] ELSE 0]
<1>1. /\ ds \in Seq(Int) /\ Len(ds) = Len(xs) /\ ds[k] = ys[k] - xs[k]
      /\ \A i \in 1..Len(xs) : ys[i] = xs[i] + ds[i]
      /\ \A i \in 1..Len(xs) : i # k => ds[i] = 0
  OBVIOUS
<1> HIDE DEF ds
<1>2. k \in 1..Len(ds) /\ \A i \in 1..Len(ds) : i # k => ds[i] = 0
  BY <1>1
<1>3. Total(ds) = ds[k]
  BY <1>1, <1>2, TotalOne
<1>4. Total(ys) = Total(xs) + Total(ds)
  BY <1>1, TotalPlus
<1> QED  BY <1>1, <1>3, <1>4

\* Naturals add up to a natural.
LEMMA TotalNat ==
  ASSUME NEW xs \in Seq(Int), \A i \in 1..Len(xs) : xs[i] >= 0
  PROVE  Total(xs) \in Nat
<1>1. PICK g : Partial(g, xs, Len(xs))
  BY PartialExists
<1> DEFINE S == {n \in Nat : n <= Len(xs) => g[n] \in Nat}
<1>2. 0 \in S
  BY <1>1 DEF Partial
<1>3. \A n \in Nat : n \in S => n + 1 \in S
  <2> SUFFICES ASSUME NEW n \in Nat, n \in S, n + 1 <= Len(xs) PROVE g[n + 1] \in Nat
    OBVIOUS
  <2>1. g[n] \in Nat /\ n + 1 \in 1..Len(xs) /\ (n + 1) - 1 = n
    OBVIOUS
  <2> QED  BY <1>1, <2>1 DEF Partial
<1>4. Nat \subseteq S
  <2> HIDE DEF S
  <2> QED  BY <1>2, <1>3, SetInduction
<1>5. g[Len(xs)] \in Nat
  BY <1>4
<1> QED  BY <1>1, <1>5, TotalIsPartial

-----------------------------------------------------------------------------
(* Sums over a set *)

\* The elements of a finite set, each once and all of them.
LEMMA EnumerationOf ==
  ASSUME NEW S, IsFiniteSet(S)
  PROVE  /\ Cardinality(S) \in Nat
         /\ Enumeration(S) \in [1..Cardinality(S) -> S]
         /\ \A i, j \in 1..Cardinality(S) : Enumeration(S)[i] = Enumeration(S)[j] => i = j
         /\ \A x \in S : \E i \in 1..Cardinality(S) : Enumeration(S)[i] = x
<1> DEFINE n == Cardinality(S)
           e == Enumeration(S)
<1>1. n \in Nat
  BY FS_CardinalityType
<1>2. \E b : b \in Bijection(1..n, S)
  BY FS_CardinalityType DEF ExistsBijection
<1>3. \E b \in [1..n -> S] : \A i, j \in 1..n : b[i] = b[j] => i = j
  BY <1>2 DEF Bijection, Injection, IsInjective
<1>4. e \in [1..n -> S] /\ \A i, j \in 1..n : e[i] = e[j] => i = j
  BY <1>3 DEF Enumeration
<1>5. ASSUME NEW x \in S, \A i \in 1..n : e[i] # x PROVE FALSE
  <2> DEFINE T == S \ {x}
  <2>1. IsFiniteSet(T) /\ Cardinality(T) = n - 1
    BY FS_RemoveElement
  <2>2. IsFiniteSet(1..n) /\ Cardinality(1..n) = n
    BY <1>1, FS_Interval
  <2>3. e \in [1..n -> T]
    BY <1>4, <1>5
  <2> HIDE DEF T, e, n
  <2>4. Cardinality(T) < Cardinality(1..n)
    BY <1>1, <2>1, <2>2
  <2>5. \E i, j \in 1..n : i # j /\ e[i] = e[j]
    BY <2>1, <2>2, <2>3, <2>4, FS_PigeonHole, Zenon
  <2> QED  BY <1>4, <2>5
<1> QED  BY <1>1, <1>4, <1>5

\* The terms of a sum over a set.
Terms(S, f) == [i \in 1..Cardinality(S) |-> f[Enumeration(S)[i]]]

\* The terms of TotalOver are a sequence of integers.
LEMMA TermsOf ==
  ASSUME NEW S, IsFiniteSet(S), NEW f, \A x \in S : f[x] \in Int
  PROVE  /\ Terms(S, f) \in Seq(Int) /\ Len(Terms(S, f)) = Cardinality(S)
         /\ TotalOver(S, f) = Total(Terms(S, f))
         /\ \A i \in 1..Cardinality(S) : Terms(S, f)[i] = f[Enumeration(S)[i]]
BY EnumerationOf DEF Terms, TotalOver

\* The sum over a finite set is an integer ...
LEMMA TotalOverType ==
  ASSUME NEW S, IsFiniteSet(S), NEW f, \A x \in S : f[x] \in Int
  PROVE  TotalOver(S, f) \in Int
BY TermsOf, TotalType

\* ... and zero when every term is.
LEMMA TotalOverZero ==
  ASSUME NEW S, IsFiniteSet(S), NEW f, \A x \in S : f[x] = 0
  PROVE  TotalOver(S, f) = 0
BY TermsOf, TotalZero, EnumerationOf

\* One term changes.
LEMMA TotalOverChange ==
  ASSUME NEW S, IsFiniteSet(S), NEW f, NEW g, NEW x \in S,
         \A y \in S : f[y] \in Int /\ g[y] \in Int,
         \A y \in S \ {x} : g[y] = f[y]
  PROVE  TotalOver(S, g) = TotalOver(S, f) + (g[x] - f[x])
<1>1. PICK k \in 1..Cardinality(S) : Enumeration(S)[k] = x
  BY EnumerationOf
<1>2. \A i \in 1..Cardinality(S) : i # k => Enumeration(S)[i] \in S \ {x}
  BY <1>1, EnumerationOf
<1>3. \A i \in 1..Cardinality(S) : i # k => Terms(S, g)[i] = Terms(S, f)[i]
  BY <1>2 DEF Terms
<1>4. Terms(S, g)[k] = g[x] /\ Terms(S, f)[k] = f[x]
  BY <1>1, TermsOf
<1> QED  BY <1>1, <1>3, <1>4, TermsOf, TotalChange
=============================================================================
