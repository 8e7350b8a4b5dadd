---------------------------- MODULE LedgerProofs ----------------------------
(***************************************************************************)
(* Proofs about the ledger of the decision loop, for any fills, lots,      *)
(* marks and channels: nothing is made or lost when lots are matched in    *)
(* parts, a symbol is never long and short, the unrealised profit is that  *)
(* of the open lots, every executed unit is booked, lost or on its way,    *)
(* and every queue holds items of its kind and no more than its channel.   *)
(***************************************************************************)
EXTENDS LoopProperties, SumProofs

-----------------------------------------------------------------------------
(* The statistics are numbers of their kinds *)

\* g lists the roots of the numbers up to n.
Roots(g, n) ==
  /\ g \in [0..n -> Nat]
  /\ \A y \in 0..n :
       g[y] = IF y = 0 THEN 0
              ELSE LET r == 2 * g[y \div 4] IN IF (r + 1) * (r + 1) <= y THEN r + 1 ELSE r

\* The roots up to any number exist: each follows from that of a smaller one.
LEMMA RootsExist == ASSUME NEW m \in Nat PROVE \E g : Roots(g, m)
<1> DEFINE S == {n \in Nat : \E g : Roots(g, n)}
<1>1. 0 \in S
  <2>1. Roots([y \in 0..0 |-> 0], 0)
    BY DEF Roots
  <2> QED  BY <2>1
<1>2. ASSUME NEW n \in Nat, n \in S PROVE n + 1 \in S
  <2>1. PICK g : Roots(g, n)
    BY <1>2
  <2>2. PICK q \in 0..n : q = (n + 1) \div 4
    OBVIOUS
  <2>3. g[q] \in Nat
    BY <2>1 DEF Roots
  <2>4. PICK v \in Nat : v = IF (2 * g[q] + 1) * (2 * g[q] + 1) <= n + 1 THEN 2 * g[q] + 1 ELSE 2 * g[q]
    BY <2>3
  <2> DEFINE h == [y \in 0..(n + 1) |-> IF y = n + 1 THEN v ELSE g[y]]
  <2>5. h \in [0..(n + 1) -> Nat]
    BY <2>1 DEF Roots
  <2>6. ASSUME NEW y \in 0..(n + 1)
        PROVE  h[y] = IF y = 0 THEN 0
                      ELSE LET r == 2 * h[y \div 4] IN IF (r + 1) * (r + 1) <= y THEN r + 1 ELSE r
    <3>1. CASE y = n + 1
      <4>1. h[y] = v /\ h[y \div 4] = g[q] /\ y # 0
        BY <2>2, <3>1
      <4> HIDE DEF h
      <4> QED  BY <2>4, <3>1, <4>1
    <3>2. CASE y # n + 1
      <4>1. y \in 0..n /\ y \div 4 \in 0..n
        BY <3>2
      <4>2. h[y] = g[y] /\ h[y \div 4] = g[y \div 4]
        BY <4>1
      <4> HIDE DEF h
      <4> QED  BY <2>1, <4>1, <4>2 DEF Roots
    <3> QED  BY <3>1, <3>2
  <2> HIDE DEF h
  <2>7. Roots(h, n + 1)
    BY <2>5, <2>6 DEF Roots
  <2> QED  BY <2>7
<1>3. Nat \subseteq S
  <2>1. \A n \in Nat : n \in S => n + 1 \in S
    BY <1>2
  <2> HIDE DEF S
  <2> QED  BY <1>1, <2>1, SetInduction
<1> QED  BY <1>3

\* A square root is a natural number, and that of zero is zero.
LEMMA RootNat == ASSUME NEW x \in Nat PROVE Root(x) \in Nat /\ (x = 0 => Root(x) = 0)
<1> DEFINE Eq(u) == u = [y \in 0..x |->
                           IF y = 0 THEN 0
                           ELSE LET r == 2 * u[y \div 4] IN IF (r + 1) * (r + 1) <= y THEN r + 1 ELSE r]
           root == CHOOSE u : Eq(u)
<1>1. PICK g : Roots(g, x)
  BY RootsExist
<1>2. Eq(g)
  BY <1>1 DEF Roots
<1>3. Eq(root)
  BY <1>2
<1>4. Root(x) = root[x]
  BY DEF Root
<1>5. ASSUME NEW u, Eq(u) PROVE u[x] \in Nat /\ (x = 0 => u[x] = 0)
  <2> DEFINE S == {n \in Nat : \A y \in 0..n : y <= x => u[y] \in Nat}
  <2>1. 0 \in S
    BY <1>5
  <2>2. ASSUME NEW n \in Nat, n \in S PROVE n + 1 \in S
    <3>1. ASSUME n + 1 <= x PROVE u[n + 1] \in Nat
      <4>1. (n + 1) \div 4 \in 0..n
        OBVIOUS
      <4>2. u[(n + 1) \div 4] \in Nat
        BY <2>2, <3>1, <4>1
      <4>3. PICK r : r = 2 * u[(n + 1) \div 4]
        OBVIOUS
      <4>4. u[n + 1] = IF (r + 1) * (r + 1) <= n + 1 THEN r + 1 ELSE r
        BY <1>5, <3>1, <4>3
      <4> QED  BY <4>2, <4>3, <4>4
    <3> QED  BY <2>2, <3>1
  <2>3. Nat \subseteq S
    <3>1. \A n \in Nat : n \in S => n + 1 \in S
      BY <2>2
    <3> HIDE DEF S
    <3> QED  BY <2>1, <3>1, SetInduction
  <2>4. u[x] \in Nat
    BY <2>3
  <2> QED  BY <1>5, <2>4
<1> HIDE DEF root, Eq
<1> QED  BY <1>3, <1>4, <1>5

\* A quotient is an integer, and that of naturals a natural.
LEMMA QuotientType ==
  ASSUME NEW a \in Int, NEW b \in Nat \ {0}
  PROVE  Quotient(a, b) \in Int /\ (a >= 0 => Quotient(a, b) \in Nat)
BY DEF Quotient

\* Clamped to hundredths, it is a percentage.
LEMMA Percentage == \A x \in Int : Clamp(x, 0, 100) \in 0..100
BY DEF Clamp

\* A mean is an integer, and that of naturals a natural.
LEMMA MeanType ==
  ASSUME NEW xs \in Seq(Int)
  PROVE  Mean(xs) \in Int /\ ((\A i \in 1..Len(xs) : xs[i] >= 0) => Mean(xs) \in Nat)
<1>1. CASE xs = <<>>
  BY <1>1 DEF Mean
<1>2. CASE xs # <<>>
  <2>1. Len(xs) \in Nat \ {0} /\ Total(xs) \in Int
    BY <1>2, TotalType
  <2>2. Mean(xs) = Quotient(Total(xs), Len(xs))
    BY <1>2 DEF Mean
  <2>3. (\A i \in 1..Len(xs) : xs[i] >= 0) => Total(xs) \in Nat
    BY TotalNat
  <2>4. Mean(xs) \in Int /\ (Total(xs) >= 0 => Mean(xs) \in Nat)
    BY <2>1, <2>2, QuotientType
  <2>5. Total(xs) \in Nat => Total(xs) >= 0
    OBVIOUS
  <2> QED  BY <2>3, <2>4, <2>5
<1> QED  BY <1>1, <1>2

\* The moments of a sample: only the mean and the skew may be negative.
MomentsOK == [mean : Int, variance : Nat, sd : Nat, skew : Int]

\* The moments have these types, whatever the sample.
LEMMA MomentsType == ASSUME NEW xs \in Seq(Int) PROVE Moments(xs) \in MomentsOK
<1>1. PICK mean \in Int : mean = Mean(xs)
  BY MeanType
<1> DEFINE sq == [i \in 1..Len(xs) |-> (xs[i] - mean) * (xs[i] - mean)]
           cu == [i \in 1..Len(xs) |-> (xs[i] - mean) * (xs[i] - mean) * (xs[i] - mean)]
<1>2. \A x \in Int : x * x >= 0 /\ x * x \in Int /\ x * x * x \in Int
  OBVIOUS
<1>3. \A i \in 1..Len(xs) : xs[i] - mean \in Int
  OBVIOUS
<1>4. \A i \in 1..Len(xs) : sq[i] >= 0 /\ sq[i] \in Int /\ cu[i] \in Int
  BY <1>2, <1>3
<1>5. sq \in Seq(Int) /\ cu \in Seq(Int) /\ Len(sq) = Len(xs)
  BY <1>4
<1>6. Squares(xs, mean) = Total(sq) /\ Cubes(xs, mean) = Total(cu)
  BY DEF Squares, Cubes
<1> HIDE DEF sq, cu
<1>7. Squares(xs, mean) \in Nat /\ Cubes(xs, mean) \in Int
  BY <1>4, <1>5, <1>6, TotalNat, TotalType
<1>8. PICK variance \in Nat : variance = Variance(xs, mean)
  BY <1>7 DEF Variance
<1>9. PICK sd \in Nat : sd = Root(variance)
  BY RootNat
<1>10. Skew(xs, mean, sd) \in Int
  <2>1. CASE sd = 0
    BY <2>1 DEF Skew
  <2>2. CASE sd # 0 /\ Len(xs) # 0
    <3>1. \A x \in Nat \ {0} : x * x * x \in Nat \ {0}
      OBVIOUS
    <3>2. sd * sd * sd \in Nat \ {0}
      BY <2>2, <3>1
    <3>3. Quotient(Cubes(xs, mean), Len(xs)) \in Int
      BY <1>7, <2>2, QuotientType
    <3>4. Quotient(Cubes(xs, mean), Len(xs)) * 100 \in Int
      BY <3>3
    <3> QED  BY <2>2, <3>2, <3>4, QuotientType DEF Skew
  <2>3. CASE Len(xs) = 0
    <3>1. variance = 0
      BY <1>8, <2>3 DEF Variance
    <3> QED  BY <1>9, <2>1, <3>1, RootNat
  <2> QED  BY <2>1, <2>2, <2>3
<1> QED  BY <1>1, <1>8, <1>9, <1>10 DEF Moments, Centred, Widened, MomentsOK
\* Whatever the window and the moments, the reliability is a percentage.
LEMMA ReliabilityType ==
  ASSUME NEW m \in MomentsOK, NEW sharpe \in Int, NEW capture \in Int, NEW score \in Int,
         NEW failure \in 0..100
  PROVE  Reliability(m, sharpe, capture, score, failure) \in 0..100
<1>1. /\ m.mean \in Int /\ m.variance \in Nat /\ m.skew \in Int
  BY DEF MomentsOK
<1>2. /\ Abs(m.mean) \div 10 \in Int /\ m.variance \div 2500 \in Int /\ Abs(m.skew) \div 4 \in Int
      /\ (sharpe + 100) \div 3 \in Int /\ ((capture + 50) * 2) \div 3 \in Int
  BY <1>1 DEF Abs
<1>3. \A x \in Int : \E y \in 0..100 : y = Clamp(x, 0, 100)
  BY Percentage
<1> PICK a \in 0..100 : a = Clamp(Abs(m.mean) \div 10, 0, 100)
  BY <1>2, <1>3
<1> PICK b \in 0..100 : b = Clamp(m.variance \div 2500, 0, 100)
  BY <1>2, <1>3
<1> PICK c \in 0..100 : c = Clamp(Abs(m.skew) \div 4, 0, 100)
  BY <1>2, <1>3
<1> PICK d \in 0..100 : d = Clamp((sharpe + 100) \div 3, 0, 100)
  BY <1>2, <1>3
<1> PICK e \in 0..100 : e = Clamp(((capture + 50) * 2) \div 3, 0, 100)
  BY <1>2, <1>3
<1> PICK g \in 0..100 : g = Clamp(score, 0, 100)
  BY <1>2, <1>3
<1>4. PICK f \in 0..95 : f = Clamp(failure, 0, 95)
  BY DEF Clamp
<1>5. PICK raw \in Int : raw = (40 * (100 - a) + 18 * (100 - b) + 7 * (100 - c)
                                + 20 * d + 10 * e - 15 * g) \div 100
  <2>1. 40 * (100 - a) + 18 * (100 - b) + 7 * (100 - c) + 20 * d + 10 * e - 15 * g \in Int
    OBVIOUS
  <2>2. (40 * (100 - a) + 18 * (100 - b) + 7 * (100 - c) + 20 * d + 10 * e - 15 * g) \div 100 \in Int
    BY <2>1
  <2> QED  BY <2>2
<1>6. (raw * (100 - (f * 35) \div 100)) \div 100 \in Int
  OBVIOUS
<1>7. Reliability(m, sharpe, capture, score, failure)
        = Clamp((raw * (100 - (f * 35) \div 100)) \div 100, 0, 100)
  BY <1>4, <1>5 DEF Reliability
<1> QED  BY <1>6, <1>7, Percentage

\* A captured share is an integer.
LEMMA CaptureType == ASSUME NEW s \in Sample PROVE Capture(s) \in Int
<1>1. s.edge \in Int /\ s.pnl \in Int
  BY DEF Sample
<1>2. CASE s.edge = 0
  BY <1>2 DEF Capture
<1>3. CASE s.edge # 0
  <2>1. Abs(s.edge) \in Nat \ {0} /\ s.pnl * 100 \in Int
    BY <1>1, <1>3 DEF Abs
  <2>2. PICK q \in Int : q = Quotient(s.pnl * 100, Abs(s.edge))
    BY <2>1, QuotientType
  <2>3. PICK x \in Int : x = q * (IF s.edge < 0 THEN -1 ELSE 1)
    BY <1>1, <2>2
  <2>4. Capture(s) = Clamp(x, -500, 500)
    BY <1>3, <2>2, <2>3 DEF Capture
  <2> QED  BY <2>4 DEF Clamp
<1> QED  BY <1>2, <1>3

\* The engine, as the loop keeps it.
EdgeOK == [window : Seq(Sample), streak : Nat, failure : 0..100]

\* What the decision engine reads of any engine is a view.
LEMMA SnapshotType == ASSUME NEW e \in EdgeOK PROVE Snapshot(e) \in View
<1>1. PICK w \in Seq(Sample) : w = e.window
  BY DEF EdgeOK
<1>2. \A i \in 1..Len(w) : w[i] \in Sample
  OBVIOUS
<1>3. \A i \in 1..Len(w) :
        /\ w[i].edge \in Int /\ w[i].markout \in Int /\ w[i].pnl \in Int /\ w[i].alpha \in Int
        /\ w[i].ratio \in Int /\ w[i].slip \in Int /\ w[i].outbid \in Int
        /\ w[i].adverse \in Int /\ w[i].adverse >= 0 /\ w[i].loss \in Int /\ w[i].loss >= 0
  <2> SUFFICES ASSUME NEW i \in 1..Len(w)
               PROVE  /\ w[i].edge \in Int /\ w[i].markout \in Int /\ w[i].pnl \in Int
                      /\ w[i].alpha \in Int /\ w[i].ratio \in Int /\ w[i].slip \in Int
                      /\ w[i].outbid \in Int /\ w[i].adverse \in Nat /\ w[i].loss \in Nat
    OBVIOUS
  <2>1. PICK x \in Sample : x = w[i]
    BY <1>2
  <2>2. x.outbid \in {0, 100} /\ x.ratio \in 0..100
    BY DEF Sample
  <2>5. x.ratio \in Int
    <3>1. \A y \in 0..100 : y \in Int
      OBVIOUS
    <3> QED  BY <2>2, <3>1, Zenon
  <2>3. x.outbid \in Int
    BY <2>2
  <2>4. /\ x.edge \in Int /\ x.markout \in Int /\ x.pnl \in Int /\ x.alpha \in Int
        /\ x.slip \in Int /\ x.adverse \in Nat /\ x.loss \in Nat
    BY DEF Sample
  <2> QED  BY <2>1, <2>3, <2>4, <2>5
<1>4. /\ Each(w, LAMBDA s : s.edge) \in Seq(Int)
      /\ Each(w, LAMBDA s : s.ratio) \in Seq(Int)
      /\ Each(w, LAMBDA s : s.alpha) \in Seq(Int)
      /\ Each(w, LAMBDA s : s.outbid) \in Seq(Int)
      /\ Each(w, LAMBDA s : s.adverse) \in Seq(Int)
      /\ Each(w, LAMBDA s : s.loss) \in Seq(Int)
  BY <1>3 DEF Each
<1>5. Each(w, LAMBDA s : s.edge - s.markout) \in Seq(Int)
  <2>1. \A i \in 1..Len(w) : w[i].edge - w[i].markout \in Int
    BY <1>3
  <2> QED  BY <2>1 DEF Each
<1>6. Each(w, Paid) \in Seq(Int)
  <2>1. \A i \in 1..Len(w) : Paid(w[i]) \in Int
    BY <1>3 DEF Paid
  <2> QED  BY <2>1 DEF Each
<1>7. Each(w, LAMBDA s : s.pnl - Abs(s.slip) \div 5) \in Seq(Int)
  <2>1. \A i \in 1..Len(w) : w[i].pnl - Abs(w[i].slip) \div 5 \in Int
    BY <1>3 DEF Abs
  <2> QED  BY <2>1 DEF Each
<1>8. Each(w, Capture) \in Seq(Int)
  <2>1. \A i \in 1..Len(w) : Capture(w[i]) \in Int
    BY <1>2, CaptureType
  <2> QED  BY <2>1 DEF Each
<1>9. PICK capture \in Int : capture = Mean(Each(w, Capture))
  BY <1>8, MeanType
<1>10. PICK alpha \in Int : alpha = Mean(Each(w, LAMBDA s : s.alpha))
  BY <1>4, MeanType
<1>11. PICK score \in Int : score = CompetitionScore(w)
  <2>1. PICK scale \in {12, 20} :
          scale = IF Steady(Moments(Each(w, LAMBDA s : s.edge))) THEN 12 ELSE 20
    OBVIOUS
  <2>2. PICK edges, ratio, slip, outbid \in Int :
          /\ edges = Mean(Each(w, LAMBDA s : s.edge))
          /\ ratio = Mean(Each(w, LAMBDA s : s.ratio))
          /\ slip = Mean(Each(w, Paid))
          /\ outbid = Mean(Each(w, LAMBDA s : s.outbid))
    BY <1>4, <1>6, MeanType
  <2>3. edges \div 4 \in Int /\ 100 - ratio \in Int /\ slip \div scale \in Int
    OBVIOUS
  <2>4. PICK a, b, c, d \in 0..100 :
          /\ a = Clamp(edges \div 4, 0, 100) /\ b = Clamp(100 - ratio, 0, 100)
          /\ c = Clamp(outbid, 0, 100) /\ d = Clamp(slip \div scale, 0, 100)
    BY <2>3, Percentage, Zenon
  <2>5. (25 * a + 30 * b + 25 * c + 20 * d) \div 100 \in Int
    OBVIOUS
  <2>6. CompetitionScore(w) = Clamp((25 * a + 30 * b + 25 * c + 20 * d) \div 100, 0, 100)
    <3>1. CompetitionScore(w) =
            Clamp((25 * Clamp(Mean(Each(w, LAMBDA s : s.edge)) \div 4, 0, 100)
                   + 30 * Clamp(100 - Mean(Each(w, LAMBDA s : s.ratio)), 0, 100)
                   + 25 * Clamp(Mean(Each(w, LAMBDA s : s.outbid)), 0, 100)
                   + 20 * Clamp(Mean(Each(w, Paid))
                                  \div (IF Steady(Moments(Each(w, LAMBDA s : s.edge)))
                                        THEN 12 ELSE 20), 0, 100)) \div 100, 0, 100)
      BY Zenon DEF CompetitionScore
    <3>2. /\ Clamp(Mean(Each(w, LAMBDA s : s.edge)) \div 4, 0, 100) = a
          /\ Clamp(100 - Mean(Each(w, LAMBDA s : s.ratio)), 0, 100) = b
          /\ Clamp(Mean(Each(w, LAMBDA s : s.outbid)), 0, 100) = c
          /\ Clamp(Mean(Each(w, Paid)) \div scale, 0, 100) = d
      BY <2>2, <2>4, Zenon
    <3>3. Clamp(Mean(Each(w, Paid)) \div (IF Steady(Moments(Each(w, LAMBDA s : s.edge)))
                                           THEN 12 ELSE 20), 0, 100) = d
      BY <2>1, <3>2, Zenon
    <3>4. CompetitionScore(w) =
            Clamp((25 * a + 30 * b + 25 * c + 20 * d) \div 100, 0, 100)
      BY ONLY <3>1, <3>2, <3>3, ZenonT(40)
    <3> QED  BY <3>4, Zenon
  <2> QED  BY <2>5, <2>6, Percentage
<1>12. PICK reliability \in 0..100 : reliability = ReliabilityOf(e, capture, alpha, score)
  <2>1. PICK errors \in MomentsOK : errors = Moments(Each(w, LAMBDA s : s.edge - s.markout))
    BY <1>5, MomentsType
  <2>2. PICK returns \in MomentsOK : returns = Moments(Each(w, LAMBDA s : s.pnl - Abs(s.slip) \div 5))
    BY <1>7, MomentsType
  <2>3. SharpeLike(returns) \in Int
    <3>1. returns.mean * 100 \in Int /\ returns.sd \in Nat
      BY DEF MomentsOK
    <3>2. CASE returns.sd = 0
      BY <3>2 DEF SharpeLike
    <3>3. CASE returns.sd # 0
      BY <3>1, <3>3, QuotientType DEF SharpeLike
    <3> QED  BY <3>2, <3>3
  <2>4. PICK boost \in Int : boost = (15 * Clamp(alpha, -100, 100)) \div 100
    BY DEF Clamp
  <2>5. e.failure \in 0..100
    BY DEF EdgeOK
  <2>6. capture + boost \in Int
    OBVIOUS
  <2>7. ReliabilityOf(e, capture, alpha, score)
          = Reliability(errors, SharpeLike(returns), capture + boost, score, e.failure)
    BY <1>1, <2>1, <2>2, <2>4 DEF ReliabilityOf
  <2> QED  BY <2>3, <2>5, <2>6, <2>7, ReliabilityType
<1>13. PICK snapshot : snapshot = Summary(e, capture, alpha, score, reliability)
  OBVIOUS
<1>14. Snapshot(e) = snapshot
  BY <1>1, <1>9, <1>10, <1>11, <1>12, <1>13 DEF Snapshot, Scored
<1>15. Mean(Each(w, LAMBDA s : s.adverse)) \in Nat /\ Mean(Each(w, LAMBDA s : s.loss)) \in Nat
  <2>1. PICK as, ls \in Seq(Int) : as = Each(w, LAMBDA s : s.adverse) /\ ls = Each(w, LAMBDA s : s.loss)
    BY <1>4
  <2>2. /\ \A i \in 1..Len(as) : as[i] >= 0
        /\ \A i \in 1..Len(ls) : ls[i] >= 0
    BY <1>3, <2>1 DEF Each
  <2> QED  BY <2>1, <2>2, MeanType
<1>16. PICK degradation \in Nat :
         degradation = Degradation(Mean(Each(w, LAMBDA s : s.adverse)), Mean(Each(w, LAMBDA s : s.loss)))
  <2>1. \A adverse, loss \in Nat : Degradation(adverse, loss) \in Nat
    BY DEF Degradation
  <2> QED  BY <1>15, <2>1
<1>17. PICK state \in EdgeStates : state = StateOf(e, capture, reliability)
  BY DEF StateOf, ClassifyState, EdgeStates
<1>18. PICK competition \in Competitions :
         competition = ClassifyCompetition(score, Mean(Each(w, LAMBDA s : s.ratio)), e.streak)
  BY DEF ClassifyCompetition, Competitions
<1>19. e.streak \in Nat
  BY DEF EdgeOK
<1>20. snapshot = [state |-> state, competition |-> competition, reliability |-> reliability,
                   capture |-> capture, alpha |-> alpha, streak |-> e.streak,
                   degradation |-> degradation]
  BY <1>1, <1>13, <1>16, <1>17, <1>18 DEF Summary
<1> QED  BY <1>14, <1>19, <1>20 DEF View
-----------------------------------------------------------------------------
(* Queues and lots as sequences *)

\* Taking out the element at i moves those behind it one place forward.
LEMMA RemoveAtIs ==
  ASSUME NEW S, NEW s \in Seq(S), NEW i \in 1..Len(s)
  PROVE  /\ RemoveAt(s, i) \in Seq(S)
         /\ Len(RemoveAt(s, i)) = Len(s) - 1
         /\ \A j \in 1..(Len(s) - 1) : RemoveAt(s, i)[j] = s[IF j < i THEN j ELSE j + 1]
<1>1. PICK n \in Nat : n = Len(s) /\ i \in 1..n
  OBVIOUS
<1>2. PICK a : a = SubSeq(s, 1, i - 1)
  OBVIOUS
<1>3. PICK b : b = SubSeq(s, i + 1, n)
  OBVIOUS
<1>4. a \in Seq(S) /\ Len(a) = i - 1 /\ \A j \in 1..(i - 1) : a[j] = s[j]
  BY <1>1, <1>2
<1>5. b \in Seq(S) /\ Len(b) = n - i /\ \A j \in 1..(n - i) : b[j] = s[i + j]
  BY <1>1, <1>3
<1>6. RemoveAt(s, i) = a \o b
  BY <1>1, <1>2, <1>3 DEF RemoveAt
<1>7. a \o b \in Seq(S) /\ Len(a \o b) = n - 1
  <2>1. a \o b \in Seq(S) /\ Len(a \o b) = Len(a) + Len(b)
    BY <1>4, <1>5
  <2> QED  BY <1>1, <1>4, <1>5, <2>1
<1>8. ASSUME NEW j \in 1..(n - 1) PROVE (a \o b)[j] = s[IF j < i THEN j ELSE j + 1]
  <2>1. CASE j < i
    BY <1>1, <1>4, <1>5, <2>1
  <2>2. CASE ~(j < i)
    <3>1. (a \o b)[j] = b[j - (i - 1)]
      BY <1>1, <1>4, <1>5, <2>2
    <3>2. j - (i - 1) \in 1..(n - i) /\ i + (j - (i - 1)) = j + 1
      BY <1>1, <2>2
    <3> QED  BY <1>5, <2>2, <3>1, <3>2
  <2> QED  BY <2>1, <2>2
<1> QED  BY <1>1, <1>6, <1>7, <1>8

\* What one lot stands for, and the position it makes.
LotValue(lot) == Signed(lot.side, lot.entry * lot.left) + lot.cost * lot.left
LotQuantity(lot) == Signed(lot.side, lot.left)

Values(lots) == [i \in 1..Len(lots) |-> LotValue(lots[i])]
Quantities(lots) == [i \in 1..Len(lots) |-> LotQuantity(lots[i])]

\* The position the lots make.
NetOf(lots) == Total(Quantities(lots))

\* The fields of a lot.
LEMMA LotFields ==
  ASSUME NEW lot \in Lot
  PROVE  /\ lot.side \in Sides /\ lot.entry \in Nat /\ lot.left \in Nat /\ lot.left # 0
         /\ lot.cost \in Nat
BY DEF Lot

\* Nothing is nothing on either side.
LEMMA SignedZero == ASSUME NEW side PROVE Signed(side, 0) = 0
<1>1. -0 = 0
  <2>1. \A z \in Int : -z \in Int /\ -z + z = 0 /\ z + 0 = z
    OBVIOUS
  <2>2. 0 \in Int
    OBVIOUS
  <2> QED  BY <2>1, <2>2, Zenon
<1> QED  BY <1>1, Zenon DEF Signed

\* The sum of a value over the lots, and that of a quantity, are sums of integers.
LEMMA LotSums ==
  ASSUME NEW lots \in Seq(Lot)
  PROVE  /\ Values(lots) \in Seq(Int) /\ Len(Values(lots)) = Len(lots)
         /\ Quantities(lots) \in Seq(Int) /\ Len(Quantities(lots)) = Len(lots)
         /\ OpenValue(lots) = Total(Values(lots))
         /\ OpenValue(lots) \in Int /\ NetOf(lots) \in Int
<1>1. \A a, b \in Nat : a * b \in Nat
  OBVIOUS
<1>2. ASSUME NEW i \in 1..Len(lots) PROVE LotValue(lots[i]) \in Int /\ LotQuantity(lots[i]) \in Int
  <2>1. PICK lot \in Lot : lot = lots[i]
    OBVIOUS
  <2>2. lot.entry * lot.left \in Int /\ lot.cost * lot.left \in Int /\ lot.left \in Int
    BY <1>1, LotFields
  <2> QED  BY <2>1, <2>2 DEF LotValue, LotQuantity, Signed
<1>3. /\ Values(lots) \in Seq(Int) /\ Len(Values(lots)) = Len(lots)
      /\ Quantities(lots) \in Seq(Int) /\ Len(Quantities(lots)) = Len(lots)
  BY <1>2 DEF Values, Quantities
<1>4. OpenValue(lots) = Total(Values(lots))
  BY DEF OpenValue, Values, LotValue
<1> QED  BY <1>3, <1>4, TotalType DEF NetOf

\* What is left of the lots when qty units of the lot at i are closed.
Reduced(lots, i, qty) ==
  IF qty = lots[i].left THEN RemoveAt(lots, i) ELSE [lots EXCEPT ![i].left = @ - qty]

\* Closing units of a lot takes their part out of the value and of the position.
LEMMA ReducedSums ==
  ASSUME NEW lots \in Seq(Lot), NEW i \in 1..Len(lots), NEW qty \in Nat \ {0}, qty <= lots[i].left
  PROVE  /\ Reduced(lots, i, qty) \in Seq(Lot)
         /\ Len(Reduced(lots, i, qty)) =
              IF qty = lots[i].left THEN Len(lots) - 1 ELSE Len(lots)
         /\ OpenValue(Reduced(lots, i, qty)) =
              OpenValue(lots) - (Signed(lots[i].side, lots[i].entry * qty) + lots[i].cost * qty)
         /\ NetOf(Reduced(lots, i, qty)) = NetOf(lots) - Signed(lots[i].side, qty)
         /\ \A j \in 1..Len(Reduced(lots, i, qty)) : \E k \in 1..Len(lots) :
              Reduced(lots, i, qty)[j].side = lots[k].side
<1>1. PICK lot \in Lot : lot = lots[i]
  OBVIOUS
<1>2. PICK n \in Nat : n = Len(lots) /\ i \in 1..n
  OBVIOUS
<1>3. /\ lot.side \in Sides /\ lot.entry \in Nat /\ lot.left \in Nat /\ lot.left # 0
      /\ lot.cost \in Nat
  BY LotFields
<1>4. Values(lots)[i] = LotValue(lot) /\ Quantities(lots)[i] = LotQuantity(lot)
  BY <1>1 DEF Values, Quantities
<1>5. CASE qty = lot.left
  <2>1. PICK ys : ys = Reduced(lots, i, qty) /\ ys = RemoveAt(lots, i)
    BY <1>1, <1>5 DEF Reduced
  <2>2. /\ ys \in Seq(Lot) /\ Len(ys) = n - 1
        /\ \A j \in 1..(n - 1) : ys[j] = lots[IF j < i THEN j ELSE j + 1]
    BY <1>2, <2>1, RemoveAtIs
  <2>3. ASSUME NEW j \in 1..(n - 1)
        PROVE  /\ Values(ys)[j] = Values(lots)[IF j < i THEN j ELSE j + 1]
               /\ Quantities(ys)[j] = Quantities(lots)[IF j < i THEN j ELSE j + 1]
    <3>1. PICK k \in 1..n : k = IF j < i THEN j ELSE j + 1
      BY <1>2
    <3>2. ys[j] = lots[k] /\ j \in 1..Len(ys) /\ k \in 1..Len(lots)
      BY <1>2, <2>2, <3>1
    <3>3. Values(ys)[j] = LotValue(ys[j]) /\ Values(lots)[k] = LotValue(lots[k])
      BY <3>2 DEF Values
    <3>4. Quantities(ys)[j] = LotQuantity(ys[j]) /\ Quantities(lots)[k] = LotQuantity(lots[k])
      BY <3>2 DEF Quantities
    <3> QED  BY <3>1, <3>2, <3>3, <3>4
  <2>4. /\ Values(lots) \in Seq(Int) /\ Len(Values(lots)) = n
        /\ Quantities(lots) \in Seq(Int) /\ Len(Quantities(lots)) = n
        /\ OpenValue(lots) = Total(Values(lots))
    BY <1>2, LotSums
  <2>5. /\ Values(ys) \in Seq(Int) /\ Len(Values(ys)) = n - 1
        /\ Quantities(ys) \in Seq(Int) /\ Len(Quantities(ys)) = n - 1
        /\ OpenValue(ys) = Total(Values(ys))
    BY <2>2, LotSums
  <2>6. Total(Values(ys)) = Total(Values(lots)) - Values(lots)[i]
    <3>1. PICK xs, zs \in Seq(Int) : xs = Values(lots) /\ zs = Values(ys)
      BY <2>4, <2>5
    <3>2. /\ i \in 1..Len(xs) /\ Len(zs) = Len(xs) - 1
          /\ \A j \in 1..Len(zs) : zs[j] = xs[IF j < i THEN j ELSE j + 1]
      BY <1>2, <2>3, <2>4, <2>5, <3>1
    <3>3. Total(zs) = Total(xs) - xs[i]
      BY <3>2, TotalWithout
    <3> QED  BY <3>1, <3>3, Zenon
  <2>7. Total(Quantities(ys)) = Total(Quantities(lots)) - Quantities(lots)[i]
    <3>1. PICK xs, zs \in Seq(Int) : xs = Quantities(lots) /\ zs = Quantities(ys)
      BY <2>4, <2>5
    <3>2. /\ i \in 1..Len(xs) /\ Len(zs) = Len(xs) - 1
          /\ \A j \in 1..Len(zs) : zs[j] = xs[IF j < i THEN j ELSE j + 1]
      BY <1>2, <2>3, <2>4, <2>5, <3>1
    <3>3. Total(zs) = Total(xs) - xs[i]
      BY <3>2, TotalWithout
    <3> QED  BY <3>1, <3>3, Zenon
  <2>8. ASSUME NEW j \in 1..Len(ys) PROVE \E k \in 1..Len(lots) : ys[j].side = lots[k].side
    <3>1. PICK k \in 1..n : k = IF j < i THEN j ELSE j + 1
      BY <1>2, <2>2
    <3> QED  BY <1>2, <2>2, <3>1
  <2>9. /\ LotValue(lot) = Signed(lot.side, lot.entry * qty) + lot.cost * qty
        /\ LotQuantity(lot) = Signed(lot.side, qty)
    BY <1>5 DEF LotValue, LotQuantity
  <2> QED  BY <1>1, <1>2, <1>4, <1>5, <2>1, <2>2, <2>4, <2>5, <2>6, <2>7, <2>8, <2>9 DEF NetOf
<1>6. CASE qty # lot.left
  <2>1. PICK left \in Nat \ {0} : left = lot.left - qty
    BY <1>1, <1>3, <1>6
  <2>2. PICK rest : rest = [lot EXCEPT !.left = left]
    OBVIOUS
  <2>3. /\ rest \in Lot /\ rest.side = lot.side /\ rest.entry = lot.entry
        /\ rest.cost = lot.cost /\ rest.left = left
    BY <2>2 DEF Lot
  <2>4. PICK ys : ys = Reduced(lots, i, qty) /\ ys = [lots EXCEPT ![i] = rest]
    BY <1>1, <1>6, <2>1, <2>2 DEF Reduced
  <2>5. /\ ys \in Seq(Lot) /\ Len(ys) = n /\ ys[i] = rest
        /\ \A j \in 1..n : j # i => ys[j] = lots[j]
    BY <1>2, <2>3, <2>4
  <2>6. /\ Values(lots) \in Seq(Int) /\ Len(Values(lots)) = n
        /\ Quantities(lots) \in Seq(Int) /\ Len(Quantities(lots)) = n
        /\ OpenValue(lots) = Total(Values(lots))
    BY <1>2, LotSums
  <2>7. /\ Values(ys) \in Seq(Int) /\ Len(Values(ys)) = n
        /\ Quantities(ys) \in Seq(Int) /\ Len(Quantities(ys)) = n
        /\ OpenValue(ys) = Total(Values(ys))
    BY <2>5, LotSums
  <2>8. /\ Values(ys)[i] = LotValue(rest) /\ Quantities(ys)[i] = LotQuantity(rest)
        /\ \A j \in 1..n : j # i => Values(ys)[j] = Values(lots)[j]
        /\ \A j \in 1..n : j # i => Quantities(ys)[j] = Quantities(lots)[j]
    BY <1>2, <2>5 DEF Values, Quantities
  <2>9. Total(Values(ys)) = Total(Values(lots)) + (LotValue(rest) - LotValue(lot))
    <3>1. PICK xs, zs \in Seq(Int) : xs = Values(lots) /\ zs = Values(ys)
      BY <2>6, <2>7
    <3>2. /\ i \in 1..Len(xs) /\ Len(zs) = Len(xs)
          /\ \A j \in 1..Len(xs) : j # i => zs[j] = xs[j]
      BY <1>2, <2>6, <2>7, <2>8, <3>1
    <3>3. Total(zs) = Total(xs) + (zs[i] - xs[i])
      BY <3>2, TotalChange
    <3> QED  BY <1>4, <2>8, <3>1, <3>3, Zenon
  <2>10. Total(Quantities(ys)) = Total(Quantities(lots)) + (LotQuantity(rest) - LotQuantity(lot))
    <3>1. PICK xs, zs \in Seq(Int) : xs = Quantities(lots) /\ zs = Quantities(ys)
      BY <2>6, <2>7
    <3>2. /\ i \in 1..Len(xs) /\ Len(zs) = Len(xs)
          /\ \A j \in 1..Len(xs) : j # i => zs[j] = xs[j]
      BY <1>2, <2>6, <2>7, <2>8, <3>1
    <3>3. Total(zs) = Total(xs) + (zs[i] - xs[i])
      BY <3>2, TotalChange
    <3> QED  BY <1>4, <2>8, <3>1, <3>3, Zenon
  <2>11. \A e, a, b \in Nat : e * (a - b) = e * a - e * b /\ e * a \in Int /\ e * b \in Int
    OBVIOUS
  <2>12. /\ lot.entry * left = lot.entry * lot.left - lot.entry * qty
         /\ lot.cost * left = lot.cost * lot.left - lot.cost * qty
    <3>1. PICK e, c, u, q \in Nat : e = lot.entry /\ c = lot.cost /\ u = lot.left /\ q = qty
      <4>1. lot.entry \in Nat /\ lot.cost \in Nat /\ lot.left \in Nat /\ qty \in Nat
        BY <1>3
      <4> QED  BY <4>1, Zenon
    <3>2. e * (u - q) = e * u - e * q
      BY <2>11, Zenon
    <3>3. c * (u - q) = c * u - c * q
      BY <2>11, Zenon
    <3> QED  BY <2>1, <3>1, <3>2, <3>3, Zenon
  <2>13. PICK ea, eb, ca, cb \in Int :
           /\ ea = lot.entry * lot.left /\ eb = lot.entry * qty
           /\ ca = lot.cost * lot.left /\ cb = lot.cost * qty
    BY <1>3, <2>11
  <2>14. /\ LotValue(rest) = Signed(lot.side, ea - eb) + (ca - cb)
         /\ LotValue(lot) = Signed(lot.side, ea) + ca
         /\ LotQuantity(rest) = Signed(lot.side, lot.left - qty)
         /\ LotQuantity(lot) = Signed(lot.side, lot.left)
    BY <2>1, <2>3, <2>12, <2>13 DEF LotValue, LotQuantity
  <2>15. /\ LotValue(rest) - LotValue(lot) = -(Signed(lot.side, eb) + cb)
         /\ LotQuantity(rest) - LotQuantity(lot) = -Signed(lot.side, qty)
         /\ Signed(lot.side, eb) + cb \in Int /\ Signed(lot.side, qty) \in Int
    <3>1. PICK l \in Nat : l = lot.left
      BY <1>3
    <3>2. \A x, y, z, t \in Int : /\ ((x - y) + (z - t)) - (x + z) = -(y + t)
                                /\ (-(x - y) + (z - t)) - (-x + z) = -(-y + t)
      OBVIOUS
    <3>3. CASE lot.side = "Buy"
      <4>1. \A x : Signed(lot.side, x) = x
        BY <3>3 DEF Signed
      <4>2. /\ LotValue(rest) - LotValue(lot) = ((ea - eb) + (ca - cb)) - (ea + ca)
            /\ LotQuantity(rest) - LotQuantity(lot) = (l - qty) - l
        BY <2>14, <3>1, <4>1
      <4>3. ((ea - eb) + (ca - cb)) - (ea + ca) = -(eb + cb) /\ (l - qty) - l = -qty
        OBVIOUS
      <4>4. eb + cb \in Int /\ qty \in Int
        OBVIOUS
      <4> QED  BY <4>1, <4>2, <4>3, <4>4, Zenon
    <3>4. CASE lot.side # "Buy"
      <4>1. \A x : Signed(lot.side, x) = -x
        BY <3>4 DEF Signed
      <4>2. /\ LotValue(rest) - LotValue(lot) = (-(ea - eb) + (ca - cb)) - (-ea + ca)
            /\ LotQuantity(rest) - LotQuantity(lot) = -(l - qty) - (-l)
        BY <2>14, <3>1, <4>1
      <4> QED  BY <3>2, <4>1, <4>2
    <3> QED  BY <3>3, <3>4
  <2>16. \A j \in 1..Len(ys) : \E k \in 1..Len(lots) : ys[j].side = lots[k].side
    <3>1. ASSUME NEW j \in 1..n PROVE ys[j].side = lots[j].side
      BY <1>1, <2>3, <2>5
    <3> QED  BY <1>2, <2>5, <3>1
  <2>17. Total(Values(lots)) \in Int /\ Total(Quantities(lots)) \in Int
    BY <2>6, TotalType
  <2>18. Total(Values(ys)) = Total(Values(lots)) - (Signed(lot.side, eb) + cb)
    BY <2>9, <2>15, <2>17
  <2>19. Total(Quantities(ys)) = Total(Quantities(lots)) - Signed(lot.side, qty)
    BY <2>10, <2>15, <2>17
  <2> QED  BY <1>1, <1>2, <1>6, <2>4, <2>5, <2>6, <2>7, <2>13, <2>16, <2>18, <2>19 DEF NetOf
<1> QED  BY <1>5, <1>6
-----------------------------------------------------------------------------
(* The matching of lots *)

\* A set of natural numbers that is not empty has a least element ...
LEMMA LeastElement ==
  ASSUME NEW S, S \subseteq Nat, S # {}
  PROVE  \E x \in S : \A y \in S : x <= y
<1> SUFFICES ASSUME \A x \in S : \E y \in S : y < x PROVE FALSE
  OBVIOUS
<1> DEFINE T == {n \in Nat : \A m \in 0..n : m \notin S}
<1>1. 0 \in T
  OBVIOUS
<1>2. \A n \in Nat : n \in T => n + 1 \in T
  <2> SUFFICES ASSUME NEW n \in Nat, n \in T PROVE n + 1 \notin S
    OBVIOUS
  <2>1. \A y \in S : y > n
    OBVIOUS
  <2> QED  BY <2>1
<1>3. Nat \subseteq T
  <2> HIDE DEF T
  <2> QED  BY <1>1, <1>2, SetInduction
<1>4. PICK x \in S : TRUE
  OBVIOUS
<1>5. x \in T
  BY <1>3
<1> QED  BY <1>4, <1>5

\* ... and, when it is bounded, a greatest.
LEMMA GreatestElement ==
  ASSUME NEW n \in Nat, NEW S, S \subseteq 0..n, S # {}
  PROVE  \E x \in S : \A y \in S : y <= x
<1> DEFINE T == {n - x : x \in S}
<1>1. T \subseteq Nat /\ T # {}
  <2>1. \A x \in S : n - x \in Nat
    OBVIOUS
  <2>2. PICK x \in S : TRUE
    OBVIOUS
  <2>3. n - x \in T
    OBVIOUS
  <2> QED  BY <2>1, <2>3
<1>2. \E t \in T : \A u \in T : t <= u
  <2> HIDE DEF T
  <2> QED  BY <1>1, LeastElement
<1>3. PICK x \in S : \A u \in T : n - x <= u
  BY <1>2
<1>4. \A y \in S : n - x <= n - y
  BY <1>3
<1> QED  BY <1>4

\* The opposite lot a fill closes first is one of the opposite lots.
LEMMA OppositeLotIsOpposite ==
  ASSUME NEW lots \in Seq(Lot), NEW side, OppositeLots(lots, side) # {}
  PROVE  /\ OppositeLot(lots, side) \in 1..Len(lots)
         /\ lots[OppositeLot(lots, side)].side # side
<1> DEFINE S == OppositeLots(lots, side)
           First(i) == \A j \in S : IF Fifo THEN i <= j ELSE j <= i
<1>1. S \subseteq 0..Len(lots) /\ S \subseteq Nat /\ S # {} /\ Len(lots) \in Nat
  BY DEF OppositeLots
<1>2. \E i \in S : First(i)
  <2> HIDE DEF S
  <2>1. CASE Fifo
    BY <1>1, <2>1, LeastElement
  <2>2. CASE ~Fifo
    BY <1>1, <2>2, GreatestElement
  <2> QED  BY <2>1, <2>2
<1>3. OppositeLot(lots, side) \in S
  BY <1>2 DEF OppositeLot
<1> QED  BY <1>3 DEF OppositeLots

\* The fields of a fill the ledger reads.
FillOK(fill) ==
  /\ fill.side \in Sides
  /\ fill.qty \in Nat /\ fill.price \in Nat /\ fill.cost \in Nat

\* What any number of turns of the matching loop keeps: realised is what the lots
\* lost in value less what was paid for the units matched, the position the lots
\* and the rest of the fill make stays, and no lot changes sides.
MatchOK(lots, fill, m) ==
  /\ m.lots \in Seq(Lot) /\ m.realized \in Int
  /\ m.left \in Nat /\ m.left <= fill.qty
  /\ m.realized = OpenValue(m.lots) - OpenValue(lots)
                  - Signed(fill.side, fill.price * (fill.qty - m.left))
                  - fill.cost * (fill.qty - m.left)
  /\ NetOf(m.lots) + Signed(fill.side, m.left) = NetOf(lots) + Signed(fill.side, fill.qty)
  /\ \A j \in 1..Len(m.lots) : \E k \in 1..Len(lots) : m.lots[j].side = lots[k].side

\* Nothing is left to match, one way or the other.
MatchDone(fill, m) == m.left = 0 \/ OppositeLots(m.lots, fill.side) = {}

\* A turn of the loop keeps the balance, and uses up the fill or a lot.
LEMMA TurnKeeps ==
  ASSUME NEW lots \in Seq(Lot), NEW fill, FillOK(fill), NEW m, MatchOK(lots, fill, m)
  PROVE  /\ MatchOK(lots, fill, Turn(m, fill))
         /\ MatchDone(fill, m) => Turn(m, fill) = m
         /\ ~MatchDone(fill, m) => \/ Turn(m, fill).left = 0
                                  \/ Len(Turn(m, fill).lots) = Len(m.lots) - 1
<1>1. CASE MatchDone(fill, m)
  <2>1. Turn(m, fill) = m
    BY <1>1 DEF Turn, MatchDone, MatchOK
  <2> QED  BY <1>1, <2>1
<1>2. CASE ~MatchDone(fill, m)
  <2>1. /\ m.lots \in Seq(Lot) /\ m.realized \in Int /\ m.left \in Nat \ {0} /\ m.left <= fill.qty
        /\ OppositeLots(m.lots, fill.side) # {}
    BY <1>2 DEF MatchOK, MatchDone
  <2> PICK ms \in Seq(Lot) : ms = m.lots
    BY <2>1
  <2> PICK left \in Nat \ {0} : left = m.left
    BY <2>1
  <2>2. PICK i \in 1..Len(ms) : i = OppositeLot(ms, fill.side) /\ ms[i].side # fill.side
    BY <2>1, OppositeLotIsOpposite
  <2>3. PICK lot \in Lot : lot = ms[i]
    OBVIOUS
  <2>4. /\ lot.side \in Sides /\ lot.entry \in Nat /\ lot.left \in Nat /\ lot.left # 0
        /\ lot.cost \in Nat /\ lot.side # fill.side
    BY <2>2, <2>3, LotFields
  <2>5. PICK qty \in Nat \ {0} : /\ qty = Lesser(left, lot.left)
                                 /\ qty <= left /\ qty <= lot.left
                                 /\ qty = left \/ qty = lot.left
    <3>1. PICK u \in Nat \ {0} : u = lot.left
      BY <2>4
    <3>2. /\ Lesser(left, u) \in Nat \ {0}
          /\ Lesser(left, u) <= left /\ Lesser(left, u) <= u
          /\ Lesser(left, u) = left \/ Lesser(left, u) = u
      BY DEF Lesser
    <3> QED  BY <3>1, <3>2, Zenon
  <2>6. PICK ys : ys = Reduced(ms, i, qty)
    OBVIOUS
  <2>7. /\ ys \in Seq(Lot)
        /\ Len(ys) = IF qty = lot.left THEN Len(ms) - 1 ELSE Len(ms)
        /\ OpenValue(ys) = OpenValue(ms) - (Signed(lot.side, lot.entry * qty) + lot.cost * qty)
        /\ NetOf(ys) = NetOf(ms) - Signed(lot.side, qty)
        /\ \A j \in 1..Len(ys) : \E k \in 1..Len(ms) : ys[j].side = ms[k].side
    <3>1. qty <= ms[i].left
      BY <2>3, <2>5
    <3>2. /\ Reduced(ms, i, qty) \in Seq(Lot)
          /\ Len(Reduced(ms, i, qty)) = IF qty = ms[i].left THEN Len(ms) - 1 ELSE Len(ms)
          /\ OpenValue(Reduced(ms, i, qty)) =
               OpenValue(ms) - (Signed(ms[i].side, ms[i].entry * qty) + ms[i].cost * qty)
          /\ NetOf(Reduced(ms, i, qty)) = NetOf(ms) - Signed(ms[i].side, qty)
          /\ \A j \in 1..Len(Reduced(ms, i, qty)) : \E k \in 1..Len(ms) :
               Reduced(ms, i, qty)[j].side = ms[k].side
      BY ONLY <3>1, ReducedSums, ms \in Seq(Lot), i \in 1..Len(ms), qty \in Nat \ {0}, Zenon
    <3> QED  BY <2>3, <2>6, <3>2, Zenon
  <2>8. PICK t : t = Turn(m, fill)
    OBVIOUS
  <2>9. t = [lots |-> ys, realized |-> m.realized + Realizes(lot, fill, qty), left |-> left - qty]
    BY <2>1, <2>2, <2>3, <2>5, <2>6, <2>8 DEF Turn, MatchOne, Reduced
  <2>10. /\ t.lots = ys /\ t.realized = m.realized + Realizes(lot, fill, qty)
         /\ t.left = left - qty
    BY <2>9
  <2>11. /\ fill.side \in Sides /\ fill.qty \in Nat /\ fill.price \in Nat /\ fill.cost \in Nat
    BY DEF FillOK
  <2>12. PICK d \in Nat : d = fill.qty - left
    BY <2>1, <2>11
  <2>13. t.left \in Nat /\ t.left <= fill.qty /\ fill.qty - t.left = d + qty
    <3>1. left - qty \in Nat /\ left - qty <= fill.qty
      BY <2>1, <2>5, <2>11
    <3>2. fill.qty - (left - qty) = d + qty
      BY <2>5, <2>11, <2>12
    <3> QED  BY <2>10, <3>1, <3>2
  <2>14. OpenValue(ms) \in Int /\ OpenValue(lots) \in Int /\ NetOf(ms) \in Int
         /\ NetOf(lots) \in Int /\ OpenValue(ys) \in Int
    BY <2>1, <2>7, LotSums
  <2>15. PICK v, w \in Int : v = OpenValue(ms) /\ w = OpenValue(lots)
    BY <2>14
  <2>16. m.realized = v - w - Signed(fill.side, fill.price * d) - fill.cost * d
    BY <2>12, <2>15 DEF MatchOK
  <2>17. Realizes(lot, fill, qty)
           = Signed(lot.side, (fill.price - lot.entry) * qty) - lot.cost * qty - fill.cost * qty
    BY DEF Realizes, RealizedGross
  <2>18. t.realized = OpenValue(ys) - w - Signed(fill.side, fill.price * (d + qty)) - fill.cost * (d + qty)
    <3>1. t.realized = (v - w - Signed(fill.side, fill.price * d) - fill.cost * d)
                       + (Signed(lot.side, (fill.price - lot.entry) * qty) - lot.cost * qty
                          - fill.cost * qty)
      BY <2>10, <2>16, <2>17
    <3>2. t.realized = (v - (Signed(lot.side, lot.entry * qty) + lot.cost * qty)) - w
                       - Signed(fill.side, fill.price * (d + qty)) - fill.cost * (d + qty)
      <4>1. PICK e, c, p, fc \in Nat : /\ e = lot.entry /\ c = lot.cost
                                       /\ p = fill.price /\ fc = fill.cost
        BY <2>4, <2>11
      <4>2. ((v - w - Signed(fill.side, p * d) - fc * d)
              + (Signed(lot.side, (p - e) * qty) - c * qty - fc * qty))
            = (v - (Signed(lot.side, e * qty) + c * qty)) - w
              - Signed(fill.side, p * (d + qty)) - fc * (d + qty)
        <5>1. PICK s, fs \in Sides : s = lot.side /\ fs = fill.side /\ s # fs
          BY <2>4, <2>11
        <5>2. ((v - w - Signed(fs, p * d) - fc * d) + (Signed(s, (p - e) * qty) - c * qty - fc * qty))
              = (v - (Signed(s, e * qty) + c * qty)) - w - Signed(fs, p * (d + qty)) - fc * (d + qty)
          <6>1. /\ (p - e) * qty = p * qty - e * qty
                /\ p * (d + qty) = p * d + p * qty
                /\ fc * (d + qty) = fc * d + fc * qty
            OBVIOUS
          <6>2. PICK pq, eq, cq, fq, pd, fd \in Int :
                  /\ pq = p * qty /\ eq = e * qty /\ cq = c * qty
                  /\ fq = fc * qty /\ pd = p * d /\ fd = fc * d
            OBVIOUS
          <6>3. CASE s = "Buy" /\ fs = "Sell"
            <7>1. \A x : Signed(s, x) = x /\ Signed(fs, x) = -x
              BY <6>3 DEF Signed
            <7>2. ((v - w - (-pd) - fd) + ((pq - eq) - cq - fq))
                  = (v - (eq + cq)) - w - (-(pd + pq)) - (fd + fq)
              OBVIOUS
            <7> QED  BY <6>1, <6>2, <7>1, <7>2, Zenon
          <6>4. CASE s = "Sell" /\ fs = "Buy"
            <7>1. \A x : Signed(s, x) = -x /\ Signed(fs, x) = x
              BY <6>4 DEF Signed
            <7>2. ((v - w - pd - fd) + (-(pq - eq) - cq - fq))
                  = (v - (-eq + cq)) - w - (pd + pq) - (fd + fq)
              OBVIOUS
            <7> QED  BY <6>1, <6>2, <7>1, <7>2, Zenon
          <6> QED  BY <5>1, <6>3, <6>4 DEF Sides
        <5> QED  BY <5>1, <5>2, Zenon
      <4> QED  BY <3>1, <4>1, <4>2, Zenon
    <3> QED  BY <2>7, <2>15, <3>2
  <2>19. Signed(lot.side, qty) = -Signed(fill.side, qty)
    BY <2>4, <2>11 DEF Signed, Sides
  <2>20. NetOf(ys) + Signed(fill.side, t.left) = NetOf(lots) + Signed(fill.side, fill.qty)
    <3>1. NetOf(ms) + Signed(fill.side, left) = NetOf(lots) + Signed(fill.side, fill.qty)
      BY DEF MatchOK
    <3>2. Signed(fill.side, left - qty) = Signed(fill.side, left) - Signed(fill.side, qty)
      BY <2>1, <2>5 DEF Signed
    <3>3. PICK a, b \in Int : a = Signed(fill.side, left) /\ b = Signed(fill.side, qty)
      BY <2>1, <2>5 DEF Signed
    <3>4. NetOf(ys) = NetOf(ms) - (-b) /\ Signed(fill.side, t.left) = a - b
      BY <2>7, <2>10, <2>19, <3>2, <3>3
    <3>5. \A x \in Int : (x - (-b)) + (a - b) = x + a
      OBVIOUS
    <3> QED  BY <2>14, <3>1, <3>3, <3>4, <3>5
  <2>21. t.realized \in Int
    <3>1. \A x, y \in Nat : x * y \in Nat
      OBVIOUS
    <3>2. fill.price * (d + qty) \in Nat /\ fill.cost * (d + qty) \in Nat
      BY <2>11, <3>1
    <3>3. Signed(fill.side, fill.price * (d + qty)) \in Int
      BY <3>2 DEF Signed
    <3> QED  BY <2>14, <2>18, <3>2, <3>3
  <2>22. \A j \in 1..Len(ys) : \E k \in 1..Len(lots) : ys[j].side = lots[k].side
    BY <2>7 DEF MatchOK
  <2>23. MatchOK(lots, fill, t)
    BY <2>7, <2>10, <2>13, <2>15, <2>18, <2>20, <2>21, <2>22 DEF MatchOK
  <2>24. t.left = 0 \/ Len(t.lots) = Len(m.lots) - 1
    BY <2>1, <2>5, <2>7, <2>10
  <2> QED  BY <1>2, <2>8, <2>23, <2>24
<1> QED  BY <1>1, <1>2

\* g lists where the matching loop stands after each of its first n turns.
Turns(g, lots, fill, n) ==
  g = [k \in 0..n |-> IF k = 0 THEN [lots |-> lots, realized |-> 0, left |-> fill.qty]
                      ELSE Turn(g[k - 1], fill)]

\* Every number of turns can be taken, whatever a turn does.
LEMMA TurnsExist == ASSUME NEW lots, NEW fill, NEW m \in Nat PROVE \E g : Turns(g, lots, fill, m)
<1> DEFINE S == {n \in Nat : \E g : Turns(g, lots, fill, n)}
           start == [lots |-> lots, realized |-> 0, left |-> fill.qty]
<1>1. 0 \in S
  <2>1. Turns([k \in 0..0 |-> start], lots, fill, 0)
    BY DEF Turns
  <2> QED  BY <2>1
<1>2. ASSUME NEW n \in Nat, n \in S PROVE n + 1 \in S
  <2>1. PICK g : Turns(g, lots, fill, n)
    BY <1>2
  <2> DEFINE h == [k \in 0..(n + 1) |-> IF k = n + 1 THEN Turn(g[n], fill) ELSE g[k]]
  <2>2. ASSUME NEW k \in 0..(n + 1)
        PROVE  h[k] = IF k = 0 THEN start ELSE Turn(h[k - 1], fill)
    <3>1. CASE k = n + 1
      <4>1. k - 1 = n /\ k # 0 /\ n \in 0..(n + 1) /\ n # n + 1
        BY <3>1
      <4> QED  BY <3>1, <4>1
    <3>2. CASE k # n + 1 /\ k # 0
      <4>1. k \in 0..n /\ k - 1 \in 0..(n + 1) /\ k - 1 # n + 1
        BY <3>2
      <4>2. h[k] = g[k] /\ h[k - 1] = g[k - 1]
        BY <3>2, <4>1
      <4>3. g[k] = Turn(g[k - 1], fill)
        BY <2>1, <3>2, <4>1 DEF Turns
      <4> HIDE DEF h
      <4> QED  BY <3>2, <4>2, <4>3
    <3>3. CASE k # n + 1 /\ k = 0
      <4>1. g[0] = start
        BY <2>1 DEF Turns
      <4> QED  BY <3>3, <4>1
    <3> QED  BY <3>1, <3>2, <3>3
  <2>3. h = [k \in 0..(n + 1) |-> IF k = 0 THEN start ELSE Turn(h[k - 1], fill)]
    <3>1. h = [k \in 0..(n + 1) |-> h[k]]
      OBVIOUS
    <3> HIDE DEF h, start
    <3> QED  BY <2>2, <3>1, Zenon
  <2> HIDE DEF h
  <2>4. Turns(h, lots, fill, n + 1)
    BY <2>3 DEF Turns
  <2> QED  BY <2>4
<1>3. Nat \subseteq S
  <2>1. \A n \in Nat : n \in S => n + 1 \in S
    BY <1>2
  <2> HIDE DEF S
  <2> QED  BY <1>1, <2>1, SetInduction
<1> QED  BY <1>3

\* The whole loop keeps the balance, and it ends with nothing left to match: as
\* many turns as there are lots are enough.
LEMMA MatchedKeeps ==
  ASSUME NEW lots \in Seq(Lot), NEW fill, FillOK(fill)
  PROVE  MatchOK(lots, fill, Matched(lots, fill)) /\ MatchDone(fill, Matched(lots, fill))
<1> DEFINE after == CHOOSE g : Turns(g, lots, fill, Len(lots))
<1>1. Turns(after, lots, fill, Len(lots))
  BY TurnsExist
<1>2. Matched(lots, fill) = after[Len(lots)]
  BY DEF Matched, Turns
<1> HIDE DEF after
<1>3. PICK N \in Nat : N = Len(lots)
  OBVIOUS
<1>4. /\ after[0] = [lots |-> lots, realized |-> 0, left |-> fill.qty]
      /\ \A k \in 1..N : after[k] = Turn(after[k - 1], fill)
  BY <1>1, <1>3 DEF Turns
<1> DEFINE S == {n \in Nat : n <= N => /\ MatchOK(lots, fill, after[n])
                                       /\ \/ MatchDone(fill, after[n])
                                          \/ Len(after[n].lots) <= N - n}
<1>5. 0 \in S
  <2>1. PICK m : m = after[0]
    OBVIOUS
  <2>2. m.lots = lots /\ m.realized = 0 /\ m.left = fill.qty
    BY <1>4, <2>1
  <2>3. fill.side \in Sides /\ fill.qty \in Nat /\ fill.price \in Nat /\ fill.cost \in Nat
    BY DEF FillOK
  <2>4. fill.qty - fill.qty = 0 /\ fill.price * 0 = 0 /\ fill.cost * 0 = 0
    BY <2>3
  <2>5. Signed(fill.side, 0) = 0
    BY SignedZero
  <2>6. OpenValue(lots) \in Int
    BY LotSums
  <2>7. 0 = OpenValue(lots) - OpenValue(lots) - Signed(fill.side, fill.price * (fill.qty - fill.qty))
            - fill.cost * (fill.qty - fill.qty)
    BY <2>4, <2>5, <2>6
  <2>8. MatchOK(lots, fill, m)
    BY <2>2, <2>3, <2>7 DEF MatchOK
  <2> QED  BY <1>3, <2>1, <2>2, <2>8
<1>6. ASSUME NEW n \in Nat, n \in S PROVE n + 1 \in S
  <2> SUFFICES ASSUME n + 1 <= N
               PROVE  /\ MatchOK(lots, fill, after[n + 1])
                      /\ \/ MatchDone(fill, after[n + 1])
                         \/ Len(after[n + 1].lots) <= N - (n + 1)
    OBVIOUS
  <2>1. PICK m : m = after[n]
    OBVIOUS
  <2>2. MatchOK(lots, fill, m) /\ (MatchDone(fill, m) \/ Len(m.lots) <= N - n)
    BY <1>6, <2>1
  <2>3. PICK t : t = Turn(m, fill)
    OBVIOUS
  <2>4. after[n + 1] = t
    <3>1. n + 1 \in 1..N /\ (n + 1) - 1 = n
      OBVIOUS
    <3> QED  BY <1>4, <2>1, <2>3, <3>1
  <2>5. /\ MatchOK(lots, fill, t)
        /\ MatchDone(fill, m) => t = m
        /\ ~MatchDone(fill, m) => t.left = 0 \/ Len(t.lots) = Len(m.lots) - 1
    BY <2>2, <2>3, TurnKeeps
  <2>6. MatchDone(fill, t) \/ Len(t.lots) <= N - (n + 1)
    <3>1. Len(m.lots) \in Nat
      BY <2>2 DEF MatchOK
    <3>2. CASE MatchDone(fill, m)
      BY <2>5, <3>2
    <3>3. CASE t.left = 0
      BY <3>3 DEF MatchDone
    <3>4. CASE ~MatchDone(fill, m) /\ Len(t.lots) = Len(m.lots) - 1
      BY <2>2, <3>1, <3>4
    <3> QED  BY <2>5, <3>2, <3>3, <3>4
  <2> QED  BY <2>4, <2>5, <2>6
<1>7. Nat \subseteq S
  <2>1. \A n \in Nat : n \in S => n + 1 \in S
    BY <1>6
  <2> HIDE DEF S
  <2> QED  BY <1>5, <2>1, SetInduction
<1>8. PICK m : m = after[N]
  OBVIOUS
<1>9. MatchOK(lots, fill, m) /\ (MatchDone(fill, m) \/ Len(m.lots) <= N - N)
  BY <1>7, <1>8
<1>10. Len(m.lots) <= N - N => OppositeLots(m.lots, fill.side) = {}
  BY <1>9 DEF MatchOK, OppositeLots
<1>11. MatchDone(fill, m)
  BY <1>9, <1>10 DEF MatchDone
<1> QED  BY <1>2, <1>3, <1>8, <1>9, <1>11

\* All lots are on one side.
OneSided(lots) == \A i, j \in 1..Len(lots) : lots[i].side = lots[j].side

\* What the fill does not close joins the lots: it is on their side, or there are
\* none left.
LEMMA RestSums ==
  ASSUME NEW lots \in Seq(Lot), OneSided(lots), NEW fill, FillOK(fill),
         NEW m, MatchOK(lots, fill, m), MatchDone(fill, m)
  PROVE  /\ OpenRest(m, fill) \in Seq(Lot)
         /\ OneSided(OpenRest(m, fill))
         /\ OpenValue(OpenRest(m, fill)) =
              OpenValue(m.lots) + Signed(fill.side, fill.price * m.left) + fill.cost * m.left
         /\ NetOf(OpenRest(m, fill)) = NetOf(m.lots) + Signed(fill.side, m.left)
<1>1. PICK ms \in Seq(Lot) : ms = m.lots
  BY DEF MatchOK
<1>2. /\ fill.side \in Sides /\ fill.price \in Nat /\ fill.cost \in Nat /\ m.left \in Nat
  BY DEF FillOK, MatchOK
<1>3. OneSided(ms)
  BY <1>1 DEF OneSided, MatchOK
<1>4. OpenValue(ms) \in Int /\ NetOf(ms) \in Int
  BY LotSums
<1>5. CASE m.left = 0
  <2>1. fill.price * 0 = 0 /\ fill.cost * 0 = 0 /\ Signed(fill.side, 0) = 0
    BY <1>2, SignedZero
  <2>2. OpenRest(m, fill) = ms
    BY <1>1, <1>5 DEF OpenRest
  <2>3. /\ OpenValue(ms) = OpenValue(ms) + Signed(fill.side, fill.price * m.left) + fill.cost * m.left
        /\ NetOf(ms) = NetOf(ms) + Signed(fill.side, m.left)
    BY <1>4, <1>5, <2>1
  <2> QED  BY <1>1, <1>3, <2>2, <2>3
<1>6. CASE m.left # 0
  <2>1. PICK lot \in Lot : lot = [side |-> fill.side, entry |-> fill.price,
                                  left |-> m.left, cost |-> fill.cost]
    BY <1>2, <1>6 DEF Lot
  <2>2. PICK ys : ys = OpenRest(m, fill) /\ ys = Append(ms, lot)
    BY <1>1, <1>6, <2>1 DEF OpenRest
  <2>3. /\ ys \in Seq(Lot) /\ Len(ys) = Len(ms) + 1 /\ ys[Len(ms) + 1] = lot
        /\ \A i \in 1..Len(ms) : ys[i] = ms[i]
    BY <2>2
  <2>4. \A i \in 1..Len(ms) : ms[i].side = fill.side
    BY <1>1, <1>6 DEF MatchDone, OppositeLots
  <2>5. OneSided(ys)
    <3>1. ASSUME NEW i \in 1..Len(ys) PROVE ys[i].side = fill.side
      <4>1. CASE i = Len(ms) + 1
        BY <2>1, <2>3, <4>1
      <4>2. CASE i # Len(ms) + 1
        <5>1. i \in 1..Len(ms)
          BY <2>3, <4>2
        <5> QED  BY <2>3, <2>4, <5>1
      <4> QED  BY <4>1, <4>2
    <3> QED  BY <3>1 DEF OneSided
  <2>6. /\ Values(ms) \in Seq(Int) /\ Len(Values(ms)) = Len(ms)
        /\ Quantities(ms) \in Seq(Int) /\ Len(Quantities(ms)) = Len(ms)
        /\ OpenValue(ms) = Total(Values(ms))
    BY LotSums
  <2>7. /\ Values(ys) \in Seq(Int) /\ Len(Values(ys)) = Len(ys)
        /\ Quantities(ys) \in Seq(Int) /\ Len(Quantities(ys)) = Len(ys)
        /\ OpenValue(ys) = Total(Values(ys))
    BY <2>3, LotSums
  <2>8. PICK n \in Nat : n = Len(ms)
    OBVIOUS
  <2>9. /\ \A i \in 1..n : Values(ys)[i] = Values(ms)[i]
        /\ \A i \in 1..n : Quantities(ys)[i] = Quantities(ms)[i]
        /\ Values(ys)[n + 1] = LotValue(lot) /\ Quantities(ys)[n + 1] = LotQuantity(lot)
    BY <2>3, <2>8 DEF Values, Quantities
  <2>10. Total(Values(ys)) = Total(Values(ms)) + LotValue(lot)
    <3>1. PICK qs, rs \in Seq(Int) : qs = Values(ms) /\ rs = Values(ys)
      BY <2>6, <2>7
    <3>2. Len(qs) = n /\ Len(rs) = n + 1 /\ \A i \in 1..n : rs[i] = qs[i]
      BY <2>3, <2>6, <2>7, <2>8, <2>9, <3>1
    <3>3. Total(rs) = Total(qs) + rs[n + 1]
      BY <3>2, TotalSnoc
    <3> QED  BY <2>9, <3>1, <3>3
  <2>11. Total(Quantities(ys)) = Total(Quantities(ms)) + LotQuantity(lot)
    <3>1. PICK qs, rs \in Seq(Int) : qs = Quantities(ms) /\ rs = Quantities(ys)
      BY <2>6, <2>7
    <3>2. Len(qs) = n /\ Len(rs) = n + 1 /\ \A i \in 1..n : rs[i] = qs[i]
      BY <2>3, <2>6, <2>7, <2>8, <2>9, <3>1
    <3>3. Total(rs) = Total(qs) + rs[n + 1]
      BY <3>2, TotalSnoc
    <3> QED  BY <2>9, <3>1, <3>3
  <2>12. PICK p, c \in Int : p = fill.price * m.left /\ c = fill.cost * m.left
    BY <1>2
  <2>13. /\ LotValue(lot) = Signed(fill.side, p) + c /\ LotQuantity(lot) = Signed(fill.side, m.left)
         /\ Signed(fill.side, p) \in Int
    BY <2>1, <2>12 DEF LotValue, LotQuantity, Signed
  <2>14. OpenValue(ys) = OpenValue(ms) + Signed(fill.side, p) + c
    BY <1>4, <2>6, <2>7, <2>10, <2>13
  <2> QED  BY <1>1, <2>2, <2>3, <2>5, <2>11, <2>12, <2>13, <2>14 DEF NetOf
<1> QED  BY <1>5, <1>6
-----------------------------------------------------------------------------
(* What the stages hand on is of its kind *)

\* The channels that drop: an item is taken when there is room.
LEMMA TrySendType ==
  ASSUME NEW S, NEW q \in Seq(S), Len(q) <= DropCap, NEW x \in S
  PROVE  TrySend(q, x) \in Seq(S) /\ Len(TrySend(q, x)) <= DropCap
BY LoopAssumption DEF TrySend, Room

\* The channels that make the sender wait, and the head taken from a channel.
LEMMA AppendType ==
  ASSUME NEW S, NEW q \in Seq(S), NEW x \in S
  PROVE  Append(q, x) \in Seq(S) /\ Len(Append(q, x)) = Len(q) + 1 /\ Len(q) \in Nat
OBVIOUS

\* A sequence without its first element.
LEMMA TailType ==
  ASSUME NEW S, NEW q \in Seq(S), q # <<>>
  PROVE  /\ Tail(q) \in Seq(S) /\ Len(Tail(q)) = Len(q) - 1 /\ Len(q) \in Nat \ {0}
         /\ Head(q) \in S /\ Head(q) = q[1]
OBVIOUS

\* Two sequences, one behind the other.
LEMMA ConcatType ==
  ASSUME NEW S, NEW q \in Seq(S), NEW r \in Seq(S)
  PROVE  q \o r \in Seq(S) /\ Len(q \o r) = Len(q) + Len(r)
OBVIOUS

\* The fields of a frame.
LEMMA FrameFields ==
  ASSUME NEW f \in Frames
  PROVE  /\ f.price \in Nat /\ f.price # 0
         /\ f.stale \in BOOLEAN /\ f.entry \in {"None", "Long", "Short"}
         /\ f.direction \in {"Long", "Short", "Flat"}
         /\ f.adverse \in 0..100 /\ f.score \in 0..100 /\ f.regime \in Regimes
<1>1. f \in Frame
  BY LoopAssumption
<1> QED  BY <1>1 DEF Frame

\* What of a view travels on with a decision.
LEMMA VerdictType == ASSUME NEW s \in View PROVE VerdictOf(s) \in Verdict
<1>1. s.state \in EdgeStates /\ s.competition \in Competitions
  BY DEF View
<1>2. (s.reliability >= 55) \in BOOLEAN
  OBVIOUS
<1>3. (\/ s.streak >= ForceExitStreak \/ s.capture < -5
       \/ s.alpha < -100 \/ s.degradation > 85) \in BOOLEAN
  OBVIOUS
<1> QED  BY <1>1, <1>2, <1>3 DEF VerdictOf, Verdict

\* A product is no greater than the one with a greater factor.
LEMMA ProductBound ==
  ASSUME NEW x \in Nat, NEW k \in Nat, NEW n \in Nat, k <= n
  PROVE  x * k \in Nat /\ x * k <= x * n
<1>1. PICK d \in Nat : n = k + d
  <2>1. n - k \in Nat /\ n = k + (n - k)
    OBVIOUS
  <2> QED  BY <2>1
<1>2. x * n = x * k + x * d /\ x * k \in Nat /\ x * d \in Nat
  BY <1>1
<1> QED  BY <1>2

\* A quotient is no greater than the other factor of a bound.
LEMMA DivBound ==
  ASSUME NEW z \in Nat, NEW x \in Nat, NEW n \in Nat \ {0}, z <= x * n
  PROVE  z \div n \in Nat /\ z \div n <= x
<1>1. PICK q \in Int, r \in Int : q = z \div n /\ r = z % n
  OBVIOUS
<1>2. z = n * q + r /\ 0 <= r /\ r < n
  BY <1>1
<1>3. q >= 0
  <2> SUFFICES ASSUME q <= -1 PROVE FALSE
    OBVIOUS
  <2>1. n * q <= -n
    <3>1. -1 - q \in Nat
      OBVIOUS
    <3>2. n * (-1 - q) \in Nat
      BY <3>1
    <3>3. n * (-1 - q) = -n - n * q
      OBVIOUS
    <3> QED  BY <3>2, <3>3
  <2> QED  BY <1>2, <2>1
<1>4. q <= x
  <2> SUFFICES ASSUME q >= x + 1 PROVE FALSE
    OBVIOUS
  <2>1. q - x - 1 \in Nat
    OBVIOUS
  <2>2. n * (q - x - 1) \in Nat
    BY <2>1
  <2>3. n * (q - x - 1) = n * q - x * n - n
    OBVIOUS
  <2>4. x * n \in Int /\ n * q \in Int
    OBVIOUS
  <2> QED  BY <1>2, <2>2, <2>3, <2>4
<1> QED  BY <1>1, <1>3, <1>4

\* Confidence is a percentage of a percentage of the distance from the middle.
LEMMA ConfidenceType == ASSUME NEW f \in Frames, NEW s PROVE Confidence(f, s) \in 0..100
<1>1. PICK score, adverse \in 0..100 : score = f.score /\ adverse = f.adverse
  BY FrameFields
<1>2. PICK a, b \in Nat : a = Abs(score - 50) * 2 /\ b = 100 - adverse /\ a <= 100 /\ b <= 100
  BY DEF Abs
<1>3. PICK g, h \in {0, 65, 75, 100} :
        /\ g = IF s.state = "Valid" THEN 100 ELSE IF s.state = "Uncertain" THEN 65 ELSE 0
        /\ h = IF s.competition = "Normal" THEN 100 ELSE IF s.competition = "Competitive" THEN 75 ELSE 0
  OBVIOUS
<1>4. g \in Nat /\ h \in Nat /\ g <= 100 /\ h <= 100
  OBVIOUS
<1>5. PICK c \in Nat : c = (a * b) \div 100 /\ c <= 100
  <2>1. a * b \in Nat /\ a * b <= a * 100
    BY <1>2, ProductBound
  <2>2. (a * b) \div 100 \in Nat /\ (a * b) \div 100 <= a
    BY <2>1, DivBound
  <2> QED  BY <1>2, <2>2
<1>6. PICK k \in Nat : k = g * h /\ k <= g * 100
  BY <1>4, ProductBound
<1>7. k <= 10000
  BY <1>4, <1>6, SMT
<1>8. PICK m \in Nat : m = c * k /\ m <= c * 10000
  BY <1>7, ProductBound, SMT
<1>9. m \div 10000 \in Nat /\ m \div 10000 <= c
  BY <1>8, DivBound, SMT
<1>10. Confidence(f, s) = m \div 10000
  <2>1. Confidence(f, s) = (((Abs(score - 50) * 2 * (100 - adverse)) \div 100) * (g * h)) \div 10000
    BY <1>1, <1>3, SMT DEF Confidence
  <2> QED  BY <1>2, <1>5, <1>6, <1>8, <2>1, SMT
<1> QED  BY <1>5, <1>9, <1>10, SMT

\* What the decision engine hands on is a decision.
LEMMA DecisionType ==
  ASSUME NEW f \in Frames, NEW s \in View
  PROVE  DecisionOn(f, s) \in Decision
<1>1. ActionOn(f, s, learner.score, learner.disabled) \in Actions
  BY DEF ActionOn, Actions
<1>2. /\ f.entry \in {"None", "Long", "Short"} /\ f.direction \in {"Long", "Short", "Flat"}
      /\ f.score \in 0..100
  BY FrameFields
<1>3. (IF f.entry # "None" THEN f.entry ELSE f.direction) \in {"Long", "Short", "Flat"}
  BY <1>2
<1>4. (IF f.entry # "None" THEN Clamp(f.score + 10, 0, 100) ELSE f.score) \in 0..100
  BY <1>2 DEF Clamp
<1>5. (IF f.entry # "None" THEN Greater(Confidence(f, s), 68) ELSE Confidence(f, s)) \in 0..100
  BY ConfidenceType DEF Greater
<1>6. VerdictOf(s) \in Verdict
  BY VerdictType
<1> QED  BY <1>1, <1>3, <1>4, <1>5, <1>6 DEF DecisionOn, Decision

\* The position of a symbol is a number.
LEMMA NetType ==
  ASSUME NEW acct \in Account, NEW s \in Symbols
  PROVE  NetQuantity(acct, s) = NetOf(acct.lots[s]) /\ NetQuantity(acct, s) \in Int
<1>1. acct.lots[s] \in Seq(Lot)
  BY DEF Account
<1>2. NetQuantity(acct, s) = NetOf(acct.lots[s])
  BY DEF NetQuantity, NetOf, Quantities, LotQuantity
<1> QED  BY <1>1, <1>2, LotSums

\* The position module answers a decision with one intent or none.
LEMMA OrderType ==
  ASSUME NEW d \in Decision, NEW acct \in Account
  PROVE  DecideOrder(d, acct) = <<>> \/ \E x \in Intent : DecideOrder(d, acct) = <<x>>
<1>1. d.frame \in Frames /\ d.verdict \in Verdict
  BY DEF Decision
<1>2. d.frame.stale \in BOOLEAN /\ d.frame.regime \in Regimes
  BY <1>1, FrameFields
<1>3. ASSUME NEW side \in Sides, NEW qty \in Nat, NEW reduce \in BOOLEAN
      PROVE  IntentWith(d, side, qty, reduce) \in Intent
  BY <1>1, <1>2 DEF IntentWith, Intent
<1>4. PICK net \in Int : net = PositionExposure(acct, Own).net
  BY NetType, LoopAssumption DEF PositionExposure
<1>5. PICK size \in Nat : size = Abs(net)
  BY DEF Abs
<1>6. ReduceQty(d, size) \in Nat
  BY DEF ReduceQty, Greater, Lesser
<1>7. PICK leave, enter \in Sides : /\ leave = IF net > 0 THEN "Sell" ELSE "Buy"
                                    /\ enter = IF d.direction = "Long" THEN "Buy" ELSE "Sell"
  BY DEF Sides
<1>8. \/ DecideOrder(d, acct) = <<IntentWith(d, leave, size, TRUE)>>
      \/ DecideOrder(d, acct) = <<IntentWith(d, leave, ReduceQty(d, size), TRUE)>>
      \/ DecideOrder(d, acct) = <<IntentWith(d, enter, 1, FALSE)>>
      \/ DecideOrder(d, acct) = <<>>
  BY <1>4, <1>5, <1>7, Zenon DEF DecideOrder
<1>9. /\ IntentWith(d, leave, size, TRUE) \in Intent
      /\ IntentWith(d, leave, ReduceQty(d, size), TRUE) \in Intent
      /\ IntentWith(d, enter, 1, FALSE) \in Intent
  <2>1. 1 \in Nat
    OBVIOUS
  <2> QED  BY <1>3, <1>6, <2>1, Zenon
<1> QED  BY <1>8, <1>9

\* A fill that is taken for measurement starts without a price, at any age.
LEMMA FreshType == ASSUME NEW f \in Fill, NEW lag \in Lags PROVE Fresh(f, lag) \in Pending
<1>1. lag \in Ages /\ f.slip \in Int
  BY LoopAssumption DEF Fill
<1>2. f.side \in {"Buy", "Sell"}
  BY DEF Fill, Sides
<1> QED  BY <1>1, <1>2 DEF Fill, Fresh, Pending, Unknown

\* An update of the market makes a fill older, and notes no price but its own.
LEMMA OlderType == ASSUME NEW p \in Pending, NEW dt \in Nat PROVE Older(p, dt) \in Pending
<1>1. p.age \in Ages
  BY DEF Pending
<1>2. PICK age : age = IF p.age + dt > Final THEN Final ELSE p.age + dt
  OBVIOUS
<1>3. age \in Ages
  BY <1>1, <1>2, TruthAssumption DEF Ages
<1>4. Older(p, dt) = [p EXCEPT !.age = age]
  BY <1>2 DEF Older
<1> QED  BY <1>3, <1>4 DEF Pending

\* Noting the price of a moment keeps the horizons well-formed.
LEMMA NoteType ==
  ASSUME NEW p \in Pending, NEW price \in Nat, NEW dt \in Nat
  PROVE  Note(p, price, dt) \in Pending
<1>1. PICK q \in Pending : q = Older(p, dt)
  BY OlderType
<1>2. q.early \in Nat /\ q.mid \in Nat
  BY DEF Pending
<1>3. PICK e, m \in Nat : /\ e = Noted(q.early, q.age, Early, price)
                          /\ m = Noted(q.mid, q.age, Mid, price)
  BY <1>2 DEF Noted
<1>4. Note(p, price, dt) = [q EXCEPT !.early = e, !.mid = m]
  BY <1>1, <1>3 DEF Note
<1> QED  BY <1>4 DEF Pending

\* What a measured fill teaches is a sample.
LEMMA SampleType == ASSUME NEW p \in Pending PROVE SampleOf(p) \in Sample
<1>1. /\ p.price \in Int /\ p.qty \in Int /\ p.cost \in Int /\ p.slip \in Int /\ p.edge \in Int
      /\ p.early \in Int /\ p.mid \in Int /\ p.ratio \in 0..100
  BY DEF Pending
<1>2. \A x, y \in Int : x * y \in Int
  OBVIOUS
<1>3. ASSUME NEW future \in Int PROVE MarkoutPnl(p, future) \in Int
  <2>1. PICK move \in Int : move = IF p.side = "Buy" THEN future - p.price ELSE p.price - future
    BY <1>1
  <2>2. move * p.qty \in Int /\ p.cost * p.qty \in Int
    BY <1>1, <1>2
  <2> QED  BY <2>1, <2>2 DEF MarkoutPnl
<1>4. \A x \in Int : Loss(x) \in Nat
  BY DEF Loss
<1>5. PICK early, markout \in Int : early = MarkoutPnl(p, p.early) /\ markout = MarkoutPnl(p, p.mid)
  BY <1>1, <1>3
<1>6. PICK slipped \in Nat : slipped = Loss(-p.slip)
  BY <1>1, <1>4
<1>7. PICK pnl \in Int : pnl = markout - slipped
  OBVIOUS
<1>8. PICK alpha \in Int : alpha = pnl - p.edge
  BY <1>1
<1>9. PICK adverse \in Nat : adverse = Loss(early) + Loss(markout) \div 4
  BY <1>4
<1>10. PICK loss \in Nat : loss = Loss(alpha)
  BY <1>4
<1>11. PICK outbid \in {0, 100} : outbid = IF CompetitionFlag(p) = "None" THEN 0 ELSE 100
  OBVIOUS
<1>12. SampleOf(p) = [edge |-> p.edge, markout |-> markout, pnl |-> pnl, alpha |-> alpha,
                      ratio |-> p.ratio, slip |-> p.slip, outbid |-> outbid,
                      adverse |-> adverse, loss |-> loss]
  BY <1>5, <1>6, <1>7, <1>8, <1>9, <1>10, <1>11, Zenon DEF SampleOf
<1> QED  BY <1>1, <1>12 DEF Sample

\* As many fills are ripe as wait, or fewer.
LEMMA RipeType ==
  ASSUME NEW q \in Seq(Pending), NEW dt
  PROVE  Ripe(q, dt) \in 0..Len(q)
<1> DEFINE S == {n \in 0..Len(q) : \A i \in 1..n : q[i].age + dt >= Final}
<1>1. S \subseteq 0..Len(q) /\ 0 \in S /\ Len(q) \in Nat
  OBVIOUS
<1>2. \E x \in S : \A y \in S : y <= x
  <2> HIDE DEF S
  <2> QED  BY <1>1, GreatestElement
<1>3. \E x \in S : \A y \in S : x >= y
  BY <1>2
<1>4. Ripe(q, dt) \in S
  <2>1. Ripe(q, dt) = CHOOSE x \in S : \A y \in S : x >= y
    BY DEF Ripe, Max
  <2> HIDE DEF S
  <2> QED  BY <1>3, <2>1
<1> QED  BY <1>4
-----------------------------------------------------------------------------
(* The ledger books a fill *)

\* The unrealised profit of lots at a mark, and of all lots, is a number.
LEMMA UnrealizedType ==
  ASSUME NEW lots \in Seq(Lot), NEW mark \in Nat
  PROVE  UnrealizedAt(lots, mark) \in Int
<1>1. \A x, y \in Int : x * y \in Int
  OBVIOUS
<1>2. ASSUME NEW i \in 1..Len(lots) PROVE UnrealizedFor(lots[i], mark) \in Int
  <2>1. PICK lot \in Lot : lot = lots[i]
    OBVIOUS
  <2>2. PICK move \in Int : move = mark - lot.entry
    BY LotFields
  <2>3. move * lot.left \in Int
    BY <1>1, LotFields
  <2> QED  BY <2>1, <2>2, <2>3 DEF UnrealizedFor, Signed
<1>3. [i \in 1..Len(lots) |-> UnrealizedFor(lots[i], mark)] \in Seq(Int)
  BY <1>2
<1> QED  BY <1>3, TotalType DEF UnrealizedAt

\* So is the sum over all symbols.
LEMMA UnrealizedTotalType ==
  ASSUME NEW lots \in [Symbols -> Seq(Lot)], NEW marks \in [Symbols -> Nat]
  PROVE  UnrealizedTotal(lots, marks) \in Int
<1>1. ASSUME NEW s \in Symbols
      PROVE  (IF marks[s] = Unmarked THEN 0 ELSE UnrealizedAt(lots[s], marks[s])) \in Int
  BY UnrealizedType
<1>2. [s \in Symbols |-> IF marks[s] = Unmarked THEN 0 ELSE UnrealizedAt(lots[s], marks[s])]
        \in [Symbols -> Int]
  BY <1>1
<1> QED  BY <1>2, LoopAssumption, TotalOverType DEF UnrealizedTotal

\* The fields of an account.
LEMMA AccountFields ==
  ASSUME NEW acct \in Account
  PROVE  /\ acct.lots \in [Symbols -> Seq(Lot)] /\ acct.marks \in [Symbols -> Nat]
         /\ acct.realized \in Int /\ acct.unrealized \in Int
BY DEF Account

\* Marking touches neither the lots nor what is realised, and puts the unrealised
\* profit right.
LEMMA MarkKeeps ==
  ASSUME NEW acct \in Account, NEW s \in Symbols, NEW mark \in Nat
  PROVE  LET a == MarkToMarket(acct, s, mark)
         IN /\ a \in Account
            /\ a.lots = acct.lots /\ a.realized = acct.realized
            /\ a.unrealized = UnrealizedTotal(a.lots, a.marks)
<1>1. PICK marks \in [Symbols -> Nat] : marks = [acct.marks EXCEPT ![s] = mark]
  BY AccountFields
<1>2. PICK u \in Int : u = UnrealizedTotal(acct.lots, marks)
  BY AccountFields, UnrealizedTotalType
<1>3. MarkToMarket(acct, s, mark) = [acct EXCEPT !.marks = marks, !.unrealized = u]
  BY <1>1, <1>2, Zenon DEF MarkToMarket
<1>4. PICK a : a = MarkToMarket(acct, s, mark)
  OBVIOUS
<1>5. /\ a \in Account /\ a.lots = acct.lots /\ a.realized = acct.realized
      /\ a.marks = marks /\ a.unrealized = u
  BY <1>3, <1>4 DEF Account
<1> QED  BY <1>2, <1>4, <1>5

\* A fill changes the lots of its symbol alone.  What is realised and what the
\* lots stand for change by what was paid between them, and the position by
\* the units of the fill.
LEMMA ApplyKeeps ==
  ASSUME NEW acct \in Account, NEW fill \in Fill,
         \A s \in Symbols : OneSided(acct.lots[s])
  PROVE  LET a == ApplyFill(acct, fill)
         IN /\ a \in Account
            /\ \A s \in Symbols : OneSided(a.lots[s])
            /\ \A s \in Symbols : s # fill.symbol => a.lots[s] = acct.lots[s]
            /\ OpenValue(a.lots[fill.symbol]) - OpenValue(acct.lots[fill.symbol]) =
                 (a.realized - acct.realized)
                 + Signed(fill.side, fill.price * fill.qty) + fill.cost * fill.qty
            /\ NetOf(a.lots[fill.symbol]) =
                 NetOf(acct.lots[fill.symbol]) + Signed(fill.side, fill.qty)
<1>1. PICK sym \in Symbols : sym = fill.symbol
  BY DEF Fill
<1>2. /\ fill.side \in Sides /\ fill.qty \in Nat /\ fill.price \in Nat /\ fill.cost \in Nat
  BY DEF Fill
<1>3. FillOK(fill)
  BY <1>2 DEF FillOK
<1>4. PICK ls \in Seq(Lot) : ls = acct.lots[sym] /\ OneSided(ls)
  BY AccountFields
<1>5. PICK m : m = Matched(ls, fill)
  OBVIOUS
<1>6. MatchOK(ls, fill, m) /\ MatchDone(fill, m)
  BY <1>3, <1>5, MatchedKeeps
<1>7. PICK rest : rest = OpenRest(m, fill)
  OBVIOUS
<1>8. /\ rest \in Seq(Lot) /\ OneSided(rest)
      /\ OpenValue(rest) = OpenValue(m.lots) + Signed(fill.side, fill.price * m.left) + fill.cost * m.left
      /\ NetOf(rest) = NetOf(m.lots) + Signed(fill.side, m.left)
  BY <1>3, <1>4, <1>6, <1>7, RestSums
<1>9. PICK lots \in [Symbols -> Seq(Lot)] : lots = [acct.lots EXCEPT ![sym] = rest]
  BY <1>8, AccountFields
<1>10. PICK u \in Int : u = IF acct.marks[sym] # Unmarked THEN UnrealizedAt(lots[sym], acct.marks[sym])
                            ELSE UnrealizedTotal(lots, acct.marks)
  <2>1. acct.marks[sym] \in Nat /\ acct.marks \in [Symbols -> Nat] /\ lots[sym] \in Seq(Lot)
    BY AccountFields
  <2> QED  BY <2>1, UnrealizedType, UnrealizedTotalType
<1>11. PICK r \in Int : r = m.realized
  BY <1>6 DEF MatchOK
<1>12. ApplyFill(acct, fill) = [acct EXCEPT !.lots = lots, !.realized = @ + r, !.unrealized = u]
  BY <1>1, <1>4, <1>5, <1>7, <1>9, <1>10, <1>11, Zenon DEF ApplyFill
<1>13. PICK a : a = ApplyFill(acct, fill)
  OBVIOUS
<1>14. a \in Account /\ a.lots = lots /\ a.realized = acct.realized + r /\ acct.realized \in Int
  <2>1. PICK x \in Int : x = acct.realized + r
    BY AccountFields
  <2>2. a = [acct EXCEPT !.lots = lots, !.realized = x, !.unrealized = u]
    BY <1>12, <1>13, <2>1, Zenon
  <2> QED  BY <2>1, <2>2 DEF Account
<1>15. \A s \in Symbols : a.lots[s] = IF s = sym THEN rest ELSE acct.lots[s]
  BY <1>9, <1>14, AccountFields
<1>16. \A s \in Symbols : OneSided(a.lots[s])
  BY <1>8, <1>15
<1>17. OpenValue(rest) - OpenValue(ls) =
         r + Signed(fill.side, fill.price * fill.qty) + fill.cost * fill.qty
  <2>1. PICK q, l \in Nat : q = fill.qty /\ l = m.left /\ l <= q
    BY <1>2, <1>6 DEF MatchOK
  <2>2. PICK p, c \in Nat : p = fill.price /\ c = fill.cost
    BY <1>2
  <2>3. PICK v, w, x \in Int : v = OpenValue(m.lots) /\ w = OpenValue(ls) /\ x = OpenValue(rest)
    BY <1>6, <1>8, LotSums DEF MatchOK
  <2>4. r = v - w - Signed(fill.side, p * (q - l)) - c * (q - l)
    BY <1>6, <1>11, <2>1, <2>2, <2>3 DEF MatchOK
  <2>5. x = v + Signed(fill.side, p * l) + c * l
    BY <1>8, <2>1, <2>2, <2>3
  <2>6. /\ p * (q - l) = p * q - p * l /\ c * (q - l) = c * q - c * l
    OBVIOUS
  <2>7. PICK pq, pl, cq, cl \in Int : pq = p * q /\ pl = p * l /\ cq = c * q /\ cl = c * l
    OBVIOUS
  <2>8. x - w = r + Signed(fill.side, pq) + cq
    <3>1. CASE fill.side = "Buy"
      <4>1. r = v - w - (pq - pl) - (cq - cl) /\ x = v + pl + cl /\ Signed(fill.side, pq) = pq
        BY <2>4, <2>5, <2>6, <2>7, <3>1, Zenon DEF Signed
      <4> QED  BY <4>1
    <3>2. CASE fill.side # "Buy"
      <4>1. r = v - w - (-(pq - pl)) - (cq - cl) /\ x = v + (-pl) + cl /\ Signed(fill.side, pq) = -pq
        BY <2>4, <2>5, <2>6, <2>7, <3>2, Zenon DEF Signed
      <4> QED  BY <4>1
    <3> QED  BY <3>1, <3>2
  <2> QED  BY <2>1, <2>2, <2>3, <2>7, <2>8, Zenon
<1>18. NetOf(rest) = NetOf(ls) + Signed(fill.side, fill.qty)
  BY <1>6, <1>8 DEF MatchOK
<1>19. (a.realized - acct.realized) = r
  BY <1>14
<1> QED  BY <1>1, <1>4, <1>13, <1>14, <1>15, <1>16, <1>17, <1>18, <1>19, Zenon
-----------------------------------------------------------------------------
(* The ledger, the counts and the fills on their way, as values *)

\* What happened, by kinds.
History == [orders : Nat, foreign : Nat, failures : Nat, fills : Nat,
            executed : [Symbols -> Int], lost : [Symbols -> Int], cash : Int]

\* The units of a symbol among the fills of a queue.
Moved(fill, s) == IF fill.symbol = s THEN Signed(fill.side, fill.qty) ELSE 0
Way(q, s) == Total([i \in 1..Len(q) |-> Moved(q[i], s)])

\* The four promises of the ledger, of an account, a history and a queue of fills.
LedgerOf(acct, h, q) ==
  /\ \A s \in Symbols : OneSided(acct.lots[s])
  /\ acct.realized = h.cash + TotalOver(Symbols, [s \in Symbols |-> OpenValue(acct.lots[s])])
  /\ acct.unrealized = UnrealizedTotal(acct.lots, acct.marks)
  /\ \A s \in Symbols : h.executed[s] = NetOf(acct.lots[s]) + h.lost[s] + Way(q, s)

\* A fill moves a number of units.
LEMMA MovedType == ASSUME NEW fill \in Fill, NEW s PROVE Moved(fill, s) \in Int
<1>1. fill.qty \in Nat
  BY DEF Fill
<1> QED  BY <1>1 DEF Moved, Signed

\* What is on its way is a number, of which every fill sent is a part ...
LEMMA WaySent ==
  ASSUME NEW q \in Seq(Fill), NEW fill \in Fill, NEW s
  PROVE  Way(q, s) \in Int /\ Way(Append(q, fill), s) = Way(q, s) + Moved(fill, s)
<1> DEFINE ms(p) == [i \in 1..Len(p) |-> Moved(p[i], s)]
<1>1. PICK p \in Seq(Fill) : p = Append(q, fill)
  BY AppendType
<1>2. /\ Len(p) = Len(q) + 1 /\ Len(q) \in Nat /\ p[Len(p)] = fill
      /\ \A i \in 1..Len(q) : p[i] = q[i]
  BY <1>1
<1>3. ms(q) \in Seq(Int) /\ ms(p) \in Seq(Int)
  BY MovedType
<1>4. /\ Len(ms(p)) = Len(ms(q)) + 1 /\ ms(p)[Len(ms(p))] = Moved(fill, s)
      /\ \A i \in 1..Len(ms(q)) : ms(p)[i] = ms(q)[i]
  BY <1>2
<1>5. PICK xs, ys \in Seq(Int) : xs = ms(q) /\ ys = ms(p)
  BY <1>3
<1>6. Total(ys) = Total(xs) + Moved(fill, s) /\ Total(xs) \in Int
  BY <1>4, <1>5, TotalSnoc, TotalType
<1> QED  BY <1>1, <1>5, <1>6 DEF Way

\* ... and every fill taken was one.
LEMMA WayTaken ==
  ASSUME NEW q \in Seq(Fill), q # <<>>, NEW s
  PROVE  Way(Tail(q), s) = Way(q, s) - Moved(Head(q), s)
<1> DEFINE ms(p) == [i \in 1..Len(p) |-> Moved(p[i], s)]
<1>1. PICK p \in Seq(Fill) : p = Tail(q)
  BY TailType
<1>2. /\ Len(p) = Len(q) - 1 /\ Len(q) \in Nat \ {0} /\ q[1] = Head(q)
      /\ \A i \in 1..Len(p) : p[i] = q[i + 1]
  BY <1>1
<1>3. ms(q) \in Seq(Int) /\ ms(p) \in Seq(Int)
  BY MovedType
<1>4. /\ Len(ms(p)) = Len(ms(q)) - 1 /\ ms(q)[1] = Moved(Head(q), s) /\ 1 \in 1..Len(ms(q))
      /\ \A i \in 1..Len(ms(p)) : ms(p)[i] = ms(q)[IF i < 1 THEN i ELSE i + 1]
  BY <1>2
<1>5. PICK xs, ys \in Seq(Int) : xs = ms(q) /\ ys = ms(p)
  BY <1>3
<1>6. Total(ys) = Total(xs) - Moved(Head(q), s)
  <2>1. PICK k \in 1..Len(xs) : k = 1 /\ xs[k] = Moved(Head(q), s)
    BY <1>4, <1>5
  <2>2. Len(ys) = Len(xs) - 1 /\ \A i \in 1..Len(ys) : ys[i] = xs[IF i < k THEN i ELSE i + 1]
    BY <1>4, <1>5, <2>1
  <2>3. Total(ys) = Total(xs) - xs[k]
    BY <2>2, TotalWithout
  <2> QED  BY <2>1, <2>3
<1> QED  BY <1>1, <1>5, <1>6 DEF Way

\* Nothing is on its way in an empty queue.
LEMMA WayEmpty == ASSUME NEW s PROVE Way(<<>>, s) = 0
<1> DEFINE xs == [i \in 1..Len(<<>>) |-> Moved(<<>>[i], s)]
<1>1. 1..Len(<<>>) = {} /\ Len(<<>>) = 0
  OBVIOUS
<1>2. xs \in Seq(Int) /\ Len(xs) = 0
  BY <1>1
<1>3. Way(<<>>, s) = Total(xs)
  BY Zenon DEF Way
<1> HIDE DEF xs
<1> QED  BY <1>2, <1>3, TotalEmpty

\* The values of the open lots of an account are numbers, and their sum is.
LEMMA OpenValues ==
  ASSUME NEW acct \in Account
  PROVE  \A s \in Symbols : /\ acct.lots[s] \in Seq(Lot)
                            /\ OpenValue(acct.lots[s]) \in Int /\ NetOf(acct.lots[s]) \in Int
<1> SUFFICES ASSUME NEW s \in Symbols
             PROVE  /\ acct.lots[s] \in Seq(Lot)
                    /\ OpenValue(acct.lots[s]) \in Int /\ NetOf(acct.lots[s]) \in Int
  OBVIOUS
<1>1. acct.lots[s] \in Seq(Lot)
  BY AccountFields
<1> QED  BY <1>1, LotSums

\* The ledger keeps its promises when the head of the queue is booked.
LEMMA LedgerBooks ==
  ASSUME NEW acct \in Account, NEW h \in History, NEW q \in Seq(Fill), q # <<>>,
         LedgerOf(acct, h, q), NEW price \in Nat
  PROVE  LET fill == Head(q)
             a == Booked(acct, fill, price)
             g == [h EXCEPT !.cash = @ - Signed(fill.side, fill.price * fill.qty) - fill.cost * fill.qty]
         IN a \in Account /\ g \in History /\ LedgerOf(a, g, Tail(q))
<1>1. PICK fill \in Fill : fill = Head(q)
  BY TailType
<1>2. PICK sym \in Symbols : sym = fill.symbol
  BY DEF Fill
<1>3. /\ fill.side \in Sides /\ fill.qty \in Nat /\ fill.price \in Nat /\ fill.cost \in Nat
  BY DEF Fill
<1>4. PICK b : b = ApplyFill(acct, fill)
  OBVIOUS
<1>5. \A s \in Symbols : OneSided(acct.lots[s])
  BY DEF LedgerOf
<1>6. /\ b \in Account
      /\ \A s \in Symbols : OneSided(b.lots[s])
      /\ \A s \in Symbols : s # sym => b.lots[s] = acct.lots[s]
      /\ OpenValue(b.lots[sym]) - OpenValue(acct.lots[sym]) =
           (b.realized - acct.realized)
           + Signed(fill.side, fill.price * fill.qty) + fill.cost * fill.qty
      /\ NetOf(b.lots[sym]) = NetOf(acct.lots[sym]) + Signed(fill.side, fill.qty)
  BY <1>2, <1>4, <1>5, ApplyKeeps
<1>7. PICK mark \in Nat : mark = Greater(price, fill.price)
  BY <1>3 DEF Greater
<1>8. PICK a : a = MarkToMarket(b, sym, mark)
  OBVIOUS
<1>9. /\ a \in Account /\ a.lots = b.lots /\ a.realized = b.realized
      /\ a.unrealized = UnrealizedTotal(a.lots, a.marks)
  BY <1>6, <1>8, MarkKeeps
<1>10. a = Booked(acct, fill, price)
  BY <1>2, <1>4, <1>7, <1>8 DEF Booked
<1>11. PICK paid, spent \in Int : paid = Signed(fill.side, fill.price * fill.qty) /\ spent = fill.cost * fill.qty
  <2>1. fill.price * fill.qty \in Int /\ fill.cost * fill.qty \in Int
    BY <1>3
  <2> QED  BY <2>1 DEF Signed
<1>12. h.cash \in Int /\ h.executed \in [Symbols -> Int] /\ h.lost \in [Symbols -> Int]
  BY DEF History
<1>13. PICK cash \in Int : cash = h.cash - paid - spent
  BY <1>12
<1>14. PICK g : g = [h EXCEPT !.cash = @ - Signed(fill.side, fill.price * fill.qty) - fill.cost * fill.qty]
  OBVIOUS
<1>15. g = [h EXCEPT !.cash = cash]
  BY <1>11, <1>13, <1>14, Zenon
<1>16. g \in History /\ g.cash = cash /\ g.executed = h.executed /\ g.lost = h.lost
  BY <1>15 DEF History
<1> DEFINE before == [s \in Symbols |-> OpenValue(acct.lots[s])]
           after == [s \in Symbols |-> OpenValue(a.lots[s])]
<1>17. a.realized = g.cash + TotalOver(Symbols, after)
  <2>1. \A s \in Symbols : before[s] \in Int /\ after[s] \in Int
    BY <1>9, OpenValues
  <2>2. \A s \in Symbols \ {sym} : after[s] = before[s]
    BY <1>6, <1>9
  <2>3. after[sym] - before[sym] = (b.realized - acct.realized) + paid + spent
    BY <1>6, <1>9, <1>11, Zenon
  <2>4. acct.realized = h.cash + TotalOver(Symbols, before)
    BY DEF LedgerOf
  <2> HIDE DEF before, after
  <2>5. TotalOver(Symbols, after) = TotalOver(Symbols, before) + (after[sym] - before[sym])
    <3>1. IsFiniteSet(Symbols)
      BY LoopAssumption
    <3>2. PICK u, v : u = before /\ v = after
      OBVIOUS
    <3>3. /\ \A y \in Symbols : u[y] \in Int /\ v[y] \in Int
          /\ \A y \in Symbols \ {sym} : v[y] = u[y]
      BY <2>1, <2>2, <3>2
    <3>4. TotalOver(Symbols, v) = TotalOver(Symbols, u) + (v[sym] - u[sym])
      BY <3>1, <3>3, TotalOverChange
    <3> QED  BY <3>2, <3>4
  <2>6. TotalOver(Symbols, before) \in Int
    BY <2>1, LoopAssumption, TotalOverType
  <2>7. b.realized \in Int /\ acct.realized \in Int
    BY <1>6, AccountFields
  <2>8. PICK r, r0, t, t0, c0 \in Int :
          /\ r = a.realized /\ r0 = acct.realized /\ t0 = TotalOver(Symbols, before)
          /\ t = TotalOver(Symbols, after) /\ c0 = h.cash
    BY <1>9, <1>12, <2>1, <2>6, <2>7, LoopAssumption, TotalOverType
  <2>9. r0 = c0 + t0 /\ t = t0 + ((r - r0) + paid + spent) /\ g.cash = c0 - paid - spent
    BY <1>9, <1>13, <1>16, <2>3, <2>4, <2>5, <2>8, Zenon
  <2>10. r = (c0 - paid - spent) + t
    BY <2>9
  <2> QED  BY <2>8, <2>9, <2>10, Zenon
<1>18. ASSUME NEW s \in Symbols
       PROVE  g.executed[s] = NetOf(a.lots[s]) + g.lost[s] + Way(Tail(q), s)
  <2>1. PICK x, y, w \in Int : x = NetOf(acct.lots[s]) /\ y = h.lost[s] /\ w = Way(q, s)
    BY <1>1, <1>12, OpenValues, WaySent
  <2>2. PICK d \in Int : d = Moved(fill, s)
    BY MovedType
  <2>3. NetOf(a.lots[s]) = x + d
    <3>1. CASE s = sym
      BY <1>2, <1>6, <1>9, <2>1, <2>2, <3>1 DEF Moved
    <3>2. CASE s # sym
      <4>1. d = 0
        BY <1>2, <2>2, <3>2 DEF Moved
      <4> QED  BY <1>6, <1>9, <2>1, <3>2, <4>1
    <3> QED  BY <3>1, <3>2
  <2>4. Way(Tail(q), s) = w - d
    BY <1>1, <2>1, <2>2, WayTaken
  <2>5. h.executed[s] = x + y + w
    BY <2>1 DEF LedgerOf
  <2>6. x + y + w = (x + d) + y + (w - d)
    OBVIOUS
  <2> QED  BY <1>16, <2>1, <2>3, <2>4, <2>5, <2>6
<1>19. \A s \in Symbols : OneSided(a.lots[s])
  BY <1>6, <1>9
<1>20. LedgerOf(a, g, Tail(q))
  BY <1>9, <1>17, <1>18, <1>19 DEF LedgerOf
<1> QED  BY <1>1, <1>9, <1>10, <1>14, <1>16, <1>20, Zenon

\* ... when a symbol is marked ...
LEMMA LedgerMarks ==
  ASSUME NEW acct \in Account, NEW h, NEW q, LedgerOf(acct, h, q),
         NEW s \in Symbols, NEW mark \in Nat
  PROVE  MarkToMarket(acct, s, mark) \in Account /\ LedgerOf(MarkToMarket(acct, s, mark), h, q)
<1>1. PICK a : a = MarkToMarket(acct, s, mark)
  OBVIOUS
<1>2. /\ a \in Account /\ a.lots = acct.lots /\ a.realized = acct.realized
      /\ a.unrealized = UnrealizedTotal(a.lots, a.marks)
  BY <1>1, MarkKeeps
<1> QED  BY <1>1, <1>2 DEF LedgerOf

\* ... when a fill is executed, and is delivered to the ledger or lost ...
LEMMA LedgerDelivers ==
  ASSUME NEW acct \in Account, NEW h \in History, NEW q \in Seq(Fill),
         LedgerOf(acct, h, q), NEW fill \in Fill,
         NEW g, g.cash = h.cash,
         \A s \in Symbols : g.executed[s] = h.executed[s] + Moved(fill, s),
         NEW p,
         \/ p = Append(q, fill) /\ \A s \in Symbols : g.lost[s] = h.lost[s]
         \/ p = q /\ \A s \in Symbols : g.lost[s] = h.lost[s] + Moved(fill, s)
  PROVE  LedgerOf(acct, g, p)
<1>1. h.executed \in [Symbols -> Int] /\ h.lost \in [Symbols -> Int]
  BY DEF History
<1>2. ASSUME NEW s \in Symbols
      PROVE  g.executed[s] = NetOf(acct.lots[s]) + g.lost[s] + Way(p, s)
  <2>1. PICK x, y, w, e \in Int :
          x = NetOf(acct.lots[s]) /\ y = h.lost[s] /\ w = Way(q, s) /\ e = h.executed[s]
    BY <1>1, OpenValues, WaySent
  <2>2. PICK d \in Int : d = Moved(fill, s)
    BY MovedType
  <2>3. e = x + y + w
    BY <2>1 DEF LedgerOf
  <2>4. g.executed[s] = e + d
    BY <2>1, <2>2
  <2>5. \/ g.lost[s] = y /\ Way(p, s) = w + d
        \/ g.lost[s] = y + d /\ Way(p, s) = w
    BY <2>1, <2>2, WaySent
  <2>6. (x + y + w) + d = x + y + (w + d) /\ (x + y + w) + d = x + (y + d) + w
    OBVIOUS
  <2> QED  BY <2>1, <2>3, <2>4, <2>5, <2>6, Zenon
<1> QED  BY <1>2 DEF LedgerOf

\* ... and when only the other counts change.
LEMMA LedgerCounts ==
  ASSUME NEW acct, NEW h, NEW g, NEW q, LedgerOf(acct, h, q),
         g.executed = h.executed, g.lost = h.lost, g.cash = h.cash
  PROVE  LedgerOf(acct, g, q)
BY DEF LedgerOf
-----------------------------------------------------------------------------
(* What is learnt is of its kind *)

\* The engine with a window no longer than its capacity, and who learns with it.
EdgeKept == {e \in EdgeOK : Len(e.window) <= Capacity}
Learner == [edge : EdgeKept, view : View, losses : Nat, threshold : 660..860,
            disabled : BOOLEAN, score : 0..100]

\* The fields of an engine and of a learner.
LEMMA EdgeFields ==
  ASSUME NEW e \in EdgeKept
  PROVE  e \in EdgeOK /\ e.window \in Seq(Sample) /\ e.streak \in Nat /\ e.failure \in 0..100
         /\ Len(e.window) \in Nat /\ Len(e.window) <= Capacity
BY DEF EdgeKept, EdgeOK

\* The fields of a learner.
LEMMA LearnerFields ==
  ASSUME NEW l \in Learner
  PROVE  /\ l.edge \in EdgeKept /\ l.view \in View /\ l.losses \in Nat
         /\ l.threshold \in 660..860 /\ l.disabled \in BOOLEAN /\ l.score \in 0..100
BY DEF Learner

\* A sample is pushed onto the window, and the oldest falls out when it is full.
LEMMA ObserveType ==
  ASSUME NEW e \in EdgeKept, NEW x \in Sample
  PROVE  Observe(e, x) \in EdgeKept
<1>1. PICK w \in Seq(Sample) : w = e.window /\ Len(w) \in Nat /\ Len(w) <= Capacity
  BY EdgeFields
<1>2. PICK v : v = IF Len(w) = Capacity THEN Append(Tail(w), x) ELSE Append(w, x)
  OBVIOUS
<1>3. v \in Seq(Sample) /\ Len(v) <= Capacity
  <2>1. CASE Len(w) = Capacity
    <3>1. w # <<>>
      BY <2>1, EdgeAssumption
    <3>2. PICK t \in Seq(Sample) : t = Tail(w) /\ Len(t) = Len(w) - 1
      BY <3>1, TailType
    <3>3. v = Append(t, x)
      BY <1>2, <2>1, <3>2
    <3> QED  BY <1>1, <3>2, <3>3, AppendType
  <2>2. CASE Len(w) # Capacity
    <3>1. Len(w) + 1 <= Capacity
      BY <1>1, <2>2, EdgeAssumption
    <3> QED  BY <1>1, <1>2, <2>2, <3>1, AppendType
  <2> QED  BY <2>1, <2>2
<1>4. PICK k \in Nat : k = IF Capture(x) < -5 THEN e.streak + 1 ELSE IF e.streak = 0 THEN 0 ELSE e.streak - 1
  BY EdgeFields
<1>5. Observe(e, x) = [e EXCEPT !.window = v, !.streak = k]
  BY <1>1, <1>2, <1>4, Zenon DEF Observe
<1>6. [e EXCEPT !.window = v, !.streak = k] \in EdgeOK
  BY <1>3, EdgeFields DEF EdgeOK
<1>7. [e EXCEPT !.window = v, !.streak = k].window = v
  BY EdgeFields DEF EdgeOK
<1> QED  BY <1>3, <1>5, <1>6, <1>7 DEF EdgeKept

\* A failure moves the average within the severities.
LEMMA ObserveFailureType ==
  ASSUME NEW e \in EdgeKept, NEW severity \in FailureSeverity
  PROVE  ObserveFailure(e, severity) \in EdgeKept
<1>1. e.failure \in 0..100 /\ severity \in 0..100
  BY EdgeFields DEF FailureSeverity
<1>2. PICK x, y \in 0..100 : x = e.failure /\ y = severity
  BY <1>1
<1>3. PICK f \in 0..100 : f = Ewma(x, y, 18)
  <2>1. (82 * x + 18 * y) \div 100 \in 0..100
    OBVIOUS
  <2>2. Ewma(x, y, 18) = (82 * x + 18 * y) \div 100
    BY DEF Ewma
  <2> QED  BY <2>1, <2>2
<1>4. ObserveFailure(e, severity) = [e EXCEPT !.failure = f]
  BY <1>2, <1>3 DEF ObserveFailure
<1>5. [e EXCEPT !.failure = f] \in EdgeOK /\ [e EXCEPT !.failure = f].window = e.window
  BY EdgeFields DEF EdgeOK
<1> QED  BY <1>4, <1>5, EdgeFields DEF EdgeKept

\* One field of a learner changes.
LEMMA EdgeWith ==
  ASSUME NEW l \in Learner, NEW e \in EdgeKept
  PROVE  [l EXCEPT !.edge = e] \in Learner
BY DEF Learner

\* Its view of the edge.
LEMMA ViewWith ==
  ASSUME NEW l \in Learner, NEW v \in View
  PROVE  [l EXCEPT !.view = v] \in Learner
BY DEF Learner

\* Its count of losses.
LEMMA LossesWith ==
  ASSUME NEW l \in Learner, NEW n \in Nat
  PROVE  [l EXCEPT !.losses = n] \in Learner
BY DEF Learner

\* Its threshold.
LEMMA ThresholdWith ==
  ASSUME NEW l \in Learner, NEW t \in 660..860
  PROVE  [l EXCEPT !.threshold = t] \in Learner
BY DEF Learner

\* Its lockout.
LEMMA DisabledWith ==
  ASSUME NEW l \in Learner, NEW d \in BOOLEAN
  PROVE  [l EXCEPT !.disabled = d] \in Learner
BY DEF Learner

\* Its last score.
LEMMA ScoreWith ==
  ASSUME NEW l \in Learner, NEW n \in 0..100
  PROVE  [l EXCEPT !.score = n] \in Learner
BY DEF Learner

\* Whoever learns stays a learner.
LEMMA SeeingType ==
  ASSUME NEW l \in Learner, NEW e \in EdgeKept
  PROVE  Seeing(l, e) \in Learner
<1>1. PICK v \in View : v = Snapshot(e)
  BY EdgeFields, SnapshotType
<1>2. PICK k \in Learner : k = [l EXCEPT !.edge = e]
  BY EdgeWith, Zenon
<1>3. Seeing(l, e) = [k EXCEPT !.view = v]
  BY <1>1, <1>2 DEF Seeing
<1>4. [k EXCEPT !.view = v] \in Learner
  BY ViewWith, Zenon
<1> QED  BY <1>3, <1>4

\* A learner taught a sample is a learner ...
LEMMA TaughtType ==
  ASSUME NEW l \in Learner, NEW x \in Sample
  PROVE  Taught(l, x) \in Learner
<1>1. PICK t \in 660..860 : t = l.threshold
  BY LearnerFields
<1>2. CASE x.pnl > 0
  <2>1. PICK down \in 660..860 : down = Greater(t - 3, 660)
    BY DEF Greater
  <2>2. PICK k \in Learner : k = [l EXCEPT !.losses = 0]
    <3>1. [l EXCEPT !.losses = 0] \in Learner
      BY DEF Learner
    <3> QED  BY <3>1
  <2>3. Taught(l, x) = [k EXCEPT !.threshold = down]
    BY <1>1, <1>2, <2>1, <2>2 DEF Taught
  <2>4. [k EXCEPT !.threshold = down] \in Learner
    BY DEF Learner
  <2> QED  BY <2>3, <2>4
<1>3. CASE ~(x.pnl > 0)
  <2>1. PICK up \in 660..860 : up = Lesser(t + 12, 860)
    BY DEF Lesser
  <2>2. PICK n \in Nat : n = l.losses + 1
    BY LearnerFields
  <2>3. PICK k \in Learner : k = [l EXCEPT !.losses = n]
    <3>1. [l EXCEPT !.losses = n] \in Learner
      BY DEF Learner
    <3> QED  BY <3>1
  <2>4. Taught(l, x) = [k EXCEPT !.threshold = up]
    BY <1>1, <1>3, <2>1, <2>2, <2>3 DEF Taught
  <2>5. [k EXCEPT !.threshold = up] \in Learner
    BY DEF Learner
  <2> QED  BY <2>4, <2>5
<1> QED  BY <1>2, <1>3

\* ... and so is one whose lockout was looked at again.
LEMMA LockedType == ASSUME NEW l \in Learner PROVE Locked(l) \in Learner
<1>1. PICK d \in BOOLEAN : d = Lockout(l, l.view)
  <2>1. PICK b \in BOOLEAN : b = l.disabled
    BY LearnerFields
  <2>2. Lockout(l, l.view) \in {TRUE, FALSE, b}
    BY <2>1, Zenon DEF Lockout
  <2> QED  BY <2>2
<1>2. Locked(l) = [l EXCEPT !.disabled = d]
  BY <1>1, Zenon DEF Locked
<1>3. [l EXCEPT !.disabled = d] \in Learner
  BY DisabledWith, Zenon
<1> QED  BY <1>2, <1>3
-----------------------------------------------------------------------------
(* The invariant *)

\* What passed risk has units, and so has every order at work: no more than its size.
Vetted == {i \in Intent : i.qty # 0}
AtWork == {o \in Order : o.left # 0 /\ o.left <= o.size}

\* LoopTypeOK and the types of what is behind the reports: without units at work
\* the ratio reported with a fill need not be one, and the ledger's promises speak
\* of the history.
Types ==
  /\ learner \in Learner
  /\ desk \in [acct : Account, price : Nat, score : 0..100]
  /\ decisions \in Seq(Decision) /\ Len(decisions) <= StageCap
  /\ intents \in Seq(Intent) /\ Len(intents) <= StageCap
  /\ vetted \in Seq(Vetted) /\ Len(vetted) <= StageCap
  /\ working \in Seq(AtWork)
  /\ fills \in Seq(Fill) /\ Len(fills) <= DropCap
  /\ truths \in Seq(Pending) /\ Len(truths) <= DropCap
  /\ pending \in Seq(Pending)
  /\ samples \in Seq(Sample) /\ Len(samples) <= DropCap
  /\ feedback \in Seq(Failure) /\ Len(feedback) <= DropCap
  /\ history \in History

Ledger == LotsOneSided /\ AccountsBalance /\ UnrealizedMatchesMarks /\ FillsAccountedFor

\* The promises of the ledger are read off its account, the history and the queue.
LEMMA LedgerReads ==
  \A a, h, q : desk.acct = a /\ history = h /\ fills = q => (Ledger <=> LedgerOf(a, h, q))
<1> SUFFICES ASSUME NEW a, NEW h, NEW q, desk.acct = a, history = h, fills = q
             PROVE  Ledger <=> LedgerOf(a, h, q)
  OBVIOUS
<1>1. LotsOneSided <=> \A s \in Symbols : OneSided(a.lots[s])
  BY DEF LotsOneSided, OneSided
<1>2. AccountsBalance <=>
        a.realized = h.cash + TotalOver(Symbols, [s \in Symbols |-> OpenValue(a.lots[s])])
  BY DEF AccountsBalance
<1>3. UnrealizedMatchesMarks <=> a.unrealized = UnrealizedTotal(a.lots, a.marks)
  BY DEF UnrealizedMatchesMarks
<1>4. ASSUME NEW s \in Symbols PROVE NetQuantity(desk.acct, s) = NetOf(a.lots[s]) /\ OnTheWay(s) = Way(q, s)
  BY DEF NetQuantity, NetOf, Quantities, LotQuantity, OnTheWay, Way, Moved
<1>5. FillsAccountedFor <=> \A s \in Symbols : h.executed[s] = NetOf(a.lots[s]) + h.lost[s] + Way(q, s)
  BY <1>4 DEF FillsAccountedFor
<1> QED  BY <1>1, <1>2, <1>3, <1>5 DEF Ledger, LedgerOf

\* The same after a step.
LEMMA LedgerReadsAfter ==
  \A a, h, q : desk'.acct = a /\ history' = h /\ fills' = q => (Ledger' <=> LedgerOf(a, h, q))
<1>1. (\A a, h, q : desk.acct = a /\ history = h /\ fills = q => (Ledger <=> LedgerOf(a, h, q)))'
  BY LedgerReads, PTL
<1> QED  BY <1>1

\* A step that leaves account, fills, cash and quantities alone keeps the promises.
LEMMA LedgerStill ==
  ASSUME Ledger, desk'.acct = desk.acct, fills' = fills,
         history'.executed = history.executed, history'.lost = history.lost,
         history'.cash = history.cash
  PROVE  Ledger'
<1>1. PICK a, h, q, g : a = desk.acct /\ h = history /\ q = fills /\ g = history'
  OBVIOUS
<1>2. LedgerOf(a, h, q)
  BY <1>1, LedgerReads
<1>3. LedgerOf(a, g, q)
  BY <1>1, <1>2, LedgerCounts
<1> QED  BY <1>1, <1>3, LedgerReadsAfter

\* The engine learns from a sample ...
LEMMA LearnKeeps == ASSUME Types, Ledger, Learn PROVE Types' /\ Ledger'
<1>1. UNCHANGED <<stages, truths, pending, feedback, history>>
  BY DEF Learn
<1>2. UNCHANGED <<decisions, desk, intents, vetted, working, fills, truths, pending, feedback, history>>
  BY <1>1 DEF stages
<1>3. PICK q \in Seq(Sample) : q = samples /\ q # <<>> /\ Len(q) <= DropCap
  BY DEF Types, Learn
<1>4. Tail(q) \in Seq(Sample) /\ Len(Tail(q)) <= DropCap
  <2>1. Len(q) \in Nat \ {0} /\ Len(Tail(q)) = Len(q) - 1 /\ Tail(q) \in Seq(Sample)
    BY <1>3, TailType
  <2> QED  BY <1>3, <2>1, LoopAssumption
<1>5. PICK x \in Sample : x = Head(q)
  BY <1>3, TailType
<1>6. PICK l \in Learner : l = learner
  BY DEF Types
<1>7. PICK k \in Learner : k = Taught(l, x)
  BY TaughtType
<1>8. PICK e \in EdgeKept : e = Observe(l.edge, x)
  BY ObserveType, LearnerFields
<1>9. PICK m \in Learner : m = Locked(Seeing(k, e))
  BY SeeingType, LockedType
<1>10. learner' = m /\ samples' = Tail(q)
  BY <1>3, <1>5, <1>6, <1>7, <1>8, <1>9 DEF Learn
<1>11. Types'
  BY <1>2, <1>4, <1>10 DEF Types
<1>12. Ledger'
  BY <1>2, LedgerStill
<1> QED  BY <1>11, <1>12

\* ... and from a failure.
LEMMA LearnFailureKeeps == ASSUME Types, Ledger, LearnFailure PROVE Types' /\ Ledger'
<1>1. UNCHANGED <<stages, measures, history>>
  BY DEF LearnFailure
<1>2. UNCHANGED <<decisions, desk, intents, vetted, working, fills, truths, pending, samples, history>>
  BY <1>1 DEF stages, measures
<1>3. PICK q \in Seq(Failure) : q = feedback /\ q # <<>> /\ Len(q) <= DropCap
  BY DEF Types, LearnFailure
<1>4. Tail(q) \in Seq(Failure) /\ Len(Tail(q)) <= DropCap
  <2>1. Len(q) \in Nat \ {0} /\ Len(Tail(q)) = Len(q) - 1 /\ Tail(q) \in Seq(Failure)
    BY <1>3, TailType
  <2> QED  BY <1>3, <2>1, LoopAssumption
<1>5. PICK x \in Failure : x = Head(q)
  BY <1>3, TailType
<1>6. x.severity \in FailureSeverity /\ x.decayed \in BOOLEAN
  BY DEF Failure
<1>7. PICK l \in Learner : l = learner
  BY DEF Types
<1>8. PICK e \in EdgeKept : e = ObserveFailure(l.edge, x.severity)
  BY <1>6, ObserveFailureType, LearnerFields
<1>9. PICK k \in Learner : k = Seeing(l, e)
  BY SeeingType
<1>10. PICK d \in BOOLEAN : d = (k.disabled \/ x.decayed)
  OBVIOUS
<1>11. learner' = [k EXCEPT !.disabled = d] /\ feedback' = Tail(q)
  BY <1>3, <1>5, <1>7, <1>8, <1>9, <1>10, Zenon DEF LearnFailure
<1>12. [k EXCEPT !.disabled = d] \in Learner
  BY DisabledWith, Zenon
<1>13. Types'
  BY <1>2, <1>4, <1>11, <1>12 DEF Types
<1>14. Ledger'
  BY <1>2, LedgerStill
<1> QED  BY <1>13, <1>14

\* A decision is taken on a frame.
LEMMA DecideKeeps == ASSUME Types, Ledger, NEW f \in Frames, Decide(f) PROVE Types' /\ Ledger'
<1>1. UNCHANGED <<desk, intents, vetted, working, fills, truths, pending, samples, feedback, history>>
  BY DEF Decide, measures
<1>2. PICK l \in Learner : l = learner
  BY DEF Types
<1>3. PICK d \in Decision : d = DecisionOn(f, l.view)
  BY <1>2, DecisionType, LearnerFields
<1>4. d.score \in 0..100
  BY DEF Decision
<1>5. PICK q \in Seq(Decision) : q = decisions
  BY DEF Types
<1>6. Append(q, d) \in Seq(Decision) /\ Len(Append(q, d)) <= StageCap
  <2>1. Len(q) < StageCap
    BY <1>5 DEF Decide
  <2> QED  BY <2>1, AppendType, LoopAssumption
<1>7. decisions' = Append(q, d) /\ learner' = [l EXCEPT !.score = d.score]
  BY <1>2, <1>3, <1>5 DEF Decide
<1>8. [l EXCEPT !.score = d.score] \in Learner
  BY <1>4, ScoreWith, Zenon
<1>9. Types'
  BY <1>1, <1>6, <1>7, <1>8 DEF Types
<1>10. Ledger'
  BY <1>1, LedgerStill
<1> QED  BY <1>9, <1>10

\* The fields of the position module.
LEMMA DeskFields ==
  ASSUME Types
  PROVE  /\ desk.acct \in Account /\ desk.price \in Nat /\ desk.score \in 0..100
         /\ history \in History
BY DEF Types

\* The position module books a fill ...
LEMMA BookKeeps == ASSUME Types, Ledger, ApplyExternalFill PROVE Types' /\ Ledger'
<1>1. UNCHANGED <<learner, decisions, intents, vetted, working, truths, pending, samples, feedback>>
  BY DEF ApplyExternalFill, measures
<1>2. PICK q \in Seq(Fill) : q = fills /\ q # <<>> /\ Len(q) <= DropCap
  BY DEF Types, ApplyExternalFill
<1>3. PICK acct \in Account, price \in Nat, h \in History :
        acct = desk.acct /\ price = desk.price /\ h = history
  BY DeskFields
<1>4. LedgerOf(acct, h, q)
  BY <1>2, <1>3, LedgerReads
<1>5. PICK fill : fill = Head(q)
  OBVIOUS
<1>6. PICK a, g : /\ a = Booked(acct, fill, price)
                  /\ g = [h EXCEPT !.cash = @ - Signed(fill.side, fill.price * fill.qty)
                                              - fill.cost * fill.qty]
  OBVIOUS
<1>7. a \in Account /\ g \in History /\ LedgerOf(a, g, Tail(q))
  BY <1>2, <1>4, <1>5, <1>6, LedgerBooks
<1>8. /\ desk' = [desk EXCEPT !.acct = a] /\ history' = g /\ fills' = Tail(q)
  BY <1>2, <1>3, <1>5, <1>6 DEF ApplyExternalFill
<1>9. Tail(q) \in Seq(Fill) /\ Len(Tail(q)) <= DropCap
  <2>1. Len(q) \in Nat \ {0} /\ Len(Tail(q)) = Len(q) - 1 /\ Tail(q) \in Seq(Fill)
    BY <1>2, TailType
  <2> QED  BY <1>2, <2>1, LoopAssumption
<1>10. desk' \in [acct : Account, price : Nat, score : 0..100] /\ desk'.acct = a
  BY <1>7, <1>8 DEF Types
<1>11. Types'
  BY <1>1, <1>7, <1>8, <1>9, <1>10 DEF Types
<1>12. Ledger'
  BY <1>7, <1>8, <1>10, LedgerReadsAfter
<1> QED  BY <1>11, <1>12

\* ... and turns a decision into an intent, or none.
LEMMA PositionKeeps == ASSUME Types, Ledger, DecidePosition PROVE Types' /\ Ledger'
<1>1. UNCHANGED <<learner, vetted, working, fills, truths, pending, samples, feedback, history>>
  BY DEF DecidePosition, measures
<1>2. PICK q \in Seq(Decision) : q = decisions /\ q # <<>> /\ Len(q) <= StageCap
  BY DEF Types, DecidePosition
<1>3. PICK d \in Decision : d = Head(q)
  BY <1>2, TailType
<1>4. d.score \in 0..100 /\ d.frame.price \in Nat
  <2>1. d.frame \in Frames /\ d.score \in 0..100
    BY DEF Decision
  <2> QED  BY <2>1, FrameFields
<1>5. PICK acct \in Account : acct = desk.acct
  BY DeskFields
<1>6. PICK h, p : h = history /\ p = fills
  OBVIOUS
<1>7. LedgerOf(acct, h, p)
  BY <1>5, <1>6, LedgerReads
<1>8. PICK a \in Account : a = MarkToMarket(acct, Own, d.frame.price) /\ LedgerOf(a, h, p)
  BY <1>4, <1>7, LedgerMarks, LoopAssumption
<1>9. PICK r \in Seq(Intent) : r = intents /\ Len(r) < StageCap
  BY DEF Types, DecidePosition
<1>10. PICK t : t = r \o DecideOrder(d, a)
  OBVIOUS
<1>11. t \in Seq(Intent) /\ Len(t) <= StageCap
  <2>1. CASE DecideOrder(d, a) = <<>>
    <3>1. t = r
      BY <1>10, <2>1
    <3> QED  BY <1>9, <3>1, LoopAssumption
  <2>2. CASE \E x \in Intent : DecideOrder(d, a) = <<x>>
    <3>1. PICK x \in Intent : DecideOrder(d, a) = <<x>>
      BY <2>2
    <3>2. t = r \o <<x>>
      BY <1>10, <3>1
    <3>3. t \in Seq(Intent) /\ Len(t) = Len(r) + 1 /\ Len(r) \in Nat
      BY <3>2
    <3> QED  BY <1>9, <3>3, LoopAssumption
  <2> QED  BY <2>1, <2>2, OrderType
<1>12. /\ desk' = [acct |-> a, price |-> d.frame.price, score |-> d.score]
       /\ intents' = t /\ decisions' = Tail(q)
  BY <1>2, <1>3, <1>5, <1>8, <1>9, <1>10 DEF DecidePosition
<1>13. Tail(q) \in Seq(Decision) /\ Len(Tail(q)) <= StageCap
  <2>1. Len(q) \in Nat \ {0} /\ Len(Tail(q)) = Len(q) - 1 /\ Tail(q) \in Seq(Decision)
    BY <1>2, TailType
  <2> QED  BY <1>2, <2>1, LoopAssumption
<1>14. desk' \in [acct : Account, price : Nat, score : 0..100] /\ desk'.acct = a
  BY <1>4, <1>12
<1>15. Types'
  BY <1>1, <1>11, <1>12, <1>13, <1>14 DEF Types
<1>16. Ledger'
  BY <1>1, <1>6, <1>8, <1>14, LedgerReadsAfter
<1> QED  BY <1>15, <1>16

\* Risk lets an intent through that has units, or drops it.
LEMMA RiskKeeps == ASSUME Types, Ledger, CheckRisk PROVE Types' /\ Ledger'
<1>1. UNCHANGED <<learner, decisions, desk, working, fills, truths, pending, samples, feedback, history>>
  BY DEF CheckRisk, measures
<1>2. PICK q \in Seq(Intent) : q = intents /\ q # <<>> /\ Len(q) <= StageCap
  BY DEF Types, CheckRisk
<1>3. PICK x \in Intent : x = Head(q)
  BY <1>2, TailType
<1>4. PICK r \in Seq(Vetted) : r = vetted /\ Len(r) < StageCap
  BY DEF Types, CheckRisk
<1>5. PICK t : t = IF Validates(x) THEN Append(r, x) ELSE r
  OBVIOUS
<1>6. t \in Seq(Vetted) /\ Len(t) <= StageCap
  <2>1. CASE Validates(x)
    <3>1. x \in Vetted
      BY <2>1 DEF Validates, Vetted
    <3>2. t = Append(r, x)
      BY <1>5, <2>1
    <3> QED  BY <1>4, <3>1, <3>2, AppendType, LoopAssumption
  <2>2. CASE ~Validates(x)
    BY <1>4, <1>5, <2>2, LoopAssumption
  <2> QED  BY <2>1, <2>2
<1>7. vetted' = t /\ intents' = Tail(q)
  BY <1>2, <1>3, <1>4, <1>5 DEF CheckRisk
<1>8. Tail(q) \in Seq(Intent) /\ Len(Tail(q)) <= StageCap
  <2>1. Len(q) \in Nat \ {0} /\ Len(Tail(q)) = Len(q) - 1 /\ Tail(q) \in Seq(Intent)
    BY <1>2, TailType
  <2> QED  BY <1>2, <2>1, LoopAssumption
<1>9. Types'
  BY <1>1, <1>6, <1>7, <1>8 DEF Types
<1>10. Ledger'
  BY <1>1, LedgerStill
<1> QED  BY <1>9, <1>10

\* The meta engine posts an order, or drops the intent.
LEMMA MetaKeeps ==
  ASSUME Types, Ledger, NEW j \in Judgements, JudgeMeta(j) PROVE Types' /\ Ledger'
<1>1. UNCHANGED <<learner, decisions, desk, intents, fills, truths, pending, samples, feedback>>
  BY DEF JudgeMeta, measures
<1>2. PICK q \in Seq(Vetted) : q = vetted /\ q # <<>> /\ Len(q) <= StageCap
  BY DEF Types, JudgeMeta
<1>3. PICK x \in Vetted : x = Head(q)
  BY <1>2, TailType
<1>4. vetted' = Tail(q)
  BY <1>2 DEF JudgeMeta
<1>5. Tail(q) \in Seq(Vetted) /\ Len(Tail(q)) <= StageCap
  <2>1. Len(q) \in Nat \ {0} /\ Len(Tail(q)) = Len(q) - 1 /\ Tail(q) \in Seq(Vetted)
    BY <1>2, TailType
  <2> QED  BY <1>2, <2>1, LoopAssumption
<1>6. CASE FinalDecision(x, j) = "Execute"
  <2>1. x \in Intent /\ x.qty # 0 /\ x.qty \in Nat /\ x.side \in Sides /\ x.verdict \in Verdict
    BY DEF Vetted, Intent
  <2>2. PICK sound \in BOOLEAN : sound = Sound(j)
    BY DEF Sound
  <2>3. PICK o : o = [side |-> x.side, left |-> x.qty, size |-> x.qty,
                      verdict |-> x.verdict, sound |-> sound]
    OBVIOUS
  <2>4. o \in AtWork
    <3>1. o \in Order
      BY <2>1, <2>3 DEF Order
    <3> QED  BY <2>1, <2>3, <3>1 DEF AtWork
  <2>5. PICK w \in Seq(AtWork) : w = working
    BY DEF Types
  <2>6. PICK h \in History : h = history
    BY DEF Types
  <2>7. h.orders + 1 \in Nat
    BY DEF History
  <2>8. working' = Append(w, o) /\ history' = [h EXCEPT !.orders = @ + 1]
    BY <1>2, <1>3, <1>6, <2>2, <2>3, <2>5, <2>6 DEF JudgeMeta
  <2>9. history' \in History /\ history'.executed = h.executed /\ history'.lost = h.lost
        /\ history'.cash = h.cash
    BY <2>7, <2>8 DEF History
  <2>10. working' \in Seq(AtWork)
    BY <2>4, <2>8, AppendType
  <2>11. Types'
    BY <1>1, <1>4, <1>5, <2>9, <2>10 DEF Types
  <2>12. Ledger'
    BY <1>1, <2>6, <2>9, LedgerStill
  <2> QED  BY <2>11, <2>12
<1>7. CASE FinalDecision(x, j) # "Execute"
  <2>1. UNCHANGED <<working, history>>
    BY <1>2, <1>3, <1>7 DEF JudgeMeta
  <2>2. Types'
    BY <1>1, <1>4, <1>5, <2>1 DEF Types
  <2>3. Ledger'
    BY <1>1, <2>1, LedgerStill
  <2> QED  BY <2>2, <2>3
<1> QED  BY <1>6, <1>7

\* An update of the control-plane is measured, booked and counted.
LEMMA DeliverKeeps ==
  ASSUME Types, Ledger, NEW fill \in Fill, NEW up \in BOOLEAN, Deliver(fill, up),
         desk' = desk
  PROVE  /\ truths' \in Seq(Pending) /\ Len(truths') <= DropCap
         /\ fills' \in Seq(Fill) /\ Len(fills') <= DropCap
         /\ history' \in History
         /\ Ledger'
<1>1. PICK t \in Seq(Pending) : t = truths /\ Len(t) <= DropCap
  BY DEF Types
<1>2. PICK lag \in Lags : truths' = IF up THEN TrySend(t, Fresh(fill, lag)) ELSE t
  BY <1>1 DEF Deliver
<1>3. PICK x \in Pending : x = Fresh(fill, lag)
  BY FreshType
<1>4. truths' \in Seq(Pending) /\ Len(truths') <= DropCap
  BY <1>1, <1>2, <1>3, TrySendType
<1>5. PICK q \in Seq(Fill) : q = fills /\ Len(q) <= DropCap
  BY DEF Types
<1>6. PICK acct \in Account, h \in History : acct = desk.acct /\ h = history
  BY DeskFields
<1>7. LedgerOf(acct, h, q)
  BY <1>5, <1>6, LedgerReads
<1>8. PICK sym \in Symbols : sym = fill.symbol
  BY DEF Fill
<1>9. PICK moved \in Int : moved = Signed(fill.side, fill.qty)
  BY <1>8, MovedType DEF Moved
<1>10. PICK p : p = IF up THEN TrySend(q, fill) ELSE q
  OBVIOUS
<1>11. p \in Seq(Fill) /\ Len(p) <= DropCap
  BY <1>5, <1>10, TrySendType
<1>12. /\ h.executed \in [Symbols -> Int] /\ h.lost \in [Symbols -> Int]
       /\ h.fills \in Nat /\ h.foreign \in Nat
  BY DEF History
<1>13. PICK ex \in [Symbols -> Int] : ex = [h.executed EXCEPT ![sym] = @ + moved]
  <2>1. h.executed[sym] + moved \in Int
    BY <1>12
  <2> QED  BY <1>12, <2>1
<1>15. PICK lost \in [Symbols -> Int] : lost = [h.lost EXCEPT ![sym] =
                                                IF up /\ Room(q) THEN @ ELSE @ + moved]
  <2>1. (IF up /\ Room(q) THEN h.lost[sym] ELSE h.lost[sym] + moved) \in Int
    BY <1>12
  <2> QED  BY <1>12, <2>1
<1>16. PICK fo \in Nat : fo = IF fill.own THEN h.foreign ELSE h.foreign + 1
  <2>1. (IF fill.own THEN h.foreign ELSE h.foreign + 1) \in Nat
    BY <1>12
  <2> QED  BY <2>1
<1>17. PICK fs \in Nat : fs = h.fills + 1
  BY <1>12
<1>18. PICK g : g = [h EXCEPT !.fills = fs, !.foreign = fo, !.executed = ex, !.lost = lost]
  OBVIOUS
<1>19. history' = g /\ fills' = p
  BY <1>5, <1>6, <1>8, <1>9, <1>10, <1>13, <1>15, <1>16, <1>17, <1>18 DEF Deliver
<1>20. g \in History /\ g.executed = ex /\ g.lost = lost /\ g.cash = h.cash
  BY <1>18 DEF History
<1>21. \A s \in Symbols : Moved(fill, s) = IF s = sym THEN moved ELSE 0
  BY <1>8, <1>9 DEF Moved
<1>22. \A s \in Symbols : g.executed[s] = h.executed[s] + Moved(fill, s)
  BY <1>12, <1>13, <1>20, <1>21
<1>23. \/ p = Append(q, fill) /\ \A s \in Symbols : g.lost[s] = h.lost[s]
       \/ p = q /\ \A s \in Symbols : g.lost[s] = h.lost[s] + Moved(fill, s)
  <2>1. CASE up /\ Room(q)
    <3>1. p = Append(q, fill)
      BY <1>10, <2>1 DEF TrySend
    <3>2. \A s \in Symbols : g.lost[s] = h.lost[s]
      BY <1>12, <1>15, <1>20, <2>1
    <3> QED  BY <3>1, <3>2
  <2>2. CASE ~(up /\ Room(q))
    <3>1. p = q
      BY <1>10, <2>2 DEF TrySend
    <3>2. \A s \in Symbols : g.lost[s] = h.lost[s] + Moved(fill, s)
      BY <1>12, <1>15, <1>20, <1>21, <2>2
    <3> QED  BY <3>1, <3>2
  <2> QED  BY <2>1, <2>2
<1>24. LedgerOf(acct, g, p)
  BY <1>7, <1>20, <1>22, <1>23, LedgerDelivers
<1> QED  BY <1>4, <1>6, <1>11, <1>19, <1>20, <1>24, LedgerReadsAfter

\* An order is executed, in whole or in part ...
LEMMA ExecuteKeeps ==
  ASSUME Types, Ledger, NEW i \in 1..Len(working), NEW price \in Prices, NEW up \in Feed,
         NEW qty \in 1..working[i].left, Execute(i, qty, price, up)
  PROVE  Types' /\ Ledger'
<1>1. UNCHANGED <<learner, decisions, desk, intents, vetted, pending, samples, feedback>>
  BY DEF Execute
<1>2. PICK w \in Seq(AtWork) : w = working
  BY DEF Types
<1>3. PICK o \in AtWork : o = w[i]
  BY <1>2
<1>4. /\ o \in Order /\ o.side \in Sides /\ o.left \in Nat /\ o.left # 0 /\ o.size \in Nat
      /\ o.left <= o.size
  BY DEF AtWork, Order
<1>5. PICK left \in Nat : left = o.left - qty /\ left <= o.size /\ qty \in Nat \ {0}
  BY <1>2, <1>3, <1>4
<1>6. PICK ratio \in 0..100 : ratio = ((o.size - left) * 100) \div o.size
  <2>1. PICK size \in Nat \ {0} : size = o.size
    BY <1>4
  <2>2. PICK d \in Nat : d = size - left /\ d <= size
    BY <1>5, <2>1
  <2>3. PICK z, x \in Nat : z = d * 100 /\ x = 100 /\ z <= x * size
    BY <2>2
  <2>4. z \div size \in Nat /\ z \div size <= x
    BY <2>3, DivBound, Zenon
  <2>5. ((o.size - left) * 100) \div o.size = z \div size
    BY <2>1, <2>2, <2>3, Zenon
  <2>6. z \div size \in 0..100
    BY <2>3, <2>4
  <2> QED  BY <2>5, <2>6
<1>7. /\ history.fills + 1 \in Nat /\ Own \in Symbols /\ price \in Nat /\ Cost \in Nat
      /\ Expected \in Int /\ up \in BOOLEAN
  <2>1. history.fills \in Nat
    BY DEF Types, History
  <2> QED  BY <2>1, LoopAssumption
<1>8. PICK fill : fill = [id |-> history.fills + 1, own |-> TRUE, symbol |-> Own, side |-> o.side,
                          qty |-> qty, price |-> price, cost |-> Cost, slip |-> 0,
                          ratio |-> ratio, edge |-> Expected, flag |-> "None"]
  OBVIOUS
<1>9. fill \in Fill
  <2>1. "None" \in Flags /\ qty \in Nat /\ 0 \in Nat /\ TRUE \in BOOLEAN
    BY <1>5 DEF Flags
  <2> QED  BY <1>4, <1>6, <1>7, <1>8, <2>1 DEF Fill
<1>10. Deliver(fill, up)
  BY <1>2, <1>3, <1>5, <1>6, <1>8, Zenon DEF Execute
<1>11. working' = IF left = 0 THEN RemoveAt(w, i) ELSE [w EXCEPT ![i].left = left]
  BY <1>2, <1>3, <1>5 DEF Execute
<1>12. working' \in Seq(AtWork)
  <2>1. CASE left = 0
    BY <1>2, <1>11, <2>1, RemoveAtIs
  <2>2. CASE left # 0
    <3>1. PICK r : r = [o EXCEPT !.left = left]
      OBVIOUS
    <3>2. r \in Order /\ r.left = left /\ r.size = o.size
      BY <1>4, <3>1 DEF Order
    <3>3. r \in AtWork
      BY <1>5, <2>2, <3>2 DEF AtWork
    <3>4. working' = [w EXCEPT ![i] = r]
      BY <1>3, <1>11, <2>2, <3>1
    <3> QED  BY <1>2, <3>3, <3>4
  <2> QED  BY <2>1, <2>2
<1>13. /\ truths' \in Seq(Pending) /\ Len(truths') <= DropCap
       /\ fills' \in Seq(Fill) /\ Len(fills') <= DropCap
       /\ history' \in History
       /\ Ledger'
  BY <1>1, <1>7, <1>9, <1>10, DeliverKeeps
<1>14. Types'
  BY <1>1, <1>12, <1>13 DEF Types
<1> QED  BY <1>13, <1>14

\* ... or is given up ...
LEMMA GiveUpKeeps ==
  ASSUME Types, Ledger, NEW i \in 1..Len(working), GiveUp(i) PROVE Types' /\ Ledger'
<1>1. UNCHANGED <<learner, decisions, desk, intents, vetted, fills, truths, pending, samples,
                  feedback, history>>
  BY DEF GiveUp, measures
<1>2. PICK w \in Seq(AtWork) : w = working
  BY DEF Types
<1>3. working' = RemoveAt(w, i)
  BY <1>2 DEF GiveUp
<1>4. working' \in Seq(AtWork)
  BY <1>2, <1>3, RemoveAtIs
<1>5. Types'
  BY <1>1, <1>4 DEF Types
<1>6. Ledger'
  BY <1>1, LedgerStill
<1> QED  BY <1>5, <1>6

\* ... or fails, which is reported when there is room.
LEMMA FailKeeps ==
  ASSUME Types, Ledger, NEW i \in 1..Len(working), NEW failure \in Failures, Fail(i, failure)
  PROVE  Types' /\ Ledger'
<1>1. UNCHANGED <<learner, decisions, desk, intents, vetted, fills, truths, pending, samples>>
  BY DEF Fail, measures
<1>2. PICK w \in Seq(AtWork) : w = working
  BY DEF Types
<1>3. working' = RemoveAt(w, i)
  BY <1>2 DEF Fail
<1>4. working' \in Seq(AtWork)
  BY <1>2, <1>3, RemoveAtIs
<1>5. PICK q \in Seq(Failure) : q = feedback /\ Len(q) <= DropCap
  BY DEF Types
<1>6. failure \in Failure
  BY LoopAssumption
<1>7. feedback' = TrySend(q, failure)
  BY <1>5 DEF Fail
<1>8. feedback' \in Seq(Failure) /\ Len(feedback') <= DropCap
  BY <1>5, <1>6, <1>7, TrySendType
<1>9. PICK h \in History : h = history
  BY DEF Types
<1>10. h.failures + 1 \in Nat
  BY DEF History
<1>11. history' = [h EXCEPT !.failures = @ + 1]
  BY <1>9 DEF Fail
<1>12. history' \in History /\ history'.executed = h.executed /\ history'.lost = h.lost
       /\ history'.cash = h.cash
  BY <1>10, <1>11 DEF History
<1>13. Types'
  BY <1>1, <1>4, <1>8, <1>12 DEF Types
<1>14. Ledger'
  BY <1>1, <1>9, <1>12, LedgerStill
<1> QED  BY <1>13, <1>14

\* The feed brings the fill of somebody else's order.
LEMMA ForeignKeeps ==
  ASSUME Types, Ledger, NEW f \in Foreign, NEW price \in Prices, NEW up \in Feed,
         ForeignFill(f, price, up)
  PROVE  Types' /\ Ledger'
<1>1. UNCHANGED <<learner, decisions, desk, intents, vetted, working, pending, samples, feedback>>
  BY DEF ForeignFill
<1>2. /\ f.symbol \in Symbols /\ f.side \in Sides /\ f.qty \in Nat /\ f.slip \in Nat
      /\ f.ratio \in 0..100 /\ f.edge \in Int /\ f.flag \in Flags
  <2>1. f \in [symbol : Symbols, side : Sides, qty : Nat \ {0}, slip : Nat,
               ratio : 0..100, edge : Int, flag : Flags]
    BY LoopAssumption
  <2> QED  BY <2>1
<1>3. history.fills + 1 \in Nat /\ price \in Nat /\ Cost \in Nat /\ up \in BOOLEAN
  <2>1. history.fills \in Nat
    BY DEF Types, History
  <2> QED  BY <2>1, LoopAssumption
<1>4. PICK fill : fill = [id |-> history.fills + 1, own |-> FALSE, symbol |-> f.symbol,
                          side |-> f.side, qty |-> f.qty, price |-> price, cost |-> Cost,
                          slip |-> f.slip, ratio |-> f.ratio, edge |-> f.edge, flag |-> f.flag]
  OBVIOUS
<1>5. fill \in Fill
  <2>1. FALSE \in BOOLEAN
    OBVIOUS
  <2> QED  BY <1>2, <1>3, <1>4, <2>1 DEF Fill
<1>6. Deliver(fill, up)
  BY <1>4, Zenon DEF ForeignFill
<1>7. /\ truths' \in Seq(Pending) /\ Len(truths') <= DropCap
      /\ fills' \in Seq(Fill) /\ Len(fills') <= DropCap
      /\ history' \in History
      /\ Ledger'
  BY <1>1, <1>3, <1>5, <1>6, DeliverKeeps
<1>8. Types'
  BY <1>1, <1>7 DEF Types
<1> QED  BY <1>7, <1>8

\* A fill is taken for measurement ...
LEMMA TakeKeeps == ASSUME Types, Ledger, TakeFill PROVE Types' /\ Ledger'
<1>1. UNCHANGED <<learner, decisions, desk, intents, vetted, working, fills, samples, feedback, history>>
  BY DEF TakeFill, stages
<1>2. PICK q \in Seq(Pending) : q = truths /\ q # <<>> /\ Len(q) <= DropCap
  BY DEF Types, TakeFill
<1>3. Head(q) \in Pending /\ Tail(q) \in Seq(Pending) /\ Len(Tail(q)) <= DropCap
  <2>1. /\ Len(q) \in Nat \ {0} /\ Len(Tail(q)) = Len(q) - 1 /\ Tail(q) \in Seq(Pending)
        /\ Head(q) \in Pending
    BY <1>2, TailType
  <2> QED  BY <1>2, <2>1, LoopAssumption
<1>4. PICK p \in Seq(Pending) : p = pending
  BY DEF Types
<1>5. pending' = Append(p, Head(q)) /\ truths' = Tail(q)
  BY <1>2, <1>4 DEF TakeFill
<1>6. pending' \in Seq(Pending)
  BY <1>3, <1>5, AppendType
<1>7. Types'
  BY <1>1, <1>3, <1>5, <1>6 DEF Types
<1>8. Ledger'
  BY <1>1, LedgerStill
<1> QED  BY <1>7, <1>8

\* ... and measured, and no more samples are sent than there is room for.
LEMMA MeasureKeeps ==
  ASSUME Types, Ledger, NEW price \in Prices, NEW dt \in StepTicks, Measure(price, dt)
  PROVE  Types' /\ Ledger'
<1>1. UNCHANGED <<learner, decisions, desk, intents, vetted, working, fills, feedback, history>>
  BY DEF Measure, stages
<1>2. price \in Nat /\ dt \in Nat
  BY LoopAssumption
<1>3. PICK p, t \in Seq(Pending) : p = pending /\ t = truths /\ Len(t) <= DropCap
  BY DEF Types
<1>4. PICK s \in Seq(Sample) : s = samples /\ Len(s) <= DropCap /\ Len(s) \in Nat
  BY DEF Types
<1>5. PICK n \in 0..Len(p) : n = Ripe(p, dt)
  BY RipeType
<1>6. PICK sent \in 0..n : sent = Lesser(n, DropCap - Len(s)) /\ sent <= DropCap - Len(s)
  <2>1. DropCap \in Nat
    BY LoopAssumption
  <2>2. PICK room \in Nat : room = DropCap - Len(s)
    BY <1>4, <2>1
  <2>3. n \in Nat
    OBVIOUS
  <2>4. Lesser(n, room) \in 0..n /\ Lesser(n, room) <= room
    BY <2>3 DEF Lesser
  <2> QED  BY <2>2, <2>4
<1> DEFINE rest == [i \in 1..(Len(p) - n) |-> Note(p[n + i], price, dt)]
           new == [i \in 1..sent |-> SampleOf(Note(p[i], price, dt))]
           aged == [i \in 1..Len(t) |-> Older(t[i], dt)]
<1>7. pending' = rest /\ samples' = s \o new /\ truths' = aged
  BY <1>3, <1>4, <1>5, <1>6, Zenon DEF Measure
<1>8. rest \in Seq(Pending)
  <2>1. Len(p) - n \in Nat
    BY <1>5
  <2>2. ASSUME NEW i \in 1..(Len(p) - n) PROVE Note(p[n + i], price, dt) \in Pending
    <3>1. p[n + i] \in Pending
      BY <1>5
    <3> QED  BY <1>2, <3>1, NoteType
  <2> QED  BY <2>1, <2>2
<1>9. new \in Seq(Sample) /\ Len(new) = sent
  <2>1. sent \in Nat
    OBVIOUS
  <2>2. ASSUME NEW i \in 1..sent PROVE SampleOf(Note(p[i], price, dt)) \in Sample
    <3>1. p[i] \in Pending
      BY <1>5, <1>6
    <3> QED  BY <1>2, <3>1, NoteType, SampleType
  <2> QED  BY <2>1, <2>2
<1>10. aged \in Seq(Pending) /\ Len(aged) <= DropCap
  <2>1. ASSUME NEW i \in 1..Len(t) PROVE Older(t[i], dt) \in Pending
    BY <1>2, OlderType
  <2> QED  BY <1>3, <2>1
<1> HIDE DEF rest, new, aged
<1>11. s \o new \in Seq(Sample) /\ Len(s \o new) <= DropCap
  <2>1. Len(s \o new) = Len(s) + sent /\ s \o new \in Seq(Sample)
    BY <1>9, ConcatType, Zenon
  <2> QED  BY <1>4, <1>6, <2>1, LoopAssumption
<1>12. Types'
  BY <1>1, <1>7, <1>8, <1>10, <1>11 DEF Types
<1>13. Ledger'
  BY <1>1, LedgerStill
<1> QED  BY <1>12, <1>13

-----------------------------------------------------------------------------
(* The invariant holds *)

\* The loop starts with empty queues, and with nothing learnt, booked or lost.
LEMMA InitLedger == Init => Types /\ Ledger
<1> SUFFICES ASSUME Init PROVE Types /\ Ledger
  OBVIOUS
<1>1. PICK empty : empty = <<>>
  OBVIOUS
<1>2. Len(empty) = 0 /\ \A S : empty \in Seq(S)
  BY <1>1
<1>3. PICK e : e = NewEdge
  OBVIOUS
<1>4. e \in EdgeKept
  <2>1. e = [window |-> empty, streak |-> 0, failure |-> 0] /\ e.window = empty
    BY <1>1, <1>3 DEF NewEdge
  <2>2. e \in EdgeOK
    BY <1>2, <2>1 DEF EdgeOK
  <2>3. 0 <= Capacity
    BY EdgeAssumption
  <2> QED  BY <1>2, <2>1, <2>2, <2>3 DEF EdgeKept
<1>5. PICK v \in View : v = Snapshot(e)
  BY <1>4, EdgeFields, SnapshotType
<1>6. learner \in Learner
  <2>1. learner = [edge |-> e, view |-> v, losses |-> 0, threshold |-> 700,
                   disabled |-> FALSE, score |-> 50]
    BY <1>3, <1>5, Zenon DEF Init
  <2>2. 0 \in Nat /\ 700 \in 660..860 /\ FALSE \in BOOLEAN /\ 50 \in 0..100
    OBVIOUS
  <2> QED  BY <1>4, <2>1, <2>2 DEF Learner
<1>7. PICK a : a = NewAccount
  OBVIOUS
<1>8. /\ a.lots = [s \in Symbols |-> empty] /\ a.marks = [s \in Symbols |-> Unmarked]
      /\ a.realized = 0 /\ a.unrealized = 0
  BY <1>1, <1>7 DEF NewAccount
<1>9. a \in Account
  <2>1. a.lots \in [Symbols -> Seq(Lot)] /\ a.marks \in [Symbols -> Nat]
    BY <1>2, <1>8 DEF Unmarked
  <2>2. a = [lots |-> a.lots, marks |-> a.marks, realized |-> 0, unrealized |-> 0]
    BY <1>7 DEF NewAccount
  <2> QED  BY <2>1, <2>2 DEF Account
<1>10. PICK h : h = history
  OBVIOUS
<1>11. /\ h = [orders |-> 0, foreign |-> 0, failures |-> 0, fills |-> 0,
               executed |-> Zero, lost |-> Zero, cash |-> 0]
       /\ Zero \in [Symbols -> Int]
  BY <1>10 DEF Init, Zero
<1>12. h \in History /\ h.executed = Zero /\ h.lost = Zero /\ h.cash = 0
  BY <1>11 DEF History
<1>13. desk = [acct |-> a, price |-> 0, score |-> 0] /\ desk.acct = a
  BY <1>7 DEF Init
<1>14. Types
  <2>1. desk \in [acct : Account, price : Nat, score : 0..100]
    BY <1>9, <1>13
  <2>2. /\ decisions = empty /\ intents = empty /\ vetted = empty /\ working = empty
        /\ fills = empty /\ truths = empty /\ pending = empty /\ samples = empty
        /\ feedback = empty
    BY <1>1 DEF Init
  <2>3. 0 <= StageCap /\ 0 <= DropCap
    BY LoopAssumption
  <2> QED  BY <1>2, <1>6, <1>10, <1>12, <2>1, <2>2, <2>3 DEF Types
<1>15. OneSided(empty)
  BY <1>2 DEF OneSided
<1>16. OpenValue(empty) = 0 /\ NetOf(empty) = 0
  <2>1. PICK ls \in Seq(Lot) : ls = empty /\ Len(ls) = 0
    BY <1>2
  <2>2. /\ Values(ls) \in Seq(Int) /\ Len(Values(ls)) = 0 /\ OpenValue(ls) = Total(Values(ls))
        /\ Quantities(ls) \in Seq(Int) /\ Len(Quantities(ls)) = 0
    BY <2>1, LotSums
  <2> QED  BY <2>1, <2>2, TotalEmpty DEF NetOf
<1>17. TotalOver(Symbols, [s \in Symbols |-> OpenValue(a.lots[s])]) = 0
  <2>1. PICK f : f = [s \in Symbols |-> OpenValue(a.lots[s])]
    OBVIOUS
  <2>2. \A s \in Symbols : f[s] = 0
    BY <1>8, <1>16, <2>1
  <2>3. IsFiniteSet(Symbols)
    BY LoopAssumption
  <2>4. TotalOver(Symbols, f) = 0
    BY <2>2, <2>3, TotalOverZero
  <2> QED  BY <2>1, <2>4
<1>18. UnrealizedTotal(a.lots, a.marks) = 0
  <2>1. PICK f : f = [s \in Symbols |-> IF a.marks[s] = Unmarked THEN 0
                                        ELSE UnrealizedAt(a.lots[s], a.marks[s])]
    OBVIOUS
  <2>2. \A s \in Symbols : f[s] = 0
    BY <1>8, <2>1
  <2>3. IsFiniteSet(Symbols)
    BY LoopAssumption
  <2>4. TotalOver(Symbols, f) = 0
    BY <2>2, <2>3, TotalOverZero
  <2> QED  BY <2>1, <2>4 DEF UnrealizedTotal
<1>19. \A s \in Symbols : h.executed[s] = NetOf(a.lots[s]) + h.lost[s] + Way(empty, s)
  BY <1>1, <1>8, <1>12, <1>16, WayEmpty DEF Zero
<1>20. LedgerOf(a, h, empty)
  BY <1>8, <1>12, <1>15, <1>17, <1>18, <1>19 DEF LedgerOf
<1>21. fills = empty
  BY <1>1 DEF Init
<1>22. Ledger
  BY <1>10, <1>13, <1>20, <1>21, LedgerReads
<1> QED  BY <1>14, <1>22

\* A step keeps the types of all queues, and the promises of the ledger.
LEMMA NextLedger == Types /\ Ledger /\ [Next]_vars => Types' /\ Ledger'
<1> SUFFICES ASSUME Types, Ledger, [Next]_vars PROVE Types' /\ Ledger'
  OBVIOUS
<1>1. CASE Learn
  BY <1>1, LearnKeeps
<1>2. CASE LearnFailure
  BY <1>2, LearnFailureKeeps
<1>3. CASE \E f \in Frames : Decide(f)
  <2>1. PICK f \in Frames : Decide(f)
    BY <1>3
  <2> QED  BY <2>1, DecideKeeps
<1>4. CASE ApplyExternalFill
  BY <1>4, BookKeeps
<1>5. CASE DecidePosition
  BY <1>5, PositionKeeps
<1>6. CASE CheckRisk
  BY <1>6, RiskKeeps
<1>7. CASE \E j \in Judgements : JudgeMeta(j)
  <2>1. PICK j \in Judgements : JudgeMeta(j)
    BY <1>7
  <2> QED  BY <2>1, MetaKeeps
<1>8. CASE \E i \in 1..Len(working), price \in Prices, up \in Feed :
             \E qty \in 1..working[i].left : Execute(i, qty, price, up)
  <2>1. PICK i \in 1..Len(working), price \in Prices, up \in Feed :
          \E qty \in 1..working[i].left : Execute(i, qty, price, up)
    BY <1>8
  <2>2. PICK qty \in 1..working[i].left : Execute(i, qty, price, up)
    BY <2>1
  <2> QED  BY <2>2, ExecuteKeeps
<1>9. CASE \E i \in 1..Len(working) : GiveUp(i)
  <2>1. PICK i \in 1..Len(working) : GiveUp(i)
    BY <1>9
  <2> QED  BY <2>1, GiveUpKeeps
<1>10. CASE \E i \in 1..Len(working) : \E failure \in Failures : Fail(i, failure)
  <2>1. PICK i \in 1..Len(working), failure \in Failures : Fail(i, failure)
    BY <1>10
  <2> QED  BY <2>1, FailKeeps
<1>11. CASE \E f \in Foreign, price \in Prices, up \in Feed : ForeignFill(f, price, up)
  <2>1. PICK f \in Foreign, price \in Prices, up \in Feed : ForeignFill(f, price, up)
    BY <1>11
  <2> QED  BY <2>1, ForeignKeeps
<1>12. CASE TakeFill
  BY <1>12, TakeKeeps
<1>13. CASE \E price \in Prices, dt \in StepTicks : Measure(price, dt)
  <2>1. PICK price \in Prices, dt \in StepTicks : Measure(price, dt)
    BY <1>13
  <2> QED  BY <2>1, MeasureKeeps
<1>14. CASE UNCHANGED vars
  <2>1. UNCHANGED <<learner, decisions, desk, intents, vetted, working, fills, truths, pending,
                    samples, feedback, history>>
    BY <1>14 DEF vars, stages, measures
  <2>2. Types'
    BY <2>1 DEF Types
  <2>3. Ledger'
    BY <2>1, LedgerStill
  <2> QED  BY <2>2, <2>3
<1> QED
  BY <1>1, <1>2, <1>3, <1>4, <1>5, <1>6, <1>7, <1>8, <1>9, <1>10, <1>11, <1>12, <1>13, <1>14
  DEF Next

\* The invariant holds in every reachable state.
THEOREM LedgerAlwaysKept == Spec => [](Types /\ Ledger)
<1>1. Init => Types /\ Ledger
  BY InitLedger
<1>2. (Types /\ Ledger) /\ [Next]_vars => (Types /\ Ledger)'
  BY NextLedger
<1> QED  BY <1>1, <1>2, PTL DEF Spec

\* Every queue holds items of its kind and no more than its channel, whatever the
\* signals, the feed and the other producers bring: what update_learning,
\* apply_fill and the channels of pipeline.rs are given is what they expect.
THEOREM LoopTypesHold == Spec => []LoopTypeOK
<1>1. Types => LoopTypeOK
  <2> SUFFICES ASSUME Types PROVE LoopTypeOK
    OBVIOUS
  <2>1. learner.edge \in EdgeKept /\ learner \in Learner
    BY LearnerFields DEF Types
  <2>2. /\ learner \in [edge : EdgeOK, view : View, losses : Nat, threshold : 660..860,
                        disabled : BOOLEAN, score : 0..100]
        /\ Len(learner.edge.window) <= Capacity
    BY <2>1, EdgeFields DEF Learner, EdgeKept
  <2>3. Vetted \subseteq Intent /\ AtWork \subseteq Order
    BY DEF Vetted, AtWork
  <2>4. vetted \in Seq(Intent) /\ working \in Seq(Order)
    BY <2>3 DEF Types
  <2> QED  BY <2>2, <2>4 DEF Types, LoopTypeOK, EdgeOK
<1> QED  BY <1>1, LedgerAlwaysKept, PTL

\* A symbol is never long and short: apply_fill opens a lot only when no lot of the
\* other side is left.
THEOREM LotsStayOneSided == Spec => []LotsOneSided
<1>1. Ledger => LotsOneSided
  BY DEF Ledger
<1> QED  BY <1>1, LedgerAlwaysKept, PTL

\* Realised profit is the cash that moved plus what the open lots stand for, for
\* any number of lots matched in any parts, oldest or newest first.
THEOREM AccountsAlwaysBalance == Spec => []AccountsBalance
<1>1. Ledger => AccountsBalance
  BY DEF Ledger
<1> QED  BY <1>1, LedgerAlwaysKept, PTL

\* The unrealised profit is that of the open lots at their marks, although
\* apply_fill alone leaves that of one symbol.
THEOREM UnrealizedIsMarked == Spec => []UnrealizedMatchesMarks
<1>1. Ledger => UnrealizedMatchesMarks
  BY DEF Ledger
<1> QED  BY <1>1, LedgerAlwaysKept, PTL

\* Every unit executed is in the ledger, in the channel to it, or was dropped.
THEOREM EveryFillIsAccountedFor == Spec => []FillsAccountedFor
<1>1. Ledger => FillsAccountedFor
  BY DEF Ledger
<1> QED  BY <1>1, LedgerAlwaysKept, PTL
=============================================================================
