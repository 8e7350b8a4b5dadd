--------------------------- MODULE EdgeValidation ---------------------------
(***************************************************************************)
(* The statistics RTTS judges its edge by (accounting/edge_validation.rs)  *)
(* over the window of the latest learning samples.  Numbers are integers   *)
(* in hundredths where the code has floating point; roots and quotients    *)
(* are rounded toward zero.  The parallel deques of the code are one       *)
(* sequence of records here: each observation pushes onto all of them.     *)
(* Left out: the memory kept per market regime and the components of the   *)
(* profit, which only scale the size of orders and fill the metrics.       *)
(***************************************************************************)
EXTENDS Integers, SequencesExt, Sums

CONSTANTS
  Capacity,         \* length of the window (DEFAULT_WINDOW)
  MinSamples,       \* samples wanted before the edge is judged (MIN_VALIDATION_SAMPLES)
  InvalidStreak,    \* negative captures in a row that end trading
  CrowdedStreak     \* negative captures in a row that count as a crowded market

ASSUME EdgeAssumption ==
  /\ Capacity \in Nat \ {0}
  /\ MinSamples \in 1..Capacity
  /\ InvalidStreak \in Nat \ {0}
  /\ CrowdedStreak \in Nat \ {0}

Sample == [edge : Int, markout : Int, pnl : Int, alpha : Int, ratio : 0..100,
           slip : Int, outbid : {0, 100}, adverse : Nat, loss : Nat]

EdgeStates == {"Valid", "Uncertain", "Invalid"}
Competitions == {"Normal", "Competitive", "Saturated"}

\* The engine: `failure' is the moving average of what orders failed of.
NewEdge == [window |-> <<>>, streak |-> 0, failure |-> 0]

-----------------------------------------------------------------------------
(* Arithmetic *)

Abs(x) == IF x < 0 THEN -x ELSE x
Clamp(x, low, high) == IF x < low THEN low ELSE IF x > high THEN high ELSE x
Quotient(a, b) == IF a < 0 THEN -((-a) \div b) ELSE a \div b
\* The square root: twice that of a quarter, or one more.
Root(x) ==
  LET root[y \in 0..x] ==
        IF y = 0 THEN 0
        ELSE LET r == 2 * root[y \div 4] IN IF (r + 1) * (r + 1) <= y THEN r + 1 ELSE r
  IN root[x]
Ewma(old, new, alpha) == ((100 - alpha) * old + alpha * new) \div 100

Each(window, Value(_)) == [i \in 1..Len(window) |-> Value(window[i])]

\* A variant in which no evidence at all reads as the best there is.
MeanOrFull(xs) == IF xs = <<>> THEN 100 ELSE Quotient(Total(xs), Len(xs))
Mean(xs) == IF xs = <<>> THEN 0 ELSE Quotient(Total(xs), Len(xs))

\* The second and the third power of the distances from the mean, summed up.
Squares(xs, mean) == Total([i \in 1..Len(xs) |-> (xs[i] - mean) * (xs[i] - mean)])
Cubes(xs, mean) == Total([i \in 1..Len(xs) |-> (xs[i] - mean) * (xs[i] - mean) * (xs[i] - mean)])
Variance(xs, mean) == IF Len(xs) > 1 THEN Squares(xs, mean) \div (Len(xs) - 1) ELSE 0
Skew(xs, mean, sd) ==
  IF sd = 0 THEN 0 ELSE Quotient(Quotient(Cubes(xs, mean), Len(xs)) * 100, sd * sd * sd)

Widened(xs, mean, variance, sd) ==
  [mean |-> mean, variance |-> variance, sd |-> sd, skew |-> Skew(xs, mean, sd)]
Centred(xs, mean) == Widened(xs, mean, Variance(xs, mean), Root(Variance(xs, mean)))
Moments(xs) == Centred(xs, Mean(xs))

\* What follows from the moments m of n samples.  Ten standard errors stand for
\* a sample that does not vary.
TStatistic(n, m) ==
  IF n < 2 THEN 0
  ELSE IF m.sd = 0 THEN (IF m.mean > 0 THEN 1000 ELSE IF m.mean < 0 THEN -1000 ELSE 0)
  ELSE Quotient(m.mean * Root(n * 10000), m.sd)

ConfidenceLow(n, m) == IF n = 0 THEN 0 ELSE m.mean - (196 * m.sd) \div Root(n * 10000)

SharpeLike(m) == IF m.sd = 0 THEN 0 ELSE Quotient(m.mean * 100, m.sd)

\* Whether the coefficient of variation is below one.
Steady(m) == m.mean # 0 /\ m.sd < Abs(m.mean)

-----------------------------------------------------------------------------
(* The Kolmogorov-Smirnov statistic: two pointers over the sorted samples *)

\* How many of the values are at or below v.
AtMost(xs, v) == Cardinality({i \in 1..Len(xs) : xs[i] <= v})

\* The k-th of the sorted values: fewer than k are below it, and k or more are not above.
Sorted(xs) ==
  [k \in 1..Len(xs) |->
     CHOOSE v \in ToSet(xs) : Cardinality({i \in 1..Len(xs) : xs[i] < v}) < k /\ k <= AtMost(xs, v)]

\* First place from i on whose value is above v.
Past(xs, i, v) == i + Cardinality({k \in (i + 1)..Len(xs) : xs[k] <= v})

\* A variant that moves one pointer only when the heads are equal.
AdvanceOne(p, es, rs) ==
  IF es[p.i + 1] <= rs[p.j + 1] THEN [p EXCEPT !.i = Past(es, p.i, es[p.i + 1])]
  ELSE [p EXCEPT !.j = Past(rs, p.j, rs[p.j + 1])]
Advance(p, es, rs) ==
  LET v == IF es[p.i + 1] <= rs[p.j + 1] THEN es[p.i + 1] ELSE rs[p.j + 1]
  IN [p EXCEPT !.i = Past(es, p.i, v), !.j = Past(rs, p.j, v)]

\* One turn of the sweep: both pointers pass the lesser head, and the gap is taken.
Sweep(p, es, rs) ==
  IF p.i = Len(es) \/ p.j = Len(rs) THEN p
  ELSE LET q == Advance(p, es, rs)
           gap == Abs((q.i * 100) \div Len(es) - (q.j * 100) \div Len(rs))
       IN [q EXCEPT !.max = IF gap > @ THEN gap ELSE @]

KsStatistic(expected, realized) ==
  LET es == Sorted(expected)
      rs == Sorted(realized)
      after[n \in 0..(Len(es) + Len(rs))] ==
        IF n = 0 THEN [i |-> 0, j |-> 0, max |-> 0] ELSE Sweep(after[n - 1], es, rs)
  IN after[Len(es) + Len(rs)].max

-----------------------------------------------------------------------------
(* Competition, reliability, and what the window says *)

\* A favourable slippage costs nothing.
Paid(s) == IF s.slip > 0 THEN s.slip ELSE 0

CompetitionScore(window) ==
  LET edges == Each(window, LAMBDA s : s.edge)
      ratio == Mean(Each(window, LAMBDA s : s.ratio))
      slip == Mean(Each(window, Paid))
      scale == IF Steady(Moments(edges)) THEN 12 ELSE 20
  IN Clamp((25 * Clamp(Mean(edges) \div 4, 0, 100)
            + 30 * Clamp(100 - ratio, 0, 100)
            + 25 * Clamp(Mean(Each(window, LAMBDA s : s.outbid)), 0, 100)
            + 20 * Clamp(slip \div scale, 0, 100)) \div 100, 0, 100)

\* With no sample the mean fill ratio is zero, so that the market counts as crowded.
ClassifyCompetition(score, fillMean, streak) ==
  IF score >= 75 \/ fillMean < 35 \/ streak >= CrowdedStreak THEN "Saturated"
  ELSE IF score >= 45 \/ fillMean < 60 THEN "Competitive"
  ELSE "Normal"

Reliability(m, sharpe, capture, competition, failure) ==
  LET raw == (40 * (100 - Clamp(Abs(m.mean) \div 10, 0, 100))
              + 18 * (100 - Clamp(m.variance \div 2500, 0, 100))
              + 7 * (100 - Clamp(Abs(m.skew) \div 4, 0, 100))
              + 20 * Clamp((sharpe + 100) \div 3, 0, 100)
              + 10 * Clamp(((capture + 50) * 2) \div 3, 0, 100)
              - 15 * Clamp(competition, 0, 100)) \div 100
  IN Clamp((raw * (100 - (Clamp(failure, 0, 95) * 35) \div 100)) \div 100, 0, 100)

ClassifyState(count, t, ks, error, low, capture, streak, reliability) ==
  IF count < MinSamples THEN "Uncertain"
  ELSE IF \/ streak >= InvalidStreak
          \/ capture < -10
          \/ low < 0 /\ t < 0
          \/ ks > 72 /\ capture < 5 /\ reliability < 50 /\ Abs(error) > 25
          \/ reliability < 28
  THEN "Invalid"
  ELSE IF /\ t > 130
          /\ low > 0
          /\ ks < 45 \/ (capture > 75 /\ Abs(error) < 25 /\ reliability > 75)
          /\ capture > 15
          /\ reliability > 55
  THEN "Valid"
  ELSE "Uncertain"

\* A profit below the noise floor of its expectation captures nothing.
Capture(s) == IF s.edge = 0 THEN 0 ELSE Clamp(Quotient(s.pnl * 100, Abs(s.edge)) *
                                              (IF s.edge < 0 THEN -1 ELSE 1), -500, 500)

StateOf(e, capture, reliability) ==
  LET count == Len(e.window)
      pnls == Moments(Each(e.window, LAMBDA s : s.pnl))
      edges == Each(e.window, LAMBDA s : s.edge)
      markouts == Each(e.window, LAMBDA s : s.markout)
      errors == Each(e.window, LAMBDA s : s.edge - s.markout)
  IN ClassifyState(count, TStatistic(count, pnls), KsStatistic(edges, markouts), Mean(errors),
                   ConfidenceLow(count, pnls), capture, e.streak, reliability)

ReliabilityOf(e, capture, alpha, score) ==
  LET errors == Moments(Each(e.window, LAMBDA s : s.edge - s.markout))
      returns == Moments(Each(e.window, LAMBDA s : s.pnl - Abs(s.slip) \div 5))
  IN Reliability(errors, SharpeLike(returns), capture + (15 * Clamp(alpha, -100, 100)) \div 100,
                 score, e.failure)

Degradation(adverse, loss) == adverse + (IF loss > 100 THEN 25 ELSE loss \div 4)

Summary(e, capture, alpha, score, reliability) ==
  LET w == e.window
  IN [state |-> StateOf(e, capture, reliability),
      competition |-> ClassifyCompetition(score, Mean(Each(w, LAMBDA s : s.ratio)), e.streak),
      reliability |-> reliability, capture |-> capture, alpha |-> alpha, streak |-> e.streak,
      degradation |-> Degradation(Mean(Each(w, LAMBDA s : s.adverse)),
                                  Mean(Each(w, LAMBDA s : s.loss)))]

Scored(e, capture, alpha, score) ==
  Summary(e, capture, alpha, score, ReliabilityOf(e, capture, alpha, score))

\* What the decision engine and the stages behind it read of the engine.
Snapshot(e) ==
  LET w == e.window
  IN Scored(e, Mean(Each(w, Capture)), Mean(Each(w, LAMBDA s : s.alpha)), CompetitionScore(w))

View == [state : EdgeStates, competition : Competitions, reliability : 0..100, capture : Int,
         alpha : Int, streak : Nat, degradation : Nat]

\* Neither of the two verdicts that halt trading.
TradingEnabled(snapshot) == snapshot.state # "Invalid" /\ snapshot.competition # "Saturated"

Observe(e, s) ==
  [e EXCEPT !.window = IF Len(@) = Capacity THEN Append(Tail(@), s) ELSE Append(@, s),
            !.streak = IF Capture(s) < -5 THEN @ + 1 ELSE IF @ = 0 THEN 0 ELSE @ - 1]

\* QueueTooDeep, Outbid, LatencyTooHigh, CompetitionSpike, LiquidityPull, NoFillTimeout
FailureSeverity == {35, 55, 65, 80, 70, 75}
ObserveFailure(e, severity) == [e EXCEPT !.failure = Ewma(@, severity, 18)]

=============================================================================
