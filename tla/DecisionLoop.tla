---------------------------- MODULE DecisionLoop ----------------------------
(***************************************************************************)
(* The closed loop RTTS trades in: adaptive_engine.rs turns a frame and    *)
(* what was learnt into a decision, position.rs a decision and the ledger  *)
(* into an intent, risk.rs and meta_engine.rs let an intent through or     *)
(* drop it; the fills of what got through come back to the ledger and to   *)
(* execution_truth.rs, whose samples are what is learnt.                   *)
(*                                                                         *)
(* Every stage is a task of its own; between two stages lies a bounded     *)
(* channel (pipeline.rs).  Decisions and intents wait for room in it,      *)
(* fills, samples and feedback are dropped when there is none.  Orders     *)
(* that got through, the controllers that manage them and the exchange     *)
(* are seen from here as orders that are executed in parts or given up;    *)
(* a reduce-only order is executed like any other (paper trading).         *)
(* A frame is a member of a small set; the scores computed from the market *)
(* and the judgement of the meta engine on them are part of what is chosen *)
(* freely, the decisions taken on the scores are not.  Left out: metrics,  *)
(* and how much of a unit an order is scaled to.                           *)
(***************************************************************************)
EXTENDS Accounting, ExecutionTruth

CONSTANTS
  Own,              \* cfg.symbol, the only symbol RTTS trades
  Frames,           \* what the signal stages may hand to the decision engine
  Foreign,          \* fills of orders other producers posted
  Feed,             \* whether an update gets through: {TRUE}, or BOOLEAN for a feed that breaks
  Prices,           \* market prices
  Cost,             \* what a unit costs, fee less rebate
  Expected,         \* markout RTTS claims for its own orders; only positive ones are sent
  StepTicks,        \* how far the market clock may move from one update to the next
  Lags,             \* how far it may be past a fill's time stamp when the fill comes
  MaxEntries,       \* cfg.max_entries
  MaxQty,           \* the size the notional and trade-risk budgets admit
  MaxLosses,        \* cfg.max_consecutive_losses
  ForceExitStreak,  \* negative captures in a row that force an exit
  StageCap,         \* capacity of the channels that make the sender wait
  DropCap,          \* capacity of the channels that drop
  Judgements,       \* what the meta engine may make of an intent
  Failures,         \* what a controller may report of an order
  MaxOrders,        \* bound on the orders posted
  MaxForeign,       \* bound on the foreign fills
  MaxFailures       \* bound on the failures reported

Regimes == {"Normal", "HighVolatility", "TrendExpansion", "LowLiquidity", "NewsShock"}

\* `entry' is the direction entry scoring enters in, `strong' that flow and timing pass the
\* bounds of a first entry, `aligned' that order flow and book agree with the
\* direction in a liquid market, `jitter' the smaller changes of the raw score.
Frame == [price : Nat \ {0}, stale : BOOLEAN, entry : {"None", "Long", "Short"},
          direction : {"Long", "Short", "Flat"},
          timing : {"Optimal", "Neutral", "Wait", "Missed"},
          flow : {"Strong", "Weak", "Exhaustion", "ReversalRisk"},
          adverse : 0..100, score : 0..100, strong : BOOLEAN, aligned : BOOLEAN,
          regime : Regimes]

\* What the simulated scenarios and the recent results make of an intent: `toxic'
\* an unstable, wide, volatile or losing market, `ev' the adjusted expectation,
\* `crowding' near or over the competition threshold.
Judgement == [toxic : BOOLEAN, ev : {"Negative", "Weak", "Good"}, quality : BOOLEAN,
              crowding : {"Low", "Near", "Over"}, ranked : BOOLEAN, hurried : BOOLEAN]

\* The severity of the reason, and whether the edge had decayed.
Failure == [severity : FailureSeverity, decayed : BOOLEAN]

ASSUME LoopAssumption ==
  /\ IsFiniteSet(Symbols) /\ Own \in Symbols
  /\ Frames \subseteq Frame
  /\ Prices \subseteq Nat \ {0}
  /\ Foreign \subseteq [symbol : Symbols, side : Sides, qty : Nat \ {0}, slip : Nat,
                        ratio : 0..100, edge : Int, flag : Flags]
  /\ Feed \subseteq BOOLEAN /\ Judgements \subseteq Judgement /\ Failures \subseteq Failure
  /\ Cost \in Nat /\ Expected \in Nat \ {0}
  /\ StepTicks \subseteq Nat /\ Lags \subseteq Ages
  /\ MaxEntries \in Nat \ {0} /\ MaxQty \in Nat \ {0}
  /\ MaxLosses \in Nat \ {0} /\ ForceExitStreak \in Nat \ {0}
  /\ StageCap \in Nat \ {0} /\ DropCap \in Nat \ {0}
  /\ MaxOrders \in Nat /\ MaxForeign \in Nat /\ MaxFailures \in Nat

VARIABLES
  learner,      \* adaptive engine: edge statistics and their snapshot, losses in a row,
                \* learnt threshold, lock-out, last score
  decisions,    \* scored decisions on their way to the position module
  desk,         \* position module: the ledger, and price and score of the last decision
  intents,      \* order intents on their way to risk
  vetted,       \* intents that passed risk, on their way to the meta engine
  working,      \* RTTS's orders at the control-plane
  fills,        \* fills on their way to the position module
  truths,       \* fills on their way to the measurement
  pending,      \* fills being measured
  samples,      \* learning samples on their way to the adaptive engine
  feedback,     \* failures on their way to the adaptive engine
  history       \* what happened: counts, what was executed, what was lost

stages == <<decisions, desk, intents, vetted, working, fills>>
measures == <<truths, pending, samples>>
vars == <<learner, stages, measures, feedback, history>>

\* What of the engine's snapshot travels on with a decision.
Verdict == [state : EdgeStates, competition : Competitions, reliable : BOOLEAN, forced : BOOLEAN]
Actions == {"Ignore", "EnterSmall", "ScaleIn", "Exit"}
Decision == [action : Actions, direction : {"Long", "Short", "Flat"}, score : 0..100,
             confidence : 0..100, frame : Frames, verdict : Verdict]
Intent == [side : Sides, qty : Nat, reduce : BOOLEAN, stale : BOOLEAN, regime : Regimes,
           verdict : Verdict]
\* `sound' says that the meta engine found the order to pass all its thresholds.
Order == [side : Sides, left : Nat, size : Nat, verdict : Verdict, sound : BOOLEAN]
Fill == [id : Nat, own : BOOLEAN, symbol : Symbols, side : Sides, qty : Nat, price : Nat, cost : Nat,
         slip : Nat, ratio : 0..100, edge : Int, flag : Flags]

Halted(v) == v.state = "Invalid" \/ v.competition = "Saturated"

Zero == [s \in Symbols |-> 0]

Init ==
  /\ learner = [edge |-> NewEdge, view |-> Snapshot(NewEdge), losses |-> 0,
                threshold |-> 700, disabled |-> FALSE, score |-> 50]
  /\ desk = [acct |-> NewAccount, price |-> 0, score |-> 0]
  /\ decisions = <<>> /\ intents = <<>> /\ vetted = <<>> /\ working = <<>>
  /\ fills = <<>> /\ truths = <<>> /\ pending = <<>> /\ samples = <<>> /\ feedback = <<>>
  /\ history = [orders |-> 0, foreign |-> 0, failures |-> 0, fills |-> 0,
                executed |-> Zero, lost |-> Zero, cash |-> 0]

Room(queue) == Len(queue) < DropCap
\* A variant whose channel has no bound.
SendAlways(queue, item) == Append(queue, item)
\* try_send, the item dropped when the channel is full.
TrySend(queue, item) == IF Room(queue) THEN Append(queue, item) ELSE queue

-----------------------------------------------------------------------------
(* The adaptive engine: samples before feedback before frames *)

Lockout(l, s) ==
  IF l.losses >= MaxLosses \/ ~TradingEnabled(s) THEN TRUE
  ELSE IF s.state = "Valid" THEN FALSE
  ELSE l.disabled

\* What apply_sample learns, as far as decisions hang on it: a win lowers the
\* threshold a score must pass (per mille), a loss raises it.
Taught(l, sample) ==
  IF sample.pnl > 0
  THEN [l EXCEPT !.losses = 0, !.threshold = Greater(@ - 3, 660)]
  ELSE [l EXCEPT !.losses = @ + 1, !.threshold = Lesser(@ + 12, 860)]

\* Whoever asks for the snapshot gets the one of the latest observation.
Seeing(l, edge) == [l EXCEPT !.edge = edge, !.view = Snapshot(edge)]

Locked(l) == [l EXCEPT !.disabled = Lockout(l, l.view)]

Learn ==
  /\ samples # <<>>
  /\ LET sample == Head(samples)
     IN learner' = Locked(Seeing(Taught(learner, sample), Observe(learner.edge, sample)))
  /\ samples' = Tail(samples)
  /\ UNCHANGED <<stages, truths, pending, feedback, history>>

\* Decay of the edge locks out, whatever the statistics say.
LearnFailure ==
  /\ samples = <<>> /\ feedback # <<>>
  /\ learner' = [Seeing(learner, ObserveFailure(learner.edge, Head(feedback).severity))
                   EXCEPT !.disabled = @ \/ Head(feedback).decayed]
  /\ feedback' = Tail(feedback)
  /\ UNCHANGED <<stages, measures, history>>

VerdictOf(s) ==
  [state |-> s.state, competition |-> s.competition, reliable |-> s.reliability >= 55,
   forced |-> \/ s.streak >= ForceExitStreak \/ s.capture < -5
              \/ s.alpha < -100 \/ s.degradation > 85]

\* What spread, volatility and slippage add to the learnt threshold is left out.
Threshold(s) ==
  Clamp(learner.threshold
        + (IF s.state = "Uncertain" THEN 50 ELSE IF s.state = "Invalid" THEN 180 ELSE 0)
        + (IF s.competition = "Competitive" THEN 50
           ELSE IF s.competition = "Saturated" THEN 180 ELSE 0), 620, 940)

Confidence(f, s) ==
  LET degrade == (IF s.state = "Valid" THEN 100 ELSE IF s.state = "Uncertain" THEN 65 ELSE 0)
                 * (IF s.competition = "Normal" THEN 100
                    ELSE IF s.competition = "Competitive" THEN 75 ELSE 0)
  IN (((Abs(f.score - 50) * 2 * (100 - f.adverse)) \div 100) * degrade) \div 10000

\* The trigger engine's fast exit is never raised, see Signals.
ActionOn(f, s, previous, disabled) ==
  IF disabled \/ ~TradingEnabled(s) \/ f.stale THEN "Ignore"
  ELSE IF f.entry # "None" THEN "EnterSmall"
  ELSE IF \/ f.timing = "Missed"
          \/ f.flow \notin {"ReversalRisk", "Strong"} /\ f.timing # "Optimal" THEN "Ignore"
  ELSE IF \/ f.flow = "ReversalRisk" \/ f.adverse > 82
          \/ f.score < 38 \/ previous - f.score > 18 THEN "Exit"
  ELSE IF 10 * f.score > Threshold(s) /\ f.score > previous + 2 /\ Confidence(f, s) > 40 THEN "ScaleIn"
  ELSE IF 10 * f.score > Threshold(s) /\ Confidence(f, s) > 35 THEN "EnterSmall"
  ELSE "Ignore"

\* An entry by the reversal context lifts score and confidence.
DecisionOn(f, s) ==
  LET entering == f.entry # "None"
  IN [action |-> ActionOn(f, s, learner.score, learner.disabled),
      direction |-> IF entering THEN f.entry ELSE f.direction,
      score |-> IF entering THEN Clamp(f.score + 10, 0, 100) ELSE f.score,
      confidence |-> IF entering THEN Greater(Confidence(f, s), 68) ELSE Confidence(f, s),
      frame |-> f, verdict |-> VerdictOf(s)]

Decide(f) ==
  /\ samples = <<>> /\ feedback = <<>>
  /\ Len(decisions) < StageCap
  /\ LET d == DecisionOn(f, learner.view)
     IN /\ decisions' = Append(decisions, d)
        /\ learner' = [learner EXCEPT !.score = d.score]
  /\ UNCHANGED <<desk, intents, vetted, working, fills, measures, feedback, history>>

-----------------------------------------------------------------------------
(* The position module: fills before decisions *)

\* The mark is the last price decided on or the fill's, the higher of the two,
\* whatever the symbol of the fill.
Booked(acct, fill, price) ==
  MarkToMarket(ApplyFill(acct, fill), fill.symbol, Greater(price, fill.price))

ApplyExternalFill ==
  /\ fills # <<>>
  /\ LET fill == Head(fills)
     IN /\ desk' = [desk EXCEPT !.acct = Booked(@, fill, desk.price)]
        /\ history' = [history EXCEPT
             !.cash = @ - Signed(fill.side, fill.price * fill.qty) - fill.cost * fill.qty]
  /\ fills' = Tail(fills)
  /\ UNCHANGED <<learner, decisions, intents, vetted, working, measures, feedback>>

ForcedExit(d, open) == open /\ (Halted(d.verdict) \/ d.verdict.forced)

AllowMicroEntry(d) ==
  /\ ~Halted(d.verdict)
  /\ d.frame.flow \in {"Strong", "Weak"} /\ d.frame.timing \in {"Optimal", "Neutral"}
  /\ d.frame.strong

CanScale(d, exposure, side) ==
  /\ Signed(side, exposure.net) > 0
  /\ exposure.entries < MaxEntries
  /\ d.score > desk.score /\ d.confidence > 45
  /\ d.frame.flow = "Strong" /\ d.frame.timing # "Missed"
  /\ d.frame.aligned
  /\ exposure.unrealized >= 0
  /\ d.frame.adverse < 55 /\ d.frame.regime # "NewsShock"

\* Half the position, but no less than a unit; all of it in an adverse market.
ReduceQty(d, size) ==
  IF d.frame.adverse > 80 THEN size ELSE Greater(size \div 2, Lesser(size, 1))

IntentWith(d, side, qty, reduce) ==
  [side |-> side, qty |-> qty, reduce |-> reduce, stale |-> d.frame.stale,
   regime |-> d.frame.regime, verdict |-> d.verdict]

\* The intent a decision leads to, if any.  Orders at work are not looked at.
DecideOrder(d, acct) ==
  LET exposure == PositionExposure(acct, Own)
      open == exposure.net # 0
      leave == IF exposure.net > 0 THEN "Sell" ELSE "Buy"
      size == Abs(exposure.net)
      enter == IF d.direction = "Long" THEN "Buy" ELSE "Sell"
  IN IF ForcedExit(d, open) THEN <<IntentWith(d, leave, size, TRUE)>>
     ELSE IF d.action = "Exit" /\ open THEN <<IntentWith(d, leave, ReduceQty(d, size), TRUE)>>
     ELSE IF /\ d.direction # "Flat"
             /\ \/ d.action = "EnterSmall" /\ ~open /\ AllowMicroEntry(d)
                \/ d.action \in {"EnterSmall", "ScaleIn"} /\ CanScale(d, exposure, enter)
          THEN <<IntentWith(d, enter, 1, FALSE)>>
     ELSE <<>>

DecidePosition ==
  /\ fills = <<>> /\ decisions # <<>>
  /\ Len(intents) < StageCap
  /\ LET d == Head(decisions)
         acct == MarkToMarket(desk.acct, Own, d.frame.price)
     IN /\ desk' = [acct |-> acct, price |-> d.frame.price, score |-> d.score]
        /\ intents' = intents \o DecideOrder(d, acct)
  /\ decisions' = Tail(decisions)
  /\ UNCHANGED <<learner, vetted, working, fills, measures, feedback, history>>

-----------------------------------------------------------------------------
(* Risk and the meta engine *)

\* The drawdown check compares with a profit that is never booked, and slippage
\* is checked against a budget derived from it: neither ever rejects.
Validates(i) == i.qty > 0 /\ i.qty <= MaxQty /\ ~i.stale

CheckRisk ==
  /\ intents # <<>>
  /\ Len(vetted) < StageCap
  /\ vetted' = IF Validates(Head(intents)) THEN Append(vetted, Head(intents)) ELSE vetted
  /\ intents' = Tail(intents)
  /\ UNCHANGED <<learner, decisions, desk, working, fills, measures, feedback, history>>

\* A variant that judges the market first and forgets the edge.
EvaluateMarket(i, j) ==
  IF i.regime = "NewsShock" \/ j.toxic \/ j.ev # "Good" THEN "Skip" ELSE "Execute"
Evaluate(i, j) ==
  IF \/ Halted(i.verdict)
     \/ i.regime = "NewsShock"
     \/ i.regime = "LowLiquidity" /\ ~i.reduce
     \/ j.toxic THEN "Skip"
  ELSE IF \/ i.verdict.state = "Uncertain" /\ ~i.verdict.reliable
          \/ i.verdict.competition = "Competitive" /\ j.crowding # "Low" THEN "Wait"
  ELSE IF j.ev # "Good" \/ ~j.quality \/ j.crowding = "Over" THEN "Skip"
  ELSE IF ~j.ranked \/ ~j.hurried THEN "Wait"
  ELSE "Execute"

\* Waiting ends in a second look at the same intent, against the first: only an
\* expectation below zero has then become worse.
FinalDecision(i, j) ==
  IF Evaluate(i, j) # "Wait" THEN Evaluate(i, j)
  ELSE IF j.ev = "Negative" THEN "Skip" ELSE "Execute"

Sound(j) == j.ev = "Good" /\ j.quality /\ j.crowding # "Over"

JudgeMeta(j) ==
  /\ vetted # <<>>
  /\ LET i == Head(vetted)
     IN IF FinalDecision(i, j) = "Execute"
        THEN /\ history.orders < MaxOrders
             /\ working' = Append(working, [side |-> i.side, left |-> i.qty, size |-> i.qty,
                                            verdict |-> i.verdict, sound |-> Sound(j)])
             /\ history' = [history EXCEPT !.orders = @ + 1]
        ELSE UNCHANGED <<working, history>>
  /\ vetted' = Tail(vetted)
  /\ UNCHANGED <<learner, decisions, desk, intents, fills, measures, feedback>>

-----------------------------------------------------------------------------
(* Orders at work, and the updates of the control-plane *)

\* One update feeds the measurement and the position module; each drops it when
\* its channel is full, and neither sees it while the feed is down.  A fill keeps
\* the exchange's time stamp, and may come after one that is younger.
Deliver(fill, up) ==
  LET booked == up /\ Room(fills)
      moved == Signed(fill.side, fill.qty)
  IN /\ \E lag \in Lags : truths' = IF up THEN TrySend(truths, Fresh(fill, lag)) ELSE truths
     /\ fills' = IF up THEN TrySend(fills, fill) ELSE fills
     /\ history' = [history EXCEPT
          !.fills = @ + 1,
          !.foreign = IF fill.own THEN @ ELSE @ + 1,
          !.executed[fill.symbol] = @ + moved,
          !.lost[fill.symbol] = IF booked THEN @ ELSE @ + moved]

Execute(i, qty, price, up) ==
  LET order == working[i]
      left == order.left - qty
  IN /\ qty <= order.left
     /\ working' = IF left = 0 THEN RemoveAt(working, i) ELSE [working EXCEPT ![i].left = left]
     /\ Deliver([id |-> history.fills + 1, own |-> TRUE, symbol |-> Own, side |-> order.side,
                 qty |-> qty, price |-> price, cost |-> Cost, slip |-> 0,
                 ratio |-> ((order.size - left) * 100) \div order.size,
                 edge |-> Expected, flag |-> "None"], up)
     /\ UNCHANGED <<learner, decisions, desk, intents, vetted, pending, samples, feedback>>

\* The order ends before it is filled.
GiveUp(i) ==
  /\ working' = RemoveAt(working, i)
  /\ UNCHANGED <<learner, decisions, desk, intents, vetted, fills, measures, feedback, history>>

\* The update that cancels an order ends it, and makes its controller report that it
\* failed, if there is room for the report.  What the exchange still fills of an
\* order when it is canceled is taken to be announced before that.
Fail(i, failure) ==
  /\ history.failures < MaxFailures
  /\ history' = [history EXCEPT !.failures = @ + 1]
  /\ working' = RemoveAt(working, i)
  /\ feedback' = TrySend(feedback, failure)
  /\ UNCHANGED <<learner, decisions, desk, intents, vetted, fills, measures>>

\* The feed brings the fills of everybody's orders, whatever their symbol.
ForeignFill(f, price, up) ==
  /\ history.foreign < MaxForeign
  /\ Deliver([id |-> history.fills + 1, own |-> FALSE, symbol |-> f.symbol, side |-> f.side,
              qty |-> f.qty, price |-> price, cost |-> Cost, slip |-> f.slip,
              ratio |-> f.ratio, edge |-> f.edge, flag |-> f.flag], up)
  /\ UNCHANGED <<learner, decisions, desk, intents, vetted, working, pending, samples, feedback>>

-----------------------------------------------------------------------------
(* The measurement of fills *)

TakeFill ==
  /\ truths # <<>>
  /\ pending' = Append(pending, Head(truths))
  /\ truths' = Tail(truths)
  /\ UNCHANGED <<learner, stages, samples, feedback, history>>

\* A market update of the own symbol is taken for the price of every fill.
Measure(price, dt) ==
  LET n == Ripe(pending, dt)
      sent == Lesser(n, DropCap - Len(samples))
  IN /\ pending' = [i \in 1..(Len(pending) - n) |-> Note(pending[n + i], price, dt)]
     /\ samples' = samples \o [i \in 1..sent |-> SampleOf(Note(pending[i], price, dt))]
     /\ truths' = [i \in 1..Len(truths) |-> Older(truths[i], dt)]
     /\ UNCHANGED <<learner, stages, feedback, history>>

-----------------------------------------------------------------------------
(* The specification *)

Next ==
  \/ Learn \/ LearnFailure
  \/ \E f \in Frames : Decide(f)
  \/ ApplyExternalFill \/ DecidePosition
  \/ CheckRisk
  \/ \E j \in Judgements : JudgeMeta(j)
  \/ \E i \in 1..Len(working), price \in Prices, up \in Feed :
       \E qty \in 1..working[i].left : Execute(i, qty, price, up)
  \/ \E i \in 1..Len(working) : GiveUp(i) \/ \E failure \in Failures : Fail(i, failure)
  \/ \E f \in Foreign, price \in Prices, up \in Feed : ForeignFill(f, price, up)
  \/ TakeFill
  \/ \E price \in Prices, dt \in StepTicks : Measure(price, dt)

\* Tasks whose channel is not empty run, and the market moves on.
Fairness ==
  /\ WF_vars(TakeFill)
  /\ WF_vars(\E price \in Prices, dt \in StepTicks \ {0} : Measure(price, dt))

Spec == Init /\ [][Next]_vars /\ Fairness

=============================================================================
