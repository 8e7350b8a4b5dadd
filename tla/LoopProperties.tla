--------------------------- MODULE LoopProperties ---------------------------
(***************************************************************************)
(* What the decision loop promises: the ledger keeps every cent, the       *)
(* statistics are what their names say, and what the verdict of the edge   *)
(* permits and prevents, over several turns of the loop.                   *)
(***************************************************************************)
EXTENDS DecisionLoop

\* Every queue holds items of its kind and no more than its channel, and the
\* ledger, the engine and the position module keep values of their types.
LoopTypeOK ==
  /\ learner \in [edge : [window : Seq(Sample), streak : Nat, failure : 0..100],
                  view : View, losses : Nat, threshold : 660..860, disabled : BOOLEAN, score : 0..100]
  /\ Len(learner.edge.window) <= Capacity
  /\ desk \in [acct : Account, price : Nat, score : 0..100]
  /\ decisions \in Seq(Decision) /\ Len(decisions) <= StageCap
  /\ intents \in Seq(Intent) /\ Len(intents) <= StageCap
  /\ vetted \in Seq(Intent) /\ Len(vetted) <= StageCap
  /\ working \in Seq(Order)
  /\ fills \in Seq(Fill) /\ Len(fills) <= DropCap
  /\ truths \in Seq(Pending) /\ Len(truths) <= DropCap
  /\ pending \in Seq(Pending)
  /\ samples \in Seq(Sample) /\ Len(samples) <= DropCap
  /\ feedback \in Seq(Failure) /\ Len(feedback) <= DropCap

-----------------------------------------------------------------------------
(* The ledger *)

\* What a symbol's open lots were bought for, or sold for, costs included.
OpenValue(lots) ==
  Total([i \in 1..Len(lots) |->
    Signed(lots[i].side, lots[i].entry * lots[i].left) + lots[i].cost * lots[i].left])

\* The ledger neither makes nor loses money: what it has realised is the cash that
\* moved with the fills it booked plus what its open lots stand for, whichever
\* lots apply_fill matched in parts and however the costs were spread over them.
AccountsBalance ==
  desk.acct.realized =
    history.cash + TotalOver(Symbols, [s \in Symbols |-> OpenValue(desk.acct.lots[s])])

\* The lots of a symbol are all on one side: apply_fill opens a lot only with what
\* the opposite lots did not absorb, so that the position is never long and short.
LotsOneSided ==
  \A s \in Symbols : \A i, j \in 1..Len(desk.acct.lots[s]) :
    desk.acct.lots[s][i].side = desk.acct.lots[s][j].side

\* The unrealised profit of the ledger is that of its open lots at the marks it
\* keeps.  ApplyFill alone leaves the value of one symbol there; the position
\* module marks the ledger after every fill, and that puts it right.
UnrealizedMatchesMarks == desk.acct.unrealized = UnrealizedTotal(desk.acct.lots, desk.acct.marks)

\* What was executed in a symbol is in the ledger, on its way to it, or was lost
\* where the external source drops updates; the position module books each once.
OnTheWay(s) ==
  Total([i \in 1..Len(fills) |->
    IF fills[i].symbol = s THEN Signed(fills[i].side, fills[i].qty) ELSE 0])
FillsAccountedFor ==
  \A s \in Symbols :
    history.executed[s] = NetQuantity(desk.acct, s) + history.lost[s] + OnTheWay(s)

-----------------------------------------------------------------------------
(* The statistics *)

\* The share of the values at or below v, in hundredths.
Share(xs, v) == (Cardinality({i \in DOMAIN xs : xs[i] <= v}) * 100) \div Len(xs)

\* ks_statistic's sweep with two pointers finds the greatest distance between the
\* two empirical distributions, as far as both samples reach, ties included.
KSAgrees ==
  LET es == Each(learner.edge.window, LAMBDA s : s.edge)
      rs == Each(learner.edge.window, LAMBDA s : s.markout)
      gaps == {Abs(Share(es, v) - Share(rs, v)) : v \in ToSet(es) \cup ToSet(rs)}
  IN KsStatistic(es, rs) = Max(gaps \cup {0})

-----------------------------------------------------------------------------
(* What the verdict of the edge permits *)

\* No order is posted before somebody else's order was filled and the engine has
\* learnt from the measurement of a fill: it starts without samples, takes their
\* mean fill ratio of zero for a saturated market, and every stage lets saturation
\* halt it.  A foreign fill that was booked but not measured, as when the channel
\* to the measurement is full or the feed is down, is not evidence.
EvidenceBeforeTrading ==
  history.orders > 0 => history.foreign > 0 /\ learner.edge.window # <<>>

\* README.md:329, "`UNCERTAIN`: trading degraded with smaller size and tighter
\* thresholds": an order posted on an uncertain edge has passed the thresholds of
\* the meta engine on expectation, quality and competition.
UncertainMeetsThresholds ==
  \A i \in 1..Len(working) : working[i].verdict.state = "Uncertain" => working[i].sound

HaltedQueue(queue) == \A i \in 1..Len(queue) : Halted(queue[i].verdict)

\* The edge is halted, no order is at work, and none under way was decided before.
Quiet ==
  /\ ~TradingEnabled(learner.view)
  /\ feedback = <<>> /\ working = <<>>
  /\ HaltedQueue(decisions) /\ HaltedQueue(intents) /\ HaltedQueue(vetted)

\* Nor is there a fill left to book, to measure or to learn from.
Stuck ==
  /\ Quiet
  /\ fills = <<>> /\ truths = <<>> /\ pending = <<>> /\ samples = <<>>

\* Once the edge is halted and the last fill is measured, nothing RTTS does itself
\* ends the halt or touches a position: the forced exits of position.rs carry the
\* halted verdict, and the meta engine skips them like every other intent.
HaltIsFinal ==
  [][Stuck /\ history'.foreign = history.foreign
     => Stuck' /\ desk'.acct.lots = desk.acct.lots]_vars

-----------------------------------------------------------------------------
(* Progress *)

\* When the fills stop, every one that reached the measurement is measured, also
\* one whose last price was noted while an unripe fill at the head of the queue held
\* it up: update_pending looks at the whole queue at every price, and releases all
\* that is ripe at the head, whenever it became so.
FillsAreMeasured == <>[](truths = <<>> /\ pending = <<>>)

=============================================================================
