------------------------------- MODULE Signals -------------------------------
(***************************************************************************)
(* The stages that turn a market frame into the verdict on an entry:       *)
(* trigger_engine.rs watches for a fall from the local high,               *)
(* reversal_engine.rs keeps a window open in which the last profitable     *)
(* trade may be turned round, reversal_classifier.rs and entry_scoring.rs  *)
(* weigh both.  What they find is the field `entry' of the frames the      *)
(* decision loop takes its choice from.                                    *)
(*                                                                         *)
(* A stage hands frames on in order and waits for room; the reversal stage *)
(* takes frames and learning samples as they come.  Prices are integers,   *)
(* percentages integer per mille, pressures in hundredths, and time is     *)
(* what the frames say passed between them.  The weighted scores are part  *)
(* of the frame, with what they need besides the frame to be high enough.  *)
(***************************************************************************)
EXTENDS Integers, Sequences, FiniteSets

CONSTANTS
  Frames,       \* the market frames that may arrive
  Samples,      \* the learning samples the measurement may hand over
  Drop,         \* drop_threshold, per mille of the local high
  Reset,        \* reset_threshold, per mille of the local high
  Timeout,      \* observation_timeout_ms, in the unit of the frames' clock
  StageCap,     \* capacity of the channels between stages
  MaxSamples    \* bound on the samples handed over

\* `calm': nobody pulls liquidity and the book is stable; `open': stability and
\* liquidity allow a flip; `quiet': no wild spread or volatility; `strong': a strong
\* trend.  `likely' and `scored' say whether the classifier prefers a reversal and
\* the score suffices: by the frame alone, with the trigger's help, or not at all.
Help == {"No", "Helped", "Yes"}
Frame == [price : Nat \ {0}, dt : Nat,
          regime : {"Normal", "HighVolatility", "TrendExpansion", "LowLiquidity", "NewsShock"},
          flow : {"Strong", "Weak", "Exhaustion", "ReversalRisk"},
          timing : {"Optimal", "Neutral", "Wait", "Missed"},
          delta : Int, order : Int, top : Int, velocity : Int, absorbed : 0..100,
          exhausted : BOOLEAN, calm : BOOLEAN, open : BOOLEAN, quiet : BOOLEAN,
          strong : BOOLEAN, likely : Help, scored : Help]

\* `quick' says that the fill took less than ten seconds.
Sample == [side : {"Buy", "Sell"}, win : BOOLEAN, quick : BOOLEAN]

ASSUME SignalsAssumption ==
  /\ Frames \subseteq Frame /\ Samples \subseteq Sample
  /\ Drop \in Nat \ {0} /\ Reset \in Nat \ {0} /\ Timeout \in Nat
  /\ StageCap \in Nat \ {0} /\ MaxSamples \in Nat

VARIABLES
  trigger,      \* trigger stage: local high, whether it observes, last sell pressure
  tracked,      \* frames on their way to the reversal stage
  reversal,     \* reversal stage: its window, the last market price, regime and pressures
  offers,       \* learning samples on their way to the reversal stage
  turned,       \* frames on their way to classifier and scoring
  verdict,      \* what scoring made of the last frame
  history       \* lowest price since the high was set, windows opened, flips confirmed

vars == <<trigger, tracked, reversal, offers, turned, verdict, history>>

Windows == {"Idle", "LongToShort", "ShortToLong"}
NoPrice == 0

Init ==
  /\ trigger = [high |-> NoPrice, observing |-> FALSE, sold |-> 0]
  /\ reversal = [window |-> "Idle", age |-> 0, exit |-> NoPrice, price |-> NoPrice,
                 regime |-> "Normal", bought |-> 0, sold |-> 0]
  /\ tracked = <<>> /\ offers = <<>> /\ turned = <<>>
  /\ verdict = [entry |-> "None", window |-> "Idle"]
  /\ history = [low |-> NoPrice, opened |-> 0, confirmed |-> 0]

Positive(x) == IF x > 0 THEN x ELSE 0
BuyPressure(f) == 100 * Positive(f.delta) + 65 * Positive(f.order) + 250 * Positive(f.top)
SellPressure(f) == 100 * Positive(-f.delta) + 65 * Positive(-f.order) + 250 * Positive(-f.top)
Weaker(now, before) == 100 * now < 82 * before

Tired(f) == f.flow \in {"Exhaustion", "Weak"}

-----------------------------------------------------------------------------
(* The trigger stage *)

ConfirmReversal(f, sold) ==
  /\ Tired(f)
  /\ Weaker(SellPressure(f), sold) \/ f.exhausted
  /\ f.absorbed > 28 \/ (f.calm /\ f.top > -12)
  /\ f.timing = "Optimal"

\* The share of the high the price has lost.
Fallen(high, price, mille) == (high - price) * 1000 >= mille * high

\* A variant that keeps observing through a recovery.
RecoveredNever(high, price) == FALSE
Recovered(high, price) == (high - price) * 100000 < 35 * Drop * high

\* The decayed high is never above the old one, so that the high only falls when
\* the price collapsed.  No position is looked at: the fast exit is never raised.
ObserveTrigger(f) ==
  /\ Len(tracked) < StageCap
  /\ LET high == IF f.price > trigger.high THEN f.price ELSE trigger.high
         observing == trigger.observing \/ Fallen(high, f.price, Drop)
         confirmed == observing /\ ConfirmReversal(f, trigger.sold)
         done == confirmed \/ Recovered(high, f.price)
         collapsed == ~done /\ observing /\ Fallen(high, f.price, Reset)
         watching == observing /\ ~done /\ ~collapsed
         new == collapsed \/ f.price > trigger.high
     IN /\ trigger' = [high |-> IF collapsed THEN f.price ELSE high,
                       observing |-> watching,
                       sold |-> SellPressure(f)]
        /\ tracked' = Append(tracked, [frame |-> f, observing |-> watching, confirmed |-> confirmed])
        /\ history' = [history EXCEPT !.low = IF new \/ f.price < @ THEN f.price ELSE @]
  /\ UNCHANGED <<reversal, offers, turned, verdict>>

-----------------------------------------------------------------------------
(* The reversal stage *)

\* Handed over by the measurement, whether the fill opened or closed a position.
Offer(s) ==
  /\ history.opened + Len(offers) < MaxSamples
  /\ Len(offers) < StageCap
  /\ offers' = Append(offers, s)
  /\ UNCHANGED <<trigger, tracked, reversal, turned, verdict, history>>

\* Before the first frame there is no price to start from.
Opens(s) == s.win /\ s.quick /\ reversal.price # NoPrice /\ reversal.regime # "TrendExpansion"

ObserveLearning ==
  /\ offers # <<>>
  /\ LET s == Head(offers)
     IN IF Opens(s)
        THEN /\ reversal' = [reversal EXCEPT
                  !.window = IF s.side = "Buy" THEN "LongToShort" ELSE "ShortToLong",
                  !.age = 0, !.exit = reversal.price]
             /\ history' = [history EXCEPT !.opened = @ + 1]
        ELSE UNCHANGED <<reversal, history>>
  /\ offers' = Tail(offers)
  /\ UNCHANGED <<trigger, tracked, turned, verdict>>

Distance(a, b) == IF a > b THEN a - b ELSE b - a

\* Time beyond the timeout is not told apart.
Older(age, dt) == IF age + dt > Timeout THEN Timeout + 1 ELSE age + dt

\* A variant that only looks at the price.
ExpiredByMove(age, exit, price) == Distance(price, exit) * 10000 > 35 * exit
Expired(age, exit, price) == age > Timeout \/ Distance(price, exit) * 10000 > 35 * exit

AllowFlip(f) == f.regime \notin {"TrendExpansion", "HighVolatility"} /\ f.open

\* The market has made up its mind the way the trade went.
NewDominantTrend(f, window) ==
  /\ f.strong
  /\ IF window = "LongToShort" THEN f.velocity > 80 /\ f.order > 40
     ELSE f.velocity < -80 /\ f.order < -40

ConfirmsFlip(f) ==
  /\ Tired(f) /\ f.timing = "Optimal" /\ f.quiet
  /\ IF reversal.window = "LongToShort"
     THEN Weaker(BuyPressure(f), reversal.bought) /\ (f.absorbed > 30 \/ f.top < 0)
     ELSE Weaker(SellPressure(f), reversal.sold) /\ (f.absorbed > 30 \/ f.top > 0)

\* A variant that goes on observing after it has confirmed.
AfterFlip(window, lost, confirmed) == IF lost THEN "Idle" ELSE window
AfterFrame(window, lost, confirmed) == IF lost \/ confirmed THEN "Idle" ELSE window

ObserveFrame ==
  /\ tracked # <<>>
  /\ Len(turned) < StageCap
  /\ LET item == Head(tracked)
         f == item.frame
         age == Older(reversal.age, f.dt)
         lost == \/ reversal.window = "Idle"
                 \/ Expired(age, reversal.exit, f.price)
                 \/ ~AllowFlip(f) \/ NewDominantTrend(f, reversal.window)
         confirmed == ~lost /\ ConfirmsFlip(f)
         window == AfterFrame(reversal.window, lost, confirmed)
     IN /\ reversal' = [window |-> window,
                        age |-> IF window = "Idle" THEN 0 ELSE age,
                        exit |-> IF window = "Idle" THEN NoPrice ELSE reversal.exit,
                        price |-> f.price, regime |-> f.regime,
                        bought |-> BuyPressure(f), sold |-> SellPressure(f)]
        /\ turned' = Append(turned, [frame |-> f, observing |-> item.observing,
                                     window |-> IF lost THEN "Idle" ELSE reversal.window,
                                     helped |-> item.confirmed \/ confirmed])
        /\ history' = IF confirmed THEN [history EXCEPT !.confirmed = @ + 1] ELSE history
  /\ tracked' = Tail(tracked)
  /\ UNCHANGED <<trigger, offers, verdict>>

-----------------------------------------------------------------------------
(* Classifier and entry scoring *)

Likely(item) == item.frame.likely = "Yes" \/ (item.frame.likely = "Helped" /\ item.observing)
ReadyLong(item) == Likely(item) /\ item.frame.velocity <= 25 /\ item.frame.delta <= 0
ReadyShort(item) == Likely(item) /\ item.frame.velocity >= -25 /\ item.frame.delta >= 0

Enters(item, trading) ==
  /\ IF item.window = "LongToShort" THEN ReadyShort(item) ELSE ReadyLong(item)
  /\ trading
  /\ item.frame.regime # "TrendExpansion"
  /\ item.frame.scored = "Yes" \/ (item.frame.scored = "Helped" /\ item.helped)

\* A variant without the gate that the window puts on the direction.
EntryUngated(item, trading) ==
  IF ~trading THEN "None"
  ELSE IF ReadyLong(item) THEN "Long" ELSE IF ReadyShort(item) THEN "Short" ELSE "None"
\* A frame ready both ways goes short, whatever the window.
Entry(item, trading) ==
  IF ~Enters(item, trading) THEN "None" ELSE IF ReadyShort(item) THEN "Short" ELSE "Long"

\* `trading' says that neither the edge nor the competition halts it.
Score(trading) ==
  /\ turned # <<>>
  /\ verdict' = [entry |-> Entry(Head(turned), trading), window |-> Head(turned).window]
  /\ turned' = Tail(turned)
  /\ UNCHANGED <<trigger, tracked, reversal, offers, history>>

-----------------------------------------------------------------------------
(* The specification *)

Next ==
  \/ \E f \in Frames : ObserveTrigger(f)
  \/ \E s \in Samples : Offer(s)
  \/ ObserveLearning \/ ObserveFrame
  \/ \E trading \in BOOLEAN : Score(trading)

\* Every stage takes what waits for it, and frames whose clock has moved on keep
\* coming among those whose clock has not.
Fairness ==
  /\ SF_vars(\E f \in {g \in Frames : g.dt > 0} : ObserveTrigger(f))
  /\ WF_vars(ObserveFrame)
  /\ WF_vars(\E trading \in BOOLEAN : Score(trading))

Spec == Init /\ [][Next]_vars /\ Fairness

-----------------------------------------------------------------------------
(* What the stages promise *)

Tracked == [frame : Frames, observing : BOOLEAN, confirmed : BOOLEAN]
Turned == [frame : Frames, observing : BOOLEAN, window : Windows, helped : BOOLEAN]

\* The stages keep values of their types, no channel holds more than its capacity,
\* and a window is open exactly while there is a price it started from.
SignalsTypeOK ==
  /\ trigger \in [high : Nat, observing : BOOLEAN, sold : Nat]
  /\ reversal.window \in Windows /\ reversal.age \in 0..Timeout
  /\ (reversal.window = "Idle") <=> (reversal.exit = NoPrice)
  /\ tracked \in Seq(Tracked) /\ Len(tracked) <= StageCap
  /\ turned \in Seq(Turned) /\ Len(turned) <= StageCap
  /\ offers \in Seq(Samples) /\ Len(offers) <= StageCap
  /\ verdict \in [entry : {"None", "Long", "Short"}, window : Windows]

\* While the trigger observes, the price has fallen by the threshold at some frame
\* since the high it is measured from was set: neither a new high nor a collapse,
\* after which the fall is counted anew, leaves an old observation standing.
ObservationNeedsDrop ==
  trigger.observing => Fallen(trigger.high, history.low, Drop)

\* One profitable trade is turned round at most once: over any run the reversal
\* engine confirms no more flips than it opened windows, however samples and
\* frames interleave.
OneFlipPerWindow == history.confirmed <= history.opened

\* While the window after a profitable long trade is open, scoring never enters
\* long again, also on a frame the classifier finds ready both ways.
LongWindowNeverBuys == verdict.window = "LongToShort" => verdict.entry # "Long"

\* No window stays open for good: it is closed by a frame, and as every stage
\* hands frames on, one that is late or far enough arrives.
WindowsClose == reversal.window # "Idle" ~> reversal.window = "Idle"

=============================================================================
