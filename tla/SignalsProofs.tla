---------------------------- MODULE SignalsProofs ----------------------------
(***************************************************************************)
(* Proofs about the signal stages: an observation stands on a fall of the  *)
(* price, a window confirms at most one flip, and scoring never buys into  *)
(* a window that follows a profitable long trade.                          *)
(***************************************************************************)
EXTENDS Signals, TLAPS

-----------------------------------------------------------------------------
(* The trigger *)

\* The lowest price is a price, or zero before the first frame, and counts are counts.
HistoryOK == history \in [low : Nat, opened : Nat, confirmed : Nat]

TriggerInv == HistoryOK /\ trigger.high \in Nat /\ ObservationNeedsDrop

\* Prices and the threshold are positive, so that a price that is its own high
\* has recovered.
LEMMA HighRecovers ==
  ASSUME NEW p \in Nat \ {0}
  PROVE  Recovered(p, p)
<1>1. Drop * p \in Nat \ {0}
  BY SignalsAssumption
<1>2. (p - p) * 100000 = 0 /\ 35 * Drop * p = 35 * (Drop * p)
  BY SignalsAssumption
<1> QED  BY <1>1, <1>2 DEF Recovered

\* A fall to one price is a fall to every lower one.
LEMMA FallenFurther ==
  ASSUME NEW high \in Nat, NEW p \in Nat, NEW q \in Nat, q <= p, Fallen(high, p, Drop)
  PROVE  Fallen(high, q, Drop)
<1>1. Drop * high \in Nat
  BY SignalsAssumption
<1> QED  BY <1>1 DEF Fallen

\* A frame seen by the trigger keeps the fall an observation stands on.
LEMMA TriggerStep ==
  ASSUME TriggerInv, NEW f \in Frames, ObserveTrigger(f)
  PROVE  TriggerInv'
<1> DEFINE high == IF f.price > trigger.high THEN f.price ELSE trigger.high
           observing == trigger.observing \/ Fallen(high, f.price, Drop)
           confirmed == observing /\ ConfirmReversal(f, trigger.sold)
           done == confirmed \/ Recovered(high, f.price)
           collapsed == ~done /\ observing /\ Fallen(high, f.price, Reset)
           new == collapsed \/ f.price > trigger.high
           low == IF new \/ f.price < history.low THEN f.price ELSE history.low
<1>1. f.price \in Nat \ {0}
  BY SignalsAssumption DEF Frame
<1>2. /\ trigger' = [high |-> IF collapsed THEN f.price ELSE high,
                     observing |-> observing /\ ~done /\ ~collapsed,
                     sold |-> SellPressure(f)]
      /\ history' = [history EXCEPT !.low = low]
  BY DEF ObserveTrigger
<1>3. high \in Nat /\ low \in Nat /\ trigger.high \in Nat /\ history.low \in Nat
  BY <1>1 DEF TriggerInv, HistoryOK
<1>4. HistoryOK' /\ history'.low = low
  BY <1>2, <1>3 DEF TriggerInv, HistoryOK
<1>5. trigger'.high \in Nat
  BY <1>1, <1>2, <1>3
<1>6. ASSUME observing /\ ~done /\ ~collapsed
      PROVE  Fallen(high, low, Drop)
  <2>1. CASE f.price > trigger.high
    BY <1>1, <1>6, <2>1, HighRecovers
  <2>2. CASE ~(f.price > trigger.high)
    <3>1. high = trigger.high /\ low <= f.price /\ low <= history.low
      BY <1>1, <1>3, <1>6, <2>2
    <3>2. CASE trigger.observing
      BY <1>3, <3>1, <3>2, FallenFurther DEF TriggerInv, ObservationNeedsDrop
    <3>3. CASE Fallen(high, f.price, Drop)
      BY <1>1, <1>3, <3>1, <3>3, FallenFurther
    <3> QED  BY <1>6, <3>2, <3>3
  <2> QED  BY <2>1, <2>2
<1>7. trigger'.observing => ~collapsed /\ observing /\ ~done
  BY <1>2
<1>8. trigger'.observing => trigger'.high = high
  BY <1>2, <1>7
<1>9. ObservationNeedsDrop'
  BY <1>4, <1>6, <1>7, <1>8 DEF ObservationNeedsDrop
<1> QED  BY <1>4, <1>5, <1>9 DEF TriggerInv

\* Only the trigger touches its high, and the lowest price follows it.
LEMMA TriggerInvariant == Spec => []TriggerInv
<1>1. Init => TriggerInv
  BY DEF Init, TriggerInv, HistoryOK, ObservationNeedsDrop, NoPrice
<1>2. TriggerInv /\ [Next]_vars => TriggerInv'
  <2> SUFFICES ASSUME TriggerInv, [Next]_vars  PROVE TriggerInv'
    OBVIOUS
  <2>1. CASE \E f \in Frames : ObserveTrigger(f)
    BY <2>1, TriggerStep
  <2>2. CASE UNCHANGED <<trigger, history>>
    BY <2>2 DEF TriggerInv, HistoryOK, ObservationNeedsDrop
  <2>3. CASE ObserveLearning
    <3>1. trigger' = trigger /\ (history' = history \/ history' = [history EXCEPT !.opened = @ + 1])
      BY <2>3 DEF ObserveLearning
    <3>2. HistoryOK' /\ history'.low = history.low
      BY <3>1 DEF TriggerInv, HistoryOK
    <3> QED  BY <3>1, <3>2 DEF TriggerInv, ObservationNeedsDrop
  <2>4. CASE ObserveFrame
    <3>1. trigger' = trigger /\ (history' = history \/ history' = [history EXCEPT !.confirmed = @ + 1])
      BY <2>4 DEF ObserveFrame
    <3>2. HistoryOK' /\ history'.low = history.low
      BY <3>1 DEF TriggerInv, HistoryOK
    <3> QED  BY <3>1, <3>2 DEF TriggerInv, ObservationNeedsDrop
  <2>5. ASSUME \/ \E s \in Samples : Offer(s)
               \/ \E trading \in BOOLEAN : Score(trading)
               \/ UNCHANGED vars
        PROVE  UNCHANGED <<trigger, history>>
    BY <2>5 DEF Offer, Score, vars
  <2> QED  BY <2>1, <2>2, <2>3, <2>4, <2>5 DEF Next
<1> QED  BY <1>1, <1>2, PTL DEF Spec

\* The trigger observes only while the price has fallen by the threshold since the
\* local high was set, whatever the frames and thresholds.
THEOREM ObservationStandsOnADrop == Spec => []ObservationNeedsDrop
<1>1. TriggerInv => ObservationNeedsDrop
  BY DEF TriggerInv
<1> QED  BY <1>1, TriggerInvariant, PTL

-----------------------------------------------------------------------------
(* The windows *)

\* An open window may still confirm one flip; a confirmation closes it.
Chances == IF reversal.window = "Idle" THEN 0 ELSE 1

WindowInv ==
  /\ HistoryOK
  /\ "window" \in DOMAIN reversal
  /\ history.confirmed + Chances <= history.opened

\* A learning sample opens a window and counts it, or does nothing.
LEMMA LearningStep ==
  ASSUME WindowInv, ObserveLearning
  PROVE  WindowInv'
<1>1. CASE reversal' = reversal /\ history' = history
  BY <1>1 DEF WindowInv, HistoryOK, Chances
<1>2. CASE Opens(Head(offers))
  <2>1. history' = [history EXCEPT !.opened = @ + 1]
    BY <1>2 DEF ObserveLearning
  <2>2. HistoryOK' /\ history'.confirmed = history.confirmed /\ history'.opened = history.opened + 1
    BY <2>1 DEF WindowInv, HistoryOK
  <2>3. DOMAIN reversal' = DOMAIN reversal
    BY <1>2 DEF ObserveLearning
  <2>4. Chances \in 0..1 /\ Chances' \in 0..1
    BY DEF Chances
  <2>5. history.confirmed \in Nat /\ history.opened \in Nat
    BY DEF WindowInv, HistoryOK
  <2> QED  BY <2>2, <2>3, <2>4, <2>5 DEF WindowInv
<1> QED  BY <1>1, <1>2 DEF ObserveLearning

\* A frame confirms a flip only of an open window, which it then closes.
LEMMA FrameStep ==
  ASSUME WindowInv, ObserveFrame
  PROVE  WindowInv'
<1> DEFINE item == Head(tracked)
           f == item.frame
           age == Older(reversal.age, f.dt)
           lost == \/ reversal.window = "Idle"
                   \/ Expired(age, reversal.exit, f.price)
                   \/ ~AllowFlip(f) \/ NewDominantTrend(f, reversal.window)
           confirmed == ~lost /\ ConfirmsFlip(f)
           window == AfterFrame(reversal.window, lost, confirmed)
<1>1. /\ reversal' = [window |-> window,
                      age |-> IF window = "Idle" THEN 0 ELSE age,
                      exit |-> IF window = "Idle" THEN NoPrice ELSE reversal.exit,
                      price |-> f.price, regime |-> f.regime,
                      bought |-> BuyPressure(f), sold |-> SellPressure(f)]
      /\ history' = IF confirmed THEN [history EXCEPT !.confirmed = @ + 1] ELSE history
  BY DEF ObserveFrame
<1>2. reversal'.window = window /\ "window" \in DOMAIN reversal'
  BY <1>1
<1>3. /\ confirmed => reversal.window # "Idle" /\ window = "Idle"
      /\ window # "Idle" => reversal.window # "Idle"
  BY DEF AfterFrame
<1>4. /\ HistoryOK' /\ history'.opened = history.opened
      /\ history'.confirmed = IF confirmed THEN history.confirmed + 1 ELSE history.confirmed
  <2> HIDE DEF confirmed
  <2> QED  BY <1>1 DEF WindowInv, HistoryOK
<1>5. history.confirmed \in Nat /\ history.opened \in Nat
  BY DEF WindowInv, HistoryOK
<1> HIDE DEF confirmed, window
<1> QED  BY <1>2, <1>3, <1>4, <1>5 DEF WindowInv, Chances

\* A confirmed flip uses up the window that was opened for it.
LEMMA WindowInvariant == Spec => []WindowInv
<1>1. Init => WindowInv
  BY DEF Init, WindowInv, HistoryOK, Chances, NoPrice
<1>2. WindowInv /\ [Next]_vars => WindowInv'
  <2> SUFFICES ASSUME WindowInv, [Next]_vars  PROVE WindowInv'
    OBVIOUS
  <2>1. CASE \E f \in Frames : ObserveTrigger(f)
    <3>1. PICK f \in Frames : ObserveTrigger(f)
      BY <2>1
    <3>2. PICK low : history' = [history EXCEPT !.low = low] /\ (low = f.price \/ low = history.low)
      BY <3>1 DEF ObserveTrigger
    <3>3. low \in Nat
      BY <3>2, SignalsAssumption DEF Frame, WindowInv, HistoryOK
    <3>4. HistoryOK' /\ history'.opened = history.opened /\ history'.confirmed = history.confirmed
      BY <3>2, <3>3 DEF WindowInv, HistoryOK
    <3> QED  BY <3>1, <3>4 DEF ObserveTrigger, WindowInv, Chances
  <2>2. CASE ObserveLearning
    BY <2>2, LearningStep
  <2>3. CASE ObserveFrame
    BY <2>3, FrameStep
  <2>4. CASE UNCHANGED <<reversal, history>>
    BY <2>4 DEF WindowInv, HistoryOK, Chances
  <2>5. ASSUME \/ \E s \in Samples : Offer(s)
               \/ \E trading \in BOOLEAN : Score(trading)
               \/ UNCHANGED vars
        PROVE  UNCHANGED <<reversal, history>>
    BY <2>5 DEF Offer, Score, vars
  <2> QED  BY <2>1, <2>2, <2>3, <2>4, <2>5 DEF Next
<1> QED  BY <1>1, <1>2, PTL DEF Spec

\* However samples and frames interleave, no more flips are confirmed than windows
\* were opened.
THEOREM AtMostOneFlip == Spec => []OneFlipPerWindow
<1>1. WindowInv => OneFlipPerWindow
  <2> SUFFICES ASSUME WindowInv  PROVE OneFlipPerWindow
    OBVIOUS
  <2>1. Chances \in Nat /\ history.confirmed \in Nat /\ history.opened \in Nat
    BY DEF WindowInv, HistoryOK, Chances
  <2> QED  BY <2>1 DEF WindowInv, OneFlipPerWindow
<1> QED  BY <1>1, WindowInvariant, PTL

-----------------------------------------------------------------------------
(* The direction of an entry *)

\* Scoring enters long in no window that follows a profitable long trade.
THEOREM LongWindowSells == Spec => []LongWindowNeverBuys
<1>1. Init => LongWindowNeverBuys
  BY DEF Init, LongWindowNeverBuys
<1>2. LongWindowNeverBuys /\ [Next]_vars => LongWindowNeverBuys'
  <2> SUFFICES ASSUME LongWindowNeverBuys, [Next]_vars  PROVE LongWindowNeverBuys'
    OBVIOUS
  <2>1. CASE \E trading \in BOOLEAN : Score(trading)
    <3>1. PICK trading \in BOOLEAN : Score(trading)
      BY <2>1
    <3>2. /\ verdict'.entry = Entry(Head(turned), trading)
          /\ verdict'.window = Head(turned).window
      BY <3>1 DEF Score
    <3>3. ASSUME Head(turned).window = "LongToShort", Enters(Head(turned), trading)
          PROVE  ReadyShort(Head(turned))
      BY <3>3 DEF Enters
    <3>4. Head(turned).window = "LongToShort" => Entry(Head(turned), trading) \in {"None", "Short"}
      BY <3>3 DEF Entry
    <3> QED  BY <3>2, <3>4 DEF LongWindowNeverBuys
  <2>2. ASSUME \/ \E f \in Frames : ObserveTrigger(f)
               \/ \E s \in Samples : Offer(s)
               \/ ObserveLearning \/ ObserveFrame \/ UNCHANGED vars
        PROVE  UNCHANGED verdict
    BY <2>2 DEF ObserveTrigger, Offer, ObserveLearning, ObserveFrame, vars
  <2>3. CASE UNCHANGED verdict
    BY <2>3 DEF LongWindowNeverBuys
  <2> QED  BY <2>1, <2>2, <2>3 DEF Next
<1> QED  BY <1>1, <1>2, PTL DEF Spec

-----------------------------------------------------------------------------
(* Types *)

\* What SignalsTypeOK does not say of the state and its proof needs: the fields
\* the reversal stage keeps between frames, and the counts.
ReversalOK ==
  reversal \in [window : Windows, age : 0..Timeout, exit : Nat, price : Nat,
                regime : {"Normal", "HighVolatility", "TrendExpansion", "LowLiquidity", "NewsShock"},
                bought : Nat, sold : Nat]

SignalsInv == SignalsTypeOK /\ ReversalOK /\ HistoryOK

\* An item put into a channel with room, and the head taken from one.
LEMMA ChannelAppend ==
  ASSUME NEW S, NEW q \in Seq(S), Len(q) < StageCap, NEW x \in S
  PROVE  Append(q, x) \in Seq(S) /\ Len(Append(q, x)) <= StageCap
BY SignalsAssumption

\* A channel whose head is taken.
LEMMA ChannelTail ==
  ASSUME NEW S, NEW q \in Seq(S), Len(q) <= StageCap, q # <<>>
  PROVE  /\ Tail(q) \in Seq(S) /\ Len(Tail(q)) <= StageCap /\ Head(q) \in S
BY SignalsAssumption

\* Pressures are naturals: only the positive part of each flow counts.
LEMMA PressureType ==
  ASSUME NEW f \in Frames
  PROVE  BuyPressure(f) \in Nat /\ SellPressure(f) \in Nat
<1>1. f.delta \in Int /\ f.order \in Int /\ f.top \in Int
  BY SignalsAssumption DEF Frame
<1>2. \A x \in Int : Positive(x) \in Nat
  BY DEF Positive
<1>3. /\ Positive(f.delta) \in Nat /\ Positive(f.order) \in Nat /\ Positive(f.top) \in Nat
      /\ Positive(-f.delta) \in Nat /\ Positive(-f.order) \in Nat /\ Positive(-f.top) \in Nat
  BY <1>1, <1>2
<1> QED  BY <1>3 DEF BuyPressure, SellPressure

\* Every stage keeps the values of its own part of the state, a window that is
\* too old is closed, and one that is closed has lost the price it started from.
LEMMA SignalsStep ==
  ASSUME SignalsInv, [Next]_vars
  PROVE  SignalsInv'
<1> USE DEF SignalsInv
<1>1. ASSUME NEW f \in Frames, ObserveTrigger(f) PROVE SignalsInv'
  <2>1. UNCHANGED <<reversal, offers, turned, verdict>> /\ Len(tracked) < StageCap
    BY <1>1 DEF ObserveTrigger
  <2>2. PICK h, w : /\ trigger' = [high |-> h, observing |-> w, sold |-> SellPressure(f)]
                    /\ h = f.price \/ h = trigger.high
                    /\ w \in BOOLEAN
    <3> DEFINE high == IF f.price > trigger.high THEN f.price ELSE trigger.high
               observing == trigger.observing \/ Fallen(high, f.price, Drop)
               confirmed == observing /\ ConfirmReversal(f, trigger.sold)
               done == confirmed \/ Recovered(high, f.price)
               collapsed == ~done /\ observing /\ Fallen(high, f.price, Reset)
    <3>1. trigger' = [high |-> IF collapsed THEN f.price ELSE high,
                      observing |-> observing /\ ~done /\ ~collapsed,
                      sold |-> SellPressure(f)]
      BY <1>1 DEF ObserveTrigger
    <3>2. (observing /\ ~done /\ ~collapsed) \in BOOLEAN
      BY Zenon
    <3>3. high = f.price \/ high = trigger.high
      OBVIOUS
    <3> HIDE DEF high, observing, done, collapsed
    <3> QED  BY <3>1, <3>2, <3>3
  <2>3. PICK v, c \in BOOLEAN :
          tracked' = Append(tracked, [frame |-> f, observing |-> v, confirmed |-> c])
    BY <1>1 DEF ObserveTrigger, SignalsTypeOK
  <2>4. PICK low : history' = [history EXCEPT !.low = low] /\ (low = f.price \/ low = history.low)
    BY <1>1 DEF ObserveTrigger
  <2>5. f.price \in Nat
    BY SignalsAssumption DEF Frame
  <2>6. trigger' \in [high : Nat, observing : BOOLEAN, sold : Nat]
    BY <2>2, <2>5, PressureType DEF SignalsTypeOK
  <2>7. tracked' \in Seq(Tracked) /\ Len(tracked') <= StageCap
    <3>1. PICK item \in Tracked : item = [frame |-> f, observing |-> v, confirmed |-> c]
      BY DEF Tracked
    <3>2. PICK q \in Seq(Tracked) : q = tracked
      BY DEF SignalsTypeOK
    <3>3. tracked' = Append(q, item) /\ Len(q) < StageCap
      BY <2>1, <2>3, <3>1, <3>2, Zenon
    <3> QED  BY <3>3, ChannelAppend
  <2>8. HistoryOK'
    BY <2>4, <2>5 DEF HistoryOK
  <2> QED  BY <2>1, <2>6, <2>7, <2>8 DEF SignalsTypeOK, ReversalOK
<1>2. ASSUME NEW s \in Samples, Offer(s) PROVE SignalsInv'
  <2>1. /\ UNCHANGED <<trigger, tracked, reversal, turned, verdict, history>>
        /\ Len(offers) < StageCap /\ offers' = Append(offers, s)
    BY <1>2 DEF Offer
  <2>2. offers' \in Seq(Samples) /\ Len(offers') <= StageCap
    BY <2>1, ChannelAppend DEF SignalsTypeOK
  <2> QED  BY <2>1, <2>2 DEF SignalsTypeOK, ReversalOK, HistoryOK
<1>3. ASSUME ObserveLearning PROVE SignalsInv'
  <2>1. /\ UNCHANGED <<trigger, tracked, turned, verdict>>
        /\ offers' = Tail(offers) /\ offers # <<>>
    BY <1>3 DEF ObserveLearning
  <2>2. offers' \in Seq(Samples) /\ Len(offers') <= StageCap
    BY <2>1, ChannelTail DEF SignalsTypeOK
  <2>3. CASE Opens(Head(offers))
    <3>1. PICK w \in Windows \ {"Idle"} :
            reversal' = [reversal EXCEPT !.window = w, !.age = 0, !.exit = reversal.price]
      BY <1>3, <2>3 DEF ObserveLearning, Windows
    <3>2. history' = [history EXCEPT !.opened = @ + 1] /\ reversal.price # NoPrice
      BY <1>3, <2>3 DEF ObserveLearning, Opens
    <3>3. HistoryOK'
      BY <3>2 DEF HistoryOK
    <3>4. 0 \in 0..Timeout
      BY SignalsAssumption
    <3>5. ReversalOK' /\ (reversal'.window = "Idle" <=> reversal'.exit = NoPrice)
      BY <3>1, <3>2, <3>4 DEF ReversalOK
    <3>6. reversal'.window \in Windows /\ reversal'.age \in 0..Timeout
      BY <3>5 DEF ReversalOK
    <3> QED  BY <2>1, <2>2, <3>3, <3>5, <3>6 DEF SignalsTypeOK
  <2>4. CASE ~Opens(Head(offers))
    <3>1. UNCHANGED <<reversal, history>>
      BY <1>3, <2>4 DEF ObserveLearning
    <3> QED  BY <2>1, <2>2, <3>1 DEF SignalsTypeOK, ReversalOK, HistoryOK
  <2> QED  BY <2>3, <2>4
<1>4. ASSUME ObserveFrame PROVE SignalsInv'
  <2> DEFINE item == Head(tracked)
             f == item.frame
             age == Older(reversal.age, f.dt)
             lost == \/ reversal.window = "Idle"
                     \/ Expired(age, reversal.exit, f.price)
                     \/ ~AllowFlip(f) \/ NewDominantTrend(f, reversal.window)
             confirmed == ~lost /\ ConfirmsFlip(f)
             window == AfterFrame(reversal.window, lost, confirmed)
  <2>1. /\ reversal' = [window |-> window,
                        age |-> IF window = "Idle" THEN 0 ELSE age,
                        exit |-> IF window = "Idle" THEN NoPrice ELSE reversal.exit,
                        price |-> f.price, regime |-> f.regime,
                        bought |-> BuyPressure(f), sold |-> SellPressure(f)]
        /\ turned' = Append(turned, [frame |-> f, observing |-> item.observing,
                                     window |-> IF lost THEN "Idle" ELSE reversal.window,
                                     helped |-> item.confirmed \/ confirmed])
        /\ history' = IF confirmed THEN [history EXCEPT !.confirmed = @ + 1] ELSE history
        /\ tracked' = Tail(tracked) /\ tracked # <<>> /\ Len(turned) < StageCap
        /\ UNCHANGED <<trigger, offers, verdict>>
    BY <1>4 DEF ObserveFrame
  <2>2. /\ tracked' \in Seq(Tracked) /\ Len(tracked') <= StageCap /\ item \in Tracked
    BY <2>1, ChannelTail DEF SignalsTypeOK
  <2>3. f \in Frames /\ item.observing \in BOOLEAN /\ item.confirmed \in BOOLEAN
    BY <2>2 DEF Tracked
  <2>4. /\ f.price \in Nat /\ f.dt \in Nat
        /\ f.regime \in {"Normal", "HighVolatility", "TrendExpansion", "LowLiquidity", "NewsShock"}
    BY <2>3, SignalsAssumption DEF Frame
  <2>5. /\ reversal.window \in Windows /\ reversal.age \in 0..Timeout /\ reversal.exit \in Nat
        /\ reversal.window = "Idle" <=> reversal.exit = NoPrice
    BY DEF ReversalOK, SignalsTypeOK
  <2>6. lost \in BOOLEAN /\ confirmed \in BOOLEAN
    BY DEF Expired, AllowFlip, NewDominantTrend, ConfirmsFlip
  <2>7. window # "Idle" => window = reversal.window /\ ~lost
    BY DEF AfterFrame
  <2>8. window \in Windows
    BY <2>5 DEF AfterFrame, Windows
  <2>9. age > Timeout => lost
    BY DEF Expired
  <2>10. age \in Nat
    BY <2>4, <2>5, SignalsAssumption DEF Older
  <2>11. PICK n : n = [frame |-> f, observing |-> item.observing,
                       window |-> IF lost THEN "Idle" ELSE reversal.window,
                       helped |-> item.confirmed \/ confirmed]
    OBVIOUS
  <2>12. n \in Turned
    <3> HIDE DEF lost, confirmed, f, item
    <3> QED  BY <2>3, <2>5, <2>6, <2>11 DEF Turned, Windows
  <2>13. turned' \in Seq(Turned) /\ Len(turned') <= StageCap
    <3> HIDE DEF lost, confirmed, f, item
    <3> QED  BY <2>1, <2>11, <2>12, ChannelAppend DEF SignalsTypeOK
  <2> HIDE DEF confirmed, lost, age, window, f
  <2>14. HistoryOK'
    <3>1. history' = IF confirmed THEN [history EXCEPT !.confirmed = @ + 1] ELSE history
      BY <2>1
    <3> QED  BY <3>1 DEF HistoryOK
  <2>15. BuyPressure(f) \in Nat /\ SellPressure(f) \in Nat
    BY <2>3, PressureType
  <2>16. (IF window = "Idle" THEN 0 ELSE age) \in 0..Timeout
    BY <2>7, <2>9, <2>10, SignalsAssumption
  <2>17. /\ (IF window = "Idle" THEN NoPrice ELSE reversal.exit) \in Nat
         /\ window = "Idle" <=> (IF window = "Idle" THEN NoPrice ELSE reversal.exit) = NoPrice
    BY <2>5, <2>7 DEF NoPrice
  <2>18. ReversalOK' /\ (reversal'.window = "Idle" <=> reversal'.exit = NoPrice)
    BY <2>1, <2>4, <2>8, <2>15, <2>16, <2>17 DEF ReversalOK
  <2>19. reversal'.window \in Windows /\ reversal'.age \in 0..Timeout
    BY <2>18 DEF ReversalOK
  <2> QED  BY <2>1, <2>2, <2>13, <2>14, <2>18, <2>19 DEF SignalsTypeOK
<1>5. ASSUME NEW trading \in BOOLEAN, Score(trading) PROVE SignalsInv'
  <2>1. /\ UNCHANGED <<trigger, tracked, reversal, offers, history>>
        /\ turned # <<>> /\ turned' = Tail(turned)
        /\ verdict' = [entry |-> Entry(Head(turned), trading), window |-> Head(turned).window]
    BY <1>5 DEF Score
  <2>2. turned' \in Seq(Turned) /\ Len(turned') <= StageCap /\ Head(turned) \in Turned
    BY <2>1, ChannelTail DEF SignalsTypeOK
  <2>3. Entry(Head(turned), trading) \in {"None", "Long", "Short"}
    BY DEF Entry
  <2>4. verdict' \in [entry : {"None", "Long", "Short"}, window : Windows]
    BY <2>1, <2>2, <2>3 DEF Turned
  <2> QED  BY <2>1, <2>2, <2>4 DEF SignalsTypeOK, ReversalOK, HistoryOK
<1>6. CASE UNCHANGED vars
  BY <1>6 DEF vars, SignalsTypeOK, ReversalOK, HistoryOK
<1> QED  BY <1>1, <1>2, <1>3, <1>4, <1>5, <1>6 DEF Next

\* The stages keep values of their types and no more items than their channels
\* hold, and a window is open exactly while there is a price it started from.
THEOREM SignalsTypesHold == Spec => []SignalsTypeOK
<1>1. Init => SignalsInv
  <2> SUFFICES ASSUME Init PROVE SignalsInv
    OBVIOUS
  <2>1. 0 \in 0..Timeout /\ 0 <= StageCap
    BY SignalsAssumption
  <2>2. ReversalOK /\ HistoryOK
    BY <2>1 DEF Init, ReversalOK, HistoryOK, NoPrice, Windows
  <2>3. <<>> \in Seq(Tracked) /\ <<>> \in Seq(Turned) /\ <<>> \in Seq(Samples) /\ Len(<<>>) = 0
    OBVIOUS
  <2>4. /\ trigger \in [high : Nat, observing : BOOLEAN, sold : Nat]
        /\ verdict \in [entry : {"None", "Long", "Short"}, window : Windows]
        /\ reversal.window \in Windows /\ reversal.age \in 0..Timeout
        /\ (reversal.window = "Idle") <=> (reversal.exit = NoPrice)
    BY <2>1 DEF Init, NoPrice, Windows
  <2>5. tracked = <<>> /\ turned = <<>> /\ offers = <<>>
    BY DEF Init
  <2> QED  BY <2>1, <2>2, <2>3, <2>4, <2>5 DEF SignalsInv, SignalsTypeOK
<1>2. SignalsInv /\ [Next]_vars => SignalsInv'
  BY SignalsStep
<1>3. SignalsInv => SignalsTypeOK
  BY DEF SignalsInv
<1> QED  BY <1>1, <1>2, <1>3, PTL DEF Spec
=============================================================================
