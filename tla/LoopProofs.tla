----------------------------- MODULE LoopProofs -----------------------------
(***************************************************************************)
(* Proofs about the decision loop, for every window length, threshold,     *)
(* frame and bound: what is halted stays halted until somebody else's fill *)
(* arrives, and RTTS posts no order before such a fill.  And about the     *)
(* Kolmogorov-Smirnov statistic it judges its window by: the sweep over    *)
(* the sorted samples finds the greatest distance, whatever the samples.   *)
(***************************************************************************)
EXTENDS LedgerProofs

-----------------------------------------------------------------------------
(* Queues.  What a queue holds does not matter, only that it is a sequence. *)

Queue(q) == \E S : q \in Seq(S)

\* An item put at the end of a queue leaves the others in their places.
LEMMA QueueAppend ==
  ASSUME NEW q, Queue(q), NEW x
  PROVE  /\ Queue(Append(q, x))
         /\ Len(Append(q, x)) = Len(q) + 1
         /\ Append(q, x)[Len(q) + 1] = x
         /\ \A i \in 1..Len(q) : Append(q, x)[i] = q[i]
         /\ Len(q) \in Nat
<1>1. PICK S : q \in Seq(S)
  BY DEF Queue
<1>2. q \in Seq(S \cup {x})
  BY <1>1
<1>3. Append(q, x) \in Seq(S \cup {x})
  BY <1>2
<1>4. Queue(Append(q, x))
  BY <1>3 DEF Queue
<1> QED  BY <1>1, <1>2, <1>4

\* Taking the head of a queue moves every other item one place forward.
LEMMA QueueTail ==
  ASSUME NEW q, Queue(q), q # <<>>
  PROVE  /\ Queue(Tail(q))
         /\ Len(q) \in Nat \ {0}
         /\ Len(Tail(q)) = Len(q) - 1
         /\ Head(q) = q[1]
         /\ \A i \in 1..Len(Tail(q)) : Tail(q)[i] = q[i + 1]
<1>1. PICK S : q \in Seq(S)
  BY DEF Queue
<1>2. Tail(q) \in Seq(S) /\ Len(q) # 0
  BY <1>1
<1>3. Queue(Tail(q))
  BY <1>2 DEF Queue
<1> QED  BY <1>1, <1>2, <1>3

\* A queue every item of which carries the verdict that halts.
HaltedItems(q) == Queue(q) /\ HaltedQueue(q)

\* An empty queue holds nothing that is not halted.
LEMMA EmptyHalted == HaltedItems(<<>>)
<1>1. <<>> \in Seq({}) /\ Len(<<>>) = 0
  OBVIOUS
<1> QED  BY <1>1 DEF HaltedItems, HaltedQueue, Queue

\* A queue of halted items stays one when a halted item joins it ...
LEMMA AppendHalted ==
  ASSUME NEW q, HaltedItems(q), NEW x, Halted(x.verdict)
  PROVE  HaltedItems(Append(q, x))
<1>1. /\ Queue(Append(q, x)) /\ Len(Append(q, x)) = Len(q) + 1 /\ Len(q) \in Nat
      /\ Append(q, x)[Len(q) + 1] = x
      /\ \A i \in 1..Len(q) : Append(q, x)[i] = q[i]
  BY QueueAppend DEF HaltedItems
<1>2. ASSUME NEW i \in 1..Len(Append(q, x))
      PROVE  Halted(Append(q, x)[i].verdict)
  <2>1. CASE i = Len(q) + 1
    BY <1>1, <2>1
  <2>2. CASE i # Len(q) + 1
    <3>1. i \in 1..Len(q)
      BY <1>1, <1>2, <2>2
    <3> QED  BY <1>1, <3>1 DEF HaltedItems, HaltedQueue
  <2> QED  BY <2>1, <2>2
<1> QED  BY <1>1, <1>2 DEF HaltedItems, HaltedQueue

\* ... and when its head is taken.
LEMMA TailHalted ==
  ASSUME NEW q, HaltedItems(q), q # <<>>
  PROVE  HaltedItems(Tail(q)) /\ Halted(Head(q).verdict)
<1>1. /\ Queue(Tail(q)) /\ Len(q) \in Nat \ {0} /\ Len(Tail(q)) = Len(q) - 1 /\ Head(q) = q[1]
      /\ \A i \in 1..Len(Tail(q)) : Tail(q)[i] = q[i + 1]
  BY QueueTail DEF HaltedItems
<1>2. ASSUME NEW i \in 1..Len(Tail(q))
      PROVE  Halted(Tail(q)[i].verdict)
  <2>1. i + 1 \in 1..Len(q)
    BY <1>1
  <2> QED  BY <1>1, <2>1 DEF HaltedItems, HaltedQueue
<1>3. 1 \in 1..Len(q)
  BY <1>1
<1> QED  BY <1>1, <1>2, <1>3 DEF HaltedItems, HaltedQueue

\* A queue stays a queue when one item, or none, joins it ...
LEMMA QueueJoin ==
  ASSUME NEW q, Queue(q), NEW r, NEW x, r = <<>> \/ r = <<x>>
  PROVE  Queue(q \o r)
<1>1. PICK S : q \in Seq(S)
  BY DEF Queue
<1>2. /\ q \in Seq(S \cup {x})
      /\ <<>> \in Seq(S \cup {x})
      /\ <<x>> \in Seq(S \cup {x})
  BY <1>1
<1>3. r \in Seq(S \cup {x})
  BY <1>2
<1>4. q \o r \in Seq(S \cup {x})
  BY <1>2, <1>3
<1> QED  BY <1>4 DEF Queue

\* ... and stays halted when that item is halted.
LEMMA JoinHalted ==
  ASSUME NEW q, HaltedItems(q), NEW r, NEW x, r = <<>> \/ (r = <<x>> /\ Halted(x.verdict))
  PROVE  HaltedItems(q \o r)
<1>1. PICK S : q \in Seq(S)
  BY DEF HaltedItems, Queue
<1>2. CASE r = <<>>
  <2>1. q \o r = q
    BY <1>1, <1>2
  <2> QED  BY <2>1
<1>3. CASE r = <<x>> /\ Halted(x.verdict)
  <2>1. q \in Seq(S \cup {x}) /\ <<x>> \in Seq(S \cup {x})
    BY <1>1
  <2>2. q \o <<x>> = Append(q, x)
    BY <2>1
  <2> QED  BY <1>3, <2>2, AppendHalted
<1> QED  BY <1>2, <1>3

-----------------------------------------------------------------------------
(* What a halted verdict leads to *)

\* The decision engine passes the halt of its snapshot on with every decision.
LEMMA DecisionHalted ==
  ASSUME NEW f, NEW s, ~TradingEnabled(s)
  PROVE  Halted(DecisionOn(f, s).verdict)
<1>1. DecisionOn(f, s).verdict = VerdictOf(s)
  BY DEF DecisionOn
<1>2. VerdictOf(s).state = s.state /\ VerdictOf(s).competition = s.competition
  BY DEF VerdictOf
<1> QED  BY <1>1, <1>2 DEF TradingEnabled, Halted

\* What position.rs makes of a decision is an intent with its verdict, or nothing.
LEMMA IntentVerdict ==
  ASSUME NEW d, NEW acct
  PROVE  \E x : \/ DecideOrder(d, acct) = <<>>
                \/ DecideOrder(d, acct) = <<x>> /\ x.verdict = d.verdict
<1>1. ASSUME NEW side, NEW qty, NEW reduce
      PROVE  IntentWith(d, side, qty, reduce).verdict = d.verdict
  BY DEF IntentWith
<1>2. \/ DecideOrder(d, acct) = <<>>
      \/ \E side, qty, reduce : DecideOrder(d, acct) = <<IntentWith(d, side, qty, reduce)>>
  BY Zenon DEF DecideOrder
<1> QED  BY <1>1, <1>2

\* The meta engine executes no halted intent, reduce-only or not.
LEMMA HaltedIsSkipped ==
  ASSUME NEW i, NEW j, Halted(i.verdict)
  PROVE  FinalDecision(i, j) = "Skip"
<1>1. Evaluate(i, j) = "Skip"
  BY DEF Evaluate
<1> QED  BY <1>1 DEF FinalDecision

\* Without fills to measure an update of the market leaves the measurement as it is.
LEMMA NothingRipe ==
  ASSUME NEW dt
  PROVE  Ripe(<<>>, dt) = 0
<1>1. {n \in 0..Len(<<>>) : \A i \in 1..n : <<>>[i].age + dt >= Final} = {0}
  <2>1. Len(<<>>) = 0 /\ 0..0 = {0} /\ 1..0 = {}
    OBVIOUS
  <2> QED  BY <2>1
<1> QED  BY <1>1 DEF Ripe, Max

\* An update of the market with nothing to measure changes nothing.
LEMMA EmptyMeasure ==
  ASSUME pending = <<>>, samples = <<>>, truths = <<>>, NEW price, NEW dt, Measure(price, dt)
  PROVE  pending' = <<>> /\ samples' = <<>> /\ truths' = <<>>
<1>1. Ripe(pending, dt) = 0
  BY NothingRipe
<1>2. Len(pending) = 0 /\ Len(samples) = 0 /\ Len(truths) = 0 /\ 1..0 = {}
  OBVIOUS
<1>3. DropCap - Len(samples) = DropCap /\ Lesser(0, DropCap) = 0
  BY <1>2, LoopAssumption DEF Lesser
<1>4. /\ pending' = [i \in 1..(0 - 0) |-> Note(pending[0 + i], price, dt)]
      /\ samples' = samples \o [i \in 1..0 |-> SampleOf(Note(pending[i], price, dt))]
      /\ truths' = [i \in 1..0 |-> Older(truths[i], dt)]
  BY <1>1, <1>2, <1>3 DEF Measure
<1>5. ASSUME NEW F(_)
      PROVE  [i \in 1..0 |-> F(i)] = <<>>
  BY <1>2
<1>6. <<>> \o <<>> = <<>>
  OBVIOUS
<1> QED  BY <1>4, <1>5, <1>6

-----------------------------------------------------------------------------
(* The invariant: until somebody else's fill arrives, nothing moves *)

\* The parts of the state the proof looks at are there, and counts are counts.
Shape ==
  /\ "view" \in DOMAIN learner
  /\ "acct" \in DOMAIN desk /\ "lots" \in DOMAIN desk.acct
  /\ "orders" \in DOMAIN history /\ "foreign" \in DOMAIN history
  /\ history.orders \in Nat /\ history.foreign \in Nat
  /\ Queue(decisions) /\ Queue(intents) /\ Queue(vetted)

ColdStart == history.foreign = 0 => Stuck /\ history.orders = 0

\* Foreign fills may be booked, measured or lost meanwhile.
Unlearnt == learner.edge.window = <<>> => Quiet /\ history.orders = 0

LoopInv == Shape /\ ColdStart /\ Unlearnt

\* With no sample the mean fill ratio is zero, and the market counts as saturated.
LEMMA EmptyEdgeHalted == ~TradingEnabled(Snapshot(NewEdge))
<1>1. NewEdge.window = <<>> /\ NewEdge.streak = 0
  BY DEF NewEdge
<1>2. Mean(<<>>) = 0
  BY DEF Mean
<1>3. ASSUME NEW F(_)
      PROVE  Each(<<>>, F) = <<>>
  <2>1. Len(<<>>) = 0 /\ 1..0 = {}
    OBVIOUS
  <2> QED  BY <2>1 DEF Each
<1>4. ASSUME NEW score, NEW streak
      PROVE  ClassifyCompetition(score, 0, streak) = "Saturated"
  BY DEF ClassifyCompetition
<1>5. Snapshot(NewEdge).competition = "Saturated"
  BY <1>1, <1>2, <1>3, <1>4 DEF Snapshot, Scored, Summary
<1> QED  BY <1>5 DEF TradingEnabled

\* At the start nothing is under way, and the empty window counts as saturated.
LEMMA InitLoopInv == Init => LoopInv
<1> SUFFICES ASSUME Init  PROVE LoopInv
  OBVIOUS
<1>1. /\ learner.view = Snapshot(NewEdge) /\ "view" \in DOMAIN learner
      /\ desk = [acct |-> NewAccount, price |-> 0, score |-> 0]
      /\ history.orders = 0 /\ history.foreign = 0
      /\ "orders" \in DOMAIN history /\ "foreign" \in DOMAIN history
  BY DEF Init
<1>2. "acct" \in DOMAIN desk /\ "lots" \in DOMAIN desk.acct
  BY <1>1 DEF NewAccount
<1>3. Shape
  BY <1>1, <1>2, EmptyHalted DEF Init, Shape, HaltedItems
<1>4. Stuck /\ Quiet
  BY <1>1, EmptyEdgeHalted, EmptyHalted DEF Init, Stuck, Quiet, HaltedItems
<1> QED  BY <1>1, <1>3, <1>4 DEF LoopInv, ColdStart, Unlearnt

\* Every step keeps the shape, and counts fills and orders upwards.
Counted ==
  /\ history'.foreign = history.foreign \/ history'.foreign = history.foreign + 1
  /\ history'.orders = history.orders \/ history'.orders = history.orders + 1

\* Bringing a fill counts it as foreign exactly when it is not an own one.
LEMMA DeliverShape ==
  ASSUME Shape, NEW fill, NEW up, Deliver(fill, up)
  PROVE  /\ "orders" \in DOMAIN history' /\ "foreign" \in DOMAIN history'
         /\ history'.orders = history.orders
         /\ history'.foreign = IF fill.own THEN history.foreign ELSE history.foreign + 1
<1>1. PICK n, e, l : history' = [history EXCEPT !.fills = n,
                                   !.foreign = IF fill.own THEN @ ELSE @ + 1,
                                   !.executed = e, !.lost = l]
  <2> DEFINE moved == Signed(fill.side, fill.qty)
             booked == up /\ Room(fills)
  <2>1. history' = [history EXCEPT
          !.fills = @ + 1,
          !.foreign = IF fill.own THEN @ ELSE @ + 1,
          !.executed[fill.symbol] = @ + moved,
          !.lost[fill.symbol] = IF booked THEN @ ELSE @ + moved]
    BY DEF Deliver
  <2> QED  BY <2>1
<1> QED  BY <1>1 DEF Shape

\* Every step keeps the shape of the state and counts orders and fills upwards.
LEMMA ShapeStep ==
  ASSUME Shape, [Next]_vars
  PROVE  Shape' /\ Counted
<1>1. ASSUME Learn \/ LearnFailure
      PROVE  Shape' /\ Counted
  <2>1. UNCHANGED <<decisions, desk, intents, vetted, history>>
    BY <1>1 DEF Learn, LearnFailure, stages, measures
  <2>2. ASSUME NEW l, NEW edge
        PROVE  DOMAIN Seeing(l, edge) = DOMAIN l
    BY DEF Seeing
  <2>3. "view" \in DOMAIN learner'
    <3>1. CASE Learn
      <4> DEFINE sample == Head(samples)
                 before == Taught(learner, sample)
                 l == Seeing(before, Observe(learner.edge, sample))
      <4>1. learner' = [l EXCEPT !.disabled = Lockout(l, l.view)]
        BY <3>1 DEF Learn, Locked
      <4>2. DOMAIN before = DOMAIN learner
        BY DEF Taught
      <4>3. DOMAIN l = DOMAIN learner
        BY <4>2, <2>2
      <4> HIDE DEF l
      <4> QED  BY <4>1, <4>3 DEF Shape
    <3>2. CASE LearnFailure
      <4> DEFINE l == Seeing(learner, ObserveFailure(learner.edge, Head(feedback).severity))
      <4>1. learner' = [l EXCEPT !.disabled = @ \/ Head(feedback).decayed]
        BY <3>2 DEF LearnFailure
      <4>2. DOMAIN l = DOMAIN learner
        BY <2>2
      <4> HIDE DEF l
      <4> QED  BY <4>1, <4>2 DEF Shape
    <3> QED  BY <1>1, <3>1, <3>2
  <2> QED  BY <2>1, <2>3 DEF Shape, Counted, Queue
<1>2. ASSUME NEW f \in Frames, Decide(f)
      PROVE  Shape' /\ Counted
  <2>1. PICK d : decisions' = Append(decisions, d) /\ learner' = [learner EXCEPT !.score = d.score]
    BY <1>2 DEF Decide
  <2>2. UNCHANGED <<desk, intents, vetted, history>>
    BY <1>2 DEF Decide
  <2>3. Queue(decisions') /\ "view" \in DOMAIN learner'
    BY <2>1, QueueAppend DEF Shape
  <2> QED  BY <2>2, <2>3 DEF Shape, Counted, Queue
<1>3. ASSUME ApplyExternalFill
      PROVE  Shape' /\ Counted
  <2> DEFINE fill == Head(fills)
             acct == Booked(desk.acct, fill, desk.price)
  <2>1. desk' = [desk EXCEPT !.acct = acct]
    BY <1>3 DEF ApplyExternalFill
  <2>2. PICK c : history' = [history EXCEPT !.cash = c]
    BY <1>3 DEF ApplyExternalFill
  <2>3. "lots" \in DOMAIN acct
    <3>1. DOMAIN ApplyFill(desk.acct, fill) = DOMAIN desk.acct
      BY DEF ApplyFill
    <3>2. ASSUME NEW a, NEW m, NEW p
          PROVE  DOMAIN MarkToMarket(a, m, p) = DOMAIN a
      BY DEF MarkToMarket
    <3> QED  BY <3>1, <3>2 DEF Booked, Shape
  <2> HIDE DEF acct
  <2>4. UNCHANGED <<learner, decisions, intents, vetted>>
    BY <1>3 DEF ApplyExternalFill
  <2>5. desk'.acct = acct /\ "acct" \in DOMAIN desk'
    BY <2>1 DEF Shape
  <2>6. /\ history'.orders = history.orders /\ history'.foreign = history.foreign
        /\ "orders" \in DOMAIN history' /\ "foreign" \in DOMAIN history'
    BY <2>2 DEF Shape
  <2> QED  BY <2>3, <2>4, <2>5, <2>6 DEF Shape, Counted, Queue
<1>4. ASSUME DecidePosition
      PROVE  Shape' /\ Counted
  <2> DEFINE d == Head(decisions)
             acct == MarkToMarket(desk.acct, Own, d.frame.price)
  <2>1. /\ desk' = [acct |-> acct, price |-> d.frame.price, score |-> d.score]
        /\ intents' = intents \o DecideOrder(d, acct)
        /\ decisions' = Tail(decisions) /\ decisions # <<>>
        /\ UNCHANGED <<learner, vetted, history>>
    BY <1>4 DEF DecidePosition
  <2>2. "lots" \in DOMAIN acct
    BY DEF Shape, MarkToMarket
  <2> HIDE DEF acct
  <2>3. Queue(intents')
    <3>1. PICK x : DecideOrder(d, acct) = <<>> \/ DecideOrder(d, acct) = <<x>>
      BY IntentVerdict
    <3>2. Queue(intents)
      BY DEF Shape
    <3> HIDE DEF d
    <3> QED  BY <2>1, <3>1, <3>2, QueueJoin
  <2>4. Queue(decisions')
    BY <2>1, QueueTail DEF Shape
  <2>5. desk'.acct = acct /\ "acct" \in DOMAIN desk'
    BY <2>1
  <2> QED  BY <2>1, <2>2, <2>3, <2>4, <2>5 DEF Shape, Counted, Queue
<1>5. ASSUME CheckRisk
      PROVE  Shape' /\ Counted
  <2>1. /\ intents # <<>> /\ intents' = Tail(intents)
        /\ vetted' = Append(vetted, Head(intents)) \/ vetted' = vetted
        /\ UNCHANGED <<learner, decisions, desk, history>>
    BY <1>5 DEF CheckRisk
  <2>2. Queue(intents')
    BY <2>1, QueueTail DEF Shape
  <2>3. Queue(Append(vetted, Head(intents))) /\ Queue(vetted)
    BY QueueAppend DEF Shape
  <2>4. Queue(vetted')
    BY <2>1, <2>3
  <2> QED  BY <2>1, <2>2, <2>4 DEF Shape, Counted, Queue
<1>6. ASSUME NEW j \in Judgements, JudgeMeta(j)
      PROVE  Shape' /\ Counted
  <2>1. /\ vetted # <<>> /\ vetted' = Tail(vetted)
        /\ history' = [history EXCEPT !.orders = @ + 1] \/ history' = history
        /\ UNCHANGED <<learner, decisions, desk, intents>>
    BY <1>6 DEF JudgeMeta
  <2>2. Queue(vetted')
    BY <2>1, QueueTail DEF Shape
  <2>3. /\ "orders" \in DOMAIN history' /\ "foreign" \in DOMAIN history'
        /\ history'.foreign = history.foreign
        /\ history'.orders = history.orders \/ history'.orders = history.orders + 1
    BY <2>1 DEF Shape
  <2> QED  BY <2>1, <2>2, <2>3 DEF Shape, Counted, Queue
<1>7. ASSUME NEW i, NEW qty, NEW price, NEW up, Execute(i, qty, price, up)
      PROVE  Shape' /\ Counted
  <2>1. UNCHANGED <<learner, decisions, desk, intents, vetted>>
    BY <1>7 DEF Execute
  <2>2. PICK fill : Deliver(fill, up)
    BY <1>7 DEF Execute
  <2>3. history'.foreign \in Nat /\ history'.orders \in Nat
    BY <2>2, DeliverShape DEF Shape
  <2> QED  BY <2>1, <2>2, <2>3, DeliverShape DEF Shape, Counted, Queue
<1>8. ASSUME NEW f \in Foreign, NEW price, NEW up, ForeignFill(f, price, up)
      PROVE  Shape' /\ Counted
  <2>1. UNCHANGED <<learner, decisions, desk, intents, vetted>>
    BY <1>8 DEF ForeignFill
  <2>2. PICK fill : Deliver(fill, up)
    BY <1>8 DEF ForeignFill
  <2>3. history'.foreign \in Nat /\ history'.orders \in Nat
    BY <2>2, DeliverShape DEF Shape
  <2> QED  BY <2>1, <2>2, <2>3, DeliverShape DEF Shape, Counted, Queue
<1>9. ASSUME NEW i, NEW failure, Fail(i, failure)
      PROVE  Shape' /\ Counted
  <2>1. UNCHANGED <<learner, decisions, desk, intents, vetted>>
        /\ history' = [history EXCEPT !.failures = @ + 1]
    BY <1>9 DEF Fail
  <2>2. /\ "orders" \in DOMAIN history' /\ "foreign" \in DOMAIN history'
        /\ history'.foreign = history.foreign /\ history'.orders = history.orders
    BY <2>1 DEF Shape
  <2> QED  BY <2>1, <2>2 DEF Shape, Counted, Queue
<1>10. ASSUME \/ \E i \in 1..Len(working) : GiveUp(i)
              \/ TakeFill
              \/ \E price \in Prices, dt \in StepTicks : Measure(price, dt)
              \/ UNCHANGED vars
       PROVE  Shape' /\ Counted
  <2>1. UNCHANGED <<learner, decisions, desk, intents, vetted, history>>
    BY <1>10 DEF GiveUp, TakeFill, Measure, stages, measures, vars
  <2> QED  BY <2>1 DEF Shape, Counted, Queue
<1> QED  BY <1>1, <1>2, <1>3, <1>4, <1>5, <1>6, <1>7, <1>8, <1>9, <1>10 DEF Next

\* While the verdict halts and nothing is learnt, no stage brings anything that is
\* not halted, whatever fills are booked and measured meanwhile.
LEMMA QuietStep ==
  ASSUME Shape, Quiet, ~Learn, [Next]_vars
  PROVE  Quiet' /\ history'.orders = history.orders
<1> DEFINE Goal == Quiet' /\ history'.orders = history.orders
<1> USE DEF Quiet
<1>q. HaltedItems(decisions) /\ HaltedItems(intents) /\ HaltedItems(vetted)
  BY DEF HaltedItems, Shape
<1>w. 1..Len(working) = {}
  <2>1. Len(<<>>) = 0 /\ 1..0 = {}
    OBVIOUS
  <2> QED  BY <2>1
<1>1. ASSUME ApplyExternalFill
      PROVE  Goal
  <2>1. UNCHANGED <<learner, decisions, intents, vetted, working, feedback>>
    BY <1>1 DEF ApplyExternalFill
  <2>2. history'.orders = history.orders
    BY <1>1 DEF ApplyExternalFill, Shape
  <2> QED  BY <2>1, <2>2 DEF HaltedQueue
<1>2. ASSUME NEW f \in Frames, Decide(f)
      PROVE  Goal
  <2> DEFINE d == DecisionOn(f, learner.view)
  <2>1. /\ decisions' = Append(decisions, d)
        /\ learner' = [learner EXCEPT !.score = d.score]
        /\ UNCHANGED <<intents, vetted, working, feedback, history>>
    BY <1>2 DEF Decide
  <2>2. Halted(d.verdict)
    BY DecisionHalted
  <2> HIDE DEF d
  <2>3. HaltedItems(decisions')
    BY <2>1, <2>2, <1>q, AppendHalted
  <2>4. learner'.view = learner.view
    BY <2>1 DEF Shape
  <2> QED  BY <2>1, <2>3, <2>4 DEF HaltedItems, HaltedQueue
<1>3. ASSUME DecidePosition
      PROVE  Goal
  <2> DEFINE d == Head(decisions)
             acct == MarkToMarket(desk.acct, Own, d.frame.price)
  <2>1. /\ intents' = intents \o DecideOrder(d, acct)
        /\ decisions' = Tail(decisions) /\ decisions # <<>>
        /\ UNCHANGED <<learner, vetted, working, feedback, history>>
    BY <1>3 DEF DecidePosition
  <2>2. HaltedItems(decisions') /\ Halted(d.verdict)
    BY <2>1, <1>q, TailHalted
  <2>3. PICK x : \/ DecideOrder(d, acct) = <<>>
                 \/ DecideOrder(d, acct) = <<x>> /\ x.verdict = d.verdict
    BY IntentVerdict
  <2> HIDE DEF d, acct
  <2>4. HaltedItems(intents')
    BY <2>1, <2>2, <2>3, <1>q, JoinHalted
  <2> QED  BY <2>1, <2>2, <2>4 DEF HaltedItems, HaltedQueue
<1>4. ASSUME CheckRisk
      PROVE  Goal
  <2>1. /\ intents # <<>> /\ intents' = Tail(intents)
        /\ vetted' = Append(vetted, Head(intents)) \/ vetted' = vetted
        /\ UNCHANGED <<learner, decisions, working, feedback, history>>
    BY <1>4 DEF CheckRisk
  <2>2. HaltedItems(intents') /\ Halted(Head(intents).verdict)
    BY <2>1, <1>q, TailHalted
  <2>3. HaltedItems(Append(vetted, Head(intents)))
    BY <2>2, <1>q, AppendHalted
  <2>4. HaltedItems(vetted')
    BY <2>1, <2>3, <1>q
  <2> QED  BY <2>1, <2>2, <2>4 DEF HaltedItems, HaltedQueue
<1>5. ASSUME NEW j \in Judgements, JudgeMeta(j)
      PROVE  Goal
  <2>1. vetted # <<>> /\ vetted' = Tail(vetted)
    BY <1>5 DEF JudgeMeta
  <2>2. HaltedItems(vetted') /\ Halted(Head(vetted).verdict)
    BY <2>1, <1>q, TailHalted
  <2>3. FinalDecision(Head(vetted), j) # "Execute"
    BY <2>2, HaltedIsSkipped
  <2>4. UNCHANGED <<learner, decisions, intents, working, feedback, history>>
    BY <1>5, <2>3 DEF JudgeMeta
  <2> QED  BY <2>1, <2>2, <2>4 DEF HaltedItems, HaltedQueue
<1>6. ASSUME NEW i \in 1..Len(working)
      PROVE  FALSE
  BY <1>w, <1>6
<1>7. ASSUME NEW f \in Foreign, NEW price, NEW up, ForeignFill(f, price, up)
      PROVE  Goal
  <2>1. UNCHANGED <<learner, decisions, intents, vetted, working, feedback>>
    BY <1>7 DEF ForeignFill
  <2>2. PICK fill : Deliver(fill, up)
    BY <1>7 DEF ForeignFill
  <2>3. history'.orders = history.orders
    BY <2>2, DeliverShape
  <2> QED  BY <2>1, <2>3 DEF HaltedQueue
<1>8. ASSUME \/ TakeFill
             \/ \E price \in Prices, dt \in StepTicks : Measure(price, dt)
             \/ UNCHANGED vars
      PROVE  Goal
  <2>1. UNCHANGED <<learner, decisions, intents, vetted, working, feedback, history>>
    BY <1>8 DEF TakeFill, Measure, stages, vars
  <2> QED  BY <2>1 DEF HaltedQueue
<1>9. ~LearnFailure
  BY DEF LearnFailure
<1> QED  BY <1>1, <1>2, <1>3, <1>4, <1>5, <1>6, <1>7, <1>8, <1>9 DEF Next

\* With no fill left either, no step but a foreign fill touches the ledger's lots.
LEMMA StuckStep ==
  ASSUME Shape, Stuck, [Next]_vars, history'.foreign = history.foreign
  PROVE  /\ Stuck'
         /\ desk'.acct.lots = desk.acct.lots
         /\ history'.orders = history.orders
<1> DEFINE Drained == fills = <<>> /\ truths = <<>> /\ pending = <<>> /\ samples = <<>>
           Goal == Drained' /\ desk'.acct.lots = desk.acct.lots
<1>0. Quiet /\ Drained
  BY DEF Stuck
<1>1. ~Learn /\ ~LearnFailure /\ ~ApplyExternalFill /\ ~TakeFill
  BY <1>0 DEF Learn, LearnFailure, ApplyExternalFill, TakeFill, Quiet
<1>2. Quiet' /\ history'.orders = history.orders
  BY <1>0, <1>1, QuietStep
<1>3. ASSUME \/ \E f \in Frames : Decide(f)
             \/ CheckRisk
             \/ \E j \in Judgements : JudgeMeta(j)
             \/ UNCHANGED vars
      PROVE  Goal
  <2>1. UNCHANGED <<desk, fills, measures>>
    BY <1>3 DEF Decide, CheckRisk, JudgeMeta, vars, stages
  <2> QED  BY <1>0, <2>1 DEF measures
<1>4. ASSUME DecidePosition
      PROVE  Goal
  <2> DEFINE acct == MarkToMarket(desk.acct, Own, Head(decisions).frame.price)
  <2>1. /\ desk' = [acct |-> acct, price |-> Head(decisions).frame.price,
                    score |-> Head(decisions).score]
        /\ UNCHANGED <<fills, measures>>
    BY <1>4 DEF DecidePosition
  <2>2. acct.lots = desk.acct.lots
    BY DEF Shape, MarkToMarket
  <2> HIDE DEF acct
  <2> QED  BY <1>0, <2>1, <2>2 DEF measures
<1>5. ASSUME NEW i \in 1..Len(working)
      PROVE  FALSE
  <2>1. Len(<<>>) = 0 /\ 1..0 = {}
    OBVIOUS
  <2> QED  BY <1>0, <1>5, <2>1 DEF Quiet
<1>6. ASSUME NEW f \in Foreign, NEW price, NEW up, ForeignFill(f, price, up)
      PROVE  FALSE
  <2>1. PICK fill : Deliver(fill, up) /\ fill.own = FALSE
    BY <1>6 DEF ForeignFill
  <2>2. history'.foreign = history.foreign + 1
    BY <2>1, DeliverShape
  <2> QED  BY <2>2 DEF Shape
<1>7. ASSUME NEW price, NEW dt, Measure(price, dt)
      PROVE  Goal
  <2>1. pending' = <<>> /\ samples' = <<>> /\ truths' = <<>>
    BY <1>0, <1>7, EmptyMeasure
  <2>2. UNCHANGED stages
    BY <1>7 DEF Measure
  <2> QED  BY <1>0, <2>1, <2>2 DEF stages
<1>8. Goal
  BY <1>1, <1>3, <1>4, <1>5, <1>6, <1>7 DEF Next
<1> QED  BY <1>2, <1>8 DEF Stuck

\* A sample that is learnt stands in the window.
LEMMA ObserveFills ==
  ASSUME NEW e \in EdgeKept, NEW x \in Sample
  PROVE  Observe(e, x).window # <<>>
<1>1. PICK w \in Seq(Sample) : w = e.window /\ Len(w) \in Nat
  BY EdgeFields
<1>2. ASSUME NEW q \in Seq(Sample) PROVE Append(q, x) # <<>>
  <2>1. Len(Append(q, x)) = Len(q) + 1 /\ Len(q) \in Nat /\ Len(<<>>) = 0
    OBVIOUS
  <2> QED  BY <2>1
<1>3. PICK v : v = IF Len(w) = Capacity THEN Append(Tail(w), x) ELSE Append(w, x)
  OBVIOUS
<1>4. v # <<>>
  <2>1. CASE Len(w) = Capacity
    <3>1. w # <<>>
      BY <2>1, EdgeAssumption
    <3>2. Tail(w) \in Seq(Sample)
      BY <3>1
    <3> QED  BY <1>2, <1>3, <2>1, <3>2
  <2>2. CASE Len(w) # Capacity
    BY <1>1, <1>2, <1>3, <2>2
  <2> QED  BY <2>1, <2>2
<1>5. PICK k : k = IF Capture(x) < -5 THEN e.streak + 1 ELSE IF e.streak = 0 THEN 0 ELSE e.streak - 1
  OBVIOUS
<1>6. Observe(e, x) = [e EXCEPT !.window = v, !.streak = k]
  BY <1>1, <1>3, <1>5, Zenon DEF Observe
<1>7. [e EXCEPT !.window = v, !.streak = k].window = v
  BY EdgeFields DEF EdgeKept, EdgeOK
<1> QED  BY <1>4, <1>6, <1>7

\* Only what is learnt changes the window, and then there is a sample in it.
LEMMA WindowStep ==
  ASSUME Types, [Next]_vars
  PROVE  IF Learn THEN learner'.edge.window # <<>>
                  ELSE learner'.edge.window = learner.edge.window
<1>1. PICK l \in Learner : l = learner
  BY DEF Types
<1>2. ASSUME Learn
      PROVE  learner'.edge.window # <<>>
  <2>1. PICK x \in Sample : x = Head(samples)
    BY <1>2, TailType DEF Learn, Types
  <2>2. PICK e \in EdgeKept : e = Observe(l.edge, x)
    BY ObserveType, LearnerFields
  <2>3. e.window # <<>>
    BY <2>2, ObserveFills, LearnerFields
  <2>4. PICK k \in Learner : k = Taught(l, x)
    BY TaughtType
  <2>5. learner' = Locked(Seeing(k, e))
    BY <1>1, <1>2, <2>1, <2>2, <2>4 DEF Learn
  <2>6. Seeing(k, e) = [k EXCEPT !.edge = e, !.view = Snapshot(e)]
    BY DEF Seeing
  <2>7. PICK m : m = [k EXCEPT !.edge = e, !.view = Snapshot(e)]
    OBVIOUS
  <2>8. m.edge = e /\ DOMAIN m = DOMAIN k
    BY <2>7 DEF Learner
  <2>9. [m EXCEPT !.disabled = Lockout(m, m.view)].edge = e
    BY <2>8 DEF Learner
  <2>10. learner'.edge = e
    BY <2>5, <2>6, <2>7, <2>9 DEF Locked
  <2> QED  BY <2>3, <2>10
<1>3. ASSUME LearnFailure
      PROVE  learner'.edge.window = learner.edge.window
  <2>1. PICK s : s = Head(feedback).severity
    OBVIOUS
  <2>2. PICK f : f = Ewma(l.edge.failure, s, 18)
    OBVIOUS
  <2>3. PICK e : e = [l.edge EXCEPT !.failure = f]
    OBVIOUS
  <2>4. e.window = l.edge.window
    BY <2>3, LearnerFields DEF EdgeKept, EdgeOK
  <2>5. ObserveFailure(learner.edge, Head(feedback).severity) = e
    BY <1>1, <2>1, <2>2, <2>3 DEF ObserveFailure
  <2>6. PICK m : m = [l EXCEPT !.edge = e, !.view = Snapshot(e)]
    OBVIOUS
  <2>7. Seeing(learner, e) = m
    BY <1>1, <2>6 DEF Seeing
  <2>8. learner' = [m EXCEPT !.disabled = @ \/ Head(feedback).decayed]
    BY <1>3, <2>5, <2>7 DEF LearnFailure
  <2>9. m.edge = e
    BY <2>6 DEF Learner
  <2>10. learner'.edge = m.edge
    BY <2>6, <2>8 DEF Learner
  <2> QED  BY <1>1, <2>4, <2>9, <2>10
<1>4. ASSUME NEW f \in Frames, Decide(f)
      PROVE  learner'.edge = learner.edge
  <2>1. PICK score : learner' = [l EXCEPT !.score = score]
    BY <1>1, <1>4 DEF Decide
  <2> QED  BY <1>1, <2>1 DEF Learner
<1>5. ASSUME ~Learn, ~LearnFailure, ~(\E f \in Frames : Decide(f))
      PROVE  UNCHANGED learner
  BY <1>5 DEF Next, ApplyExternalFill, DecidePosition, CheckRisk, JudgeMeta, Execute, GiveUp, Fail,
             ForeignFill, TakeFill, Measure, vars
<1> QED  BY <1>2, <1>3, <1>4, <1>5

\* Every step keeps the invariant.
LEMMA LoopInvInductive == LoopInv /\ Types /\ [Next]_vars => LoopInv'
<1> SUFFICES ASSUME LoopInv, Types, [Next]_vars  PROVE LoopInv'
  OBVIOUS
<1>1. Shape' /\ Counted
  BY ShapeStep DEF LoopInv
<1>2. ASSUME history'.foreign = 0
      PROVE  Stuck' /\ history'.orders = 0
  <2>1. history.foreign = 0
    BY <1>1, <1>2 DEF LoopInv, Shape, Counted
  <2> QED  BY <1>2, <2>1, StuckStep DEF LoopInv, ColdStart
<1>3. ASSUME learner'.edge.window = <<>>
      PROVE  Quiet' /\ history'.orders = 0
  <2>1. ~Learn /\ learner.edge.window = <<>>
    BY <1>3, WindowStep
  <2> QED  BY <2>1, QuietStep DEF LoopInv, Unlearnt
<1> QED  BY <1>1, <1>2, <1>3 DEF LoopInv, ColdStart, Unlearnt

-----------------------------------------------------------------------------
(* The samples sorted *)

\* The places of a sequence are as many as it is long.
LEMMA IntervalSize == \A n \in Nat : IsFiniteSet(1..n) /\ Cardinality(1..n) = n
<1> TAKE n \in Nat
<1>1. IsFiniteSet(1..n) /\ Cardinality(1..n) = IF 1 > n THEN 0 ELSE n - 1 + 1
  BY FS_Interval
<1> QED  BY <1>1

\* How many values of xs are at or below v is at most their number, none is counted
\* of an empty sequence, and every value counts itself.
LEMMA AtMostType ==
  ASSUME NEW xs \in Seq(Int), NEW v \in Int
  PROVE  /\ AtMost(xs, v) \in 0..Len(xs)
         /\ \A i \in 1..Len(xs) : xs[i] = v => AtMost(xs, v) >= 1
<1> DEFINE D == {i \in 1..Len(xs) : xs[i] <= v}
<1>1. IsFiniteSet(1..Len(xs)) /\ Cardinality(1..Len(xs)) = Len(xs)
  BY IntervalSize
<1>2. D \in SUBSET (1..Len(xs)) /\ AtMost(xs, v) = Cardinality(D)
  BY DEF AtMost
<1>3. ASSUME NEW i \in 1..Len(xs), xs[i] = v PROVE D # {}
  BY <1>3
<1> HIDE DEF D
<1>4. IsFiniteSet(D) /\ Cardinality(D) <= Len(xs) /\ Cardinality(D) \in Nat
  <2>1. IsFiniteSet(D) /\ Cardinality(D) <= Cardinality(1..Len(xs))
    BY <1>1, <1>2, FS_Subset
  <2> QED  BY <1>1, <2>1, FS_CardinalityType
<1>5. ASSUME NEW i \in 1..Len(xs), xs[i] = v PROVE Cardinality(D) # 0
  BY <1>3, <1>4, <1>5, FS_EmptySet
<1> QED  BY <1>2, <1>4, <1>5

\* A greater value counts as many or more, and strictly more when it is one of them.
LEMMA AtMostGrows ==
  ASSUME NEW xs \in Seq(Int), NEW u \in Int, NEW v \in Int, u < v
  PROVE  /\ AtMost(xs, u) <= AtMost(xs, v)
         /\ \A i \in 1..Len(xs) : xs[i] = v => AtMost(xs, u) < AtMost(xs, v)
<1> DEFINE C == {i \in 1..Len(xs) : xs[i] <= u}
           D == {i \in 1..Len(xs) : xs[i] <= v}
<1>1. IsFiniteSet(1..Len(xs))
  BY IntervalSize
<1>2. D \in SUBSET (1..Len(xs)) /\ AtMost(xs, u) = Cardinality(C) /\ AtMost(xs, v) = Cardinality(D)
  BY DEF AtMost
<1>3. C \in SUBSET D
  <2>1. \A i \in 1..Len(xs) : xs[i] \in Int
    OBVIOUS
  <2> QED  BY <2>1
<1>4. ASSUME NEW i \in 1..Len(xs), xs[i] = v PROVE C # D
  BY <1>4
<1> HIDE DEF C, D
<1>5. IsFiniteSet(D) /\ Cardinality(D) \in Nat
  BY <1>1, <1>2, FS_Subset, FS_CardinalityType
<1>6. IsFiniteSet(C) /\ Cardinality(C) \in Nat /\ Cardinality(C) <= Cardinality(D)
  BY <1>3, <1>5, FS_Subset, FS_CardinalityType
<1>7. Cardinality(C) = Cardinality(D) => C = D
  BY <1>3, <1>5, FS_Subset
<1> QED  BY <1>2, <1>4, <1>5, <1>6, <1>7

\* Among the places of a sequence of integers that a set holds one has the least value.
LEMMA LeastPlace ==
  ASSUME NEW xs \in Seq(Int), NEW P, P # {}, \A j \in P : j \in 1..Len(xs)
  PROVE  \E i \in P : \A j \in P : xs[i] <= xs[j]
<1> DEFINE Q(n) == {j \in P : j <= n}
           S == {n \in Nat : Q(n) # {} => \E i \in Q(n) : \A j \in Q(n) : xs[i] <= xs[j]}
<1>0. \A j \in P : j \in 1..Len(xs) /\ j \in Nat \ {0} /\ xs[j] \in Int
  OBVIOUS
<1>1. 0 \in S
  <2>1. Q(0) = {}
    BY <1>0
  <2> QED  BY <2>1
<1>2. ASSUME NEW n \in Nat, n \in S PROVE n + 1 \in S
  <2>1. Q(n + 1) \subseteq Q(n) \cup {n + 1}
    BY <1>0
  <2>2. \A j \in Q(n + 1) : xs[j] \in Int
    BY <1>0
  <2>3. CASE n + 1 \notin P
    <3>1. Q(n + 1) = Q(n)
      <4>1. \A j \in P : j <= n + 1 <=> j <= n
        BY <1>0, <2>3
      <4> QED  BY <4>1
    <3> HIDE DEF Q
    <3> QED  BY <1>2, <3>1
  <2>4. CASE n + 1 \in P /\ Q(n) = {}
    BY <2>1, <2>2, <2>4
  <2>5. CASE n + 1 \in P /\ Q(n) # {}
    <3>1. PICK i \in Q(n) : \A j \in Q(n) : xs[i] <= xs[j]
      BY <1>2, <2>5
    <3>2. i \in Q(n + 1) /\ n + 1 \in Q(n + 1)
      BY <2>5
    <3> HIDE DEF Q
    <3>3. CASE xs[i] <= xs[n + 1]
      BY <2>1, <3>1, <3>2, <3>3
    <3>4. CASE xs[n + 1] <= xs[i]
      <4>1. ASSUME NEW j \in Q(n + 1) PROVE xs[n + 1] <= xs[j]
        <5>1. CASE j = n + 1
          BY <2>2, <5>1
        <5>2. CASE j \in Q(n)
          <6>1. xs[i] <= xs[j]
            BY <3>1, <5>2
          <6> QED  BY <2>2, <3>2, <3>4, <6>1
        <5> QED  BY <2>1, <5>1, <5>2
      <4> QED  BY <3>2, <4>1
    <3> QED  BY <2>2, <3>2, <3>3, <3>4
  <2> QED  BY <2>3, <2>4, <2>5
<1>3. Nat \subseteq S
  <2>1. \A n \in Nat : n \in S => n + 1 \in S
    BY <1>2
  <2> HIDE DEF S
  <2> QED  BY <1>1, <2>1, SetInduction
<1>4. Q(Len(xs)) = P
  <2>1. \A j \in P : j <= Len(xs)
    BY <1>0
  <2> QED  BY <2>1
<1>5. Len(xs) \in S
  <2>1. Len(xs) \in Nat
    OBVIOUS
  <2> HIDE DEF S
  <2> QED  BY <1>3, <2>1
<1> HIDE DEF Q
<1> QED  BY <1>4, <1>5

\* ... and one has the greatest.
LEMMA GreatestPlace ==
  ASSUME NEW xs \in Seq(Int), NEW P, P # {}, \A j \in P : j \in 1..Len(xs)
  PROVE  \E i \in P : \A j \in P : xs[j] <= xs[i]
<1>1. \A j \in P : xs[j] \in Int
  OBVIOUS
<1>2. PICK zs \in Seq(Int) : Len(zs) = Len(xs) /\ \A i \in 1..Len(xs) : zs[i] = 0 - xs[i]
  <2> DEFINE zs == [i \in 1..Len(xs) |-> 0 - xs[i]]
  <2>1. zs \in Seq(Int) /\ Len(zs) = Len(xs) /\ \A i \in 1..Len(xs) : zs[i] = 0 - xs[i]
    OBVIOUS
  <2> HIDE DEF zs
  <2> QED  BY <2>1
<1>3. PICK i \in P : \A j \in P : zs[i] <= zs[j]
  BY <1>2, LeastPlace
<1>4. \A j \in P : xs[j] <= xs[i]
  <2>1. \A j \in P : zs[j] = 0 - xs[j]
    BY <1>2
  <2> QED  BY <1>1, <1>3, <2>1
<1> QED  BY <1>4

\* One value of the sequence is the k-th: fewer than k are below it, k or more are not above.
LEMMA OrderStatistic ==
  ASSUME NEW xs \in Seq(Int), NEW k \in 1..Len(xs)
  PROVE  \E v \in ToSet(xs) : Cardinality({i \in 1..Len(xs) : xs[i] < v}) < k /\ k <= AtMost(xs, v)
<1>0. \A i \in 1..Len(xs) : xs[i] \in Int /\ xs[i] \in ToSet(xs)
  BY DEF ToSet
<1> DEFINE P == {i \in 1..Len(xs) : k <= AtMost(xs, xs[i])}
<1>1. P # {}
  <2>1. 1..Len(xs) # {} /\ Len(xs) \in Nat
    OBVIOUS
  <2>2. PICK m \in 1..Len(xs) : \A i \in 1..Len(xs) : xs[i] <= xs[m]
    BY <2>1, GreatestPlace
  <2>3. {i \in 1..Len(xs) : xs[i] <= xs[m]} = 1..Len(xs)
    BY <2>2
  <2>4. AtMost(xs, xs[m]) = Cardinality(1..Len(xs))
    BY <2>3, Zenon DEF AtMost
  <2>5. AtMost(xs, xs[m]) = Len(xs)
    BY <2>1, <2>4, IntervalSize
  <2> QED  BY <2>5
<1>2. \A i \in P : i \in 1..Len(xs)
  OBVIOUS
<1> HIDE DEF P
<1>3. PICK m \in P : \A i \in P : xs[m] <= xs[i]
  BY <1>1, <1>2, LeastPlace
<1> USE DEF P
<1>4. m \in 1..Len(xs) /\ k <= AtMost(xs, xs[m])
  BY <1>3
<1> DEFINE L == {i \in 1..Len(xs) : xs[i] < xs[m]}
<1>5. Cardinality(L) < k
  <2>1. CASE L = {}
    <3>1. Cardinality({}) = 0
      BY FS_EmptySet, Zenon
    <3>2. Cardinality(L) = 0
      BY <2>1, <3>1, Zenon
    <3> HIDE DEF L
    <3> QED  BY <3>2
  <2>2. CASE L # {}
    <3>1. \A i \in L : i \in 1..Len(xs)
      OBVIOUS
    <3>2. PICK g \in L : \A i \in L : xs[i] <= xs[g]
      <4> HIDE DEF L
      <4> QED  BY <2>2, <3>1, GreatestPlace
    <3>3. g \in 1..Len(xs) /\ xs[g] < xs[m]
      BY <3>2
    <3>4. L = {i \in 1..Len(xs) : xs[i] <= xs[g]}
      <4>1. ASSUME NEW i \in 1..Len(xs) PROVE xs[i] < xs[m] <=> xs[i] <= xs[g]
        <5>1. xs[i] < xs[m] => xs[i] <= xs[g]
          BY <3>2
        <5>2. xs[i] \in Int /\ xs[g] \in Int /\ xs[m] \in Int
          BY <1>0, <1>4, <3>3
        <5> QED  BY <3>3, <5>1, <5>2
      <4> QED  BY <4>1
    <3>5. AtMost(xs, xs[g]) = Cardinality(L)
      BY <3>4 DEF AtMost
    <3>6. ~(k <= AtMost(xs, xs[g]))
      BY <1>0, <1>3, <1>4, <3>3
    <3>7. AtMost(xs, xs[g]) \in Nat
      <4>1. xs[g] \in Int
        BY <1>0, <3>3
      <4>2. AtMost(xs, xs[g]) \in 0..Len(xs)
        BY <4>1, AtMostType, Zenon
      <4> QED  BY <4>2
    <3> QED  BY <3>5, <3>6, <3>7
  <2> QED  BY <2>1, <2>2
<1> QED  BY <1>0, <1>4, <1>5

\* Sorting keeps the number of the samples, takes its values from them, and puts as many
\* of them at the front as are at or below a value: sort_by, for what the sweep uses of it.
LEMMA SortedCounts ==
  ASSUME NEW xs \in Seq(Int)
  PROVE  /\ Sorted(xs) \in Seq(Int)
         /\ Len(Sorted(xs)) = Len(xs)
         /\ \A k \in 1..Len(xs) : Sorted(xs)[k] \in ToSet(xs)
         /\ \A k \in 1..Len(xs), v \in Int : Sorted(xs)[k] <= v <=> k <= AtMost(xs, v)
<1> DEFINE Kth(k, v) == Cardinality({i \in 1..Len(xs) : xs[i] < v}) < k /\ k <= AtMost(xs, v)
<1>1. ASSUME NEW k \in 1..Len(xs)
      PROVE  Sorted(xs)[k] \in ToSet(xs) /\ Kth(k, Sorted(xs)[k])
  <2>1. Sorted(xs)[k] = CHOOSE v \in ToSet(xs) : Kth(k, v)
    BY DEF Sorted
  <2>2. \E v \in ToSet(xs) : Kth(k, v)
    BY OrderStatistic
  <2> HIDE DEF Kth
  <2> QED  BY <2>1, <2>2, Zenon
<1>2. \A v \in ToSet(xs) : v \in Int
  BY DEF ToSet
<1>3. \A k \in 1..Len(xs) : Sorted(xs)[k] \in Int
  BY <1>1, <1>2
<1>4. Sorted(xs) \in Seq(Int) /\ Len(Sorted(xs)) = Len(xs)
  <2>1. PICK s : s = Sorted(xs)
    OBVIOUS
  <2>2. s = [k \in 1..Len(xs) |-> s[k]]
    <3>1. DOMAIN s = 1..Len(xs)
      BY <2>1, Zenon DEF Sorted
    <3>2. s = [k \in DOMAIN s |-> s[k]]
      <4> DEFINE F(k) == CHOOSE v \in ToSet(xs) :
                           Cardinality({i \in 1..Len(xs) : xs[i] < v}) < k /\ k <= AtMost(xs, v)
      <4>1. s = [k \in 1..Len(xs) |-> F(k)]
        BY <2>1, Zenon DEF Sorted
      <4> HIDE DEF F
      <4> QED  BY <4>1
    <3> QED  BY <3>1, <3>2
  <2>4. \A k \in 1..Len(xs) : s[k] \in Int
    BY <1>3, <2>1
  <2>3. s \in Seq(Int) /\ Len(s) = Len(xs)
    BY <2>2, <2>4
  <2> QED  BY <2>1, <2>3
<1>5. ASSUME NEW k \in 1..Len(xs), NEW v \in Int
      PROVE  Sorted(xs)[k] <= v <=> k <= AtMost(xs, v)
  <2>1. PICK u \in Int : u = Sorted(xs)[k] /\ Kth(k, u)
    BY <1>1, <1>3
  <2>2. AtMost(xs, u) \in Nat /\ AtMost(xs, v) \in Nat
    <3>1. AtMost(xs, u) \in 0..Len(xs) /\ AtMost(xs, v) \in 0..Len(xs)
      BY AtMostType, Zenon
    <3> QED  BY <3>1
  <2>3. CASE u <= v
    <3>1. AtMost(xs, u) <= AtMost(xs, v)
      BY <2>2, <2>3, AtMostGrows
    <3> QED  BY <2>1, <2>2, <2>3, <3>1
  <2>4. CASE v < u
    <3> DEFINE C == {i \in 1..Len(xs) : xs[i] <= v}
               D == {i \in 1..Len(xs) : xs[i] < u}
    <3>1. C \in SUBSET D /\ D \in SUBSET (1..Len(xs)) /\ AtMost(xs, v) = Cardinality(C)
      BY <2>4 DEF AtMost
    <3>2. Cardinality(D) < k
      BY <2>1
    <3> HIDE DEF C, D
    <3>3. IsFiniteSet(1..Len(xs))
      BY IntervalSize
    <3>4. IsFiniteSet(D)
      BY <3>1, <3>3, FS_Subset
    <3>5. Cardinality(C) <= Cardinality(D) /\ Cardinality(D) \in Nat
      BY <3>1, <3>4, FS_Subset, FS_CardinalityType
    <3> QED  BY <2>1, <2>2, <2>4, <3>1, <3>2, <3>5
  <2> QED  BY <2>1, <2>3, <2>4
<1> QED  BY <1>1, <1>4, <1>5

-----------------------------------------------------------------------------
(* The sweep *)

\* Parts of a whole in hundredths: at most a hundred, all of it a hundred, and
\* the greater part no less.
LEMMA Hundredths ==
  ASSUME NEW n \in Nat \ {0}, NEW a \in 0..n, NEW b \in a..n
  PROVE  /\ (a * 100) \div n \in 0..100
         /\ (a * 100) \div n <= (b * 100) \div n
         /\ (n * 100) \div n = 100
<1>1. PICK x, y, z \in Nat : x = a * 100 /\ y = b * 100 /\ z = n * 100 /\ x <= y /\ y <= z
  OBVIOUS
<1>2. \A u, w \in Nat : u <= w => u \div n <= w \div n /\ u \div n \in Nat
  OBVIOUS
<1>3. (n * 100) \div n = 100
  OBVIOUS
<1>4. x \div n <= y \div n /\ x \div n \in Nat /\ y \div n <= z \div n
  BY <1>1, <1>2
<1> QED  BY <1>1, <1>3, <1>4

EitherValue(xs, ys) == ToSet(xs) \cup ToSet(ys)
Gap(xs, ys, v) == Abs(Share(xs, v) - Share(ys, v))

\* The share of the values at or below v is the count of them in hundredths.
LEMMA ShareCounts ==
  ASSUME NEW xs \in Seq(Int), xs # <<>>, NEW v \in Int
  PROVE  Share(xs, v) = (AtMost(xs, v) * 100) \div Len(xs) /\ Share(xs, v) \in 0..100
<1>1. DOMAIN xs = 1..Len(xs) /\ Len(xs) \in Nat \ {0}
  OBVIOUS
<1>2. Share(xs, v) = (AtMost(xs, v) * 100) \div Len(xs)
  BY <1>1, Zenon DEF Share, AtMost
<1>3. PICK n \in Nat \ {0}, a \in Nat : n = Len(xs) /\ a = AtMost(xs, v) /\ a \in 0..n
  <2>1. AtMost(xs, v) \in 0..Len(xs)
    BY AtMostType, Zenon
  <2>2. AtMost(xs, v) \in Nat
    BY <2>1
  <2> QED  BY <1>1, <2>1, <2>2, Zenon
<1>4. (a * 100) \div n \in 0..100
  <2>1. a \in a..n
    BY <1>3
  <2> QED  BY <1>3, <2>1, Hundredths
<1> QED  BY <1>2, <1>3, <1>4, Zenon

\* A value of the sequence counts itself: one or more, and more than a lesser number.
LEMMA ValueCounts ==
  ASSUME NEW xs \in Seq(Int), NEW u \in ToSet(xs)
  PROVE  u \in Int /\ AtMost(xs, u) >= 1 /\ \A w \in Int : w < u => AtMost(xs, w) < AtMost(xs, u)
<1>1. PICK i \in 1..Len(xs) : xs[i] = u
  BY DEF ToSet
<1>2. u \in Int
  BY <1>1
<1> QED  BY <1>1, <1>2, AtMostType, AtMostGrows

\* A pointer that is not beyond the values up to v comes to stand behind all of them.
LEMMA PastCounts ==
  ASSUME NEW xs \in Seq(Int), NEW v \in Int, NEW i \in Nat, i <= AtMost(xs, v)
  PROVE  Past(Sorted(xs), i, v) = AtMost(xs, v)
<1>1. PICK es \in Seq(Int) : /\ es = Sorted(xs) /\ Len(es) = Len(xs)
                             /\ \A k \in 1..Len(xs) : es[k] <= v <=> k <= AtMost(xs, v)
  BY SortedCounts
<1>2. PICK c \in 0..Len(xs) : c = AtMost(xs, v)
  BY AtMostType
<1>3. {k \in (i + 1)..Len(es) : es[k] <= v} = (i + 1)..c
  BY <1>1, <1>2
<1>4. Cardinality((i + 1)..c) = c - i
  <2>1. i + 1 \in Int /\ c \in Int /\ i <= c
    BY <1>2
  <2>2. Cardinality((i + 1)..c) = IF i + 1 > c THEN 0 ELSE c - (i + 1) + 1
    BY <2>1, FS_Interval
  <2> QED  BY <2>1, <2>2
<1>5. Past(es, i, v) = i + (c - i)
  BY <1>3, <1>4, Zenon DEF Past
<1> QED  BY <1>1, <1>2, <1>5

\* Where the sweep stands: at the start, or behind all values up to one of them, with
\* the greatest of the gaps at these.
Reached(i, j, m, xs, ys) ==
  \/ i = 0 /\ j = 0 /\ m = 0
  \/ /\ \E v \in EitherValue(xs, ys) :
          /\ i = AtMost(xs, v) /\ j = AtMost(ys, v)
          /\ \A u \in EitherValue(xs, ys) : u <= v => Gap(xs, ys, u) <= m
     /\ \E u \in EitherValue(xs, ys) : m = Gap(xs, ys, u)

\* After n turns: one of the samples is at its end, or n values are passed.
SweepInv(p, n, xs, ys) ==
  \E i \in 0..Len(xs), j \in 0..Len(ys), m \in Nat :
    /\ p = [i |-> i, j |-> j, max |-> m]
    /\ i = Len(xs) \/ j = Len(ys) \/ i + j >= n
    /\ Reached(i, j, m, xs, ys)

\* A gap is a natural number.
LEMMA GapType ==
  ASSUME NEW xs \in Seq(Int), NEW ys \in Seq(Int), xs # <<>>, ys # <<>>, NEW v \in Int
  PROVE  Gap(xs, ys, v) \in Nat
<1>1. PICK a, b \in 0..100 : a = Share(xs, v) /\ b = Share(ys, v)
  BY ShareCounts
<1>2. Gap(xs, ys, v) = Abs(a - b)
  BY <1>1 DEF Gap
<1> QED  BY <1>2 DEF Abs

\* A turn of the sweep goes behind the next value of the two samples and takes the gap there.
LEMMA SweepMoves ==
  ASSUME NEW xs \in Seq(Int), NEW ys \in Seq(Int),
         NEW i \in 0..Len(xs), NEW j \in 0..Len(ys), NEW m \in Nat,
         i # Len(xs), j # Len(ys), Reached(i, j, m, xs, ys)
  PROVE  \E a \in 0..Len(xs), b \in 0..Len(ys), max \in Nat :
           /\ Sweep([i |-> i, j |-> j, max |-> m], Sorted(xs), Sorted(ys))
                = [i |-> a, j |-> b, max |-> max]
           /\ a + b >= i + j + 1
           /\ Reached(a, b, max, xs, ys)
<1>1. /\ i \in Nat /\ i + 1 \in 1..Len(xs) /\ Len(xs) \in Nat /\ xs # <<>>
      /\ j \in Nat /\ j + 1 \in 1..Len(ys) /\ Len(ys) \in Nat /\ ys # <<>>
  OBVIOUS
<1>2. PICK es \in Seq(Int) :
        /\ es = Sorted(xs) /\ Len(es) = Len(xs)
        /\ \A k \in 1..Len(xs) : es[k] \in ToSet(xs) /\ es[k] \in Int
        /\ \A k \in 1..Len(xs), u \in Int : es[k] <= u <=> k <= AtMost(xs, u)
  BY SortedCounts, ValueCounts
<1>3. PICK rs \in Seq(Int) :
        /\ rs = Sorted(ys) /\ Len(rs) = Len(ys)
        /\ \A k \in 1..Len(ys) : rs[k] \in ToSet(ys) /\ rs[k] \in Int
        /\ \A k \in 1..Len(ys), u \in Int : rs[k] <= u <=> k <= AtMost(ys, u)
  BY SortedCounts, ValueCounts
<1>0. PICK e, r \in Int :
        e = es[i + 1] /\ e \in ToSet(xs) /\ r = rs[j + 1] /\ r \in ToSet(ys)
  <2>1. es[i + 1] \in Int /\ es[i + 1] \in ToSet(xs)
    BY <1>1, <1>2, Zenon
  <2>2. rs[j + 1] \in Int /\ rs[j + 1] \in ToSet(ys)
    BY <1>1, <1>3, Zenon
  <2> QED  BY <2>1, <2>2, Zenon
<1>4. PICK v \in Int : v = IF e <= r THEN e ELSE r
  OBVIOUS
<1>5. v \in EitherValue(xs, ys) /\ v <= e /\ v <= r /\ (v = e \/ v = r)
  <2>1. v <= e /\ v <= r /\ (v = e \/ v = r)
    BY <1>4
  <2> QED  BY <1>0, <2>1, Zenon DEF EitherValue
<1>6. /\ \A u \in Int : e <= u <=> i + 1 <= AtMost(xs, u)
      /\ \A u \in Int : r <= u <=> j + 1 <= AtMost(ys, u)
  BY <1>0, <1>1, <1>2, <1>3
<1>7. \A u \in Int : AtMost(xs, u) \in 0..Len(xs) /\ AtMost(ys, u) \in 0..Len(ys)
  BY AtMostType, Zenon
<1>8. \A u \in EitherValue(xs, ys) :
        u \in Int /\ (i < AtMost(xs, u) => v <= u) /\ (j < AtMost(ys, u) => v <= u)
  <2> SUFFICES ASSUME NEW u \in EitherValue(xs, ys)
               PROVE  u \in Int /\ (i < AtMost(xs, u) => v <= u) /\ (j < AtMost(ys, u) => v <= u)
    OBVIOUS
  <2>1. u \in Int
    BY ValueCounts DEF EitherValue
  <2>2. PICK a, b \in Nat : a = AtMost(xs, u) /\ b = AtMost(ys, u)
    <3>1. AtMost(xs, u) \in 0..Len(xs) /\ AtMost(ys, u) \in 0..Len(ys)
      BY <1>7, <2>1, Zenon
    <3>2. AtMost(xs, u) \in Nat /\ AtMost(ys, u) \in Nat
      BY <3>1
    <3> QED  BY <3>2, Zenon
  <2>3. (e <= u <=> i + 1 <= a) /\ (r <= u <=> j + 1 <= b)
    BY <1>6, <2>1, <2>2, Zenon
  <2>4. (i < a => v <= u) /\ (j < b => v <= u)
    BY <1>1, <1>5, <2>1, <2>3
  <2> QED  BY <2>1, <2>2, <2>4, Zenon
<1>9. /\ i <= AtMost(xs, v) /\ j <= AtMost(ys, v)
      /\ \A u \in EitherValue(xs, ys) : u < v => Gap(xs, ys, u) <= m
      /\ m = 0 \/ \E u \in EitherValue(xs, ys) : m = Gap(xs, ys, u)
  <2>1. CASE i = 0 /\ j = 0 /\ m = 0
    <3>1. ASSUME NEW u \in EitherValue(xs, ys), u < v PROVE FALSE
      <4>1. AtMost(xs, u) >= 1 \/ AtMost(ys, u) >= 1
        BY ValueCounts DEF EitherValue
      <4>2. AtMost(xs, u) \in Nat /\ AtMost(ys, u) \in Nat /\ u \in Int
        <5>1. u \in Int
          BY <1>8, Zenon
        <5>2. AtMost(xs, u) \in 0..Len(xs) /\ AtMost(ys, u) \in 0..Len(ys)
          BY <1>7, <5>1, Zenon
        <5> QED  BY <5>1, <5>2
      <4>3. i < AtMost(xs, u) \/ j < AtMost(ys, u)
        BY <2>1, <4>1, <4>2
      <4>4. v <= u
        BY <1>8, <4>3, Zenon
      <4> QED  BY <3>1, <4>2, <4>4
    <3>2. 0 <= AtMost(xs, v) /\ 0 <= AtMost(ys, v)
      <4>1. AtMost(xs, v) \in 0..Len(xs) /\ AtMost(ys, v) \in 0..Len(ys)
        BY <1>7, Zenon
      <4> QED  BY <4>1
    <3> QED  BY <2>1, <3>1, <3>2, Zenon
  <2>2. CASE ~(i = 0 /\ j = 0 /\ m = 0)
    <3>1. PICK w \in EitherValue(xs, ys) :
            /\ i = AtMost(xs, w) /\ j = AtMost(ys, w)
            /\ \A u \in EitherValue(xs, ys) : u <= w => Gap(xs, ys, u) <= m
      BY <2>2 DEF Reached
    <3>2. w \in Int
      BY <1>8
    <3>3. w < v
      <4>1. (e <= w <=> i + 1 <= i) /\ (r <= w <=> j + 1 <= j)
        BY <1>6, <3>1, <3>2, Zenon
      <4>2. w < e /\ w < r
        BY <1>1, <3>2, <4>1
      <4> QED  BY <1>5, <4>2, Zenon
    <3>4. ASSUME NEW u \in EitherValue(xs, ys), w < u PROVE v <= u
      <4>1. i < AtMost(xs, u) \/ j < AtMost(ys, u)
        BY <3>1, <3>2, <3>4, ValueCounts DEF EitherValue
      <4> QED  BY <1>8, <4>1
    <3>5. \A u \in EitherValue(xs, ys) : u < v => Gap(xs, ys, u) <= m
      BY <1>8, <3>1, <3>2, <3>4
    <3>6. i <= AtMost(xs, v) /\ j <= AtMost(ys, v)
      BY <3>1, <3>2, <3>3, AtMostGrows
    <3> QED  BY <2>2, <3>5, <3>6 DEF Reached
  <2> QED  BY <2>1, <2>2
<1>10. PICK a, b, g \in Nat : /\ a = AtMost(xs, v) /\ a \in 0..Len(xs)
                              /\ b = AtMost(ys, v) /\ b \in 0..Len(ys)
                              /\ g = Gap(xs, ys, v)
  <2>1. AtMost(xs, v) \in 0..Len(xs) /\ AtMost(ys, v) \in 0..Len(ys)
    BY <1>7, Zenon
  <2>2. AtMost(xs, v) \in Nat /\ AtMost(ys, v) \in Nat
    BY <2>1
  <2>3. Gap(xs, ys, v) \in Nat
    BY <1>1, GapType
  <2> QED  BY <2>1, <2>2, <2>3, Zenon
<1>11. Past(es, i, v) = a /\ Past(rs, j, v) = b
  BY <1>1, <1>2, <1>3, <1>9, <1>10, PastCounts
<1>12. Abs((a * 100) \div Len(es) - (b * 100) \div Len(rs)) = g
  <2>1. Share(xs, v) = (a * 100) \div Len(es) /\ Share(ys, v) = (b * 100) \div Len(rs)
    <3>1. Share(xs, v) = (AtMost(xs, v) * 100) \div Len(xs)
      BY <1>1, ShareCounts
    <3>2. Share(ys, v) = (AtMost(ys, v) * 100) \div Len(ys)
      BY <1>1, ShareCounts
    <3> QED  BY <1>2, <1>3, <1>10, <3>1, <3>2, Zenon
  <2> QED  BY <1>10, <2>1, Zenon DEF Gap
<1>13. PICK max \in Nat : max = IF g > m THEN g ELSE m
  OBVIOUS
<1>14. Sweep([i |-> i, j |-> j, max |-> m], es, rs) = [i |-> a, j |-> b, max |-> max]
  <2> DEFINE p == [i |-> i, j |-> j, max |-> m]
             q == [i |-> a, j |-> b, max |-> m]
  <2>1. Advance(p, es, rs) = q
    <3>1. p.i = i /\ p.j = j
      OBVIOUS
    <3>2. Advance(p, es, rs) = [p EXCEPT !.i = Past(es, i, v), !.j = Past(rs, j, v)]
      <4>1. (IF es[p.i + 1] <= rs[p.j + 1] THEN es[p.i + 1] ELSE rs[p.j + 1]) = v
        BY <1>0, <1>4, <3>1
      <4> HIDE DEF p
      <4> QED  BY <3>1, <4>1, Zenon DEF Advance
    <3> QED  BY <1>11, <3>2
  <2>2. q.i = a /\ q.j = b /\ q.max = m /\ p.i # Len(es) /\ p.j # Len(rs)
    BY <1>2, <1>3
  <2> HIDE DEF p, q
  <2>3. Sweep(p, es, rs) = [q EXCEPT !.max = IF g > q.max THEN g ELSE q.max]
    <3>1. (p.i = Len(es) \/ p.j = Len(rs)) = FALSE
      BY <2>2
    <3>2. Abs((q.i * 100) \div Len(es) - (q.j * 100) \div Len(rs)) = g
      BY <1>12, <2>2, Zenon
    <3> QED  BY <2>1, <3>1, <3>2, Zenon DEF Sweep
  <2>4. (IF g > q.max THEN g ELSE q.max) = max
    BY <1>13, <2>2
  <2>5. Sweep(p, es, rs) = [q EXCEPT !.max = max]
    BY <2>3, <2>4, Zenon
  <2>6. PICK s : s = [q EXCEPT !.max = max]
    OBVIOUS
  <2>7. s.i = a /\ s.j = b /\ s.max = max /\ DOMAIN s = {"i", "j", "max"}
    BY <2>2, <2>6 DEF q
  <2>8. s = [f \in {"i", "j", "max"} |-> s[f]]
    BY <2>6 DEF q
  <2>9. s = [i |-> a, j |-> b, max |-> max]
    BY <2>7, <2>8
  <2> QED  BY <2>5, <2>6, <2>9, Zenon DEF p
<1>15. a + b >= i + j + 1
  <2>1. (e <= v <=> i + 1 <= a) /\ (r <= v <=> j + 1 <= b)
    BY <1>6, <1>10, Zenon
  <2>2. i <= a /\ j <= b
    BY <1>9, <1>10, Zenon
  <2> QED  BY <1>1, <1>5, <2>1, <2>2
<1>16. Reached(a, b, max, xs, ys)
  <2>1. ASSUME NEW u \in EitherValue(xs, ys), u <= v PROVE Gap(xs, ys, u) <= max
    <3>1. u \in Int /\ Gap(xs, ys, u) \in Nat
      BY <1>1, <1>8, GapType
    <3>2. CASE u = v
      BY <1>10, <1>13, <3>1, <3>2
    <3>3. CASE u < v
      BY <1>9, <1>13, <3>1, <3>3
    <3> QED  BY <2>1, <3>1, <3>2, <3>3
  <2>2. \E u \in EitherValue(xs, ys) : max = Gap(xs, ys, u)
    <3>1. max = g \/ (max = m /\ m # 0)
      BY <1>13
    <3> QED  BY <1>5, <1>9, <1>10, <3>1
  <2> QED  BY <1>5, <1>10, <2>1, <2>2 DEF Reached
<1> QED  BY <1>2, <1>3, <1>10, <1>13, <1>14, <1>15, <1>16

\* A greater value has the same share or a greater one, and the last all of it.
LEMMA SharesGrow ==
  ASSUME NEW xs \in Seq(Int), xs # <<>>, NEW v \in Int, NEW u \in Int, v < u
  PROVE  /\ Share(xs, v) \in 0..100 /\ Share(xs, u) \in 0..100 /\ Share(xs, v) <= Share(xs, u)
         /\ AtMost(xs, v) = Len(xs) => Share(xs, v) = 100 /\ Share(xs, u) = 100
<1>1. PICK n \in Nat \ {0}, a, b \in Nat :
        n = Len(xs) /\ a = AtMost(xs, v) /\ b = AtMost(xs, u)
  <2>1. Len(xs) \in Nat \ {0}
    OBVIOUS
  <2>2. AtMost(xs, v) \in 0..Len(xs) /\ AtMost(xs, u) \in 0..Len(xs)
    BY AtMostType, Zenon
  <2>3. AtMost(xs, v) \in Nat /\ AtMost(xs, u) \in Nat
    BY <2>2
  <2> QED  BY <2>1, <2>3, Zenon
<1>2. a \in 0..n /\ b \in a..n
  <2>1. AtMost(xs, v) \in 0..Len(xs) /\ AtMost(xs, u) \in 0..Len(xs)
    BY AtMostType, Zenon
  <2>2. AtMost(xs, v) <= AtMost(xs, u)
    BY AtMostGrows
  <2> QED  BY <1>1, <2>1, <2>2
<1>3. (a * 100) \div n <= (b * 100) \div n /\ (n * 100) \div n = 100
  BY <1>2, Hundredths
<1>4. Share(xs, v) = (a * 100) \div n /\ Share(xs, u) = (b * 100) \div n
  <2>1. Share(xs, v) = (AtMost(xs, v) * 100) \div Len(xs)
    BY ShareCounts
  <2>2. Share(xs, u) = (AtMost(xs, u) * 100) \div Len(xs)
    BY ShareCounts
  <2> QED  BY <1>1, <2>1, <2>2, Zenon
<1>5. Share(xs, v) \in 0..100 /\ Share(xs, u) \in 0..100
  BY ShareCounts
<1>6. a = n => b = n
  BY <1>2
<1>7. Share(xs, v) <= Share(xs, u)
  BY <1>3, <1>4, Zenon
<1>8. a = n => Share(xs, v) = 100 /\ Share(xs, u) = 100
  BY <1>3, <1>4, <1>6, Zenon
<1> QED  BY <1>1, <1>5, <1>7, <1>8, Zenon

\* The sweep, turn after turn, up to the n-th.
Sweeps(f, es, rs, n) ==
  f = [k \in 0..n |-> IF k = 0 THEN [i |-> 0, j |-> 0, max |-> 0] ELSE Sweep(f[k - 1], es, rs)]

\* There is one for every number of turns.
LEMMA SweepsExist == \A es, rs : \A n \in Nat : \E f : Sweeps(f, es, rs, n)
<1> TAKE es, rs
<1> DEFINE start == [i |-> 0, j |-> 0, max |-> 0]
           S == {n \in Nat : \E f : Sweeps(f, es, rs, n)}
<1>1. 0 \in S
  <2>1. Sweeps([k \in 0..0 |-> start], es, rs, 0)
    BY DEF Sweeps
  <2> QED  BY <2>1
<1>2. ASSUME NEW n \in Nat, n \in S PROVE n + 1 \in S
  <2>1. PICK f : Sweeps(f, es, rs, n)
    BY <1>2
  <2> HIDE DEF start
  <2> DEFINE G(g, k) == IF k = 0 THEN start ELSE Sweep(g[k - 1], es, rs)
  <2>2. PICK h : h = [k \in 0..(n + 1) |-> IF k = n + 1 THEN Sweep(f[n], es, rs) ELSE f[k]]
    OBVIOUS
  <2>3. \A k \in 0..n : f[k] = G(f, k)
    BY <2>1 DEF Sweeps, start
  <2>4. ASSUME NEW k \in 0..(n + 1) PROVE h[k] = G(h, k)
    <3>1. CASE k = n + 1
      BY <2>2, <3>1
    <3>2. CASE k = 0
      BY <2>2, <2>3, <3>2
    <3>3. CASE k # n + 1 /\ k # 0
      <4>1. k \in 0..n /\ k - 1 \in 0..n /\ k - 1 # n + 1
        BY <3>3
      <4>2. h[k] = f[k] /\ h[k - 1] = f[k - 1]
        BY <2>2, <3>3, <4>1
      <4> QED  BY <2>3, <3>3, <4>1, <4>2
    <3> QED  BY <3>1, <3>2, <3>3
  <2>5. h = [k \in 0..(n + 1) |-> h[k]]
    BY <2>2
  <2> HIDE DEF G
  <2>6. h = [k \in 0..(n + 1) |-> G(h, k)]
    BY <2>4, <2>5
  <2>7. Sweeps(h, es, rs, n + 1)
    BY <2>6, Zenon DEF Sweeps, G, start
  <2> QED  BY <2>7
<1>3. Nat \subseteq S
  <2>1. \A n \in Nat : n \in S => n + 1 \in S
    BY <1>2
  <2> HIDE DEF S
  <2> QED  BY <1>1, <2>1, SetInduction
<1> QED  BY <1>3

\* After every turn the sweep stands behind all values up to one of them.
LEMMA SweepsStand ==
  ASSUME NEW xs \in Seq(Int), NEW ys \in Seq(Int), NEW N \in Nat,
         NEW f, Sweeps(f, Sorted(xs), Sorted(ys), N)
  PROVE  \A n \in 0..N : SweepInv(f[n], n, xs, ys)
<1> DEFINE S == {n \in Nat : n <= N => SweepInv(f[n], n, xs, ys)}
<1>0. Len(xs) \in Nat /\ Len(ys) \in Nat /\ 0 \in 0..Len(xs) /\ 0 \in 0..Len(ys)
  OBVIOUS
<1>1. 0 \in S
  <2>1. f[0] = [i |-> 0, j |-> 0, max |-> 0]
    BY DEF Sweeps
  <2>2. Reached(0, 0, 0, xs, ys) /\ 0 + 0 >= 0 /\ 0 \in Nat
    BY DEF Reached
  <2>3. SweepInv(f[0], 0, xs, ys)
    BY <1>0, <2>1, <2>2 DEF SweepInv
  <2> QED  BY <2>3
<1>2. ASSUME NEW n \in Nat, n \in S, n + 1 <= N PROVE SweepInv(f[n + 1], n + 1, xs, ys)
  <2>1. PICK i \in 0..Len(xs), j \in 0..Len(ys), m \in Nat :
          /\ f[n] = [i |-> i, j |-> j, max |-> m]
          /\ i = Len(xs) \/ j = Len(ys) \/ i + j >= n
          /\ Reached(i, j, m, xs, ys)
    BY <1>2 DEF SweepInv
  <2>2. f[n + 1] = Sweep(f[n], Sorted(xs), Sorted(ys))
    <3>1. n + 1 \in 0..N /\ n + 1 # 0 /\ (n + 1) - 1 = n
      BY <1>2
    <3> QED  BY <3>1 DEF Sweeps
  <2>3. Len(Sorted(xs)) = Len(xs) /\ Len(Sorted(ys)) = Len(ys)
    BY SortedCounts
  <2>4. f[n].i = i /\ f[n].j = j
    BY <2>1
  <2>5. CASE i = Len(xs) \/ j = Len(ys)
    <3>1. f[n + 1] = f[n]
      BY <2>2, <2>3, <2>4, <2>5, Zenon DEF Sweep
    <3> QED  BY <2>1, <2>5, <3>1 DEF SweepInv
  <2>6. CASE i # Len(xs) /\ j # Len(ys)
    <3>1. PICK a \in 0..Len(xs), b \in 0..Len(ys), max \in Nat :
            /\ Sweep([i |-> i, j |-> j, max |-> m], Sorted(xs), Sorted(ys))
                 = [i |-> a, j |-> b, max |-> max]
            /\ a + b >= i + j + 1
            /\ Reached(a, b, max, xs, ys)
      BY <2>1, <2>6, SweepMoves
    <3>2. f[n + 1] = [i |-> a, j |-> b, max |-> max]
      BY <2>1, <2>2, <3>1, Zenon
    <3>3. a + b >= n + 1
      BY <1>0, <2>1, <2>6, <3>1
    <3> QED  BY <3>1, <3>2, <3>3, Zenon DEF SweepInv
  <2> QED  BY <2>5, <2>6
<1>3. Nat \subseteq S
  <2>1. \A n \in Nat : n \in S => n + 1 \in S
    BY <1>2
  <2> HIDE DEF S
  <2> QED  BY <1>1, <2>1, SetInduction
<1> QED  BY <1>3

\* The greater of two shares is the nearer one to the whole.
LEMMA NearerToAll ==
  ASSUME NEW b \in 0..100, NEW d \in 0..100, b <= d
  PROVE  Abs(100 - d) <= Abs(100 - b) /\ Abs(d - 100) <= Abs(b - 100)
<1>1. Abs(100 - d) = 100 - d /\ Abs(100 - b) = 100 - b
  BY DEF Abs
<1>2. Abs(d - 100) = 100 - d /\ Abs(b - 100) = 100 - b
  BY DEF Abs
<1> QED  BY <1>1, <1>2

\* Once one of the samples is at its end the gaps beyond are no greater.
LEMMA SweepEnds ==
  ASSUME NEW xs \in Seq(Int), NEW ys \in Seq(Int), xs # <<>>, ys # <<>>,
         NEW i \in 0..Len(xs), NEW j \in 0..Len(ys), NEW m \in Nat,
         i = Len(xs) \/ j = Len(ys), Reached(i, j, m, xs, ys)
  PROVE  /\ \A u \in EitherValue(xs, ys) : Gap(xs, ys, u) <= m
         /\ \E u \in EitherValue(xs, ys) : m = Gap(xs, ys, u)
<1>1. Len(xs) \in Nat \ {0} /\ Len(ys) \in Nat \ {0}
  OBVIOUS
<1>2. ~(i = 0 /\ j = 0 /\ m = 0)
  BY <1>1
<1>3. PICK v \in EitherValue(xs, ys) :
        /\ i = AtMost(xs, v) /\ j = AtMost(ys, v)
        /\ \A u \in EitherValue(xs, ys) : u <= v => Gap(xs, ys, u) <= m
  BY <1>2 DEF Reached
<1>4. \A u \in EitherValue(xs, ys) : u \in Int
  BY ValueCounts DEF EitherValue
<1>5. ASSUME NEW u \in EitherValue(xs, ys), v < u PROVE Gap(xs, ys, u) <= Gap(xs, ys, v)
  <2>1. u \in Int /\ v \in Int
    BY <1>4
  <2>2. /\ Share(xs, v) \in 0..100 /\ Share(xs, u) \in 0..100 /\ Share(xs, v) <= Share(xs, u)
        /\ i = Len(xs) => Share(xs, v) = 100 /\ Share(xs, u) = 100
    BY <1>3, <1>5, <2>1, SharesGrow
  <2>3. /\ Share(ys, v) \in 0..100 /\ Share(ys, u) \in 0..100 /\ Share(ys, v) <= Share(ys, u)
        /\ j = Len(ys) => Share(ys, v) = 100 /\ Share(ys, u) = 100
    BY <1>3, <1>5, <2>1, SharesGrow
  <2>4. CASE i = Len(xs)
    <3>1. /\ Gap(xs, ys, u) = Abs(100 - Share(ys, u))
          /\ Gap(xs, ys, v) = Abs(100 - Share(ys, v))
      BY <2>2, <2>4, Zenon DEF Gap
    <3>2. Abs(100 - Share(ys, u)) <= Abs(100 - Share(ys, v))
      BY <2>3, NearerToAll
    <3> QED  BY <3>1, <3>2, Zenon
  <2>5. CASE j = Len(ys)
    <3>1. /\ Gap(xs, ys, u) = Abs(Share(xs, u) - 100)
          /\ Gap(xs, ys, v) = Abs(Share(xs, v) - 100)
      BY <2>3, <2>5, Zenon DEF Gap
    <3>2. Abs(Share(xs, u) - 100) <= Abs(Share(xs, v) - 100)
      BY <2>2, NearerToAll
    <3> QED  BY <3>1, <3>2, Zenon
  <2> QED  BY <2>4, <2>5
<1>6. Gap(xs, ys, v) <= m /\ Gap(xs, ys, v) \in Nat
  BY <1>3, <1>4, GapType
<1>7. ASSUME NEW u \in EitherValue(xs, ys) PROVE Gap(xs, ys, u) <= m
  <2>1. u \in Int /\ v \in Int /\ Gap(xs, ys, u) \in Nat
    BY <1>4, GapType
  <2> QED  BY <1>3, <1>5, <1>6, <2>1
<1> QED  BY <1>2, <1>7 DEF Reached

\* The statistic is the greatest distance of the two distributions: at every value of
\* either sample the shares of the samples at or below it are compared.
LEMMA KSExact ==
  ASSUME NEW xs \in Seq(Int), NEW ys \in Seq(Int), xs = <<>> <=> ys = <<>>
  PROVE  KsStatistic(xs, ys) = Max({Gap(xs, ys, v) : v \in EitherValue(xs, ys)} \cup {0})
<1> DEFINE N == Len(xs) + Len(ys)
           G == {Gap(xs, ys, v) : v \in EitherValue(xs, ys)} \cup {0}
           f == CHOOSE g : Sweeps(g, Sorted(xs), Sorted(ys), N)
<1>1. Len(xs) \in Nat /\ Len(ys) \in Nat /\ N \in Nat /\ N \in 0..N
  OBVIOUS
<1>2. Len(Sorted(xs)) + Len(Sorted(ys)) = N
  BY SortedCounts
<1>3. KsStatistic(xs, ys) = f[N].max
  BY <1>2, Zenon DEF KsStatistic, Sweeps
<1>4. Sweeps(f, Sorted(xs), Sorted(ys), N)
  BY <1>1, SweepsExist
<1> HIDE DEF f
<1>5. SweepInv(f[N], N, xs, ys)
  BY <1>1, <1>4, SweepsStand
<1>6. PICK i \in 0..Len(xs), j \in 0..Len(ys), m \in Nat :
        /\ f[N] = [i |-> i, j |-> j, max |-> m]
        /\ i = Len(xs) \/ j = Len(ys) \/ i + j >= N
        /\ Reached(i, j, m, xs, ys)
  BY <1>5 DEF SweepInv
<1>7. KsStatistic(xs, ys) = m
  BY <1>3, <1>6
<1>8. m \in G /\ \A g \in G : m >= g
  <2>1. CASE xs = <<>>
    <3>1. ys = <<>>
      BY <2>1
    <3>2. EitherValue(xs, ys) = {}
      BY <2>1, <3>1 DEF EitherValue, ToSet
    <3>3. m = 0
      BY <1>6, <3>2 DEF Reached
    <3> QED  BY <3>2, <3>3
  <2>2. CASE xs # <<>>
    <3>1. ys # <<>>
      BY <2>2
    <3>2. i = Len(xs) \/ j = Len(ys)
      BY <1>1, <1>6
    <3>3. /\ \A u \in EitherValue(xs, ys) : Gap(xs, ys, u) <= m
          /\ \E u \in EitherValue(xs, ys) : m = Gap(xs, ys, u)
      BY <1>6, <2>2, <3>1, <3>2, SweepEnds
    <3> QED  BY <3>3
  <2> QED  BY <2>1, <2>2
<1>9. \A g \in G : g \in Nat
  <2>1. CASE xs = <<>>
    <3>1. EitherValue(xs, ys) = {}
      BY <2>1 DEF EitherValue, ToSet
    <3> QED  BY <3>1
  <2>2. CASE xs # <<>>
    <3>1. \A v \in EitherValue(xs, ys) : Gap(xs, ys, v) \in Nat
      BY <2>2, ValueCounts, GapType DEF EitherValue
    <3> QED  BY <3>1
  <2> QED  BY <2>1, <2>2
<1> HIDE DEF G
<1>10. Max(G) = m
  <2>1. PICK r : r = Max(G)
    OBVIOUS
  <2>2. r \in G /\ \A g \in G : r >= g
    BY <1>8, <2>1, Zenon DEF Max
  <2>3. r \in Nat /\ m \in Nat /\ r >= m /\ m >= r
    BY <1>8, <1>9, <2>2
  <2> QED  BY <2>1, <2>3
<1> QED  BY <1>7, <1>10 DEF G

-----------------------------------------------------------------------------
(* The theorems *)

\* RTTS posts no order before somebody else's order was filled and the engine has
\* learnt from a measured fill: with no sample the snapshot of edge_validation.rs
\* halts trading, however many fills were booked without being measured.
THEOREM NoEvidenceNoTrading == Spec => []EvidenceBeforeTrading
<1>1. LoopInv => EvidenceBeforeTrading
  BY DEF LoopInv, Shape, ColdStart, Unlearnt, EvidenceBeforeTrading
<1> QED  BY <1>1, InitLoopInv, LoopInvInductive, LedgerAlwaysKept, PTL DEF Spec

\* A halt that nothing under way can end is ended by nothing RTTS does, and no lot
\* is closed in it: position.rs's forced exits never pass the meta engine.
THEOREM HaltStays == Spec => HaltIsFinal
<1>1. LoopInv /\ [Next]_vars
      => (Stuck /\ history'.foreign = history.foreign
          => Stuck' /\ desk'.acct.lots = desk.acct.lots)
  BY StuckStep DEF LoopInv
<1> QED  BY <1>1, InitLoopInv, LoopInvInductive, LedgerAlwaysKept, PTL DEF Spec, HaltIsFinal

\* The statistic over the window of the learner is the greatest distance of the
\* distributions of expected edges and of markouts: ks_statistic's two pointers miss
\* no gap, with ties within a sample and between the two.
THEOREM KSAlwaysAgrees == Spec => []KSAgrees
<1>1. Types => KSAgrees
  <2> SUFFICES ASSUME Types PROVE KSAgrees
    OBVIOUS
  <2>1. PICK w \in Seq(Sample) : w = learner.edge.window
    BY LearnerFields, EdgeFields DEF Types
  <2>2. PICK xs, ys \in Seq(Int) : /\ xs = Each(w, LAMBDA s : s.edge)
                                   /\ ys = Each(w, LAMBDA s : s.markout)
                                   /\ Len(xs) = Len(ys)
    <3>1. \A i \in 1..Len(w) : w[i].edge \in Int /\ w[i].markout \in Int
      <4>1. \A s \in Sample : s.edge \in Int /\ s.markout \in Int
        BY DEF Sample
      <4>2. \A i \in 1..Len(w) : w[i] \in Sample
        OBVIOUS
      <4> QED  BY <4>1, <4>2, Zenon
    <3>2. PICK xs : xs = [i \in 1..Len(w) |-> w[i].edge]
      OBVIOUS
    <3>3. PICK ys : ys = [i \in 1..Len(w) |-> w[i].markout]
      OBVIOUS
    <3>4. xs \in Seq(Int) /\ ys \in Seq(Int) /\ Len(xs) = Len(ys)
      BY <3>1, <3>2, <3>3
    <3> QED  BY <3>2, <3>3, <3>4, Zenon DEF Each
  <2>3. xs = <<>> <=> ys = <<>>
    BY <2>2
  <2>4. KsStatistic(xs, ys) = Max({Gap(xs, ys, v) : v \in EitherValue(xs, ys)} \cup {0})
    BY <2>3, KSExact
  <2>5. KSAgrees <=>
          KsStatistic(xs, ys) =
            Max({Abs(Share(xs, v) - Share(ys, v)) : v \in ToSet(xs) \cup ToSet(ys)} \cup {0})
    BY <2>1, <2>2, Zenon DEF KSAgrees
  <2> QED  BY <2>4, <2>5, Zenon DEF Gap, EitherValue
<1> QED  BY <1>1, LedgerAlwaysKept, PTL

=============================================================================
