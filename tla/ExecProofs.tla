----------------------------- MODULE ExecProofs -----------------------------
(***************************************************************************)
(* Proofs about ExecLoop, for any keys, intents, capacities, limits and     *)
(* cooldown: the safety properties of ExecProperties follow from one        *)
(* inductive invariant, which says of every controller, instruction and     *)
(* event in flight what the properties need.  The one about the ends of     *)
(* orders needs a second one, EndsKept, which extends it to controllers     *)
(* that have aborted their order.                                           *)
(***************************************************************************)
EXTENDS ExecProperties, FiniteSetTheorems, TLAPS

\* What the exchange executed of each order; x below is its value for one.
executed == [k \in Keys |-> Executed(k)]

GoodController(k, c, x) ==
  /\ c \in Controller
  /\ c.id \in {k, IdOf[k]}
  /\ c.replaces = 0 /\ c.quotes = "none"
  /\ (c.cancels + c.replaces) * Cooldown <= c.acted
  /\ c.filled <= x

GoodInstruction(i, x) ==
  /\ i \in Instruction
  /\ i.id \in {i.key, IdOf[i.key]}
  /\ i.kind # "Reprice"
  /\ i.kind = "Exit" => i.size <= x

GoodEvent(e, x) == e \in Event /\ e.id = IdOf[e.key] /\ e.cum <= x

Controllers ==
  /\ controllers \in [Keys -> Controller \cup {None}]
  /\ \A k \in Keys : Active(k) => GoodController(k, controllers[k], executed[k]) /\ lookup[k] = k

Lookup ==
  /\ lookup \in [Keys \cup Ids -> Keys \cup {None}]
  /\ \A x \in Keys \cup Ids : lookup[x] # None => x \in {lookup[x], IdOf[lookup[x]]}

Actions ==
  /\ actions \in Seq(Instruction) /\ Len(actions) <= ActionCap
  /\ \A n \in 1 .. Len(actions) : GoodInstruction(actions[n], executed[actions[n].key])

Events ==
  /\ events \in Seq(Event) /\ Len(events) <= EventCap
  /\ \A n \in 1 .. Len(events) : GoodEvent(events[n], executed[events[n].key])

Remote ==
  /\ orders \in [Keys -> RemoteOrder \cup {None}]
  /\ \A k \in Keys : orders[k] # None => orders[k].filled <= orders[k].executed
  /\ handler \in Handler
  /\ handler.pc \in {"send", "cancel"} => orders[handler.key] # None
  /\ handler.pc = "reply" => GoodEvent(handler.event, executed[handler.event.key])
  /\ stream # None => GoodEvent(stream, executed[stream.key])
  /\ stream \in Event \cup {None}

Rest == missed \subseteq Keys /\ now \in Nat /\ arrivals \in Nat

Inductive == Controllers /\ Lookup /\ Actions /\ Events /\ Remote /\ Rest

-----------------------------------------------------------------------------
(* Operators *)

\* The bounded channel keeps its type and capacity, and holds nothing but what
\* it held and what was offered.
LEMMA OfferProperties ==
  ASSUME NEW S, NEW queue \in Seq(S), NEW cap \in Nat, NEW items \in Seq(S), Len(queue) <= cap
  PROVE  /\ Offer(queue, cap, items) \in Seq(S)
         /\ Len(Offer(queue, cap, items)) <= cap
         /\ \A n \in 1 .. Len(Offer(queue, cap, items)) :
              \/ n \in 1 .. Len(queue) /\ Offer(queue, cap, items)[n] = queue[n]
              \/ \E m \in 1 .. Len(items) : Offer(queue, cap, items)[n] = items[m]
<1> DEFINE room == Lesser(Len(items), Greater(cap - Len(queue), 0))
           taken == SubSeq(items, 1, room)
<1>1. room \in Nat /\ room <= Len(items) /\ room <= cap - Len(queue)
  BY DEF Lesser, Greater
<1>2. taken \in Seq(S) /\ Len(taken) = room /\ \A m \in 1 .. room : taken[m] = items[m]
  BY <1>1
<1>3. Offer(queue, cap, items) = queue \o taken
  BY DEF Offer
<1> HIDE DEF room, taken
<1>4. /\ queue \o taken \in Seq(S)
      /\ Len(queue \o taken) = Len(queue) + room
      /\ \A n \in 1 .. Len(queue) + room :
           (queue \o taken)[n] = IF n <= Len(queue) THEN queue[n] ELSE taken[n - Len(queue)]
  <2>1. PICK r \in Seq(S) : r = taken /\ Len(r) = room
    BY <1>2
  <2>2. queue \o r \in Seq(S) /\ Len(queue \o r) = Len(queue) + Len(r)
    OBVIOUS
  <2>3. \A n \in 1 .. Len(queue) + Len(r) :
          (queue \o r)[n] = IF n <= Len(queue) THEN queue[n] ELSE r[n - Len(queue)]
    OBVIOUS
  <2> QED  BY <2>1, <2>2, <2>3, Zenon
<1>5. ASSUME NEW n \in 1 .. Len(queue) + room
      PROVE  \/ n \in 1 .. Len(queue) /\ (queue \o taken)[n] = queue[n]
             \/ \E m \in 1 .. Len(items) : (queue \o taken)[n] = items[m]
  <2>1. CASE n <= Len(queue)
    BY <1>1, <1>4, <2>1
  <2>2. CASE ~(n <= Len(queue))
    <3>1. n - Len(queue) \in 1 .. room
      BY <1>1, <2>2
    <3>2. (queue \o taken)[n] = items[n - Len(queue)]
      BY <1>2, <1>4, <2>2, <3>1
    <3>3. n - Len(queue) \in 1 .. Len(items)
      BY <1>1, <3>1
    <3> QED  BY <3>2, <3>3
  <2> QED  BY <2>1, <2>2
<1> QED  BY <1>1, <1>3, <1>4, <1>5

\* What apply_action may change of a controller.
Updated(c, t, n, r, m, s) ==
  [c EXCEPT !.acted = t, !.cancels = n, !.replaces = r, !.mode = m, !.status = s]

ActionNames == {"Hold", "Exit", "Abort", "ToAggressive", "ToPassive", "Cancel"}

\* Without quotes an evaluation never replaces; outside the cooldown it holds.
LEMMA ChoicesWithoutQuotes ==
  ASSUME NEW c \in Controller, NEW t \in Nat, c.quotes = "none", NEW a \in Choices(c, t)
  PROVE  a \in ActionNames /\ (a # "Hold" => CooldownElapsed(c, t))
<1>1. ~MayReplace(c, t)
  BY DEF MayReplace
<1>2. CASE c.status \in Terminal \/ ~CooldownElapsed(c, t)
  <2>1. Choices(c, t) = {"Hold"}
    BY <1>2 DEF Choices
  <2> QED  BY <2>1 DEF ActionNames
<1>3. CASE ~(c.status \in Terminal \/ ~CooldownElapsed(c, t)) /\ EdgeLost(c, t)
  <2>1. Choices(c, t) = IF c.filled > 0 THEN {"Exit"} ELSE {"Abort"}
    BY <1>3 DEF Choices
  <2> QED  BY <1>3, <2>1 DEF ActionNames
<1>4. CASE ~(c.status \in Terminal \/ ~CooldownElapsed(c, t)) /\ ~EdgeLost(c, t)
  <2>1. a \in ActionNames
    BY <1>1, <1>4 DEF Choices, ActionNames
  <2> QED  BY <1>4, <2>1
<1> QED  BY <1>2, <1>3, <1>4

\* An action on a good controller leaves a good one and emits a good instruction.
LEMMA EvaluateKeepsGood ==
  ASSUME NEW k \in Keys, NEW x \in Nat, NEW c, GoodController(k, c, x),
         NEW t \in Nat, NEW a \in Choices(c, t)
  PROVE  /\ GoodController(k, ApplyAction(c, a, t), x)
         /\ a # "Hold" => GoodInstruction(InstructionFor(k, c, a), x)
<1>1. c \in Controller /\ c.quotes = "none" /\ c.replaces = 0 /\ c.id \in {k, IdOf[k]}
      /\ c.filled <= x
  BY DEF GoodController
<1>2. a \in ActionNames /\ (a # "Hold" => CooldownElapsed(c, t))
  BY <1>1, ChoicesWithoutQuotes
<1>3. CASE a = "Hold"
  BY <1>3 DEF ApplyAction
<1>4. CASE a # "Hold"
  <2> DEFINE d == ApplyAction(c, a, t)
  <2>1. c.cancels \in Nat /\ c.replaces \in Nat /\ c.acted \in Nat /\ Cooldown \in Nat
    BY <1>1, ControllerAssumption DEF Controller
  <2>2. /\ d \in Controller /\ d.id = c.id /\ d.quotes = "none" /\ d.replaces = 0
        /\ d.acted = t /\ d.filled = c.filled /\ d.cancels \in {c.cancels, c.cancels + 1}
    <3>1. CASE a \in {"Cancel", "Exit"}
      <4>1. d = Updated(c, t, c.cancels + 1, c.replaces, c.mode, c.status)
        BY <1>1, <3>1 DEF ApplyAction, Updated, Cancelling, Replacing, Controller
      <4>2. c.mode \in Modes /\ c.status \in Statuses /\ c.cancels + 1 \in Nat
        BY <1>1, <2>1 DEF Controller, Modes, Statuses
      <4> HIDE DEF d
      <4> QED  BY <1>1, <2>1, <4>1, <4>2 DEF Updated, Controller
    <3>2. CASE a = "Abort"
      <4>1. d = Updated(c, t, c.cancels + 1, c.replaces, c.mode, "CANCELED")
        BY <1>1, <3>2 DEF ApplyAction, Updated, Cancelling, Replacing, Controller
      <4>2. c.mode \in Modes /\ "CANCELED" \in Statuses /\ c.cancels + 1 \in Nat
        BY <1>1, <2>1 DEF Controller, Modes, Statuses
      <4> HIDE DEF d
      <4> QED  BY <1>1, <2>1, <4>1, <4>2 DEF Updated, Controller
    <3>3. CASE a = "ToAggressive"
      <4>1. d = Updated(c, t, c.cancels, c.replaces, "Aggressive", c.status)
        BY <1>1, <3>3 DEF ApplyAction, Updated, Cancelling, Replacing, Controller
      <4>2. "Aggressive" \in Modes /\ c.status \in Statuses /\ c.cancels \in Nat
        BY <1>1, <2>1 DEF Controller, Modes, Statuses
      <4> HIDE DEF d
      <4> QED  BY <1>1, <2>1, <4>1, <4>2 DEF Updated, Controller
    <3>4. CASE a = "ToPassive"
      <4>1. d = Updated(c, t, c.cancels, c.replaces, "Passive", c.status)
        BY <1>1, <3>4 DEF ApplyAction, Updated, Cancelling, Replacing, Controller
      <4>2. "Passive" \in Modes /\ c.status \in Statuses /\ c.cancels \in Nat
        BY <1>1, <2>1 DEF Controller, Modes, Statuses
      <4> HIDE DEF d
      <4> QED  BY <1>1, <2>1, <4>1, <4>2 DEF Updated, Controller
    <3> QED  BY <1>2, <1>4, <3>1, <3>2, <3>3, <3>4 DEF ActionNames
  <2>3. c.acted + Cooldown <= t \/ Cooldown = 0
    BY <1>2, <1>4, <2>1 DEF CooldownElapsed, Greater
  <2>4. c.cancels * Cooldown <= c.acted
    BY <1>1, <2>1 DEF GoodController
  <2>5. (c.cancels + 1) * Cooldown = c.cancels * Cooldown + Cooldown /\ c.cancels * Cooldown \in Nat
    BY <2>1
  <2>6. d.cancels * Cooldown <= t
    <3>1. CASE Cooldown = 0
      <4>1. d.cancels * Cooldown = 0
        BY <2>1, <2>2, <3>1
      <4> QED  BY <4>1
    <3>2. CASE c.acted + Cooldown <= t
      <4> HIDE DEF d
      <4>1. CASE d.cancels = c.cancels
        BY <2>1, <2>4, <2>5, <3>2, <4>1
      <4>2. CASE d.cancels = c.cancels + 1
        BY <2>1, <2>4, <2>5, <3>2, <4>2
      <4> QED  BY <2>2, <4>1, <4>2
    <3> QED  BY <2>3, <3>1, <3>2
  <2>7. GoodController(k, d, x)
    <3> HIDE DEF d
    <3>1. d.cancels \in Nat
      BY <2>2 DEF Controller
    <3>2. (d.cancels + d.replaces) * Cooldown <= d.acted
      BY <2>2, <2>6, <3>1
    <3> QED  BY <1>1, <2>2, <3>2 DEF GoodController
  <2>8. GoodInstruction(InstructionFor(k, c, a), x)
    <3> DEFINE i == InstructionFor(k, c, a)
    <3>1. i.kind \in {"Cancel", "Switch", "Exit"}
      BY <1>1, <1>2, <1>4 DEF InstructionFor, ActionNames, Replacing
    <3>2. i.key = k /\ i.id = c.id /\ i.size = c.filled /\ i.mode \in Modes
      BY DEF InstructionFor, Modes
    <3>3. i \in Instruction
      BY <1>1, <3>1, <3>2 DEF InstructionFor, Instruction, Controller
    <3> HIDE DEF i
    <3>4. GoodInstruction(i, x)
      BY <1>1, <3>1, <3>2, <3>3 DEF GoodInstruction
    <3> QED  BY <3>4 DEF i
  <2> QED  BY <2>7, <2>8
<1> QED  BY <1>3, <1>4

\* Any competition may be seen of a good controller, and no quotes.
LEMMA ObservationKeepsGood ==
  ASSUME NEW k, NEW x \in Nat, NEW c, GoodController(k, c, x), NEW m \in Competition
  PROVE  GoodController(k, OnMarketUpdate(c, m), x)
<1> DEFINE d == OnMarketUpdate(c, m)
<1>1. c \in Controller
  BY DEF GoodController
<1>2. d \in Controller
  BY <1>1 DEF OnMarketUpdate, EngineQuotes, Controller
<1>3. /\ d.id = c.id /\ d.replaces = c.replaces /\ d.cancels = c.cancels
      /\ d.acted = c.acted /\ d.filled = c.filled /\ d.quotes = "none"
  BY <1>1 DEF OnMarketUpdate, EngineQuotes, Controller
<1> HIDE DEF d
<1>4. GoodController(k, d, x)
  BY <1>2, <1>3 DEF GoodController
<1> QED  BY <1>4 DEF d

\* An event of the order itself leaves its controller good.
LEMMA EventKeepsGood ==
  ASSUME NEW x \in Nat, NEW e, GoodEvent(e, x), NEW c, GoodController(e.key, c, x),
         NEW m \in Flagged(c, e)
  PROVE  GoodController(e.key, OnExecutionEvent(c, e, m), x)
<1> DEFINE d == OnExecutionEvent(c, e, m)
<1>1. c \in Controller /\ e \in Event /\ e.cum <= x /\ c.filled <= x /\ e.id = IdOf[e.key]
  BY DEF GoodController, GoodEvent
<1>2. m \in Competition
  BY <1>1 DEF Flagged, Competition, Controller
<1>3. /\ e.id \in Ids /\ e.status \in Statuses /\ e.delta \in Nat /\ e.cum \in Nat
      /\ e.remaining \in Nat /\ c.filled \in Nat /\ c.remaining \in Nat
  BY <1>1 DEF Event, Controller
<1> DEFINE f == IF e.delta > 0 THEN Greater(e.cum, c.filled) ELSE c.filled
           r == IF e.delta > 0 THEN e.remaining ELSE c.remaining
<1>4. f \in Nat /\ f <= x /\ r \in Nat
  BY <1>1, <1>3 DEF Greater
<1>5. d = [c EXCEPT !.id = e.id, !.status = e.status, !.competition = m,
                    !.filled = f, !.remaining = r]
  BY <1>1 DEF OnExecutionEvent, Controller
<1> HIDE DEF d, f, r
<1>6. d \in Controller
  BY <1>1, <1>2, <1>3, <1>4, <1>5 DEF Controller
<1>7. /\ d.id = e.id /\ d.filled = f /\ d.replaces = c.replaces /\ d.cancels = c.cancels
      /\ d.acted = c.acted /\ d.quotes = c.quotes
  BY <1>1, <1>5 DEF Controller
<1>8. GoodController(e.key, d, x)
  BY <1>1, <1>4, <1>6, <1>7 DEF GoodController
<1> QED  BY <1>8 DEF d

\* The controller of an intent starts good.
LEMMA NewControllerIsGood ==
  ASSUME NEW i \in Intent, NEW t \in Nat, NEW x \in Nat
  PROVE  /\ GoodController(i.key, NewController(i, t), x)
         /\ GoodInstruction(SubmitOf(i), x)
<1>1. /\ i.key \in Keys /\ i.size \in Nat /\ i.mode \in Modes /\ i.approved \in BOOLEAN
      /\ i.duration \in Nat /\ i.chance \in Nat /\ i.pace \in Nat /\ i.samples \in Nat
  BY DEF Intent
<1>2. ExpectedFillTime(i) \in Nat /\ EdgeHalfLife(i) \in Nat
  <2>1. i.duration * i.pace \in Nat /\ Greater(i.chance, 5) \in Nat \ {0}
    BY <1>1 DEF Greater
  <2>2. ExpectedFillTime(i) \in Nat
    BY <2>1, SMTT(30) DEF ExpectedFillTime
  <2>3. Lesser(i.samples, 12) \in Nat
    BY <1>1 DEF Lesser
  <2> QED  BY <1>1, <2>2, <2>3 DEF EdgeHalfLife
<1> DEFINE d == NewController(i, t)
<1>3. d \in Controller
  BY <1>1, <1>2 DEF NewController, Controller, Statuses, Competition
<1>4. /\ d.id = i.key /\ d.replaces = 0 /\ d.cancels = 0 /\ d.acted = 0
      /\ d.filled = 0 /\ d.quotes = "none"
  BY DEF NewController
<1> HIDE DEF d
<1>5. GoodController(i.key, d, x)
  <2>1. (d.cancels + d.replaces) * Cooldown <= d.acted
    BY <1>4, ControllerAssumption
  <2> QED  BY <1>3, <1>4, <2>1 DEF GoodController
<1>6. GoodInstruction(SubmitOf(i), x)
  BY <1>1 DEF GoodInstruction, SubmitOf, Instruction
<1> QED  BY <1>5, <1>6 DEF d

-----------------------------------------------------------------------------
(* Executions only grow, so that what was good stays good *)

Grows ==
  /\ executed \in [Keys -> Nat] /\ executed' \in [Keys -> Nat]
  /\ \A k \in Keys : executed[k] <= executed'[k]

\* Executions are counted.
LEMMA ExecutedIsNat ==
  ASSUME orders \in [Keys -> RemoteOrder \cup {None}]
  PROVE  executed \in [Keys -> Nat]
BY DEF executed, Executed, RemoteOrder

\* Orders that do not change lose no execution.
LEMMA UnchangedGrows ==
  ASSUME Remote, UNCHANGED orders
  PROVE  Grows /\ executed' = executed
<1>1. executed' = executed
  BY DEF executed, Executed
<1> QED  BY <1>1, ExecutedIsNat DEF Grows, Remote

\* What was good for fewer executions is good for more.
LEMMA MoreExecuted ==
  ASSUME NEW x \in Nat, NEW y \in Nat, x <= y
  PROVE  /\ \A k, c : GoodController(k, c, x) => GoodController(k, c, y)
         /\ \A i : GoodInstruction(i, x) => GoodInstruction(i, y)
         /\ \A e : GoodEvent(e, x) => GoodEvent(e, y)
<1>1. ASSUME NEW k, NEW c, GoodController(k, c, x) PROVE GoodController(k, c, y)
  <2>1. c.filled \in Nat
    BY <1>1 DEF GoodController, Controller
  <2> QED  BY <1>1, <2>1 DEF GoodController
<1>2. ASSUME NEW i, GoodInstruction(i, x) PROVE GoodInstruction(i, y)
  <2>1. i.size \in Nat
    BY <1>2 DEF GoodInstruction, Instruction
  <2> QED  BY <1>2, <2>1 DEF GoodInstruction
<1>3. ASSUME NEW e, GoodEvent(e, x) PROVE GoodEvent(e, y)
  <2>1. e.cum \in Nat
    BY <1>3 DEF GoodEvent, Event
  <2> QED  BY <1>3, <2>1 DEF GoodEvent
<1> QED  BY <1>1, <1>2, <1>3

\* Controllers that do not change stay good.
LEMMA ControllersKept ==
  ASSUME Controllers, Grows, UNCHANGED loopVars
  PROVE  Controllers'
<1>1. ASSUME NEW k \in Keys, controllers[k] # None
      PROVE  GoodController(k, controllers[k], executed'[k]) /\ lookup[k] = k
  <2>1. GoodController(k, controllers[k], executed[k]) /\ lookup[k] = k
    BY <1>1 DEF Controllers, Active
  <2> QED  BY <2>1, MoreExecuted DEF Grows
<1>2. controllers' = controllers /\ lookup' = lookup
  BY DEF loopVars
<1>3. \A k \in Keys : Active(k)' =>
        GoodController(k, controllers'[k], executed'[k]) /\ lookup'[k] = k
  BY <1>1, <1>2 DEF Active
<1> QED  BY <1>2, <1>3 DEF Controllers

\* So do instructions, and those left when the executor takes the first.
LEMMA ActionsKept ==
  ASSUME Actions, Grows, actions' \in {actions, Tail(actions)}, actions' # actions => actions # <<>>
  PROVE  Actions'
<1>1. ASSUME NEW n \in 1 .. Len(actions) PROVE GoodInstruction(actions[n], executed'[actions[n].key])
  <2>1. GoodInstruction(actions[n], executed[actions[n].key])
    BY DEF Actions
  <2>2. actions[n].key \in Keys
    BY <2>1 DEF GoodInstruction, Instruction
  <2> QED  BY <2>1, <2>2, MoreExecuted DEF Grows
<1>2. CASE actions' = actions
  BY <1>1, <1>2 DEF Actions
<1>3. CASE actions' = Tail(actions) /\ actions # <<>>
  <2>1. /\ actions' \in Seq(Instruction) /\ Len(actions') = Len(actions) - 1
        /\ \A n \in 1 .. Len(actions') : n + 1 \in 1 .. Len(actions) /\ actions'[n] = actions[n + 1]
    BY <1>3 DEF Actions
  <2>2. \A n \in 1 .. Len(actions') : GoodInstruction(actions'[n], executed'[actions'[n].key])
    BY <1>1, <2>1
  <2> QED  BY <2>1, <2>2, LoopAssumption DEF Actions
<1> QED  BY <1>2, <1>3

\* Offering good instructions keeps the channel good.
LEMMA ActionsOffered ==
  ASSUME Actions, Remote, UNCHANGED orders, NEW items \in Seq(Instruction),
         \A n \in 1 .. Len(items) : GoodInstruction(items[n], executed[items[n].key]),
         actions' = Offer(actions, ActionCap, items)
  PROVE  Actions'
<1>1. /\ actions' \in Seq(Instruction) /\ Len(actions') <= ActionCap
      /\ \A n \in 1 .. Len(actions') :
           \/ n \in 1 .. Len(actions) /\ actions'[n] = actions[n]
           \/ \E m \in 1 .. Len(items) : actions'[n] = items[m]
  BY OfferProperties, LoopAssumption DEF Actions
<1>2. \A n \in 1 .. Len(actions') : GoodInstruction(actions'[n], executed[actions'[n].key])
  BY <1>1 DEF Actions
<1>3. executed' = executed
  BY UnchangedGrows
<1> QED  BY <1>1, <1>2, <1>3 DEF Actions

\* So do events, and those left when the loop takes the first.
LEMMA EventsKept ==
  ASSUME Events, Grows, events' \in {events, Tail(events)}, events' # events => events # <<>>
  PROVE  Events'
<1>1. ASSUME NEW n \in 1 .. Len(events) PROVE GoodEvent(events[n], executed'[events[n].key])
  <2>1. GoodEvent(events[n], executed[events[n].key])
    BY DEF Events
  <2>2. events[n].key \in Keys
    BY <2>1 DEF GoodEvent, Event
  <2> QED  BY <2>1, <2>2, MoreExecuted DEF Grows
<1>2. CASE events' = events
  BY <1>1, <1>2 DEF Events
<1>3. CASE events' = Tail(events) /\ events # <<>>
  <2>1. /\ events' \in Seq(Event) /\ Len(events') = Len(events) - 1
        /\ \A n \in 1 .. Len(events') : n + 1 \in 1 .. Len(events) /\ events'[n] = events[n + 1]
    BY <1>3 DEF Events
  <2>2. \A n \in 1 .. Len(events') : GoodEvent(events'[n], executed'[events'[n].key])
    BY <1>1, <2>1
  <2> QED  BY <2>1, <2>2, LoopAssumption DEF Events
<1> QED  BY <1>2, <1>3

\* A good update that the feed forwards or loses.
LEMMA UpdateHandled ==
  ASSUME Events, Remote, Rest, UNCHANGED orders, NEW e,
         GoodEvent(e, executed[e.key]), HandleUpdate(e)
  PROVE  Events' /\ missed' \subseteq Keys
<1>1. Grows /\ e \in Event /\ e.key \in Keys
  BY UnchangedGrows DEF GoodEvent, Event
<1>2. CASE UNCHANGED events /\ missed' \in {missed, missed \cup {e.key}}
  BY <1>1, <1>2, EventsKept DEF Rest
<1>3. CASE Len(events) < EventCap /\ events' = Append(events, e) /\ UNCHANGED missed
  <2>1. /\ events' \in Seq(Event) /\ Len(events') = Len(events) + 1
        /\ \A n \in 1 .. Len(events') :
             \/ n \in 1 .. Len(events) /\ events'[n] = events[n]
             \/ events'[n] = e
    BY <1>1, <1>3 DEF Events
  <2>2. \A n \in 1 .. Len(events') : GoodEvent(events'[n], executed[events'[n].key])
    BY <2>1 DEF Events
  <2>3. executed' = executed
    BY UnchangedGrows
  <2>4. \A n \in 1 .. Len(events') : GoodEvent(events'[n], executed'[events'[n].key])
    BY <2>2, <2>3
  <2>5. Len(events') <= EventCap
    BY <1>3, <2>1, LoopAssumption DEF Events
  <2> QED  BY <1>3, <2>1, <2>4, <2>5 DEF Events, Rest
<1> QED  BY <1>2, <1>3 DEF HandleUpdate

\* The control-plane's side, when it does not move.
LEMMA RemoteKept ==
  ASSUME Remote, UNCHANGED remoteVars
  PROVE  Remote'
BY DEF Remote, remoteVars, executed, Executed

\* An event is of the order whose controller it is resolved to.
LEMMA ResolveIsKey ==
  ASSUME Lookup, NEW e, NEW x, GoodEvent(e, x), Resolve(e) # None
  PROVE  Resolve(e) = e.key
<1>1. e.id \in Ids /\ e.key \in Keys /\ e.id = IdOf[e.key]
  BY DEF GoodEvent, Event
<1>2. CASE lookup[e.id] # None
  <2>1. lookup[e.id] \in Keys /\ e.id \in {lookup[e.id], IdOf[lookup[e.id]]}
    BY <1>1, <1>2 DEF Lookup
  <2>2. e.id # lookup[e.id]
    BY <1>1, <2>1, ControllerAssumption
  <2>3. lookup[e.id] = e.key
    BY <1>1, <2>1, <2>2, ControllerAssumption
  <2> QED  BY <1>2, <2>3 DEF Resolve
<1>3. CASE lookup[e.id] = None
  <2>1. lookup[e.key] \in Keys /\ e.key \in {lookup[e.key], IdOf[lookup[e.key]]}
    BY <1>1, <1>3 DEF Lookup, Resolve
  <2>2. e.key # IdOf[lookup[e.key]]
    BY <1>1, <2>1, ControllerAssumption
  <2> QED  BY <1>3, <2>1, <2>2 DEF Resolve
<1> QED  BY <1>2, <1>3

-----------------------------------------------------------------------------
(* The control-plane's steps *)

\* The snapshot of an order claims no more than was executed of it.
LEMMA SnapshotIsGood ==
  ASSUME NEW k \in Keys, NEW o \in RemoteOrder, NEW delta \in Nat, NEW x, o.filled <= x
  PROVE  GoodEvent(Snapshot(k, o, delta), x) /\ Snapshot(k, o, delta).key = k
<1>1. /\ o.status \in Statuses /\ o.size \in Nat /\ o.filled \in Nat /\ o.stamp \in Nat
  BY DEF RemoteOrder
<1>2. Greater(o.size - o.filled, 0) \in Nat /\ IdOf[k] \in Ids
  BY <1>1, ControllerAssumption DEF Greater
<1> QED  BY <1>1, <1>2 DEF GoodEvent, Snapshot, Event

\* A change of one order that loses no execution.
LEMMA OrderChanged ==
  ASSUME Remote, NEW k \in Keys, NEW o \in RemoteOrder, o.filled <= o.executed,
         executed[k] <= o.executed, orders' = [orders EXCEPT ![k] = o]
  PROVE  /\ Grows
         /\ executed'[k] = o.executed
         /\ orders' \in [Keys -> RemoteOrder \cup {None}]
         /\ \A l \in Keys : orders'[l] # None => orders'[l].filled <= orders'[l].executed
         /\ \A l \in Keys : orders[l] # None => orders'[l] # None
<1>1. orders' \in [Keys -> RemoteOrder \cup {None}] /\ orders'[k] = o /\ o # None
  BY NoneIsNoOrder DEF Remote
<1>2. \A l \in Keys : l # k => orders'[l] = orders[l]
  BY DEF Remote
<1>3. executed'[k] = o.executed
  BY <1>1 DEF executed, Executed
<1>4. \A l \in Keys : l # k => executed'[l] = executed[l]
  BY <1>2 DEF executed, Executed
<1>5. executed \in [Keys -> Nat]
  BY ExecutedIsNat DEF Remote
<1>6. executed' \in [Keys -> Nat]
  BY <1>1 DEF executed, Executed, RemoteOrder
<1>7. Grows
  BY <1>3, <1>4, <1>5, <1>6 DEF Grows
<1>8. \A l \in Keys : orders'[l] # None => orders'[l].filled <= orders'[l].executed
  BY <1>1, <1>2 DEF Remote
<1> QED  BY <1>1, <1>2, <1>3, <1>7, <1>8

\* The snapshots on their way survive such a change.
LEMMA InFlightKept ==
  ASSUME Remote, Grows
  PROVE  /\ handler.pc = "reply" => GoodEvent(handler.event, executed'[handler.event.key])
         /\ stream # None => GoodEvent(stream, executed'[stream.key])
<1>1. ASSUME NEW e, GoodEvent(e, executed[e.key]) PROVE GoodEvent(e, executed'[e.key])
  <2>1. e.key \in Keys
    BY <1>1 DEF GoodEvent, Event
  <2> QED  BY <1>1, <2>1, MoreExecuted DEF Grows
<1> QED  BY <1>1 DEF Remote

\* Post: what a handler starts with is an order the control-plane knows, or opens.
LEMMA PostStep ==
  ASSUME Inductive, Post
  PROVE  Inductive'
<1> DEFINE i == Head(actions)
<1>1. /\ handler = Idle /\ actions # <<>> /\ actions' = Tail(actions)
      /\ UNCHANGED <<loopVars, events, stream, missed, clockVars>>
      /\ handler' \in Started(i)
      /\ orders' = IF handler'.pc = "send"
                    THEN [orders EXCEPT ![i.key] = [status |-> "SENT", size |-> i.size,
                                                    filled |-> 0, executed |-> 0, stamp |-> 0]]
                    ELSE orders
  BY DEF Post
<1>2. i \in Instruction /\ i.key \in Keys /\ i.size \in Nat
  <2>1. actions \in Seq(Instruction)
    BY DEF Inductive, Actions
  <2>2. i \in Instruction
    BY <1>1, <2>1
  <2> QED  BY <2>2 DEF Instruction
<1> HIDE DEF i
<1>3. \/ handler' = Idle
      \/ handler' = [pc |-> "send", key |-> i.key] /\ orders[i.key] = None
      \/ handler' = [pc |-> "cancel", key |-> i.key] /\ orders[i.key] # None
      \/ handler' = [pc |-> "reply", event |-> Snapshot(i.key, orders[i.key], 0)]
           /\ orders[i.key] # None
  <2>1. CASE i.kind = "Submit" /\ orders[i.key] = None
    <3>1. i.kind # "Reprice" /\ ~Ends(i)
      BY <2>1 DEF Ends
    <3> QED  BY <1>1, <2>1, <3>1 DEF Started
  <2>2. CASE Ends(i) /\ KnownTo(i) /\ orders[i.key].status \notin Terminal
    <3>1. i.kind # "Reprice" /\ i.kind # "Submit" /\ orders[i.key] # None
      BY <2>2 DEF Ends, KnownTo
    <3> QED  BY <1>1, <2>2, <3>1 DEF Started
  <2>3. CASE i.kind = "Reprice" /\ KnownTo(i)
    <3>1. ~Ends(i) /\ i.kind # "Submit" /\ orders[i.key] # None
      BY <2>3 DEF Ends, KnownTo
    <3> QED  BY <1>1, <2>3, <3>1 DEF Started
  <2> QED  BY <1>1, <2>1, <2>2, <2>3 DEF Started
<1>4. Idle.pc # "send" /\ Idle.pc # "cancel" /\ Idle.pc # "reply"
  BY DEF Idle
<1>5. Grows /\ Remote'
  <2>1. CASE handler' = Idle
    <3>1. orders' = orders
      BY <1>1, <1>4, <2>1
    <3>2. Grows /\ executed' = executed
      BY <3>1, UnchangedGrows DEF Inductive
    <3> QED  BY <1>1, <1>4, <2>1, <3>1, <3>2 DEF Inductive, Remote, Handler
  <2>2. CASE handler' = [pc |-> "send", key |-> i.key] /\ orders[i.key] = None
    <3> DEFINE o == [status |-> "SENT", size |-> i.size, filled |-> 0, executed |-> 0, stamp |-> 0]
    <3>1. o \in RemoteOrder /\ o.filled = 0 /\ o.executed = 0
      BY <1>2 DEF RemoteOrder, Statuses
    <3>2. orders' = [orders EXCEPT ![i.key] = o]
      BY <1>1, <2>2
    <3>3. executed[i.key] <= o.executed /\ o.filled <= o.executed
      BY <1>2, <2>2 DEF executed, Executed
    <3> HIDE DEF o
    <3>4. /\ Grows
          /\ orders' \in [Keys -> RemoteOrder \cup {None}]
          /\ \A l \in Keys : orders'[l] # None => orders'[l].filled <= orders'[l].executed
      BY <1>2, <3>1, <3>2, <3>3, OrderChanged DEF Inductive
    <3>5. orders'[i.key] # None
      BY <1>2, <3>1, <3>2, NoneIsNoOrder DEF Inductive, Remote
    <3>6. handler' \in Handler /\ handler'.pc = "send" /\ handler'.key = i.key
      BY <1>2, <2>2 DEF Handler
    <3>7. stream' # None => GoodEvent(stream', executed'[stream'.key])
      BY <1>1, <3>4, InFlightKept DEF Inductive
    <3> QED  BY <1>1, <3>4, <3>5, <3>6, <3>7 DEF Inductive, Remote
  <2>3. CASE handler' = [pc |-> "cancel", key |-> i.key] /\ orders[i.key] # None
    <3>1. orders' = orders
      BY <1>1, <2>3
    <3>2. Grows /\ executed' = executed
      BY <3>1, UnchangedGrows DEF Inductive
    <3>3. handler' \in Handler /\ handler'.pc = "cancel" /\ handler'.key = i.key
      BY <1>2, <2>3 DEF Handler
    <3> QED  BY <1>1, <2>3, <3>1, <3>2, <3>3 DEF Inductive, Remote
  <2>4. CASE /\ handler' = [pc |-> "reply", event |-> Snapshot(i.key, orders[i.key], 0)]
             /\ orders[i.key] # None
    <3>1. orders' = orders
      BY <1>1, <2>4
    <3>2. Grows /\ executed' = executed
      BY <3>1, UnchangedGrows DEF Inductive
    <3>3. /\ orders[i.key] \in RemoteOrder /\ orders[i.key].filled <= executed[i.key]
      BY <1>2, <2>4 DEF Inductive, Remote, executed, Executed
    <3>4. /\ GoodEvent(handler'.event, executed[i.key]) /\ handler'.event.key = i.key
      BY <1>2, <2>4, <3>3, SnapshotIsGood
    <3>5. handler' \in Handler /\ handler'.pc = "reply"
      BY <2>4, <3>4 DEF Handler, GoodEvent
    <3> QED  BY <1>1, <3>1, <3>2, <3>4, <3>5 DEF Inductive, Remote
  <2> QED  BY <1>3, <2>1, <2>2, <2>3, <2>4
<1>6. Controllers' /\ Actions' /\ Events'
  BY <1>1, <1>5, ControllersKept, ActionsKept, EventsKept DEF Inductive
<1>7. Lookup' /\ Rest'
  BY <1>1 DEF Inductive, Lookup, Rest, loopVars, clockVars
<1> QED  BY <1>5, <1>6, <1>7 DEF Inductive

\* A handler at work has an order.
LEMMA HandlerHasOrder ==
  ASSUME Remote, handler.pc \in {"send", "cancel"}
  PROVE  handler.key \in Keys /\ orders[handler.key] # None
BY DEF Remote, Handler, Idle

\* What is known of an order.
LEMMA KnownOrder ==
  ASSUME Remote, NEW k \in Keys, orders[k] # None
  PROVE  /\ orders[k] \in RemoteOrder /\ orders[k].filled <= orders[k].executed
         /\ executed[k] = orders[k].executed
         /\ orders[k].status \in Statuses /\ orders[k].size \in Nat /\ orders[k].filled \in Nat
         /\ orders[k].executed \in Nat /\ orders[k].stamp \in Nat
<1>1. /\ orders[k] \in RemoteOrder /\ orders[k].filled <= orders[k].executed
      /\ executed[k] = orders[k].executed
  BY DEF Remote, executed, Executed
<1> QED  BY <1>1 DEF RemoteOrder

\* A handler's step that changes its order and has its snapshot still to emit.
LEMMA HandlerStep ==
  ASSUME Inductive, UNCHANGED <<loopVars, actions, events, stream, missed, clockVars>>,
         NEW k \in Keys, NEW o \in RemoteOrder, o.filled <= o.executed, executed[k] <= o.executed,
         orders' = [orders EXCEPT ![k] = o], handler' = [pc |-> "reply", event |-> Snapshot(k, o, 0)]
  PROVE  Inductive'
<1>1. /\ Grows /\ executed'[k] = o.executed
      /\ orders' \in [Keys -> RemoteOrder \cup {None}]
      /\ \A l \in Keys : orders'[l] # None => orders'[l].filled <= orders'[l].executed
  BY OrderChanged DEF Inductive
<1>2. GoodEvent(handler'.event, executed'[k]) /\ handler'.event.key = k
  BY <1>1, SnapshotIsGood
<1>3. handler' \in Handler /\ handler'.pc = "reply"
  BY <1>2 DEF Handler, GoodEvent
<1>4. stream' # None => GoodEvent(stream', executed'[stream'.key])
  BY <1>1, InFlightKept DEF Inductive
<1>5. Remote'
  BY <1>1, <1>2, <1>3, <1>4 DEF Inductive, Remote
<1>6. Controllers' /\ Actions' /\ Events'
  BY <1>1, ControllersKept, ActionsKept, EventsKept DEF Inductive
<1>7. Lookup' /\ Rest'
  BY DEF Inductive, Lookup, Rest, loopVars, clockVars
<1> QED  BY <1>5, <1>6, <1>7 DEF Inductive

\* SendAck keeps fills and executions, whatever came before it.
LEMMA SendAckStep ==
  ASSUME Inductive, SendAck
  PROVE  Inductive'
<1> DEFINE k == handler.key
           o == [orders[k] EXCEPT !.status = "ACK", !.stamp = Greater(@, now)]
<1>1. k \in Keys /\ orders[k] # None
  BY HandlerHasOrder DEF SendAck, Inductive
<1>2. /\ orders[k] \in RemoteOrder /\ orders[k].filled <= orders[k].executed
      /\ executed[k] = orders[k].executed /\ orders[k].stamp \in Nat
      /\ orders[k].executed \in Nat
  BY <1>1, KnownOrder DEF Inductive
<1>3. Greater(orders[k].stamp, now) \in Nat
  BY <1>2 DEF Greater, Inductive, Rest
<1>4. o \in RemoteOrder /\ o.filled = orders[k].filled /\ o.executed = orders[k].executed
  BY <1>2, <1>3 DEF RemoteOrder, Statuses
<1>5. /\ UNCHANGED <<loopVars, actions, events, stream, missed, clockVars>>
      /\ orders' = [orders EXCEPT ![k] = o]
      /\ handler' = [pc |-> "reply", event |-> Snapshot(k, o, 0)]
  BY DEF SendAck
<1> HIDE DEF k, o
<1>6. o.filled <= o.executed /\ executed[k] <= o.executed
  BY <1>2, <1>4
<1> QED  BY <1>1, <1>4, <1>5, <1>6, HandlerStep

\* CancelLocal changes a status only.
LEMMA CancelLocalStep ==
  ASSUME Inductive, CancelLocal
  PROVE  Inductive'
<1> DEFINE k == handler.key
           o == [orders[k] EXCEPT !.status = "CANCELED"]
<1>1. k \in Keys /\ orders[k] # None
  BY HandlerHasOrder DEF CancelLocal, Inductive
<1>2. /\ orders[k] \in RemoteOrder /\ orders[k].filled <= orders[k].executed
      /\ executed[k] = orders[k].executed /\ orders[k].executed \in Nat
  BY <1>1, KnownOrder DEF Inductive
<1>4. o \in RemoteOrder /\ o.filled = orders[k].filled /\ o.executed = orders[k].executed
  BY <1>2 DEF RemoteOrder, Statuses
<1>5. /\ UNCHANGED <<loopVars, actions, events, stream, missed, clockVars>>
      /\ orders' = [orders EXCEPT ![k] = o]
      /\ handler' = [pc |-> "reply", event |-> Snapshot(k, o, 0)]
  BY DEF CancelLocal
<1> HIDE DEF k, o
<1>6. o.filled <= o.executed /\ executed[k] <= o.executed
  BY <1>2, <1>4
<1> QED  BY <1>1, <1>4, <1>5, <1>6, HandlerStep

\* SendFail forgets recorded fills, never executions.
LEMMA SendFailStep ==
  ASSUME Inductive, SendFail
  PROVE  Inductive'
<1> DEFINE k == handler.key
           o == [orders[k] EXCEPT !.status = "REJECTED", !.filled = 0, !.stamp = 0]
<1>1. k \in Keys /\ orders[k] # None
  BY HandlerHasOrder DEF SendFail, Inductive
<1>2. /\ orders[k] \in RemoteOrder /\ executed[k] = orders[k].executed
      /\ orders[k].executed \in Nat
  BY <1>1, KnownOrder DEF Inductive
<1>3. o \in RemoteOrder /\ o.filled = 0 /\ o.executed = orders[k].executed
  BY <1>2 DEF RemoteOrder, Statuses
<1>4. o.filled <= o.executed /\ executed[k] <= o.executed
  BY <1>2, <1>3
<1>5. /\ UNCHANGED <<loopVars, actions, events, stream, clockVars>>
      /\ orders' = [orders EXCEPT ![k] = o] /\ handler' = Idle
      /\ missed' = missed \cup {k}
  BY DEF SendFail
<1> HIDE DEF k, o
<1>6. /\ Grows
      /\ orders' \in [Keys -> RemoteOrder \cup {None}]
      /\ \A l \in Keys : orders'[l] # None => orders'[l].filled <= orders'[l].executed
  BY <1>1, <1>3, <1>4, <1>5, OrderChanged DEF Inductive
<1>7. stream' # None => GoodEvent(stream', executed'[stream'.key])
  BY <1>5, <1>6, InFlightKept DEF Inductive
<1>8. Remote'
  BY <1>5, <1>6, <1>7 DEF Inductive, Remote, Handler, Idle
<1>9. Controllers' /\ Actions' /\ Events'
  BY <1>5, <1>6, ControllersKept, ActionsKept, EventsKept DEF Inductive
<1>10. Lookup' /\ Rest'
  BY <1>1, <1>5 DEF Inductive, Lookup, Rest, loopVars, clockVars
<1> QED  BY <1>8, <1>9, <1>10 DEF Inductive

\* HandlerEmits hands a good snapshot to the feed.
LEMMA HandlerEmitsStep ==
  ASSUME Inductive, HandlerEmits
  PROVE  Inductive'
<1>1. /\ handler.pc = "reply" /\ HandleUpdate(handler.event) /\ handler' = Idle
      /\ UNCHANGED <<loopVars, actions, orders, stream, clockVars>>
  BY DEF HandlerEmits
<1>2. Grows /\ executed' = executed
  BY <1>1, UnchangedGrows DEF Inductive
<1>3. Events' /\ missed' \subseteq Keys
  BY <1>1, UpdateHandled DEF Inductive, Remote
<1>4. Remote'
  BY <1>1, <1>2 DEF Inductive, Remote, Handler, Idle
<1>5. Controllers' /\ Actions'
  BY <1>1, <1>2, ControllersKept, ActionsKept DEF Inductive
<1>6. Lookup' /\ Rest'
  BY <1>1, <1>3 DEF Inductive, Lookup, Rest, loopVars, clockVars
<1> QED  BY <1>3, <1>4, <1>5, <1>6 DEF Inductive

\* StreamEmits hands a good snapshot to the feed.
LEMMA StreamEmitsStep ==
  ASSUME Inductive, StreamEmits
  PROVE  Inductive'
<1>1. /\ stream # None /\ HandleUpdate(stream) /\ stream' = None
      /\ UNCHANGED <<loopVars, actions, orders, handler, clockVars>>
  BY DEF StreamEmits
<1>2. Grows /\ executed' = executed
  BY <1>1, UnchangedGrows DEF Inductive
<1>3. Events' /\ missed' \subseteq Keys
  BY <1>1, UpdateHandled DEF Inductive, Remote
<1>4. Remote'
  BY <1>1, <1>2 DEF Inductive, Remote
<1>5. Controllers' /\ Actions'
  BY <1>1, <1>2, ControllersKept, ActionsKept DEF Inductive
<1>6. Lookup' /\ Rest'
  BY <1>1, <1>3 DEF Inductive, Lookup, Rest, loopVars, clockVars
<1> QED  BY <1>3, <1>4, <1>5, <1>6 DEF Inductive

\* A report of the exchange that changes its order.
LEMMA StreamStep ==
  ASSUME Inductive, UNCHANGED <<loopVars, actions, events, handler, missed, clockVars>>,
         NEW k \in Keys, orders[k] # None, NEW o \in RemoteOrder, NEW delta \in Nat,
         o.filled <= o.executed, executed[k] <= o.executed,
         orders' = [orders EXCEPT ![k] = o], stream' = Snapshot(k, o, delta)
  PROVE  Inductive'
<1>1. /\ Grows /\ executed'[k] = o.executed
      /\ orders' \in [Keys -> RemoteOrder \cup {None}]
      /\ \A l \in Keys : orders'[l] # None => orders'[l].filled <= orders'[l].executed
      /\ \A l \in Keys : orders[l] # None => orders'[l] # None
  BY OrderChanged DEF Inductive
<1>2. GoodEvent(stream', executed'[k]) /\ stream'.key = k
  BY <1>1, SnapshotIsGood
<1>3. stream' \in Event
  BY <1>2 DEF GoodEvent
<1>4. handler' = handler /\ handler' \in Handler
  BY DEF Inductive, Remote
<1>5. handler'.pc = "reply" => GoodEvent(handler'.event, executed'[handler'.event.key])
  BY <1>1, <1>4, InFlightKept DEF Inductive
<1>6. handler'.pc \in {"send", "cancel"} => orders'[handler'.key] # None
  BY <1>1, <1>4, HandlerHasOrder DEF Inductive
<1>7. Remote'
  BY <1>1, <1>2, <1>3, <1>4, <1>5, <1>6 DEF Remote
<1>8. Controllers' /\ Actions' /\ Events'
  BY <1>1, ControllersKept, ActionsKept, EventsKept DEF Inductive
<1>9. Lookup' /\ Rest'
  BY DEF Inductive, Lookup, Rest, loopVars, clockVars
<1> QED  BY <1>7, <1>8, <1>9 DEF Inductive

\* StreamFill adds one to what is recorded and to what is executed.
LEMMA FilledOrder ==
  ASSUME Inductive, NEW k \in Keys, StreamFill(k)
  PROVE  \E o \in RemoteOrder :
            /\ o.filled = orders[k].filled + 1 /\ o.executed = orders[k].executed + 1
            /\ orders' = [orders EXCEPT ![k] = o] /\ stream' = Snapshot(k, o, 1)
<1> DEFINE filled == orders[k].filled + 1
           o == [orders[k] EXCEPT !.filled = filled, !.executed = @ + 1, !.stamp = now,
                   !.status = IF filled >= orders[k].size THEN "FILLED" ELSE "PARTIAL"]
           s == IF filled >= orders[k].size THEN "FILLED" ELSE "PARTIAL"
           x == orders[k].executed + 1
<1>1. orders[k] # None /\ orders' = [orders EXCEPT ![k] = o] /\ stream' = Snapshot(k, o, 1)
  BY DEF StreamFill
<1>2. /\ orders[k] \in RemoteOrder /\ orders[k].executed \in Nat
      /\ orders[k].filled \in Nat /\ now \in Nat
  BY <1>1, KnownOrder DEF Inductive, Rest
<1>3. s \in Statuses /\ filled \in Nat /\ x \in Nat
  BY <1>2 DEF Statuses
<1>4. o = [orders[k] EXCEPT !.filled = filled, !.executed = x, !.stamp = now, !.status = s]
  BY <1>2 DEF RemoteOrder
<1> HIDE DEF o, s, filled, x
<1>5. o \in RemoteOrder /\ o.filled = filled /\ o.executed = x
  BY <1>2, <1>3, <1>4 DEF RemoteOrder
<1> QED  BY <1>1, <1>5 DEF filled, x

\* So it loses no execution.
LEMMA StreamFillStep ==
  ASSUME Inductive, NEW k \in Keys, StreamFill(k)
  PROVE  Inductive'
<1>1. orders[k] # None /\ UNCHANGED <<loopVars, actions, events, handler, missed, clockVars>>
  BY DEF StreamFill
<1>2. /\ orders[k].filled <= orders[k].executed /\ executed[k] = orders[k].executed
      /\ orders[k].executed \in Nat /\ orders[k].filled \in Nat
  BY <1>1, KnownOrder DEF Inductive
<1>3. PICK o \in RemoteOrder :
         /\ o.filled = orders[k].filled + 1 /\ o.executed = orders[k].executed + 1
         /\ orders' = [orders EXCEPT ![k] = o] /\ stream' = Snapshot(k, o, 1)
  BY FilledOrder
<1>4. o.filled <= o.executed /\ executed[k] <= o.executed
  BY <1>2, <1>3
<1> QED  BY <1>1, <1>3, <1>4, StreamStep

\* StreamCancel changes a status only.
LEMMA CanceledOrder ==
  ASSUME Inductive, NEW k \in Keys, StreamCancel(k)
  PROVE  \E o \in RemoteOrder :
            /\ o.filled = orders[k].filled /\ o.executed = orders[k].executed
            /\ orders' = [orders EXCEPT ![k] = o] /\ stream' = Snapshot(k, o, 0)
<1> DEFINE o == [orders[k] EXCEPT !.status = "CANCELED"]
<1>1. orders[k] # None /\ orders' = [orders EXCEPT ![k] = o] /\ stream' = Snapshot(k, o, 0)
  BY DEF StreamCancel
<1>2. orders[k] \in RemoteOrder
  BY <1>1, KnownOrder DEF Inductive
<1>3. o \in RemoteOrder /\ o.filled = orders[k].filled /\ o.executed = orders[k].executed
  BY <1>2 DEF RemoteOrder, Statuses
<1> HIDE DEF o
<1> QED  BY <1>1, <1>3

\* That loses none either.
LEMMA StreamCancelStep ==
  ASSUME Inductive, NEW k \in Keys, StreamCancel(k)
  PROVE  Inductive'
<1>1. orders[k] # None /\ UNCHANGED <<loopVars, actions, events, handler, missed, clockVars>>
  BY DEF StreamCancel
<1>2. /\ orders[k].filled <= orders[k].executed /\ executed[k] = orders[k].executed
      /\ orders[k].executed \in Nat
  BY <1>1, KnownOrder DEF Inductive
<1>3. PICK o \in RemoteOrder :
         /\ o.filled = orders[k].filled /\ o.executed = orders[k].executed
         /\ orders' = [orders EXCEPT ![k] = o] /\ stream' = Snapshot(k, o, 0)
  BY CanceledOrder
<1>4. o.filled <= o.executed /\ executed[k] <= o.executed
  BY <1>2, <1>3
<1> QED  BY <1>1, <1>3, <1>4, StreamStep

\* StreamReject changes a status only.
LEMMA StreamRejectStep ==
  ASSUME Inductive, NEW k \in Keys, StreamReject(k)
  PROVE  Inductive'
<1> DEFINE o == [orders[k] EXCEPT !.status = "REJECTED"]
<1>1. /\ orders[k] # None /\ orders' = [orders EXCEPT ![k] = o] /\ missed' = missed \cup {k}
      /\ UNCHANGED <<loopVars, actions, events, handler, stream, clockVars>>
  BY DEF StreamReject
<1>2. /\ orders[k] \in RemoteOrder /\ orders[k].filled <= orders[k].executed
      /\ executed[k] = orders[k].executed /\ orders[k].executed \in Nat
  BY <1>1, KnownOrder DEF Inductive
<1>3. o \in RemoteOrder /\ o.filled = orders[k].filled /\ o.executed = orders[k].executed
  BY <1>2 DEF RemoteOrder, Statuses
<1> HIDE DEF o
<1>4. o.filled <= o.executed /\ executed[k] <= o.executed
  BY <1>2, <1>3
<1>5. /\ Grows
      /\ orders' \in [Keys -> RemoteOrder \cup {None}]
      /\ \A l \in Keys : orders'[l] # None => orders'[l].filled <= orders'[l].executed
      /\ \A l \in Keys : orders[l] # None => orders'[l] # None
  BY <1>1, <1>3, <1>4, OrderChanged DEF Inductive
<1>6. /\ handler' = handler /\ handler' \in Handler /\ stream' = stream
      /\ stream' \in Event \cup {None}
  BY <1>1 DEF Inductive, Remote
<1>7. /\ handler'.pc = "reply" => GoodEvent(handler'.event, executed'[handler'.event.key])
      /\ stream' # None => GoodEvent(stream', executed'[stream'.key])
  BY <1>5, <1>6, InFlightKept DEF Inductive
<1>8. handler'.pc \in {"send", "cancel"} => orders'[handler'.key] # None
  BY <1>5, <1>6, HandlerHasOrder DEF Inductive
<1>9. Remote'
  BY <1>5, <1>6, <1>7, <1>8 DEF Remote
<1>10. Controllers' /\ Actions' /\ Events'
  BY <1>1, <1>5, ControllersKept, ActionsKept, EventsKept DEF Inductive
<1>11. Lookup' /\ Rest'
  BY <1>1 DEF Inductive, Lookup, Rest, loopVars, clockVars
<1> QED  BY <1>9, <1>10, <1>11 DEF Inductive

-----------------------------------------------------------------------------
(* The loop's steps *)

\* Time passes.
LEMMA TickStep ==
  ASSUME Inductive, Tick
  PROVE  Inductive'
<1>1. UNCHANGED <<loopVars, actions, events, remoteVars, missed, arrivals>> /\ now' = now + 1
  BY DEF Tick
<1>2. Grows
  BY <1>1, UnchangedGrows DEF Inductive, remoteVars
<1>3. Controllers' /\ Actions' /\ Events' /\ Remote'
  BY <1>1, <1>2, ControllersKept, ActionsKept, EventsKept, RemoteKept DEF Inductive
<1>4. Lookup' /\ Rest'
  BY <1>1 DEF Inductive, Lookup, Rest, loopVars
<1> QED  BY <1>3, <1>4 DEF Inductive

\* IgnoreEvent takes an event and changes nothing else.
LEMMA IgnoreEventStep ==
  ASSUME Inductive, IgnoreEvent
  PROVE  Inductive'
<1>1. /\ UNCHANGED <<loopVars, actions, remoteVars, missed, clockVars>>
      /\ events # <<>> /\ events' = Tail(events)
  BY DEF IgnoreEvent
<1>2. Grows
  BY <1>1, UnchangedGrows DEF Inductive, remoteVars
<1>3. Controllers' /\ Actions' /\ Events' /\ Remote'
  BY <1>1, <1>2, ControllersKept, ActionsKept, EventsKept, RemoteKept DEF Inductive
<1>4. Lookup' /\ Rest'
  BY <1>1 DEF Inductive, Lookup, Rest, loopVars, clockVars
<1> QED  BY <1>3, <1>4 DEF Inductive

\* Arrive: a fresh controller is good, even one that replaces another.
LEMMA ArriveStep ==
  ASSUME Inductive, NEW i \in Intents, Arrive(i)
  PROVE  Inductive'
<1>1. i \in Intent /\ i.key \in Keys
  BY LoopAssumption DEF Intent
<1>2. /\ arrivals' = arrivals + 1
      /\ actions' = Offer(actions, ActionCap, <<SubmitOf(i)>>)
      /\ controllers' = [controllers EXCEPT ![i.key] = NewController(i, now)]
      /\ lookup' = [lookup EXCEPT ![i.key] = i.key]
      /\ missed' \in {missed, missed \cup {i.key}}
      /\ UNCHANGED <<events, remoteVars, now>>
  BY DEF Arrive
<1>3. Grows /\ executed' = executed /\ executed \in [Keys -> Nat]
  BY <1>2, UnchangedGrows DEF Inductive, remoteVars, Grows
<1>4. /\ GoodController(i.key, NewController(i, now), executed[i.key])
      /\ GoodInstruction(SubmitOf(i), executed[i.key])
  BY <1>1, <1>3, NewControllerIsGood DEF Inductive, Rest
<1>5. Controllers'
  <2>1. controllers' \in [Keys -> Controller \cup {None}]
    BY <1>1, <1>2, <1>4 DEF Inductive, Controllers, GoodController
  <2>2. ASSUME NEW k \in Keys, controllers'[k] # None
        PROVE  GoodController(k, controllers'[k], executed'[k]) /\ lookup'[k] = k
    <3>1. CASE k = i.key
      <4>1. controllers'[k] = NewController(i, now) /\ lookup'[k] = k
        BY <1>1, <1>2, <3>1 DEF Inductive, Controllers, Lookup
      <4> QED  BY <1>3, <1>4, <3>1, <4>1
    <3>2. CASE k # i.key
      <4>1. controllers'[k] = controllers[k] /\ lookup'[k] = lookup[k]
        BY <1>2, <3>2 DEF Inductive, Controllers, Lookup
      <4> QED  BY <1>3, <2>2, <4>1 DEF Inductive, Controllers, Active
    <3> QED  BY <3>1, <3>2
  <2> QED  BY <2>1, <2>2 DEF Controllers, Active
<1>6. Lookup'
  BY <1>1, <1>2 DEF Inductive, Lookup
<1>7. Actions'
  <2> DEFINE items == <<SubmitOf(i)>>
  <2>1. SubmitOf(i) \in Instruction /\ SubmitOf(i).key = i.key
    BY <1>4 DEF GoodInstruction, SubmitOf
  <2>2. items \in Seq(Instruction) /\ Len(items) = 1 /\ items[1] = SubmitOf(i)
    BY <2>1
  <2>3. actions' = Offer(actions, ActionCap, items)
    BY <1>2
  <2> HIDE DEF items
  <2>4. \A n \in 1 .. Len(items) : GoodInstruction(items[n], executed[items[n].key])
    BY <1>4, <2>1, <2>2
  <2> QED  BY <1>2, <2>2, <2>3, <2>4, ActionsOffered DEF Inductive, remoteVars
<1>8. Events' /\ Remote'
  BY <1>2, <1>3, EventsKept, RemoteKept DEF Inductive
<1>9. Rest'
  BY <1>1, <1>2 DEF Inductive, Rest
<1> QED  BY <1>5, <1>6, <1>7, <1>8, <1>9 DEF Inductive

\* HandleEvent: the event is the resolved controller's own, so that what it
\* claims was executed.
LEMMA HandleEventStep ==
  ASSUME Inductive, HandleEvent
  PROVE  Inductive'
<1> DEFINE e == Head(events)
           k == Resolve(e)
<1>1. /\ events # <<>> /\ events' = Tail(events) /\ k # None /\ Active(k)
      /\ lookup' = [lookup EXCEPT ![e.id] = k, ![e.key] = k]
      /\ UNCHANGED <<remoteVars, missed, clockVars>>
  BY DEF HandleEvent
<1>2. GoodEvent(e, executed[e.key]) /\ e \in Event /\ e.key \in Keys /\ e.id \in Ids
      /\ e.id = IdOf[e.key] /\ e.stamp \in Nat
  <2>1. Len(events) # 0 /\ e = events[1] /\ 1 \in 1 .. Len(events)
    BY <1>1 DEF Inductive, Events
  <2>2. GoodEvent(e, executed[e.key])
    BY <2>1 DEF Inductive, Events
  <2> QED  BY <2>2 DEF GoodEvent, Event
<1>3. k = e.key
  BY <1>1, <1>2, ResolveIsKey DEF Inductive
<1> DEFINE c == controllers[k]
<1>4. Grows /\ executed' = executed /\ executed[k] \in Nat
  BY <1>1, <1>2, <1>3, UnchangedGrows DEF Inductive, remoteVars, Grows
<1>5. GoodController(k, c, executed[k])
  BY <1>1, <1>2, <1>3 DEF Inductive, Controllers
<1>6. PICK m \in Flagged(c, e) :
        LET d == OnExecutionEvent(c, e, m) IN
          IF d.status \in Terminal
          THEN controllers' = [controllers EXCEPT ![k] = None] /\ UNCHANGED actions
          ELSE \E a \in Choices(d, e.stamp) :
                 /\ controllers' = [controllers EXCEPT ![k] = ApplyAction(d, a, e.stamp)]
                 /\ actions' = Offer(actions, ActionCap, InstructionsFor(k, d, a))
  BY DEF HandleEvent
<1> DEFINE d == OnExecutionEvent(c, e, m)
<1>7. GoodController(k, d, executed[k])
  BY <1>2, <1>3, <1>4, <1>5, EventKeepsGood
<1>8. /\ \/ controllers' = [controllers EXCEPT ![k] = None]
         \/ \E g : /\ controllers' = [controllers EXCEPT ![k] = g]
                   /\ GoodController(k, g, executed[k])
      /\ Actions'
  <2>1. CASE d.status \in Terminal
    <3>1. controllers' = [controllers EXCEPT ![k] = None] /\ UNCHANGED actions
      BY <1>6, <2>1
    <3> QED  BY <1>4, <3>1, ActionsKept DEF Inductive
  <2>2. CASE d.status \notin Terminal
    <3>1. PICK a \in Choices(d, e.stamp) :
            /\ controllers' = [controllers EXCEPT ![k] = ApplyAction(d, a, e.stamp)]
            /\ actions' = Offer(actions, ActionCap, InstructionsFor(k, d, a))
      BY <1>6, <2>2
    <3> HIDE DEF e, k, c, d
    <3>2. /\ GoodController(k, ApplyAction(d, a, e.stamp), executed[k])
          /\ a # "Hold" => GoodInstruction(InstructionFor(k, d, a), executed[k])
      BY <1>2, <1>3, <1>4, <1>7, EvaluateKeepsGood
    <3> DEFINE items == InstructionsFor(k, d, a)
    <3>3. items \in Seq(Instruction)
          /\ \A n \in 1 .. Len(items) : items[n] = InstructionFor(k, d, a) /\ a # "Hold"
      <4>1. CASE a = "Hold"
        BY <4>1 DEF InstructionsFor
      <4>2. CASE a # "Hold"
        <5>1. InstructionFor(k, d, a) \in Instruction
          BY <3>2, <4>2 DEF GoodInstruction
        <5> QED  BY <4>2, <5>1 DEF InstructionsFor
      <4> QED  BY <4>1, <4>2
    <3>4. InstructionFor(k, d, a).key = k
      BY DEF InstructionFor
    <3>5. actions' = Offer(actions, ActionCap, items)
      BY <3>1
    <3> HIDE DEF items
    <3>6. \A n \in 1 .. Len(items) : GoodInstruction(items[n], executed[items[n].key])
      BY <3>2, <3>3, <3>4
    <3>7. Actions'
      BY <1>1, <3>3, <3>5, <3>6, ActionsOffered DEF Inductive, remoteVars
    <3> QED  BY <3>1, <3>2, <3>7
  <2> QED  BY <2>1, <2>2
<1> HIDE DEF e, c, d, k
<1>9. Lookup'
  <2>1. lookup' \in [Keys \cup Ids -> Keys \cup {None}]
    BY <1>1, <1>2, <1>3 DEF Inductive, Lookup
  <2>2. \A x \in Keys \cup Ids : lookup'[x] = IF x \in {e.id, e.key} THEN k ELSE lookup[x]
    BY <1>1, <1>2, <1>3 DEF Inductive, Lookup
  <2> QED  BY <1>2, <1>3, <2>1, <2>2 DEF Inductive, Lookup
<1>10. Controllers'
  <2>1. \A l \in Keys : lookup[l] = l => lookup'[l] = l
    <3>1. \A l \in Keys : l # e.id
      BY <1>2, ControllerAssumption
    <3>2. \A l \in Keys : lookup'[l] = IF l = e.key THEN k ELSE lookup[l]
      BY <1>1, <1>2, <3>1 DEF Inductive, Lookup
    <3> QED  BY <1>3, <3>2
  <2>2. ASSUME NEW l \in Keys, l # k, controllers'[l] = controllers[l], controllers'[l] # None
        PROVE  GoodController(l, controllers'[l], executed'[l]) /\ lookup'[l] = l
    BY <1>4, <2>1, <2>2 DEF Inductive, Controllers, Active
  <2>3. CASE controllers' = [controllers EXCEPT ![k] = None]
    <3>1. controllers' \in [Keys -> Controller \cup {None}]
      BY <2>3 DEF Inductive, Controllers
    <3>2. \A l \in Keys : controllers'[l] # None => l # k /\ controllers'[l] = controllers[l]
      BY <2>3 DEF Inductive, Controllers
    <3> QED  BY <2>2, <3>1, <3>2 DEF Controllers, Active
  <2>4. ASSUME NEW g, controllers' = [controllers EXCEPT ![k] = g], GoodController(k, g, executed[k])
        PROVE  Controllers'
    <3>1. controllers' \in [Keys -> Controller \cup {None}]
      BY <2>4 DEF Inductive, Controllers, GoodController
    <3>2. \A l \in Keys : l # k => controllers'[l] = controllers[l]
      BY <2>4 DEF Inductive, Controllers
    <3>3. k \in Keys /\ controllers'[k] = g
      BY <1>2, <1>3, <2>4 DEF Inductive, Controllers
    <3>4. lookup[k] = k
      BY <1>1, <3>3 DEF Inductive, Controllers
    <3>5. GoodController(k, controllers'[k], executed'[k]) /\ lookup'[k] = k
      BY <1>4, <2>1, <2>4, <3>3, <3>4
    <3> QED  BY <2>2, <3>1, <3>2, <3>5 DEF Controllers, Active
  <2> QED  BY <1>8, <2>3, <2>4
<1>11. Events'
  BY <1>1, <1>4, EventsKept DEF Inductive
<1>12. Remote' /\ Rest'
  BY <1>1, RemoteKept DEF Inductive, Rest, clockVars
<1> QED  BY <1>8, <1>9, <1>10, <1>11, <1>12 DEF Inductive

\* MarketUpdate: every live controller observes, evaluates and stays good, and
\* the instructions they emit are good in any order.
LEMMA MarketUpdateStep ==
  ASSUME Inductive, MarketUpdate
  PROVE  Inductive'
<1>1. UNCHANGED <<lookup, events, remoteVars, missed, clockVars>>
  BY DEF MarketUpdate
<1>2. Grows /\ executed' = executed /\ executed \in [Keys -> Nat] /\ now \in Nat
  BY <1>1, UnchangedGrows DEF Inductive, remoteVars, Grows, Rest
<1>3. PICK comp \in [Live -> Competition] :
        LET seen == [k \in Live |-> OnMarketUpdate(controllers[k], comp[k])] IN
        \E act \in [Live -> UNION {Choices(seen[k], now) : k \in Live}] :
          LET acting == {k \in Live : act[k] # "Hold"} IN
          /\ \A k \in Live : act[k] \in Choices(seen[k], now)
          /\ controllers' = [k \in Keys |-> IF k \in Live THEN ApplyAction(seen[k], act[k], now)
                                            ELSE controllers[k]]
          /\ \E turn \in [1 .. Cardinality(acting) -> acting] :
               /\ \A k \in acting : \E n \in DOMAIN turn : turn[n] = k
               /\ actions' = Offer(actions, ActionCap,
                    [n \in DOMAIN turn |-> InstructionFor(turn[n], seen[turn[n]], act[turn[n]])])
  BY DEF MarketUpdate
<1> DEFINE seen == [k \in Live |-> OnMarketUpdate(controllers[k], comp[k])]
<1>4. PICK act \in [Live -> UNION {Choices(seen[k], now) : k \in Live}] :
        LET acting == {k \in Live : act[k] # "Hold"} IN
        /\ \A k \in Live : act[k] \in Choices(seen[k], now)
        /\ controllers' = [k \in Keys |-> IF k \in Live THEN ApplyAction(seen[k], act[k], now)
                                          ELSE controllers[k]]
        /\ \E turn \in [1 .. Cardinality(acting) -> acting] :
             /\ \A k \in acting : \E n \in DOMAIN turn : turn[n] = k
             /\ actions' = Offer(actions, ActionCap,
                  [n \in DOMAIN turn |-> InstructionFor(turn[n], seen[turn[n]], act[turn[n]])])
  BY <1>3, Zenon
<1> DEFINE acting == {k \in Live : act[k] # "Hold"}
<1>5. PICK turn \in [1 .. Cardinality(acting) -> acting] :
        /\ \A k \in acting : \E n \in DOMAIN turn : turn[n] = k
        /\ actions' = Offer(actions, ActionCap,
             [n \in DOMAIN turn |-> InstructionFor(turn[n], seen[turn[n]], act[turn[n]])])
  BY <1>4, Zenon
<1>6. ASSUME NEW k \in Live
      PROVE  /\ k \in Keys /\ lookup[k] = k
             /\ GoodController(k, seen[k], executed[k]) /\ act[k] \in Choices(seen[k], now)
  <2>1. k \in Keys /\ GoodController(k, controllers[k], executed[k]) /\ lookup[k] = k
    BY DEF Live, Inductive, Controllers
  <2>2. comp[k] \in Competition /\ seen[k] = OnMarketUpdate(controllers[k], comp[k])
    OBVIOUS
  <2> QED  BY <1>2, <1>4, <2>1, <2>2, ObservationKeepsGood
<1> HIDE DEF seen
<1>7. ASSUME NEW k \in Live
      PROVE  /\ GoodController(k, ApplyAction(seen[k], act[k], now), executed[k])
             /\ act[k] # "Hold" =>
                  GoodInstruction(InstructionFor(k, seen[k], act[k]), executed[k])
  BY <1>2, <1>6, EvaluateKeepsGood
<1>8. Controllers'
  <2>1. ASSUME NEW k \in Keys, controllers'[k] # None
        PROVE  GoodController(k, controllers'[k], executed[k]) /\ lookup[k] = k
    <3>1. CASE k \in Live
      <4>1. controllers'[k] = ApplyAction(seen[k], act[k], now)
        BY <1>4, <3>1
      <4> QED  BY <1>6, <1>7, <3>1, <4>1
    <3>2. CASE k \notin Live
      <4>1. controllers'[k] = controllers[k]
        BY <1>4, <3>2
      <4> QED  BY <2>1, <4>1 DEF Inductive, Controllers, Active
    <3> QED  BY <3>1, <3>2
  <2>2. controllers' \in [Keys -> Controller \cup {None}]
    <3>1. ASSUME NEW k \in Keys PROVE controllers'[k] \in Controller \cup {None}
      BY <2>1 DEF GoodController
    <3> QED  BY <1>4, <3>1
  <2> QED  BY <1>1, <1>2, <2>1, <2>2 DEF Controllers, Active
<1>9. Actions'
  <2>1. acting \subseteq Keys /\ IsFiniteSet(acting)
    BY LoopAssumption, FS_Subset DEF Live
  <2>2. Cardinality(acting) \in Nat
    BY <2>1, FS_CardinalityType
  <2> DEFINE N == Cardinality(acting)
             items == [n \in 1 .. N |-> InstructionFor(turn[n], seen[turn[n]], act[turn[n]])]
  <2>3. actions' = Offer(actions, ActionCap, items)
    BY <1>5
  <2>4. ASSUME NEW n \in 1 .. N
        PROVE  /\ items[n] \in Instruction /\ items[n].key \in Keys
               /\ GoodInstruction(items[n], executed[items[n].key])
    <3>1. turn[n] \in Live /\ act[turn[n]] # "Hold" /\ turn[n] \in Keys
      BY DEF Live
    <3>2. items[n] = InstructionFor(turn[n], seen[turn[n]], act[turn[n]]) /\ items[n].key = turn[n]
      BY DEF InstructionFor
    <3> HIDE DEF items, acting
    <3>3. GoodInstruction(items[n], executed[items[n].key])
      BY <1>7, <3>1, <3>2
    <3> QED  BY <3>1, <3>2, <3>3 DEF GoodInstruction
  <2> HIDE DEF acting
  <2>5. items \in Seq(Instruction) /\ Len(items) = N
    <3>1. N \in Nat
      BY <2>2
    <3> HIDE DEF N
    <3>2. items \in [1 .. N -> Instruction]
      BY <2>4
    <3> QED  BY <3>1, <3>2
  <2> HIDE DEF items, N
  <2> QED  BY <1>1, <2>3, <2>4, <2>5, ActionsOffered DEF Inductive, remoteVars
<1>10. Events' /\ Remote' /\ Lookup' /\ Rest'
  BY <1>1, <1>2, EventsKept, RemoteKept DEF Inductive, Lookup, Rest, clockVars
<1> QED  BY <1>8, <1>9, <1>10 DEF Inductive

-----------------------------------------------------------------------------
(* The theorems *)

\* The invariant holds initially.
LEMMA InitIsInductive == Init => Inductive
<1> SUFFICES ASSUME Init PROVE Inductive
  OBVIOUS
<1>1. Controllers /\ Lookup /\ Rest
  BY DEF Init, Controllers, Lookup, Rest, Active
<1>2. Actions /\ Events
  BY LoopAssumption DEF Init, Actions, Events
<1>3. Remote
  <2>1. \A k \in Keys : orders[k] # None =>
          /\ orders[k] \in RemoteOrder
          /\ orders[k].filled <= orders[k].executed
    BY DEF Init, RemoteOrder, Statuses
  <2>2. orders \in [Keys -> RemoteOrder \cup {None}]
    BY <2>1 DEF Init
  <2>3. handler \in Handler /\ handler.pc = "idle" /\ stream = None
    BY DEF Init, Handler, Idle
  <2> QED  BY <2>1, <2>2, <2>3 DEF Remote
<1> QED  BY <1>1, <1>2, <1>3 DEF Inductive

\* Every step keeps it.
LEMMA NextKeepsInductive == Inductive /\ [Next]_vars => Inductive'
<1> SUFFICES ASSUME Inductive, [Next]_vars PROVE Inductive'
  OBVIOUS
<1>1. CASE UNCHANGED vars
  <2>1. UNCHANGED <<loopVars, actions, events, remoteVars, missed, clockVars>> /\ UNCHANGED orders
    BY <1>1 DEF vars, remoteVars
  <2>2. Grows
    BY <2>1, UnchangedGrows DEF Inductive
  <2>3. Controllers' /\ Actions' /\ Events' /\ Remote'
    BY <2>1, <2>2, ControllersKept, ActionsKept, EventsKept, RemoteKept DEF Inductive
  <2> QED  BY <2>1, <2>3 DEF Inductive, Lookup, Rest, loopVars, clockVars
<1>2. CASE Loop
  BY <1>2, ArriveStep, IgnoreEventStep, HandleEventStep, MarketUpdateStep DEF Loop
<1>3. CASE Post
  BY <1>3, PostStep
<1>4. CASE ControlPlane
  BY <1>4, SendAckStep, SendFailStep, CancelLocalStep, HandlerEmitsStep, StreamEmitsStep,
     StreamFillStep, StreamCancelStep, StreamRejectStep DEF ControlPlane
<1>5. CASE Tick
  BY <1>5, TickStep
<1> QED  BY <1>1, <1>2, <1>3, <1>4, <1>5 DEF Next

\* The invariant, of every behaviour of the loop.
THEOREM InductiveInvariant == Spec => []Inductive
<1> QED  BY InitIsInductive, NextKeepsInductive, PTL DEF Spec

\* Every variable keeps its type, the bounded channels their capacity included.
THEOREM ExecTypeCorrect == Spec => []TypeOK
<1>1. Inductive => TypeOK
  BY DEF Inductive, Controllers, Lookup, Actions, Events, Remote, Rest, TypeOK, LoopTypeOK
<1> QED  BY <1>1, InductiveInvariant, PTL

\* Actions on one order are a cooldown apart, whatever the order of its events.
THEOREM ActionsAreSpacedAlways == Spec => []ActionsAreSpaced
<1>1. Inductive => ActionsAreSpaced
  BY DEF Inductive, Controllers, GoodController, ActionsAreSpaced
<1> QED  BY <1>1, InductiveInvariant, PTL

\* Two orders are never mixed up, under either of their names.
THEOREM AttributionAlwaysHolds == Spec => []AttributionHolds
<1>1. ASSUME Inductive PROVE AttributionHolds
  <2>1. \A x \in Keys \cup Ids : lookup[x] # None => x \in {lookup[x], IdOf[lookup[x]]}
    BY <1>1 DEF Inductive, Lookup
  <2>2. \A k \in Keys : Active(k) => controllers[k].id \in {k, IdOf[k]} /\ lookup[k] = k
    BY <1>1 DEF Inductive, Controllers, GoodController
  <2>3. DOMAIN actions = 1 .. Len(actions)
    BY <1>1 DEF Inductive, Actions
  <2>4. \A n \in DOMAIN actions : actions[n].id \in {actions[n].key, IdOf[actions[n].key]}
    BY <1>1, <2>3 DEF Inductive, Actions, GoodInstruction
  <2> QED  BY <2>1, <2>2, <2>4 DEF AttributionHolds
<1> QED  BY <1>1, InductiveInvariant, PTL

\* No controller and no exit claims more than the exchange executed.
THEOREM ExitsAlwaysStayWithinFills == Spec => []ExitsStayWithinFills
<1>1. ASSUME Inductive PROVE ExitsStayWithinFills
  <2>1. \A k \in Keys : executed[k] = Executed(k)
    BY DEF executed
  <2>2. \A k \in Keys : Active(k) => controllers[k].filled <= Executed(k)
    BY <1>1, <2>1 DEF Inductive, Controllers, GoodController
  <2>3. DOMAIN actions = 1 .. Len(actions)
    BY <1>1 DEF Inductive, Actions
  <2>4. ASSUME NEW n \in DOMAIN actions, actions[n].kind = "Exit"
        PROVE  actions[n].size <= Executed(actions[n].key)
    <3>1. GoodInstruction(actions[n], executed[actions[n].key])
      BY <1>1, <2>3 DEF Inductive, Actions
    <3>2. actions[n].key \in Keys
      BY <3>1 DEF GoodInstruction, Instruction
    <3> QED  BY <2>1, <2>4, <3>1, <3>2 DEF GoodInstruction
  <2> QED  BY <2>2, <2>4 DEF ExitsStayWithinFills
<1> QED  BY <1>1, InductiveInvariant, PTL

\* No order is ever repriced, for any intents, limits and capacities.
THEOREM NeverRepricesAlways == Spec => []NeverReprices
<1>1. ASSUME Inductive PROVE NeverReprices
  <2>1. \A k \in Keys : Active(k) => controllers[k].replaces = 0
    BY <1>1 DEF Inductive, Controllers, GoodController
  <2>2. DOMAIN actions = 1 .. Len(actions)
    BY <1>1 DEF Inductive, Actions
  <2>3. \A n \in DOMAIN actions : actions[n].kind # "Reprice"
    BY <1>1, <2>2 DEF Inductive, Actions, GoodInstruction
  <2> QED  BY <2>1, <2>3 DEF NeverReprices
<1> QED  BY <1>1, InductiveInvariant, PTL

\* Of an intent without a queue estimate, whatever its urgency (0.65 is the least
\* factor of expected_fill_time_ms), the expected fill time exceeds the edge
\* half-life (at most twelve durations, edge_half_life_ms), so that evaluate_action
\* gives the order up, or switches it, at its first evaluation after the cooldown.
THEOREM UnestimatedOrdersAreSlow ==
  ASSUME NEW i \in Intent, i.chance <= 5, i.pace >= 65, i.duration > 0
  PROVE  ExpectedFillTime(i) > EdgeHalfLife(i)
<1>1. i.duration \in Nat /\ i.chance \in Nat /\ i.pace \in Nat /\ i.samples \in Nat
  BY DEF Intent
<1>2. Greater(i.chance, 5) = 5
  BY <1>1 DEF Greater
<1>3. i.duration * i.pace >= i.duration * 65
  BY <1>1
<1>4. i.duration * i.pace \in Nat
  BY <1>1
<1>5. (i.duration * i.pace) \div 5 >= 13 * i.duration
  BY <1>1, <1>3, <1>4
<1>6. EdgeHalfLife(i) <= 12 * i.duration
  BY <1>1 DEF EdgeHalfLife, Lesser
<1>7. EdgeHalfLife(i) \in Nat /\ ExpectedFillTime(i) = (i.duration * i.pace) \div 5
  BY <1>1, <1>2 DEF EdgeHalfLife, Lesser, ExpectedFillTime
<1>8. (i.duration * i.pace) \div 5 \in Nat
  BY <1>4
<1> QED  BY <1>1, <1>5, <1>6, <1>7, <1>8

-----------------------------------------------------------------------------
(* The ends of orders *)

\* An event of the queue is the end of k's order.
EndIn(q, k) == \E n \in 1 .. Len(q) : q[n].key = k /\ q[n].status \in Terminal

\* EndsReachTheController, also of a controller that has aborted its order: a late
\* event that does not end the order brings it back to life.
EndsKept ==
  \A k \in Keys \ missed :
    Active(k) /\ orders[k] # None /\ orders[k].status \in Terminal => EndUnderWay(k)

\* A queue with one more element.
LEMMA QueueAppend ==
  ASSUME NEW S, NEW q \in Seq(S), NEW e \in S
  PROVE  \E p \in Seq(S) : /\ p = Append(q, e)
                           /\ Len(p) = Len(q) + 1 /\ Len(q) \in Nat /\ p[Len(q) + 1] = e
                           /\ \A n \in 1 .. Len(q) : p[n] = q[n]
<1> DEFINE p == Append(q, e)
<1>1. p \in Seq(S) /\ Len(p) = Len(q) + 1 /\ Len(q) \in Nat /\ p[Len(q) + 1] = e
  OBVIOUS
<1>2. \A n \in 1 .. Len(q) : p[n] = q[n]
  OBVIOUS
<1> QED  BY <1>1, <1>2

\* A queue without its first element.
LEMMA QueueTail ==
  ASSUME NEW S, NEW q \in Seq(S), q # <<>>
  PROVE  \E p \in Seq(S) : /\ p = Tail(q)
                           /\ Len(p) = Len(q) - 1 /\ Len(q) \in Nat
                           /\ \A n \in 1 .. Len(p) : p[n] = q[n + 1]
<1> DEFINE p == Tail(q)
<1>1. p \in Seq(S) /\ Len(p) = Len(q) - 1 /\ Len(q) \in Nat
  OBVIOUS
<1>2. \A n \in 1 .. Len(p) : p[n] = q[n + 1]
  OBVIOUS
<1> QED  BY <1>1, <1>2

\* An end in the channel stays there when more is put behind it ...
LEMMA EndAppended ==
  ASSUME NEW q \in Seq(Event), NEW e \in Event, NEW k
  PROVE  /\ EndIn(q, k) => EndIn(Append(q, e), k)
         /\ e.key = k /\ e.status \in Terminal => EndIn(Append(q, e), k)
<1>1. PICK p \in Seq(Event) :
        /\ p = Append(q, e)
        /\ Len(p) = Len(q) + 1 /\ Len(q) \in Nat /\ p[Len(q) + 1] = e
        /\ \A n \in 1 .. Len(q) : p[n] = q[n]
  BY QueueAppend
<1>2. Len(q) + 1 \in 1 .. Len(p) /\ \A n \in 1 .. Len(q) : n \in 1 .. Len(p)
  BY <1>1
<1> QED  BY <1>1, <1>2 DEF EndIn

\* ... and when another event is taken.
LEMMA EndTaken ==
  ASSUME NEW q \in Seq(Event), q # <<>>, NEW k, EndIn(q, k),
         ~(Head(q).key = k /\ Head(q).status \in Terminal)
  PROVE  EndIn(Tail(q), k)
<1>1. PICK n \in 1 .. Len(q) : q[n].key = k /\ q[n].status \in Terminal
  BY DEF EndIn
<1>2. PICK p \in Seq(Event) :
        /\ p = Tail(q)
        /\ Len(p) = Len(q) - 1 /\ Len(q) \in Nat
        /\ \A m \in 1 .. Len(p) : p[m] = q[m + 1]
  BY QueueTail
<1>3. n # 1
  BY <1>1
<1>4. n - 1 \in 1 .. Len(p) /\ p[n - 1] = q[n]
  BY <1>2, <1>3
<1> QED  BY <1>1, <1>2, <1>4 DEF EndIn

\* Where an end may be under way.
LEMMA EndPlaces ==
  ASSUME events \in Seq(Event), NEW k
  PROVE  EndUnderWay(k) <=>
           \/ EndIn(events, k)
           \/ stream # None /\ stream.key = k /\ stream.status \in Terminal
           \/ handler.pc = "reply" /\ handler.event.key = k /\ handler.event.status \in Terminal
<1>1. DOMAIN events = 1 .. Len(events)
  OBVIOUS
<1> QED  BY <1>1 DEF EndUnderWay, EndIn

\* The same after a step.
LEMMA EndPlacesAfter ==
  events' \in Seq(Event) =>
    \A k : EndUnderWay(k)' <=>
           \/ EndIn(events', k)
           \/ stream' # None /\ stream'.key = k /\ stream'.status \in Terminal
           \/ handler'.pc = "reply" /\ handler'.event.key = k /\ handler'.event.status \in Terminal
<1>1. events' \in Seq(Event) => DOMAIN events' = 1 .. Len(events')
  OBVIOUS
<1> QED  BY <1>1 DEF EndUnderWay, EndIn

\* An update that the feed forwards keeps the ends in the channel; if it is an end
\* itself, it joins them or is missed.
LEMMA UpdateEnds ==
  ASSUME Events, NEW e \in Event, HandleUpdate(e), NEW k \in Keys \ missed'
  PROVE  /\ k \notin missed
         /\ EndIn(events, k) => EndIn(events', k)
         /\ e.key = k /\ e.status \in Terminal => EndIn(events', k)
<1>1. PICK q \in Seq(Event) : q = events
  BY DEF Events
<1>2. CASE events' = Append(events, e) /\ UNCHANGED missed
  BY <1>1, <1>2, EndAppended
<1>3. CASE UNCHANGED events /\ missed' = IF e.status \in Terminal THEN missed \cup {e.key} ELSE missed
  BY <1>3
<1> QED  BY <1>2, <1>3 DEF HandleUpdate

\* A step takes no end away but from a controller that it retires.
LEMMA EndsStep == Inductive /\ Inductive' /\ EndsKept /\ [Next]_vars => EndsKept'
<1> SUFFICES ASSUME Inductive, Inductive', EndsKept, [Next]_vars, NEW k \in Keys \ missed',
                    controllers'[k] # None, orders'[k] # None, orders'[k].status \in Terminal
             PROVE  EndUnderWay(k)'
  BY DEF EndsKept, Active
<1>1. events \in Seq(Event) /\ events' \in Seq(Event) /\ orders \in [Keys -> RemoteOrder \cup {None}]
  BY DEF Inductive, Events, Remote
<1>2. /\ EndUnderWay(k) <=>
           \/ EndIn(events, k)
           \/ stream # None /\ stream.key = k /\ stream.status \in Terminal
           \/ handler.pc = "reply" /\ handler.event.key = k /\ handler.event.status \in Terminal
      /\ EndUnderWay(k)' <=>
           \/ EndIn(events', k)
           \/ stream' # None /\ stream'.key = k /\ stream'.status \in Terminal
           \/ handler'.pc = "reply" /\ handler'.event.key = k /\ handler'.event.status \in Terminal
  BY <1>1, EndPlaces, EndPlacesAfter
<1>3. ASSUME k \notin missed, controllers[k] # None, orders[k] # None, orders[k].status \in Terminal
      PROVE  EndUnderWay(k)
  BY <1>3 DEF EndsKept, Active
<1>4. CASE UNCHANGED <<orders, events, stream, handler>> /\ missed \subseteq missed'
           /\ controllers[k] # None
  BY <1>2, <1>3, <1>4
<1>5. ASSUME NEW i \in Intents, Arrive(i) PROVE EndUnderWay(k)'
  <2>1. UNCHANGED <<orders, events, stream, handler>> /\ missed \subseteq missed'
    BY <1>5 DEF Arrive, remoteVars
  <2>2. k # i.key
    BY <1>5, <2>1 DEF Arrive
  <2>3. controllers[k] # None
    BY <1>5, <2>2 DEF Arrive, Inductive, Controllers
  <2> QED  BY <1>4, <2>1, <2>3
<1>6. CASE IgnoreEvent
  <2>1. UNCHANGED <<orders, stream, handler, missed, controllers>> /\ events # <<>> /\ events' = Tail(events)
    BY <1>6 DEF IgnoreEvent, remoteVars, loopVars
  <2>2. PICK e : e = Head(events)
    OBVIOUS
  <2>3. GoodEvent(e, executed[e.key]) /\ e = events[1]
    <3>1. 1 \in 1 .. Len(events) /\ e = events[1]
      BY <1>1, <2>1, <2>2
    <3> QED  BY <3>1 DEF Inductive, Events
  <2>4. e.key # k
    <3> SUFFICES ASSUME e.key = k PROVE FALSE
      OBVIOUS
    <3>1. lookup[k] = k /\ Active(k)
      BY <2>1 DEF Inductive, Controllers, Active
    <3>2. Resolve(e) # None
      BY <3>1, ControllerAssumption DEF Resolve
    <3>3. Resolve(e) = k
      BY <2>3, <3>2, ResolveIsKey DEF Inductive
    <3> QED  BY <1>6, <2>2, <3>1, <3>2, <3>3 DEF IgnoreEvent
  <2>5. EndIn(events, k) => EndIn(events', k)
    BY <1>1, <2>1, <2>2, <2>4, EndTaken
  <2> QED  BY <1>2, <1>3, <2>1, <2>5
<1>7. CASE HandleEvent
  <2>1. UNCHANGED <<orders, stream, handler, missed>> /\ events # <<>> /\ events' = Tail(events)
    BY <1>7 DEF HandleEvent, remoteVars
  <2>2. PICK e : e = Head(events)
    OBVIOUS
  <2>3. GoodEvent(e, executed[e.key]) /\ e \in Event
    <3>1. 1 \in 1 .. Len(events) /\ e = events[1]
      BY <1>1, <2>1, <2>2
    <3> QED  BY <3>1 DEF Inductive, Events, GoodEvent
  <2>4. Resolve(e) # None /\ Resolve(e) = e.key /\ Active(e.key) /\ e.key \in Keys
    <3>1. Resolve(e) # None /\ Active(Resolve(e))
      BY <1>7, <2>2 DEF HandleEvent
    <3> QED  BY <2>3, <3>1, ResolveIsKey DEF Inductive, Event
  <2>5. PICK comp \in Flagged(controllers[e.key], e) :
          LET c == OnExecutionEvent(controllers[e.key], e, comp) IN
            IF c.status \in Terminal
            THEN controllers' = [controllers EXCEPT ![e.key] = None]
            ELSE \E a \in Choices(c, e.stamp) :
                   controllers' = [controllers EXCEPT ![e.key] = ApplyAction(c, a, e.stamp)]
    BY <1>7, <2>2, <2>4, Zenon DEF HandleEvent
  <2>6. PICK c : c = OnExecutionEvent(controllers[e.key], e, comp)
    OBVIOUS
  <2>7. c.status = e.status
    <3>1. controllers[e.key] \in Controller
      BY <2>4 DEF Inductive, Controllers, GoodController, Active
    <3> QED  BY <2>6, <3>1 DEF OnExecutionEvent, Controller
  <2>8. controllers \in [Keys -> Controller \cup {None}]
    BY DEF Inductive, Controllers
  <2>9. controllers[k] # None
    <3>1. \E x : controllers' = [controllers EXCEPT ![e.key] = x]
      BY <2>5
    <3> QED  BY <2>4, <2>8, <3>1 DEF Active
  <2>10. ~(e.key = k /\ e.status \in Terminal)
    <3> SUFFICES ASSUME e.key = k, e.status \in Terminal PROVE FALSE
      OBVIOUS
    <3>1. controllers' = [controllers EXCEPT ![e.key] = None]
      BY <2>5, <2>6, <2>7
    <3> QED  BY <2>8, <3>1
  <2>11. EndIn(events, k) => EndIn(events', k)
    BY <1>1, <2>1, <2>2, <2>10, EndTaken
  <2> QED  BY <1>2, <1>3, <2>1, <2>9, <2>11
<1>8. CASE MarketUpdate
  <2>1. UNCHANGED <<orders, events, stream, handler, missed>>
    BY <1>8 DEF MarketUpdate, remoteVars
  <2>2. controllers[k] # None
    <3>1. k \notin Live => controllers'[k] = controllers[k]
      BY <1>8 DEF MarketUpdate
    <3> QED  BY <3>1 DEF Live, Active
  <2> QED  BY <1>4, <2>1, <2>2
<1>9. CASE Post
  <2>1. UNCHANGED <<controllers, events, stream, missed>> /\ handler = Idle
    BY <1>9 DEF Post, loopVars
  <2>2. PICK i : orders' = orders \/ orders' = [orders EXCEPT ![i.key] =
                   [status |-> "SENT", size |-> i.size, filled |-> 0, executed |-> 0, stamp |-> 0]]
    BY <1>9 DEF Post
  <2>3. orders[k] = orders'[k]
    <3>1. CASE orders' = orders
      BY <3>1
    <3>2. CASE orders' = [orders EXCEPT ![i.key] =
                   [status |-> "SENT", size |-> i.size, filled |-> 0, executed |-> 0, stamp |-> 0]]
      BY <1>1, <3>2 DEF Terminal
    <3> QED  BY <2>2, <3>1, <3>2
  <2>4. handler.pc # "reply"
    BY <2>1 DEF Idle
  <2> QED  BY <1>2, <1>3, <2>1, <2>3, <2>4
<1>10. CASE SendAck
  <2>1. UNCHANGED <<controllers, events, stream, missed>> /\ handler.pc = "send"
    BY <1>10 DEF SendAck, loopVars
  <2>2. orders[handler.key] # None /\ handler.key \in Keys
    BY <2>1, HandlerHasOrder DEF Inductive
  <2>3. PICK o : o.status = "ACK" /\ orders' = [orders EXCEPT ![handler.key] = o]
    <3>1. orders[handler.key] \in RemoteOrder
      BY <1>1, <2>2
    <3> QED  BY <1>10, <3>1 DEF SendAck, RemoteOrder
  <2>4. orders[k] = orders'[k]
    BY <1>1, <2>3 DEF Terminal
  <2> QED  BY <1>2, <1>3, <2>1, <2>4
<1>11. CASE SendFail
  <2>1. /\ UNCHANGED <<controllers, events, stream>> /\ handler.pc = "send"
        /\ missed' = missed \cup {handler.key}
        /\ \E o : orders' = [orders EXCEPT ![handler.key] = o]
    BY <1>11 DEF SendFail, loopVars
  <2>2. orders[k] = orders'[k]
    BY <1>1, <2>1
  <2> QED  BY <1>2, <1>3, <2>1, <2>2
<1>12. CASE CancelLocal
  <2>1. UNCHANGED <<controllers, events, stream, missed>> /\ handler.pc = "cancel"
    BY <1>12 DEF CancelLocal, loopVars
  <2>2. orders[handler.key] # None /\ handler.key \in Keys
    BY <2>1, HandlerHasOrder DEF Inductive
  <2>3. PICK h, o : /\ h = handler.key /\ o.status = "CANCELED"
                    /\ orders' = [orders EXCEPT ![h] = o]
                    /\ handler' = [pc |-> "reply", event |-> Snapshot(h, o, 0)]
    <3>1. orders[handler.key] \in RemoteOrder
      BY <1>1, <2>2
    <3> QED  BY <1>12, <3>1 DEF CancelLocal, RemoteOrder
  <2>4. handler'.pc = "reply" /\ handler'.event.key = h /\ handler'.event.status = "CANCELED"
    BY <2>3 DEF Snapshot
  <2>5. k # h => orders[k] = orders'[k]
    BY <1>1, <2>3
  <2> QED  BY <1>2, <1>3, <2>1, <2>4, <2>5 DEF Terminal
<1>13. CASE HandlerEmits
  <2>1. UNCHANGED <<controllers, orders, stream>> /\ handler.pc = "reply" /\ HandleUpdate(handler.event)
    BY <1>13 DEF HandlerEmits, loopVars
  <2>2. PICK e \in Event : e = handler.event
    BY <2>1 DEF Inductive, Remote, GoodEvent
  <2>3. /\ k \notin missed
        /\ EndIn(events, k) => EndIn(events', k)
        /\ e.key = k /\ e.status \in Terminal => EndIn(events', k)
    BY <2>1, <2>2, UpdateEnds DEF Inductive
  <2> QED  BY <1>2, <1>3, <2>1, <2>2, <2>3
<1>14. CASE StreamEmits
  <2>1. UNCHANGED <<controllers, orders, handler>> /\ stream # None /\ HandleUpdate(stream)
    BY <1>14 DEF StreamEmits, loopVars
  <2>2. PICK e \in Event : e = stream
    BY <2>1 DEF Inductive, Remote, GoodEvent
  <2>3. /\ k \notin missed
        /\ EndIn(events, k) => EndIn(events', k)
        /\ e.key = k /\ e.status \in Terminal => EndIn(events', k)
    BY <2>1, <2>2, UpdateEnds DEF Inductive
  <2> QED  BY <1>2, <1>3, <2>1, <2>2, <2>3
<1>15. ASSUME NEW h \in Keys, StreamFill(h) \/ StreamCancel(h) PROVE EndUnderWay(k)'
  <2>1. UNCHANGED <<controllers, events, handler, missed>> /\ stream = None
    BY <1>15 DEF StreamFill, StreamCancel, loopVars
  <2>2. PICK o \in RemoteOrder, delta \in {0, 1} :
           orders' = [orders EXCEPT ![h] = o] /\ stream' = Snapshot(h, o, delta)
    BY <1>15, FilledOrder, CanceledOrder
  <2>3. stream'.key = h /\ stream'.status = o.status
    BY <2>2 DEF Snapshot
  <2>4. stream' # None
    <3>1. o.filled \in Nat
      BY DEF RemoteOrder
    <3>2. stream' \in Event
      BY <2>2, <3>1, SnapshotIsGood DEF GoodEvent
    <3> QED  BY <3>2, NoneIsNoEvent
  <2>5. CASE k = h
    BY <1>1, <1>2, <2>2, <2>3, <2>4, <2>5
  <2>6. CASE k # h
    <3>1. orders[k] = orders'[k]
      BY <1>1, <2>2, <2>6
    <3> QED  BY <1>2, <1>3, <2>1, <3>1
  <2> QED  BY <2>5, <2>6
<1>16. ASSUME NEW h \in Keys, StreamReject(h) PROVE EndUnderWay(k)'
  <2>1. /\ UNCHANGED <<controllers, events, handler, stream>> /\ missed' = missed \cup {h}
        /\ \E o : orders' = [orders EXCEPT ![h] = o]
    BY <1>16 DEF StreamReject, loopVars
  <2>2. orders[k] = orders'[k]
    BY <1>1, <2>1
  <2> QED  BY <1>2, <1>3, <2>1, <2>2
<1>17. CASE Tick
  BY <1>4, <1>17 DEF Tick, remoteVars, loopVars
<1>18. CASE UNCHANGED vars
  BY <1>4, <1>18 DEF vars, remoteVars, loopVars
<1> QED
  BY <1>5, <1>6, <1>7, <1>8, <1>9, <1>10, <1>11, <1>12, <1>13, <1>14, <1>15, <1>16, <1>17, <1>18
  DEF Next, Loop, ControlPlane

\* The end of an order reaches its controller, but for a lost update, a submission
\* that failed or was rejected, and a key that was used twice.
THEOREM EndsAlwaysReachTheController == Spec => []EndsReachTheController
<1>1. Init => EndsKept
  BY DEF Init, EndsKept, Active
<1>2. EndsKept => EndsReachTheController
  BY DEF EndsKept, EndsReachTheController, Live
<1>3. Spec => []EndsKept
  <2>1. Inductive /\ [Next]_vars => Inductive'
    BY NextKeepsInductive
  <2> QED  BY <1>1, <2>1, EndsStep, InductiveInvariant, PTL DEF Spec
<1> QED  BY <1>2, <1>3, PTL
=============================================================================
