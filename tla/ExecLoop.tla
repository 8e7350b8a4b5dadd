------------------------------ MODULE ExecLoop ------------------------------
(***************************************************************************)
(* The execution side of RTTS as it runs: the select loop that owns the    *)
(* controllers (execution_controller.rs, run), the task that posts their   *)
(* instructions one at a time (execution_smart.rs), the feed that brings   *)
(* the control-plane's updates back (execution_external.rs), and, as seen  *)
(* from here, the control-plane's orders.                                  *)
(*                                                                         *)
(* The three tasks share two bounded channels that drop when full.  The    *)
(* control-plane changes an order under a lock and emits its snapshot      *)
(* later, the handler of a POST and the exchange's stream each on its own  *)
(* goroutine, so that snapshots of one order may overtake each other.      *)
(* Left out: metrics, and the feedback offered to the adaptive engine.     *)
(***************************************************************************)
EXTENDS ExecController, Sequences, FiniteSets

CONSTANTS
  Intents,      \* what the meta engine may hand over
  Earlier,      \* keys of orders a previous run of RTTS left on the control-plane
  ActionCap,    \* capacity of the instruction channel
  EventCap,     \* capacity of the event channel
  Lossy,        \* whether the WebSocket feed may lose an update
  MaxIntents,   \* bound on the intents that arrive
  MaxTime       \* bound on the clock

ASSUME LoopAssumption ==
  /\ IsFiniteSet(Keys)
  /\ Intents \subseteq Intent
  /\ Earlier \subseteq Keys
  /\ ActionCap \in Nat \ {0}
  /\ EventCap \in Nat \ {0}
  /\ Lossy \in BOOLEAN
  /\ MaxIntents \in Nat
  /\ MaxTime \in Nat \ {0}

VARIABLES
  controllers,  \* active controllers, by idempotency key
  lookup,       \* order_lookup: keys and order ids to keys
  actions,      \* instructions on their way to the executor
  events,       \* execution events on their way to the loop
  orders,       \* the control-plane's order of each key
  handler,      \* the POST the executor is waiting for
  stream,       \* a snapshot the exchange stream has still to emit
  missed,       \* keys whose controller cannot learn how the order ended
  now,          \* clock
  arrivals      \* intents that arrived

loopVars == <<controllers, lookup>>
remoteVars == <<orders, handler, stream>>
clockVars == <<now, arrivals>>
vars == <<loopVars, actions, events, remoteVars, missed, clockVars>>

\* `executed' is what the exchange executed, `filled' what the order records.
RemoteOrder == [status : Statuses, size : Nat, filled : Nat, executed : Nat, stamp : Nat]

Event == [key : Keys, id : Ids, status : Statuses, delta : Nat, cum : Nat,
          remaining : Nat, stamp : Nat]

\* None, the absence of an order or of an event, is neither.
ASSUME NoneIsNoOrder == None \notin RemoteOrder
ASSUME NoneIsNoEvent == None \notin Event

Idle == [pc |-> "idle"]
Handler == {Idle} \cup [pc : {"send", "cancel"}, key : Keys] \cup [pc : {"reply"}, event : Event]

LoopTypeOK ==
  /\ controllers \in [Keys -> Controller \cup {None}]
  /\ lookup \in [Keys \cup Ids -> Keys \cup {None}]
  /\ actions \in Seq(Instruction) /\ Len(actions) <= ActionCap
  /\ events \in Seq(Event) /\ Len(events) <= EventCap
  /\ orders \in [Keys -> RemoteOrder \cup {None}]
  /\ handler \in Handler
  /\ stream \in Event \cup {None}
  /\ missed \subseteq Keys
  /\ now \in Nat
  /\ arrivals \in Nat

Init ==
  /\ controllers = [k \in Keys |-> None]
  /\ lookup = [x \in Keys \cup Ids |-> None]
  /\ actions = <<>>
  /\ events = <<>>
  /\ orders = [k \in Keys |-> IF k \in Earlier
                 THEN [status |-> "ACK", size |-> 1, filled |-> 0, executed |-> 0, stamp |-> 0]
                 ELSE None]
  /\ handler = Idle
  /\ stream = None
  /\ missed = {}
  /\ now = 1
  /\ arrivals = 0

Active(k) == controllers[k] # None
Live == {k \in Keys : Active(k) /\ controllers[k].status \notin Terminal}

\* A variant over an unbounded channel.
OfferAlways(queue, cap, items) == queue \o items

\* try_send: what does not fit is dropped.
Offer(queue, cap, items) ==
  queue \o SubSeq(items, 1, Lesser(Len(items), Greater(cap - Len(queue), 0)))

InstructionsFor(k, c, a) == IF a = "Hold" THEN <<>> ELSE <<InstructionFor(k, c, a)>>

-----------------------------------------------------------------------------
(* The select loop *)

\* An intent gets a controller whether or not its Submit fits the channel.  The
\* same symbol, millisecond and side give the same key, and a fresh controller.
Arrive(i) ==
  /\ arrivals < MaxIntents
  /\ arrivals' = arrivals + 1
  /\ actions' = Offer(actions, ActionCap, <<SubmitOf(i)>>)
  /\ controllers' = [controllers EXCEPT ![i.key] = NewController(i, now)]
  /\ lookup' = [lookup EXCEPT ![i.key] = i.key]
  /\ missed' = IF lookup[i.key] # None \/ orders[i.key] # None THEN missed \cup {i.key} ELSE missed
  /\ UNCHANGED <<events, remoteVars, now>>

\* Variants: without the fallback to the key, and with one to any active order.
ResolveByOrderID(e) == lookup[e.id]
ResolveToAnyActive(e) ==
  IF lookup[e.id] = None /\ lookup[e.key] = None /\ \E k \in Keys : Active(k)
  THEN CHOOSE k \in Keys : Active(k)
  ELSE IF lookup[e.id] # None THEN lookup[e.id] ELSE lookup[e.key]

\* An event is known by its order id or, the first one, by its key.
Resolve(e) == IF lookup[e.id] # None THEN lookup[e.id] ELSE lookup[e.key]

\* An event of an order this process does not know, or has retired.
IgnoreEvent ==
  /\ events # <<>>
  /\ LET k == Resolve(Head(events)) IN k # None => ~Active(k)
  /\ events' = Tail(events)
  /\ UNCHANGED <<loopVars, actions, remoteVars, missed, clockVars>>

\* Competition an event may leave behind: only executions carry a flag.
Flagged(c, e) == IF e.delta > 0 THEN {c.competition, "Competitive", "Saturated"} ELSE {c.competition}

\* A terminal event retires the controller; any other one may trigger an action,
\* decided at the event's own time.
HandleEvent ==
  /\ events # <<>>
  /\ LET e == Head(events)
         k == Resolve(e)
     IN /\ k # None /\ Active(k)
        /\ lookup' = [lookup EXCEPT ![e.id] = k, ![e.key] = k]
        /\ \E comp \in Flagged(controllers[k], e) :
             LET c == OnExecutionEvent(controllers[k], e, comp) IN
               IF c.status \in Terminal
               THEN /\ controllers' = [controllers EXCEPT ![k] = None]
                    /\ UNCHANGED actions
               ELSE \E a \in Choices(c, e.stamp) :
                      /\ controllers' = [controllers EXCEPT ![k] = ApplyAction(c, a, e.stamp)]
                      /\ actions' = Offer(actions, ActionCap, InstructionsFor(k, c, a))
  /\ events' = Tail(events)
  /\ UNCHANGED <<remoteVars, missed, clockVars>>

\* A market update goes to every controller that is not terminal, in the order
\* of the hash map.
MarketUpdate ==
  /\ \E comp \in [Live -> Competition] :
       LET seen == [k \in Live |-> OnMarketUpdate(controllers[k], comp[k])] IN
       \E act \in [Live -> UNION {Choices(seen[k], now) : k \in Live}] :
         LET acting == {k \in Live : act[k] # "Hold"} IN
         /\ \A k \in Live : act[k] \in Choices(seen[k], now)
         /\ controllers' = [k \in Keys |-> IF k \in Live THEN ApplyAction(seen[k], act[k], now)
                                           ELSE controllers[k]]
         /\ \E turn \in [1 .. Cardinality(acting) -> acting] :
              /\ \A k \in acting : \E n \in DOMAIN turn : turn[n] = k
              /\ actions' = Offer(actions, ActionCap,
                              [n \in DOMAIN turn |-> InstructionFor(turn[n], seen[turn[n]], act[turn[n]])])
  /\ UNCHANGED <<lookup, events, remoteVars, missed, clockVars>>

-----------------------------------------------------------------------------
(* The executor and the handlers of the control-plane it calls *)

KnownTo(i) == i.id = IdOf[i.key] /\ orders[i.key] # None
Ends(i) == i.kind = "Cancel" \/ (i.kind = "Switch" /\ i.mode # "Passive")

Snapshot(k, o, delta) ==
  [key |-> k, id |-> IdOf[k], status |-> o.status, delta |-> delta, cum |-> o.filled,
   remaining |-> Greater(o.size - o.filled, 0), stamp |-> o.stamp]

\* What a POST may start.  A submission may be dropped by the executor or denied
\* by the control-plane; a cancel may fail on the exchange; an exit is denied,
\* its decision not being Execute; a switch without a price cancels, or does
\* nothing when it is to Passive.
Started(i) ==
  CASE i.kind = "Submit" /\ orders[i.key] = None -> {Idle, [pc |-> "send", key |-> i.key]}
    [] Ends(i) /\ KnownTo(i) /\ orders[i.key].status \notin Terminal ->
         {Idle, [pc |-> "cancel", key |-> i.key]}
    [] i.kind = "Reprice" /\ KnownTo(i) ->
         {Idle, [pc |-> "reply", event |-> Snapshot(i.key, orders[i.key], 0)]}
    [] OTHER -> {Idle}

Post ==
  /\ handler = Idle
  /\ actions # <<>>
  /\ LET i == Head(actions) IN
       /\ handler' \in Started(i)
       /\ orders' = IF handler'.pc = "send"
                    THEN [orders EXCEPT ![i.key] = [status |-> "SENT", size |-> i.size,
                                                    filled |-> 0, executed |-> 0, stamp |-> 0]]
                    ELSE orders
  /\ actions' = Tail(actions)
  /\ UNCHANGED <<loopVars, events, stream, missed, clockVars>>

\* SendOrder succeeds: the acknowledgement is stored, whatever came before it.
SendAck ==
  /\ handler.pc = "send"
  /\ LET k == handler.key
         o == [orders[k] EXCEPT !.status = "ACK", !.stamp = Greater(@, now)]
     IN /\ orders' = [orders EXCEPT ![k] = o]
        /\ handler' = [pc |-> "reply", event |-> Snapshot(k, o, 0)]
  /\ UNCHANGED <<loopVars, actions, events, stream, missed, clockVars>>

\* SendOrder fails: the copy made before it is written back, rejected; the
\* update is of a kind the feed ignores.
SendFail ==
  /\ handler.pc = "send"
  /\ orders' = [orders EXCEPT ![handler.key] =
                  [@ EXCEPT !.status = "REJECTED", !.filled = 0, !.stamp = 0]]
  /\ missed' = missed \cup {handler.key}
  /\ handler' = Idle
  /\ UNCHANGED <<loopVars, actions, events, stream, clockVars>>

CancelLocal ==
  /\ handler.pc = "cancel"
  /\ LET k == handler.key
         o == [orders[k] EXCEPT !.status = "CANCELED"]
     IN /\ orders' = [orders EXCEPT ![k] = o]
        /\ handler' = [pc |-> "reply", event |-> Snapshot(k, o, 0)]
  /\ UNCHANGED <<loopVars, actions, events, stream, missed, clockVars>>

-----------------------------------------------------------------------------
(* The exchange's reports, and the feed *)

\* The exchange executes one lot of an order it has, even one that was canceled
\* or whose submission timed out.
StreamFill(k) ==
  /\ stream = None /\ orders[k] # None
  /\ orders[k].executed < orders[k].size
  /\ LET filled == orders[k].filled + 1
         o == [orders[k] EXCEPT !.filled = filled, !.executed = @ + 1, !.stamp = now,
                 !.status = IF filled >= orders[k].size THEN "FILLED" ELSE "PARTIAL"]
     IN orders' = [orders EXCEPT ![k] = o] /\ stream' = Snapshot(k, o, 1)
  /\ UNCHANGED <<loopVars, actions, events, handler, missed, clockVars>>

\* The exchange ends an order it has not executed in full; CancelOrder sets the
\* status whatever it was, also of an order the control-plane has ended itself.
StreamCancel(k) ==
  /\ stream = None /\ orders[k] # None
  /\ orders[k].executed < orders[k].size
  /\ LET o == [orders[k] EXCEPT !.status = "CANCELED"]
     IN orders' = [orders EXCEPT ![k] = o] /\ stream' = Snapshot(k, o, 0)
  /\ UNCHANGED <<loopVars, actions, events, handler, missed, clockVars>>

\* The exchange rejects an order it has executed nothing of, whatever its status
\* has become; the update is of a kind the feed ignores.
StreamReject(k) ==
  /\ stream = None /\ orders[k] # None
  /\ orders[k].executed = 0
  /\ orders' = [orders EXCEPT ![k] = [@ EXCEPT !.status = "REJECTED"]]
  /\ missed' = missed \cup {k}
  /\ UNCHANGED <<loopVars, actions, events, handler, stream, clockVars>>

\* A variant that looks for the ledger entry before it forwards the event.
HandleUpdateWithLedger(e) ==
  IF e.delta > 0 /\ Len(events) < EventCap
  THEN events' = Append(events, e) /\ UNCHANGED missed
  ELSE UNCHANGED <<events, missed>>

\* An update reaches the event channel unless that is full or the feed is down.
HandleUpdate(e) ==
  \/ /\ Len(events) < EventCap
     /\ events' = Append(events, e)
     /\ UNCHANGED missed
  \/ /\ Lossy \/ Len(events) = EventCap
     /\ missed' = IF e.status \in Terminal THEN missed \cup {e.key} ELSE missed
     /\ UNCHANGED events

HandlerEmits ==
  /\ handler.pc = "reply"
  /\ HandleUpdate(handler.event)
  /\ handler' = Idle
  /\ UNCHANGED <<loopVars, actions, orders, stream, clockVars>>

StreamEmits ==
  /\ stream # None
  /\ HandleUpdate(stream)
  /\ stream' = None
  /\ UNCHANGED <<loopVars, actions, orders, handler, clockVars>>

Tick ==
  /\ now < MaxTime
  /\ now' = now + 1
  /\ UNCHANGED <<loopVars, actions, events, remoteVars, missed, arrivals>>

Loop == (\E i \in Intents : Arrive(i)) \/ IgnoreEvent \/ HandleEvent \/ MarketUpdate
ControlPlane ==
  SendAck \/ SendFail \/ CancelLocal \/ HandlerEmits \/ StreamEmits
    \/ \E k \in Keys : StreamFill(k) \/ StreamCancel(k) \/ StreamReject(k)

Next == Loop \/ Post \/ ControlPlane \/ Tick

Spec == Init /\ [][Next]_vars

\* The loop keeps taking events: its three channels are polled in random order.
FairSpec == Spec /\ WF_vars(IgnoreEvent \/ HandleEvent)
=============================================================================
