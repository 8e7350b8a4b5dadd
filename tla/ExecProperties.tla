--------------------------- MODULE ExecProperties ---------------------------
(* Properties of ExecLoop. *)
EXTENDS ExecLoop

\* Every variable keeps its type.
TypeOK == LoopTypeOK

\* The acknowledgements, fills and repeated evaluations of one order may come in
\* any order and at any time stamp, yet the cancels, exits, aborts and replaces
\* decided on it (apply_action) stay a cooldown apart, so that their number is
\* bounded by time.  The per-order limits do not bound exits and aborts.
ActionsAreSpaced ==
  \A k \in Keys : Active(k) =>
    (controllers[k].cancels + controllers[k].replaces) * Cooldown <= controllers[k].acted

\* An order is called by its idempotency key until its first event and by the
\* control-plane's id after it (on_execution_event).  Under both names, and with
\* events of orders an earlier process left behind, order_lookup never mixes two
\* orders up, and no instruction names an order other than its controller's.
AttributionHolds ==
  /\ \A x \in Keys \cup Ids : lookup[x] # None => x \in {lookup[x], IdOf[lookup[x]]}
  /\ \A k \in Keys : Active(k) => controllers[k].id \in {k, IdOf[k]} /\ lookup[k] = k
  /\ \A n \in DOMAIN actions : actions[n].id \in {actions[n].key, IdOf[actions[n].key]}

Executed(k) == IF orders[k] = None THEN 0 ELSE orders[k].executed

\* Snapshots that overtake each other, are lost or repeat a quantity never make a
\* controller believe in more than the exchange executed, and no ExitPosition
\* asks for more (on_execution_event, evaluate_and_convert).
ExitsStayWithinFills ==
  /\ \A k \in Keys : Active(k) => controllers[k].filled <= Executed(k)
  /\ \A n \in DOMAIN actions :
       actions[n].kind = "Exit" => actions[n].size <= Executed(actions[n].key)

\* Since every market update replaces the queue state by the queue engine's,
\* whose quotes stay zero, compute_improved_price never finds a better price: no
\* order is ever replaced, stepped ahead or crossed, and no switch has a price.
NeverReprices ==
  /\ \A k \in Keys : Active(k) => controllers[k].replaces = 0
  /\ \A n \in DOMAIN actions : actions[n].kind # "Reprice"

EndUnderWay(k) ==
  \/ \E n \in DOMAIN events : events[n].key = k /\ events[n].status \in Terminal
  \/ stream # None /\ stream.key = k /\ stream.status \in Terminal
  \/ handler.pc = "reply" /\ handler.event.key = k /\ handler.event.status \in Terminal

\* When the control-plane has ended an order, its controller is gone, has aborted
\* it, or will hear of it, except after a lost update, a failed or rejected
\* submission (whose update the feed ignores) or a second intent of the same key.
EndsReachTheController ==
  \A k \in Live \ missed :
    orders[k] # None /\ orders[k].status \in Terminal => EndUnderWay(k)

\* A terminal event that reached the channel retires its controller, although the
\* event may be the first to carry the order's id (resolve_controller_key).
TerminalEventsRetire ==
  \A k \in Keys :
    (\E n \in DOMAIN events : events[n].key = k /\ events[n].status \in Terminal)
      ~> (controllers[k] = None)

\* A passive order in a contested queue, within its half-life, past 55% of its
\* expected fill time, below its limits and not filled.
Contested(c, d, t) ==
  /\ c.status \notin Terminal /\ CooldownElapsed(c, t)
  /\ d.competition = "Competitive" /\ c.approved /\ Elapsed(c, t) <= c.halfLife
  /\ c.mode = "Passive" /\ c.replaces < MaxReplace /\ c.filled = 0
  /\ 100 * Elapsed(c, t) > 55 * c.fillTime

\* execution_controller.rs:1124, replace_triggers_when_queue_worsens: such an
\* order is stepped ahead or replaced, or its strategy is switched (1139).
WorseQueueIsReplaced ==
  [][MarketUpdate => \A k \in Live :
       Contested(controllers[k], controllers'[k], now) =>
         \/ controllers'[k].replaces = controllers[k].replaces + 1
         \/ controllers'[k].mode # controllers[k].mode]_vars
=============================================================================
