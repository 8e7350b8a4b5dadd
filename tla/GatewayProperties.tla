-------------------------- MODULE GatewayProperties --------------------------
(***************************************************************************)
(* The properties of the execution gateway.  The first part holds; the     *)
(* second says what the repository's README promises and the code does not *)
(* keep.                                                                   *)
(***************************************************************************)
EXTENDS Gateway, Sums

CONSTANT MaxQty   \* the largest size of a request

ASSUME MaxQtyAssumption == MaxQty \in Nat /\ \A r \in Requests : r.size <= MaxQty

Placed == {o \in Orders : book[o].state # "none"}

-----------------------------------------------------------------------------
(* Safety *)

\* However Submit calls with the same idempotency key interleave, fail and are
\* retried, the exchange receives at most one order for that key
\* (Store.ReserveOrder before Gateway.Submit sends anything).
OneRemoteOrderPerKey ==
  \A o, p \in Placed : book[o].key = book[p].key => o = p

\* A report still waiting in the channel will be booked on the order it is
\* about: the client order id it carries belongs to the order whose exchange id
\* it carries (Gateway.applyStep resolves by key first).
ReportsFindTheirOrder ==
  /\ \A i \in 1 .. Len(channel) :
       /\ idempotency[channel[i].key] # None
       /\ ExOf[idempotency[channel[i].key]] = channel[i].ex
  /\ consumer # ConsumerIdle /\ consumer.pc = "apply"
       => ExOf[consumer.order] = consumer.msg.ex

\* Store.orders and Store.exchangeIDs agree in both directions on exchange ids,
\* although two goroutines bind them and a failing Submit writes back a copy
\* made before the binding.
BindingConsistent ==
  /\ \A o \in Known : orders[o].ex # None => exchangeIDs[orders[o].ex] = o
  /\ \A x \in ExIDs : exchangeIDs[x] # None =>
       /\ exchangeIDs[x] \in Known
       /\ ExOf[exchangeIDs[x]] = x

\* The filled quantity of an order is what the ledger holds for it, except for
\* an order whose Submit failed: the copy written back then forgets the fills
\* that arrived while SendOrder was waiting.
FilledTracksLedger ==
  \A o \in Known :
    /\ orders[o].filled <= ledgerQty[ExOf[o]]
    /\ pc[o] # "failed" => orders[o].filled = ledgerQty[ExOf[o]]

\* FILLED is only reported of an order the exchange executed to its full size,
\* and no order is filled beyond what was requested.
FilledMeansExecuted ==
  \A o \in Known :
    /\ orders[o].filled <= orders[o].size
    /\ orders[o].status = "FILLED" =>
         orders[o].filled = orders[o].size /\ book[o].executed = orders[o].size

\* What the goroutines have in hand of an order: queued in the channel, taken
\* by the consumer, or returned by SendOrder and not yet applied.
Quantity(s, x) ==
  Total([i \in 1 .. Len(s) |-> IF s[i].ex = x THEN s[i].qty ELSE 0])

InHand(o) ==
  Quantity(channel, ExOf[o]) + Quantity(steps[o], ExOf[o])
    + (IF consumer.pc = "apply" /\ consumer.msg.ex = ExOf[o] THEN consumer.msg.qty ELSE 0)

\* Nothing the exchange executes is counted twice or vanishes inside the
\* process: it is in the ledger, on its way to it, or was lost in the stream
\* (disconnected, or the channel full).
FillConservation ==
  \A o \in Orders :
    book[o].executed = ledgerQty[ExOf[o]] + InHand(o) + book[o].lost

\* A position is what the ledger bought less what it sold over the orders of its
\* symbol, also for orders that were canceled, rejected or forgot their fills.
Booked(symbol, side) ==
  TotalOver(Orders, [o \in Orders |->
    IF o \in Known /\ orders[o].symbol = symbol /\ orders[o].side = side
    THEN ledgerQty[ExOf[o]] ELSE 0])

PositionIsSignedLedger ==
  \A s \in Symbols : positions[s] = Booked(s, "BUY") - Booked(s, "SELL")

\* A key or an exchange id that was given an order keeps it: no later Submit,
\* report or stale copy re-points it.
IdsNeverRebound ==
  [][/\ \A k \in Keys : idempotency[k] # None => idempotency'[k] = idempotency[k]
     /\ \A x \in ExIDs : exchangeIDs[x] # None => exchangeIDs'[x] = exchangeIDs[x]]_vars

\* When Submit on the paper exchange returns, its order is filled to the full
\* size and in the ledger, whatever cancels and replaces ran meanwhile.
PaperOrdersSettle ==
  \A h \in Orders : pc[h] = "done" =>
    /\ orders[h].filled = orders[h].size
    /\ ledgerQty[ExOf[h]] = orders[h].size

\* Gateway, the store and the client together implement OrderService.
Service == INSTANCE OrderService WITH
  owner    <- idempotency,
  placed   <- Placed,
  executed <- [o \in Orders |-> book[o].executed],
  applied  <- [o \in Orders |-> ledgerQty[ExOf[o]]]

ImplementsOrderService == Service!Spec

-----------------------------------------------------------------------------
(* The invariant from which the safety properties are proved (GatewayProofs) *)

\* Calls that have stored their order, and those that have sent it.
Stored == {"mark", "send", "step", "apply", "failed", "done"}
Sent   == Stored \ {"mark"}

\* Which fields of a Submit call are meaningful at which point of it, and that
\* the consumer only hears of orders that were sent.
Control ==
  /\ consumer # ConsumerIdle => consumer.order \in Placed
  /\ \A i \in 1 .. Len(channel) : idempotency[channel[i].key] \in Placed
  /\ \A h \in Orders :
    /\ h \in Known <=> pc[h] \in Stored
    /\ h \in Placed <=> pc[h] \in Sent
    /\ pc[h] \notin {"idle", "rejected"} => req[h] \in Request
    /\ pc[h] = "send" => /\ reserved[h] \in Order
                         /\ reserved[h].key = orders[h].key
                         /\ reserved[h].ex = None
                         /\ reserved[h].filled = 0
    /\ pc[h] \in {"step", "apply"} => steps[h] # <<>>

\* The idempotency index and the orders name each other, and an order keeps its
\* key on the wire.
Ownership ==
  /\ \A k \in Keys : idempotency[k] # None =>
       idempotency[k] \in Known /\ orders[idempotency[k]].key = k
  /\ \A o \in Known : idempotency[orders[o].key] = o
  /\ \A o \in Placed : book[o].key = orders[o].key

\* Whatever holds an exchange id of an order holds the one the exchange gave it.
Bindings ==
  /\ BindingConsistent
  /\ \A o \in Known : /\ orders[o].ex \in {None, ExOf[o]}
                      /\ o \notin Placed => orders[o].ex = None
  /\ \A h \in Orders : \A i \in 1 .. Len(steps[h]) : steps[h][i].ex \in {None, ExOf[h]}
  /\ consumer.pc = "reject" =>
       /\ consumer.copy.ex \in {None, ExOf[consumer.order]}
       /\ consumer.copy.key = orders[consumer.order].key

\* Fills come from one side only: from the steps that SendOrder returned, or
\* from the consumer.  A copy the consumer is about to write back is as good as
\* the order it was read from.
Fills ==
  /\ ~Async => /\ channel = <<>> /\ consumer = ConsumerIdle
               /\ \A c \in Calls : call[c].pc \notin {"cancelRemote", "replaceRemote"}
  /\ \A h \in Orders : \A i \in 1 .. Len(steps[h]) :
       steps[h][i].qty > 0 => ~Async /\ steps[h][i].ex = ExOf[h]
  /\ \A h \in Orders : h \notin Placed => ledgerQty[ExOf[h]] = 0
  /\ consumer.pc = "reject" =>
       LET o == consumer.order
       IN /\ consumer.copy.filled <= ledgerQty[ExOf[o]]
          /\ pc[o] # "failed" => consumer.copy.filled = ledgerQty[ExOf[o]]

Inductive ==
  TypeOK /\ Control /\ Ownership /\ ReportsFindTheirOrder /\ Bindings /\ Fills
    /\ FilledTracksLedger

\* What the safety properties about quantities need on top of it.

\* An order keeps its symbol, side and size, in every copy of it and on the wire.
SameOrder(r, o) ==
  r.symbol = orders[o].symbol /\ r.side = orders[o].side /\ r.size = orders[o].size

Sizes ==
  /\ \A h \in Orders : pc[h] \notin {"idle", "rejected"} => req[h].size <= MaxQty
  /\ \A o \in Known : orders[o].size <= MaxQty
  /\ \A o \in Placed : book[o].size = orders[o].size /\ book[o].executed <= book[o].size
  /\ \A h \in Orders : pc[h] = "send" => SameOrder(reserved[h], h)
  /\ consumer.pc = "reject" =>
       consumer.copy.status = "REJECTED" /\ SameOrder(consumer.copy, consumer.order)

\* Only a report or a step of an execution carries a quantity, and the steps of
\* the paper exchange are all of what it executed.
Executions ==
  /\ \A i \in 1 .. Len(channel) : channel[i].status \in {"PARTIAL", "FILLED"} \/ channel[i].qty = 0
  /\ consumer.pc = "apply" =>
       consumer.msg.status \in {"PARTIAL", "FILLED"} \/ consumer.msg.qty = 0
  /\ \A h \in Orders : \A i \in 1 .. Len(steps[h]) :
       steps[h][i].status \in {"PARTIAL", "FILLED"} \/ steps[h][i].qty = 0
  /\ \A h \in Orders : pc[h] \notin {"step", "apply"} => steps[h] = <<>>
  /\ ~Async => \A h \in Orders :
       /\ book[h].lost = 0
       /\ book[h].executed = IF pc[h] \in {"step", "apply", "done"} THEN orders[h].size ELSE 0

\* An order is called FILLED when its filled quantity reached its size.
FilledIsEnough ==
  \A o \in Known : orders[o].status = "FILLED" => orders[o].filled >= orders[o].size

Accounted ==
  Inductive /\ Sizes /\ Executions /\ FilledIsEnough /\ FillConservation /\ PositionIsSignedLedger

-----------------------------------------------------------------------------
(* Liveness, under FairSpec *)

\* What the exchange executed reaches the ledger, unless the stream lost it.
FillsReachLedger ==
  \A o \in Orders : \A n \in 1 .. MaxQty :
    book[o].executed >= n ~> ledgerQty[ExOf[o]] + book[o].lost >= n

-----------------------------------------------------------------------------
(* Promises of the README that the code does not keep *)

\* "Authoritative order lifecycle state machine:
\* NEW -> SENT -> ACK -> PARTIAL -> FILLED/CANCELED": among these statuses an
\* order only moves forward (they may be skipped, and PARTIAL may repeat).
Lifecycle == <<"NEW", "SENT", "ACK", "PARTIAL", "FILLED", "CANCELED">>
Rank(status) == CHOOSE i \in 1 .. 6 : Lifecycle[i] = status
Listed(status) == \E i \in 1 .. 6 : Lifecycle[i] = status

LifecycleMovesForward ==
  [][\A o \in Orders :
       LET before == orders[o].status
           after  == orders'[o].status
       IN Listed(before) /\ Listed(after) /\ before # after => Rank(before) < Rank(after)]_vars

\* "Reconciliation check: sum(exchange fills) == sum(accounting ledger)":
\* Store.Reconciliation answers `matched' only when they agree, at least once
\* nothing is on its way any more.
MatchedMeansReconciled ==
  Quiescent /\ Matched => \A o \in Orders : book[o].executed = ledgerQty[ExOf[o]]

\* "Self-trade prevention by symbol": the exchange never holds open orders of
\* both sides of a symbol at once.
NoSelfTrade ==
  \A o, p \in Known :
    book[o].state = "open" /\ book[p].state = "open" /\ orders[o].symbol = orders[p].symbol
      => orders[o].side = orders[p].side
=============================================================================
