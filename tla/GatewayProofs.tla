---------------------------- MODULE GatewayProofs ----------------------------
(***************************************************************************)
(* That the safety properties of GatewayProperties hold for any number of  *)
(* orders, keys, calls and any channel capacity.  `Inductive' is shown to  *)
(* be preserved conjunct by conjunct; the effects of the store's methods   *)
(* (OrderStoreProofs), of the exchange and of applyStep are stated first.  *)
(***************************************************************************)
EXTENDS GatewayProperties, OrderStoreProofs, SequenceTheorems

-----------------------------------------------------------------------------
(* The exchange *)

\* A step of the exchange places nothing, keeps every key, and delivers at most
\* one report, about an order that was placed.
ExchangeStep ==
  /\ ExchangeTypeOK'
  /\ Placed' = Placed
  /\ \A o \in Placed : book'[o].key = book[o].key
  /\ \/ channel' = channel
     \/ \E o \in Placed : \E r \in Report :
          /\ r.key = book[o].key /\ r.ex = ExOf[o]
          /\ channel' = Append(channel, r)

\* A placed order has a full record on the exchange.
LEMMA PlacedOrders ==
  ASSUME ExchangeTypeOK, NEW o \in Orders
  PROVE  o \in Placed => book[o] \in Remote
BY DEF ExchangeTypeOK, Placed, NoRemote

\* What Deliver does to the channel when the report is about a placed order.
LEMMA DeliverEffect ==
  ASSUME ExchangeTypeOK, NEW o \in Placed, NEW status \in Open \cup Terminal,
         NEW qty \in Nat, Deliver(ReportOf(o, status, qty))
  PROVE  /\ channel' \in Seq(Report)
         /\ \/ channel' = channel
            \/ \E r \in Report : /\ r.key = book[o].key /\ r.ex = ExOf[o]
                                 /\ channel' = Append(channel, r)
<1> DEFINE r == ReportOf(o, status, qty)
<1>1. book[o].key \in Keys /\ ExOf[o] \in ExIDs
  BY PlacedOrders, ExchangeAssumption DEF Placed, Remote
<1>2. r \in Report /\ r.key = book[o].key /\ r.ex = ExOf[o]
  BY <1>1 DEF ReportOf, Report
<1>3. channel' = channel \/ channel' = Append(channel, r)
  BY DEF Deliver
<1>4. channel \in Seq(Report)
  BY DEF ExchangeTypeOK
<1> QED BY <1>2, <1>3, <1>4

\* A change of fields other than the key of one order on the exchange.
LEMMA BookEffect ==
  ASSUME ExchangeTypeOK, NEW o \in Placed, NEW rec \in Remote,
         rec.key = book[o].key, book' = [book EXCEPT ![o] = rec]
  PROVE  /\ book' \in [Orders -> Remote \cup {NoRemote}]
         /\ Placed' = Placed
         /\ \A p \in Placed : book'[p].key = book[p].key
BY DEF ExchangeTypeOK, Placed, Remote, RemoteStates, NoRemote

\* The exchange accepts an order and reports it.
LEMMA AcceptEffect == ASSUME ExchangeTypeOK, NEW o \in Orders, Accept(o) PROVE ExchangeStep
<1>1. o \in Placed /\ book[o] \in Remote
  BY PlacedOrders DEF Accept, Placed
<1>2. [book[o] EXCEPT !.state = "open"] \in Remote
  BY <1>1 DEF Remote, RemoteStates
<1>3. book' = [book EXCEPT ![o] = [book[o] EXCEPT !.state = "open"]]
  BY DEF Accept
<1>4. [book[o] EXCEPT !.state = "open"].key = book[o].key
  BY <1>1 DEF Remote
<1>5. Deliver(ReportOf(o, "SENT", 0)) /\ "SENT" \in Open /\ 0 \in Nat
  BY DEF Accept, Open
<1>6. stream' \in {"up", "down"}
  BY DEF Accept, ExchangeTypeOK
<1> QED BY <1>1, <1>2, <1>3, <1>4, <1>5, <1>6, BookEffect, DeliverEffect
        DEF ExchangeStep, ExchangeTypeOK

\* A placed order whose state changes to another one, without a report.
LEMMA RefuseEffect == ASSUME ExchangeTypeOK, NEW o \in Orders, Refuse(o) PROVE ExchangeStep
<1>1. o \in Placed /\ book[o] \in Remote
  BY PlacedOrders DEF Refuse, Placed
<1>2. /\ [book[o] EXCEPT !.state = "refused"] \in Remote
      /\ [book[o] EXCEPT !.state = "refused"].key = book[o].key
  BY <1>1 DEF Remote, RemoteStates
<1>3. book' = [book EXCEPT ![o] = [book[o] EXCEPT !.state = "refused"]]
  BY DEF Refuse
<1>4. UNCHANGED <<channel, stream>>
  BY DEF Refuse
<1> QED BY <1>1, <1>2, <1>3, <1>4, BookEffect DEF ExchangeStep, ExchangeTypeOK

\* The exchange executes part of an order and reports it.
LEMMA FillEffect ==
  ASSUME ExchangeTypeOK, NEW o \in Orders, NEW qty \in Nat, Fill(o, qty)
  PROVE  ExchangeStep
<1>1. o \in Placed /\ book[o] \in Remote
  BY PlacedOrders DEF Fill, Placed
<1> DEFINE executed == book[o].executed + qty
           full == executed = book[o].size
           lost == IF Delivered THEN book[o].lost ELSE book[o].lost + qty
           state == IF full THEN "filled" ELSE "open"
           rec == [book[o] EXCEPT !.executed = executed, !.state = state, !.lost = lost]
<1>2. executed \in Nat /\ lost \in Nat /\ state \in RemoteStates
  BY <1>1 DEF Remote, RemoteStates
<1>3. rec \in Remote /\ rec.key = book[o].key
  <2> HIDE DEF executed, lost, state
  <2> QED BY <1>1, <1>2 DEF Remote
<1>4. book' = [book EXCEPT ![o] = rec]
  BY <1>1 DEF Fill, ExchangeTypeOK
<1>5. \E status \in Open \cup Terminal : Deliver(ReportOf(o, status, qty))
  BY DEF Fill, Open, Terminal
<1>6. stream' \in {"up", "down"}
  BY DEF Fill, ExchangeTypeOK
<1> HIDE DEF rec
<1> QED BY <1>1, <1>3, <1>4, <1>5, <1>6, BookEffect, DeliverEffect
        DEF ExchangeStep, ExchangeTypeOK

\* The exchange rejects an accepted order and reports it.
LEMMA RejectEffect == ASSUME ExchangeTypeOK, NEW o \in Orders, Reject(o) PROVE ExchangeStep
<1>1. o \in Placed /\ book[o] \in Remote
  BY PlacedOrders DEF Reject, Placed
<1>2. /\ [book[o] EXCEPT !.state = "rejected"] \in Remote
      /\ [book[o] EXCEPT !.state = "rejected"].key = book[o].key
  BY <1>1 DEF Remote, RemoteStates
<1>3. book' = [book EXCEPT ![o] = [book[o] EXCEPT !.state = "rejected"]]
  BY DEF Reject
<1>4. Deliver(ReportOf(o, "REJECTED", 0)) /\ "REJECTED" \in Terminal /\ 0 \in Nat
  BY DEF Reject, Terminal
<1>5. stream' \in {"up", "down"}
  BY DEF Reject, ExchangeTypeOK
<1> QED BY <1>1, <1>2, <1>3, <1>4, <1>5, BookEffect, DeliverEffect
        DEF ExchangeStep, ExchangeTypeOK

\* Nothing happens on the exchange.
LEMMA NoExchangeEffect == ASSUME ExchangeTypeOK, UNCHANGED exchangeVars PROVE ExchangeStep
BY DEF ExchangeStep, ExchangeTypeOK, exchangeVars, Placed

\* A remote cancel takes effect, or does not reach the order ...
LEMMA CancelRemoteEffect ==
  ASSUME ExchangeTypeOK, NEW x, CancelRemote(x)
  PROVE  ExchangeStep
<1>1. CASE UNCHANGED exchangeVars
  BY <1>1, NoExchangeEffect
<1>2. ASSUME NEW o \in RemoteOrder(x), book[o].state = "open",
             book' = [book EXCEPT ![o].state = "canceled"],
             Deliver(ReportOf(o, "CANCELED", 0)), UNCHANGED stream
      PROVE  ExchangeStep
  <2>1. o \in Placed /\ book[o] \in Remote
    BY <1>2, PlacedOrders DEF RemoteOrder, Placed
  <2>2. /\ [book[o] EXCEPT !.state = "canceled"] \in Remote
        /\ [book[o] EXCEPT !.state = "canceled"].key = book[o].key
    BY <2>1 DEF Remote, RemoteStates
  <2>3. book' = [book EXCEPT ![o] = [book[o] EXCEPT !.state = "canceled"]]
    BY <1>2
  <2>4. "CANCELED" \in Terminal /\ 0 \in Nat
    BY DEF Terminal
  <2>5. stream' \in {"up", "down"}
    BY <1>2 DEF ExchangeTypeOK
  <2> QED BY <1>2, <2>1, <2>2, <2>3, <2>4, <2>5, BookEffect, DeliverEffect
          DEF ExchangeStep, ExchangeTypeOK
<1> QED BY <1>1, <1>2 DEF CancelRemote

\* ... and so does a remote replace.
LEMMA ReplaceRemoteEffect ==
  ASSUME ExchangeTypeOK, NEW x, NEW p \in Prices, ReplaceRemote(x, p)
  PROVE  ExchangeStep
<1>1. CASE UNCHANGED exchangeVars
  BY <1>1, NoExchangeEffect
<1>2. ASSUME NEW o \in RemoteOrder(x), book[o].state = "open",
             book' = [book EXCEPT ![o].price = p], UNCHANGED <<channel, stream>>
      PROVE  ExchangeStep
  <2>1. o \in Placed /\ book[o] \in Remote
    BY <1>2, PlacedOrders DEF RemoteOrder, Placed
  <2>2. [book[o] EXCEPT !.price = p] \in Remote /\ [book[o] EXCEPT !.price = p].key = book[o].key
    BY <2>1 DEF Remote
  <2>3. book' = [book EXCEPT ![o] = [book[o] EXCEPT !.price = p]]
    BY <1>2
  <2> QED BY <1>2, <2>1, <2>2, <2>3, BookEffect DEF ExchangeStep, ExchangeTypeOK
<1> QED BY <1>1, <1>2 DEF ReplaceRemote

\* Whatever the exchange and the network do on their own is such a step.
LEMMA EnvironmentEffect ==
  ASSUME ExchangeTypeOK, Environment
  PROVE  ExchangeStep /\ Async /\ UNCHANGED <<storeVars, submitVars, consumer, call>>
<1>0. Async /\ UNCHANGED <<storeVars, submitVars, consumer, call>>
  BY DEF Environment
<1>1. CASE \E o \in Orders : Accept(o) \/ Refuse(o) \/ Reject(o)
  BY <1>0, <1>1, AcceptEffect, RefuseEffect, RejectEffect
<1>2. ASSUME NEW o \in Orders, book[o].state = "open", NEW q \in 1 .. book[o].size, Fill(o, q)
      PROVE  ExchangeStep
  <2>1. q \in Nat
    BY <1>2, PlacedOrders DEF Placed, Remote
  <2> QED BY <1>2, <2>1, FillEffect
<1>3. CASE StreamDown \/ StreamUp
  <2>1. UNCHANGED <<book, channel>> /\ stream' \in {"up", "down"}
    BY <1>3 DEF StreamDown, StreamUp
  <2> QED BY <1>0, <2>1 DEF ExchangeStep, ExchangeTypeOK, Placed
<1>4. \/ \E o \in Orders : Accept(o) \/ Refuse(o) \/ Reject(o)
      \/ \E o \in Orders : book[o].state = "open" /\ \E q \in 1 .. book[o].size : Fill(o, q)
      \/ StreamDown \/ StreamUp
  BY DEF Environment
<1> QED BY <1>0, <1>1, <1>2, <1>3, <1>4

-----------------------------------------------------------------------------
(* applyStep *)

\* A call of the store on one order, which keeps its key.
StoreStep(o) ==
  /\ StoreTypeOK'
  /\ Known' = Known
  /\ OthersKept(o)
  /\ orders'[o].key = orders[o].key
  /\ idempotency' = idempotency

\* ... and which neither touches exchange ids nor books a fill.
QuietStep(o) ==
  /\ StoreStep(o)
  /\ orders'[o].ex = orders[o].ex
  /\ orders'[o].filled = orders[o].filled
  /\ UNCHANGED <<exchangeIDs, ledgerQty>>

\* A new status is such a step ...
LEMMA SetStatusQuiet ==
  ASSUME StoreTypeOK, NEW o \in Orders, NEW s \in Open \cup Terminal, SetStatus(o, s)
  PROVE  o \in Known /\ QuietStep(o)
BY SetStatusEffect, KnownOrders DEF QuietStep, StoreStep, Order, fillVars

\* ... so is a new price ...
LEMMA ReplaceOrderPriceQuiet ==
  ASSUME StoreTypeOK, NEW o \in Orders, NEW p \in Prices, ReplaceOrderPrice(o, p)
  PROVE  QuietStep(o)
BY ReplaceOrderPriceEffect, KnownOrders DEF QuietStep, StoreStep, Order, fillVars

\* ... and no call at all.
LEMMA NoStoreEffect ==
  ASSUME StoreTypeOK, NEW o \in Orders, UNCHANGED storeVars
  PROVE  QuietStep(o)
BY DEF QuietStep, StoreStep, OthersKept, StoreTypeOK, Known, storeVars, fillVars

\* Binding consistently, ApplyExternalFill takes an order id for what it is.
LEMMA FillTargetIsOrder ==
  ASSUME StoreTypeOK, BindingConsistent, NEW o \in Orders
  PROVE  FillTarget(o) = o
<1>1. CASE o \in ExIDs /\ exchangeIDs[o] # None
  <2>1. exchangeIDs[o] \in Orders /\ ExOf[exchangeIDs[o]] = o
    BY <1>1 DEF BindingConsistent, Known
  <2>2. ExOf[o] = o
    BY <1>1, ExchangeAssumption
  <2> QED BY <2>1, <2>2, <1>1, ExchangeAssumption DEF FillTarget
<1> QED BY <1>1 DEF FillTarget

\* The first critical section of applyStep binds the id it was given, or nothing.
LEMMA BindStep ==
  ASSUME StoreTypeOK, NEW o \in Known, NEW x \in ExIDs \cup {None}, Bind(o, x)
  PROVE  /\ StoreStep(o)
         /\ orders'[o].filled = orders[o].filled
         /\ ledgerQty' = ledgerQty
         /\ x = None => UNCHANGED <<orders, exchangeIDs>>
         /\ x # None => /\ orders'[o].ex = x
                        /\ exchangeIDs' = [exchangeIDs EXCEPT ![x] = o]
<1>0. o \in Orders /\ orders[o] \in Order
  BY KnownOrders DEF Known
<1>1. CASE x = None
  BY <1>0, <1>1, NoStoreEffect DEF Bind, QuietStep, storeVars
<1>2. CASE x # None
  <2>1. x \in ExIDs /\ BindExchangeOrderID(o, x)
    BY <1>2 DEF Bind
  <2>2. /\ StoreTypeOK' /\ Known' = Known /\ OthersKept(o)
        /\ orders'[o] = [orders[o] EXCEPT !.ex = x]
        /\ exchangeIDs' = [exchangeIDs EXCEPT ![x] = o]
        /\ UNCHANGED <<idempotency, fillVars>>
    BY <1>0, <2>1, BindEffect
  <2>3. /\ orders'[o].key = orders[o].key /\ orders'[o].filled = orders[o].filled
        /\ orders'[o].ex = x
    BY <1>0, <2>2 DEF Order
  <2> QED BY <1>2, <2>2, <2>3 DEF StoreStep, fillVars
<1> QED BY <1>1, <1>2

\* The second critical section of applyStep either books the fill it was given,
\* on the order it was given, or books nothing.
LEMMA ApplyStatusStep ==
  ASSUME StoreTypeOK, BindingConsistent, NEW o \in Known, NEW m \in Step \cup Report,
         m.qty > 0 => m.ex = ExOf[o], ApplyStatus(o, m)
  PROVE  \/ QuietStep(o)
         \/ /\ StoreStep(o)
            /\ m.qty > 0 /\ m.qty \in Nat
            /\ exchangeIDs' = exchangeIDs
            /\ orders'[o].ex = orders[o].ex
            /\ orders'[o].filled = orders[o].filled + m.qty
            /\ ledgerQty' = [ledgerQty EXCEPT ![ExOf[o]] = ledgerQty[ExOf[o]] + m.qty]
<1>0. o \in Orders /\ orders[o] \in Order
  BY KnownOrders DEF Known
<1>1. CASE MarkOrderAck(o) \/ CancelOrder(o)
  BY <1>0, <1>1, SetStatusQuiet DEF MarkOrderAck, CancelOrder, Open, Terminal
<1>2. CASE UNCHANGED storeVars
  BY <1>0, <1>2, NoStoreEffect
<1>3. CASE m.qty > 0 /\ ApplyExternalFill(o, m.ex, m.qty)
  <2>1. m.qty \in Nat /\ ExOf[o] \in ExIDs /\ m.ex = ExOf[o]
    BY <1>0, <1>3, ExchangeAssumption DEF Step, Report
  <2>2. FillTarget(o) = o
    BY <1>0, FillTargetIsOrder
  <2>3. ApplyExternalFill(o, ExOf[o], m.qty)
    BY <1>3, <2>1
  <2> QED BY <1>0, <1>3, <2>1, <2>2, <2>3, ApplyExternalFillEffect DEF StoreStep
<1> QED BY <1>1, <1>2, <1>3 DEF ApplyStatus

-----------------------------------------------------------------------------
(* Steps in the background of an order: they store no order, place none and   *)
(* book nothing                                                               *)

StoreQuiet ==
  /\ StoreTypeOK'
  /\ Known' = Known
  /\ \A o \in Known : /\ orders'[o].key = orders[o].key
                      /\ orders'[o].ex = orders[o].ex
                      /\ orders'[o].filled = orders[o].filled
  /\ UNCHANGED <<idempotency, exchangeIDs, ledgerQty>>

Background ==
  /\ StoreQuiet
  /\ ExchangeStep
  /\ GatewayTypeOK'
  /\ ~Async => channel' = channel
  /\ ~Async => \A c \in Calls : call'[c].pc \notin {"cancelRemote", "replaceRemote"}
  /\ UNCHANGED <<reserved, steps, consumer>>
  /\ \A h \in Orders : pc'[h] = pc[h] \/ (pc'[h] \notin Stored /\ pc[h] \notin Stored)
  /\ \A h \in Orders : pc'[h] \notin {"idle", "rejected"} => req'[h] \in Request

\* A quiet step on one order is quiet for the whole store ...
LEMMA QuietIsStoreQuiet ==
  ASSUME NEW o \in Orders, QuietStep(o)
  PROVE  StoreQuiet
BY DEF QuietStep, StoreStep, StoreQuiet, OthersKept, Known

\* ... and so is none.
LEMMA SameStoreQuiet == ASSUME StoreTypeOK, UNCHANGED storeVars PROVE StoreQuiet
BY DEF StoreQuiet, StoreTypeOK, Known, storeVars, fillVars

\* What the invariant says at once of the orders somebody works on.
LEMMA WorkedOn ==
  ASSUME Inductive
  PROVE  /\ Placed \subseteq Known
         /\ Known \subseteq Orders
         /\ consumer # ConsumerIdle =>
              consumer.order \in Placed /\ consumer.order \in Known /\ consumer.order \in Orders
         /\ consumer.pc = "reject" => consumer # ConsumerIdle
         /\ \A i \in 1 .. Len(channel) :
              /\ channel[i] \in Report
              /\ channel[i].key \in Keys
<1>1. Placed \subseteq Known /\ Known \subseteq Orders
  BY DEF Inductive, Control, Placed, Known, Sent
<1>2. consumer # ConsumerIdle => consumer.order \in Placed
  BY DEF Inductive, Control
<1>3. consumer.pc = "reject" => consumer # ConsumerIdle
  BY DEF ConsumerIdle
<1>4. \A i \in 1 .. Len(channel) : channel[i] \in Report
  BY DEF Inductive, TypeOK, ExchangeTypeOK
<1>5. \A m \in Report : m.key \in Keys
  BY DEF Report
<1> QED BY <1>1, <1>2, <1>3, <1>4, <1>5

\* Steps in the background preserve the invariant.
LEMMA BackgroundInductive == ASSUME Inductive, Background PROVE Inductive'
<1>1. TypeOK'
  BY DEF Background, StoreQuiet, ExchangeStep, TypeOK
<1>2. Control'
  <2>1. consumer' # ConsumerIdle => consumer'.order \in Placed'
    BY DEF Inductive, Control, Background, ExchangeStep
  <2>3. \A i \in 1 .. Len(channel') : idempotency'[channel'[i].key] \in Placed'
    <3>1. UNCHANGED idempotency /\ Placed' = Placed
      BY DEF Background, StoreQuiet, ExchangeStep
    <3>2. CASE channel' = channel
      BY <3>1, <3>2 DEF Inductive, Control
    <3>3. ASSUME NEW o \in Placed, NEW r \in Report, r.key = book[o].key,
                 channel' = Append(channel, r)
          PROVE  \A i \in 1 .. Len(channel') : idempotency'[channel'[i].key] \in Placed'
      <4>1. idempotency[r.key] = o
        BY <3>3, WorkedOn DEF Inductive, Ownership
      <4>2. channel \in Seq(Report)
        BY DEF Inductive, TypeOK, ExchangeTypeOK
      <4>3. ASSUME NEW i \in 1 .. Len(channel')
            PROVE  channel'[i] = r \/ (i \in 1 .. Len(channel) /\ channel'[i] = channel[i])
        BY <3>3, <4>2
      <4> QED BY <3>1, <4>1, <4>3 DEF Inductive, Control
    <3> QED BY <3>2, <3>3 DEF Background, ExchangeStep
  <2>2. ASSUME NEW h \in Orders
        PROVE  /\ h \in Known' <=> pc'[h] \in Stored
               /\ h \in Placed' <=> pc'[h] \in Sent
               /\ pc'[h] \notin {"idle", "rejected"} => req'[h] \in Request
               /\ pc'[h] = "send" => /\ reserved'[h] \in Order
                                     /\ reserved'[h].key = orders'[h].key
                                     /\ reserved'[h].ex = None
                                     /\ reserved'[h].filled = 0
               /\ pc'[h] \in {"step", "apply"} => steps'[h] # <<>>
    <3>1. pc'[h] \in Stored <=> pc[h] \in Stored
      BY DEF Background
    <3>2. pc'[h] \in Stored => pc'[h] = pc[h]
      BY DEF Background
    <3> QED BY <3>1, <3>2 DEF Inductive, Control, Background, StoreQuiet, ExchangeStep,
                              Stored, Sent
  <2> QED BY <2>1, <2>2, <2>3 DEF Control
<1>3. Ownership'
  <2>1. /\ Known' = Known /\ Placed' = Placed /\ idempotency' = idempotency
        /\ \A o \in Known : orders'[o].key = orders[o].key
        /\ \A o \in Placed : book'[o].key = book[o].key
    BY DEF Background, StoreQuiet, ExchangeStep
  <2>2. Placed \subseteq Known
    BY DEF Inductive, Control, Placed, Sent
  <2> QED BY <2>1, <2>2 DEF Inductive, Ownership
<1>4. ReportsFindTheirOrder'
  <2>1. UNCHANGED <<consumer, idempotency>>
    BY DEF Background, StoreQuiet
  <2>2. CASE channel' = channel
    BY <2>1, <2>2 DEF Inductive, ReportsFindTheirOrder
  <2>3. ASSUME NEW o \in Placed, NEW r \in Report, r.key = book[o].key, r.ex = ExOf[o],
               channel' = Append(channel, r)
        PROVE  ReportsFindTheirOrder'
    <3>1. idempotency[r.key] = o /\ o # None
      <4>1. o \in Known
        BY DEF Inductive, Control, Placed, Sent
      <4> QED BY <4>1, <2>3, OrderStoreAssumption DEF Inductive, Ownership, Placed
    <3>2. channel \in Seq(Report)
      BY DEF Inductive, TypeOK, ExchangeTypeOK
    <3>3. ASSUME NEW i \in 1 .. Len(channel')
          PROVE  channel'[i] = r \/ (i \in 1 .. Len(channel) /\ channel'[i] = channel[i])
      BY <2>3, <3>2
    <3> QED BY <2>1, <2>3, <3>1, <3>3 DEF Inductive, ReportsFindTheirOrder
  <2> QED BY <2>2, <2>3 DEF Background, ExchangeStep
<1>5. Bindings'
  <2>1. /\ Known' = Known
        /\ UNCHANGED <<exchangeIDs, steps, consumer>>
        /\ \A o \in Known : orders'[o].ex = orders[o].ex /\ orders'[o].key = orders[o].key
    BY DEF Background, StoreQuiet
  <2>2. consumer.pc = "reject" => consumer.order \in Known
    BY WorkedOn
  <2>3. BindingConsistent'
    BY <2>1 DEF Inductive, Bindings, BindingConsistent
  <2>4. Placed' = Placed
    BY DEF Background, ExchangeStep
  <2> QED BY <2>1, <2>2, <2>3, <2>4 DEF Inductive, Bindings
<1>6. Fills'
  <2>1. /\ UNCHANGED <<ledgerQty, steps, consumer>>
        /\ ~Async => channel' = channel
        /\ ~Async => \A c \in Calls : call'[c].pc \notin {"cancelRemote", "replaceRemote"}
        /\ \A h \in Orders : pc'[h] = pc[h] \/ (pc'[h] \notin Stored /\ pc[h] \notin Stored)
    BY DEF Background, StoreQuiet
  <2>2. consumer.pc = "reject" => consumer.order \in Orders /\ pc[consumer.order] \in Stored
    BY WorkedOn DEF Inductive, Control
  <2>3. Placed' = Placed
    BY DEF Background, ExchangeStep
  <2> QED BY <2>1, <2>2, <2>3 DEF Inductive, Fills
<1>7. FilledTracksLedger'
  <2>1. \A o \in Known : o \in Orders /\ pc'[o] = pc[o]
    BY DEF Inductive, Control, Background, Known
  <2>2. /\ Known' = Known /\ ledgerQty' = ledgerQty
        /\ \A o \in Known : orders'[o].filled = orders[o].filled
    BY DEF Background, StoreQuiet
  <2> QED BY <2>1, <2>2 DEF Inductive, FilledTracksLedger
<1> QED BY <1>1, <1>2, <1>3, <1>4, <1>5, <1>6, <1>7 DEF Inductive

\* The part of Submit before the order is stored.
LEMMA BeforeReserve ==
  ASSUME Inductive, NEW h \in Orders,
         RiskDeny(h) \/ RiskAllow(h) \/ EvictRemote(h) \/ EvictLocal(h) \/ Duplicate(h)
  PROVE  Background
<1> USE DEF Goto
<1>0. StoreTypeOK /\ ExchangeTypeOK /\ GatewayTypeOK /\ Control /\ Fills
  BY DEF Inductive, TypeOK
<1>1. CASE RiskDeny(h)
  <2>1. StoreQuiet /\ ExchangeStep
    BY <1>0, <1>1, SameStoreQuiet, NoExchangeEffect DEF RiskDeny, exchangeVars
  <2>2. GatewayTypeOK'
    BY <1>0, <1>1 DEF RiskDeny, GatewayTypeOK, PCs, Returned
  <2> QED BY <1>0, <1>1, <2>1, <2>2
          DEF RiskDeny, Background, Control, Fills, GatewayTypeOK, Stored, exchangeVars
<1>2. CASE RiskAllow(h)
  <2>1. StoreQuiet /\ ExchangeStep
    BY <1>0, <1>2, SameStoreQuiet, NoExchangeEffect DEF RiskAllow, exchangeVars
  <2>7. PICK r \in Requests : \E q \in 1 .. r.size :
          /\ req' = [req EXCEPT ![h] = [r EXCEPT !.size = q]]
          /\ snap' = [snap EXCEPT ![h] = OpposingOpenOrders(r)]
    BY <1>2 DEF RiskAllow
  <2>2. PICK q \in 1 .. r.size :
          /\ req' = [req EXCEPT ![h] = [r EXCEPT !.size = q]]
          /\ snap' = [snap EXCEPT ![h] = OpposingOpenOrders(r)]
    BY <2>7
  <2>3. r \in Request /\ q \in Nat
    BY <2>2, GatewayAssumption DEF Request
  <2>4. [r EXCEPT !.size = q] \in Request
    BY <2>3 DEF Request
  <2>5. OpposingOpenOrders(r) \in SUBSET Copy
    BY <1>0, KnownOrders DEF OpposingOpenOrders, Copy, Order, Known
  <2>6. GatewayTypeOK'
    BY <1>0, <1>2, <2>2, <2>4, <2>5 DEF RiskAllow, GatewayTypeOK, PCs
  <2> QED BY <1>0, <1>2, <2>1, <2>2, <2>4, <2>6
          DEF RiskAllow, Background, Control, Fills, GatewayTypeOK, Stored, exchangeVars
<1>3. CASE EvictRemote(h)
  <2>1. PICK s \in snap[h] :
          /\ victim' = [victim EXCEPT ![h] = s.id]
          /\ snap' = [snap EXCEPT ![h] = snap[h] \ {s}]
          /\ IF Async /\ s.ex # None THEN CancelRemote(s.ex) ELSE UNCHANGED exchangeVars
    BY <1>3 DEF EvictRemote
  <2>2. StoreQuiet
    BY <1>0, <1>3, SameStoreQuiet DEF EvictRemote
  <2>3. ExchangeStep
    BY <1>0, <2>1, CancelRemoteEffect, NoExchangeEffect
  <2>4. s \in Copy /\ s.id \in Orders
    BY <1>0, <2>1 DEF GatewayTypeOK, Copy
  <2>5. GatewayTypeOK'
    BY <1>0, <1>3, <2>1, <2>4 DEF EvictRemote, GatewayTypeOK, PCs
  <2>6. ~Async => channel' = channel
    BY <2>1 DEF exchangeVars
  <2> QED BY <1>0, <1>3, <2>2, <2>3, <2>5, <2>6
          DEF EvictRemote, Background, Control, Fills, GatewayTypeOK, Stored
<1>4. CASE EvictLocal(h)
  <2>1. victim[h] \in Orders
    BY <1>4, <1>0 DEF EvictLocal, CancelOrder, SetStatus, Known
  <2>2. StoreQuiet
    BY <1>0, <1>4, <2>1, SetStatusQuiet, QuietIsStoreQuiet DEF EvictLocal, CancelOrder, Terminal
  <2>3. ExchangeStep
    BY <1>0, <1>4, NoExchangeEffect DEF EvictLocal
  <2>4. GatewayTypeOK'
    BY <1>0, <1>4 DEF EvictLocal, GatewayTypeOK, PCs
  <2> QED BY <1>0, <1>4, <2>2, <2>3, <2>4
          DEF EvictLocal, Background, Control, Fills, GatewayTypeOK, Stored, exchangeVars
<1>5. CASE Duplicate(h)
  <2>1. StoreQuiet /\ ExchangeStep
    BY <1>0, <1>5, SameStoreQuiet, NoExchangeEffect DEF Duplicate, exchangeVars
  <2>2. GatewayTypeOK'
    BY <1>0, <1>5 DEF Duplicate, GatewayTypeOK, PCs, Returned
  <2> QED BY <1>0, <1>5, <2>1, <2>2
          DEF Duplicate, Background, Control, Fills, GatewayTypeOK, Stored, exchangeVars
<1> QED BY <1>1, <1>2, <1>3, <1>4, <1>5

\* Cancel, Replace and SwitchStrategy, whatever they find.
LEMMA StartCancelBackground ==
  ASSUME Inductive, NEW c \in Calls, NEW o \in Orders, StartCancel(c, o)
  PROVE  Background
<1>0. StoreTypeOK /\ ExchangeTypeOK /\ GatewayTypeOK /\ Control /\ Fills
  BY DEF Inductive, TypeOK
<1>1. StoreQuiet /\ ExchangeStep
  BY <1>0, SameStoreQuiet, NoExchangeEffect DEF StartCancel
<1> DEFINE new == IF o \notin Known \/ orders[o].status \in Terminal THEN CallDone
                  ELSE IF Async /\ orders[o].ex # None
                       THEN [pc |-> "cancelRemote", order |-> o, ex |-> orders[o].ex]
                       ELSE [pc |-> "cancelLocal", order |-> o]
<1>2. call' = [call EXCEPT ![c] = new]
  BY DEF StartCancel
<1>3. new \in Call
  BY <1>0, KnownOrders DEF Call, Order
<1>4. ~Async => new.pc \notin {"cancelRemote", "replaceRemote"}
  BY DEF CallDone
<1>5. UNCHANGED submitVars /\ consumer' = consumer /\ channel' = channel
  BY DEF StartCancel, exchangeVars
<1>6. GatewayTypeOK'
  BY <1>0, <1>2, <1>3, <1>5 DEF GatewayTypeOK, submitVars
<1> HIDE DEF new
<1> QED BY <1>0, <1>1, <1>2, <1>4, <1>5, <1>6
        DEF Background, Control, Fills, GatewayTypeOK, submitVars

\* Replace changes the price in the store first.
LEMMA StartReplaceBackground ==
  ASSUME Inductive, NEW c \in Calls, NEW o \in Orders, NEW p \in Prices, StartReplace(c, o, p)
  PROVE  Background
<1>0. StoreTypeOK /\ ExchangeTypeOK /\ GatewayTypeOK /\ Control /\ Fills
  BY DEF Inductive, TypeOK
<1>1. StoreQuiet
  BY <1>0, SameStoreQuiet, ReplaceOrderPriceQuiet, QuietIsStoreQuiet DEF StartReplace
<1>2. ExchangeStep
  BY <1>0, NoExchangeEffect DEF StartReplace
<1> DEFINE new == IF o \in Known /\ Async /\ orders[o].ex # None
                  THEN [pc |-> "replaceRemote", ex |-> orders[o].ex, price |-> p]
                  ELSE CallDone
<1>3. call' = [call EXCEPT ![c] = new]
  BY DEF StartReplace
<1>4. new \in Call
  BY <1>0, KnownOrders DEF Call, Order
<1>5. ~Async => new.pc \notin {"cancelRemote", "replaceRemote"}
  BY DEF CallDone
<1>6. UNCHANGED submitVars /\ consumer' = consumer /\ channel' = channel
  BY DEF StartReplace, exchangeVars
<1>7. GatewayTypeOK'
  BY <1>0, <1>3, <1>4, <1>6 DEF GatewayTypeOK, submitVars
<1> HIDE DEF new
<1> QED BY <1>0, <1>1, <1>2, <1>3, <1>5, <1>6, <1>7
        DEF Background, Control, Fills, GatewayTypeOK, submitVars

\* SwitchStrategy is one of the two, or only reads the order.
LEMMA StartCallBackground ==
  ASSUME Inductive, NEW c \in Calls, StartCall(c)
  PROVE  Background
<1>1. ASSUME NEW o \in Orders, call[c] = CallIdle, call' = [call EXCEPT ![c] = CallDone],
             UNCHANGED <<storeVars, exchangeVars, submitVars, consumer>>
      PROVE  Background
  <2>0. StoreTypeOK /\ ExchangeTypeOK /\ GatewayTypeOK /\ Control /\ Fills
    BY DEF Inductive, TypeOK
  <2>1. StoreQuiet /\ ExchangeStep
    BY <1>1, <2>0, SameStoreQuiet, NoExchangeEffect
  <2>2. GatewayTypeOK'
    BY <1>1, <2>0 DEF GatewayTypeOK, submitVars, Call
  <2> QED BY <1>1, <2>0, <2>1, <2>2
          DEF Background, Control, Fills, GatewayTypeOK, submitVars, exchangeVars, CallDone
<1>2. ASSUME NEW o \in Orders, NEW s \in Strategies, NEW p \in Prices \cup {None},
             SwitchStrategy(c, o, s, p)
      PROVE  Background
  BY <1>1, <1>2, StartCancelBackground, StartReplaceBackground DEF SwitchStrategy
<1> QED BY <1>2, StartCancelBackground, StartReplaceBackground DEF StartCall

\* The remote request of a call, and what follows it in the store.
LEMMA FinishCallBackground ==
  ASSUME Inductive, NEW c \in Calls, FinishCall(c)
  PROVE  Background
<1>0. StoreTypeOK /\ ExchangeTypeOK /\ GatewayTypeOK /\ Control /\ Fills
  BY DEF Inductive, TypeOK
<1>1. CASE CancelRemoteCall(c)
  <2>1. call[c].pc = "cancelRemote" /\ call[c] \in Call
    BY <1>0, <1>1 DEF CancelRemoteCall, GatewayTypeOK
  <2>2. Async /\ call[c].order \in Orders
    BY <1>0, <2>1 DEF Fills, Call, CallIdle, CallDone
  <2>3. StoreQuiet /\ ExchangeStep
    BY <1>0, <1>1, SameStoreQuiet, CancelRemoteEffect DEF CancelRemoteCall
  <2>4. GatewayTypeOK'
    <3>1. PICK new \in {CallDone, [pc |-> "cancelLocal", order |-> call[c].order]} :
            call' = [call EXCEPT ![c] = new]
      BY <1>1 DEF CancelRemoteCall
    <3>2. new \in Call
      BY <2>2, <3>1 DEF Call
    <3>3. UNCHANGED <<submitVars, consumer>>
      BY <1>1 DEF CancelRemoteCall
    <3> QED BY <1>0, <3>1, <3>2, <3>3 DEF GatewayTypeOK, submitVars
  <2> QED BY <1>0, <1>1, <2>2, <2>3, <2>4
          DEF CancelRemoteCall, Background, Control, Fills, GatewayTypeOK, submitVars
<1>2. CASE CancelLocalCall(c)
  <2>1. call[c].order \in Orders
    BY <1>2 DEF CancelLocalCall, CancelOrder, SetStatus, Known
  <2>2. StoreQuiet /\ ExchangeStep
    BY <1>0, <1>2, <2>1, SetStatusQuiet, QuietIsStoreQuiet, NoExchangeEffect
       DEF CancelLocalCall, CancelOrder, Terminal
  <2>3. GatewayTypeOK'
    BY <1>0, <1>2 DEF CancelLocalCall, GatewayTypeOK, submitVars, Call
  <2> QED BY <1>0, <1>2, <2>2, <2>3
          DEF CancelLocalCall, Background, Control, Fills, GatewayTypeOK, submitVars,
              exchangeVars, CallDone
<1>3. CASE ReplaceRemoteCall(c)
  <2>1. call[c].pc = "replaceRemote" /\ call[c] \in Call
    BY <1>0, <1>3 DEF ReplaceRemoteCall, GatewayTypeOK
  <2>2. Async /\ call[c].price \in Prices
    BY <1>0, <2>1 DEF Fills, Call, CallIdle, CallDone
  <2>3. StoreQuiet /\ ExchangeStep
    BY <1>0, <1>3, <2>2, SameStoreQuiet, ReplaceRemoteEffect DEF ReplaceRemoteCall
  <2>4. GatewayTypeOK'
    BY <1>0, <1>3 DEF ReplaceRemoteCall, GatewayTypeOK, submitVars, Call
  <2> QED BY <1>0, <1>3, <2>2, <2>3, <2>4
          DEF ReplaceRemoteCall, Background, Control, Fills, GatewayTypeOK, submitVars
<1> QED BY <1>1, <1>2, <1>3 DEF FinishCall

\* What the exchange and the network do on their own.
LEMMA EnvironmentBackground == ASSUME Inductive, Environment PROVE Background
<1>0. StoreTypeOK /\ ExchangeTypeOK /\ GatewayTypeOK /\ Control /\ Fills
  BY DEF Inductive, TypeOK
<1>1. ExchangeStep /\ Async /\ UNCHANGED <<storeVars, submitVars, consumer, call>>
  BY <1>0, EnvironmentEffect
<1>2. StoreQuiet
  BY <1>0, <1>1, SameStoreQuiet
<1>3. GatewayTypeOK'
  BY <1>0, <1>1 DEF GatewayTypeOK, submitVars
<1> QED BY <1>0, <1>1, <1>2, <1>3 DEF Background, Control, Fills, GatewayTypeOK, submitVars

-----------------------------------------------------------------------------
(* The steps that change an order *)

\* ReserveOrder stores a new order under a free key.
LEMMA ReserveInductive == ASSUME Inductive, NEW h \in Orders, Reserve(h) PROVE Inductive'
<1>0. StoreTypeOK /\ ExchangeTypeOK /\ GatewayTypeOK
  BY DEF Inductive, TypeOK
<1>1. /\ pc[h] = "protect" /\ pc' = [pc EXCEPT ![h] = "mark"]
      /\ UNCHANGED <<exchangeVars, req, snap, victim, reserved, steps, consumer, call>>
  BY DEF Reserve, Goto
<1>2. req[h] \in Request /\ h \notin Known /\ h \notin Placed
  BY <1>1 DEF Inductive, Control, Stored, Sent
<1> DEFINE r == req[h]
<1>3. /\ StoreTypeOK'
      /\ Known' = Known \cup {h}
      /\ OthersKept(h)
      /\ orders'[h] = NewOrder(r)
      /\ idempotency[r.key] = None /\ r.key \in Keys
      /\ idempotency' = [idempotency EXCEPT ![r.key] = h]
      /\ UNCHANGED <<exchangeIDs, fillVars>>
  BY <1>0, <1>2, ReserveOrderEffect DEF Reserve
<1>4. orders'[h].key = r.key /\ orders'[h].ex = None /\ orders'[h].filled = 0
  BY <1>3 DEF NewOrder
<1>5. \A o \in Known : o # h /\ o \in Orders /\ orders'[o] = orders[o] /\ pc'[o] = pc[o]
  BY <1>0, <1>1, <1>2, <1>3 DEF OthersKept, Known, GatewayTypeOK
<1>6. Placed' = Placed
  BY <1>1 DEF Placed, exchangeVars
<1>7. TypeOK'
  BY <1>0, <1>1, <1>3 DEF TypeOK, ExchangeTypeOK, GatewayTypeOK, exchangeVars, PCs
<1>14. \A k \in Keys : idempotency[k] # None => idempotency'[k] = idempotency[k]
  BY <1>0, <1>3 DEF StoreTypeOK
<1>8. Control'
  <2>1. \A i \in 1 .. Len(channel') : idempotency'[channel'[i].key] \in Placed'
    BY <1>1, <1>6, <1>14, WorkedOn DEF Inductive, Control, ReportsFindTheirOrder, exchangeVars
  <2>2. consumer' # ConsumerIdle => consumer'.order \in Placed'
    BY <1>1, <1>6 DEF Inductive, Control
  <2>3. \A g \in Orders :
          /\ g \in Known' <=> pc'[g] \in Stored
          /\ g \in Placed' <=> pc'[g] \in Sent
          /\ pc'[g] \notin {"idle", "rejected"} => req'[g] \in Request
    BY <1>0, <1>1, <1>2, <1>3, <1>6 DEF Inductive, Control, Stored, Sent, GatewayTypeOK
  <2>4. \A g \in Orders : pc'[g] \in {"send", "step", "apply"} => g \in Known /\ pc'[g] = pc[g]
    BY <1>0, <1>1 DEF Inductive, Control, Stored, GatewayTypeOK
  <2> QED BY <1>1, <1>5, <2>1, <2>2, <2>3, <2>4 DEF Inductive, Control
<1>9. Ownership'
  <2>1. \A k \in Keys : idempotency'[k] = IF k = r.key THEN h ELSE idempotency[k]
    BY <1>0, <1>3 DEF StoreTypeOK
  <2>2. Placed \subseteq Known
    BY DEF Inductive, Control, Placed, Sent
  <2>3. \A o \in Known : orders[o].key # r.key
    BY <1>3, OrderStoreAssumption DEF Inductive, Ownership, Known
  <2>4. \A o \in Known : orders[o].key \in Keys
    BY <1>0, KnownOrders DEF Order, Known
  <2> QED BY <1>1, <1>3, <1>4, <1>5, <1>6, <2>1, <2>2, <2>3, <2>4
          DEF Inductive, Ownership, exchangeVars
<1>10. ReportsFindTheirOrder'
  BY <1>1, <1>14, WorkedOn DEF Inductive, ReportsFindTheirOrder, exchangeVars
<1>11. Bindings'
  <2>1. consumer.pc = "reject" => consumer.order \in Known
    BY WorkedOn
  <2>2. BindingConsistent'
    BY <1>3, <1>4, <1>5 DEF Inductive, Bindings, BindingConsistent
  <2> QED BY <1>1, <1>3, <1>4, <1>5, <1>6, <2>1, <2>2 DEF Inductive, Bindings
<1>12. Fills'
  <2>1. consumer.pc = "reject" => consumer.order \in Known
    BY WorkedOn
  <2> QED BY <1>1, <1>3, <1>5, <1>6, <2>1 DEF Inductive, Fills, exchangeVars, fillVars
<1>13. FilledTracksLedger'
  <2>1. ledgerQty[ExOf[h]] = 0
    BY <1>2 DEF Inductive, Fills
  <2>2. ledgerQty' = ledgerQty
    BY <1>3 DEF fillVars
  <2> QED BY <1>3, <1>4, <1>5, <2>1, <2>2 DEF Inductive, FilledTracksLedger
<1> QED BY <1>7, <1>8, <1>9, <1>10, <1>11, <1>12, <1>13 DEF Inductive

\* MarkOrderSent and the request on the wire: the call's copy is the stored order.
LEMMA MarkInductive == ASSUME Inductive, NEW h \in Orders, Mark(h) PROVE Inductive'
<1>0. StoreTypeOK /\ ExchangeTypeOK /\ GatewayTypeOK
  BY DEF Inductive, TypeOK
<1>1. /\ pc[h] = "mark" /\ pc' = [pc EXCEPT ![h] = "send"]
      /\ reserved' = [reserved EXCEPT ![h] = orders'[h]]
      /\ Place(h, orders'[h])
      /\ UNCHANGED <<channel, stream, req, snap, victim, steps, consumer, call>>
  BY DEF Mark, Goto
<1>2. h \in Known /\ QuietStep(h)
  BY <1>0, SetStatusQuiet DEF Mark, MarkOrderSent, Open
<1>3. StoreQuiet
  BY <1>2, QuietIsStoreQuiet
<1>4. orders'[h] \in Order
  <2>1. StoreTypeOK' /\ h \in Known'
    BY <1>2, <1>3 DEF StoreQuiet
  <2> QED BY <2>1 DEF StoreTypeOK, Known, NoOrder
<1>5. h \notin Placed
  BY <1>1 DEF Inductive, Control, Sent
<1> DEFINE rec == [state |-> "inflight", key |-> orders'[h].key, size |-> orders'[h].size,
                   price |-> orders'[h].price, executed |-> 0, lost |-> 0]
<1>6. rec \in Remote
  BY <1>4 DEF Order, Remote, RemoteStates
<1>7. book' = [book EXCEPT ![h] = rec]
  BY <1>1 DEF Place
<1>8. /\ ExchangeTypeOK'
      /\ Placed' = Placed \cup {h}
      /\ book'[h].key = orders'[h].key
      /\ \A o \in Placed : book'[o].key = book[o].key
  <2> HIDE DEF rec
  <2>1. rec.state # "none" /\ rec.key = orders'[h].key
    BY DEF rec
  <2> QED BY <1>0, <1>1, <1>5, <1>6, <1>7, <2>1 DEF ExchangeTypeOK, Placed
<1>9. TypeOK'
  BY <1>0, <1>1, <1>3, <1>4, <1>8 DEF TypeOK, GatewayTypeOK, StoreQuiet, PCs
<1>10. Control'
  <2>1. orders[h].ex = None
    BY <1>2, <1>5 DEF Inductive, Bindings
  <2>2. orders[h].filled = 0
    <3>1. ledgerQty[ExOf[h]] = 0 /\ pc[h] # "failed"
      BY <1>1, <1>5 DEF Inductive, Fills
    <3> QED BY <1>2, <3>1 DEF Inductive, FilledTracksLedger
  <2>3. /\ orders'[h].ex = None /\ orders'[h].filled = 0
        /\ reserved'[h] = orders'[h]
    BY <1>0, <1>1, <1>2, <2>1, <2>2 DEF QuietStep, GatewayTypeOK
  <2>4. UNCHANGED idempotency /\ Known' = Known
        /\ \A o \in Known : orders'[o].key = orders[o].key
    BY <1>3 DEF StoreQuiet
  <2>5. /\ consumer' # ConsumerIdle => consumer'.order \in Placed'
        /\ \A i \in 1 .. Len(channel') : idempotency'[channel'[i].key] \in Placed'
    BY <1>1, <1>8, <2>4 DEF Inductive, Control
  <2>6. ASSUME NEW g \in Orders, g # h
        PROVE  /\ pc'[g] = pc[g] /\ reserved'[g] = reserved[g] /\ req'[g] = req[g]
               /\ steps'[g] = steps[g] /\ (g \in Placed' <=> g \in Placed)
    BY <1>0, <1>1, <1>8, <2>6 DEF GatewayTypeOK
  <2>7. pc'[h] = "send" /\ req'[h] = req[h] /\ req[h] \in Request
    BY <1>0, <1>1 DEF Inductive, Control, GatewayTypeOK
  <2> QED BY <1>2, <1>4, <1>8, <2>3, <2>4, <2>5, <2>6, <2>7
          DEF Inductive, Control, Stored, Sent
<1>11. Ownership'
  BY <1>2, <1>3, <1>8, WorkedOn DEF Inductive, Ownership, StoreQuiet
<1>12. ReportsFindTheirOrder'
  BY <1>1, <1>3 DEF Inductive, ReportsFindTheirOrder, StoreQuiet
<1>13. Bindings'
  <2>1. /\ Known' = Known /\ UNCHANGED <<exchangeIDs, steps, consumer>>
        /\ \A o \in Known : orders'[o].ex = orders[o].ex /\ orders'[o].key = orders[o].key
    BY <1>1, <1>3 DEF StoreQuiet
  <2>2. BindingConsistent'
    BY <2>1 DEF Inductive, Bindings, BindingConsistent
  <2> QED BY <1>8, <2>1, <2>2, WorkedOn DEF Inductive, Bindings
<1>14. Fills'
  <2>1. UNCHANGED <<ledgerQty, steps, consumer, channel, call>>
    BY <1>1, <1>3 DEF StoreQuiet
  <2>2. \A o \in Orders : pc'[o] # "failed" => pc[o] # "failed"
    BY <1>0, <1>1 DEF GatewayTypeOK
  <2> QED BY <1>8, <2>1, <2>2, WorkedOn DEF Inductive, Fills
<1>15. FilledTracksLedger'
  <2>1. \A o \in Known : o \in Orders /\ (pc'[o] # "failed" => pc[o] # "failed")
    BY <1>0, <1>1 DEF GatewayTypeOK, Known
  <2> QED BY <1>3, <2>1 DEF Inductive, FilledTracksLedger, StoreQuiet
<1> QED BY <1>9, <1>10, <1>11, <1>12, <1>13, <1>14, <1>15 DEF Inductive

\* The failure path of Submit writes back a copy of the order: same key, no
\* exchange id and no fill.
LEMMA SendFailInductive == ASSUME Inductive, NEW h \in Orders, SendFail(h) PROVE Inductive'
<1>0. StoreTypeOK /\ ExchangeTypeOK /\ GatewayTypeOK
  BY DEF Inductive, TypeOK
<1> DEFINE copy == [reserved[h] EXCEPT !.status = "REJECTED"]
<1>1. /\ pc[h] = "send" /\ pc' = [pc EXCEPT ![h] = "failed"]
      /\ UpdateOrder(h, copy)
      /\ UNCHANGED <<exchangeVars, req, snap, victim, reserved, steps, consumer, call>>
  BY DEF SendFail, Goto
<1>2. /\ h \in Known /\ h \in Placed
      /\ reserved[h] \in Order /\ reserved[h].key = orders[h].key
      /\ reserved[h].ex = None /\ reserved[h].filled = 0
  BY <1>1 DEF Inductive, Control, Stored, Sent
<1>3. copy \in Order /\ copy.key = orders[h].key /\ copy.ex = None /\ copy.filled = 0
  BY <1>2 DEF Order, Terminal
<1> HIDE DEF copy
<1>4. /\ StoreTypeOK' /\ Known' = Known /\ OthersKept(h) /\ orders'[h] = copy
      /\ UNCHANGED <<exchangeIDs, idempotency, fillVars>>
  BY <1>0, <1>1, <1>2, <1>3, UpdateOrderEffect
<1>5. /\ \A o \in Known : orders'[o].key = orders[o].key
      /\ \A o \in Known \ {h} : o \in Orders /\ orders'[o] = orders[o] /\ pc'[o] = pc[o]
  BY <1>0, <1>1, <1>3, <1>4 DEF OthersKept, Known, GatewayTypeOK
<1>6. Placed' = Placed /\ UNCHANGED <<book, channel, stream>> /\ ledgerQty' = ledgerQty
  BY <1>1, <1>4 DEF Placed, exchangeVars, fillVars
<1>7. TypeOK'
  BY <1>0, <1>1, <1>4, <1>6 DEF TypeOK, ExchangeTypeOK, GatewayTypeOK, PCs, Returned
<1>8. Control'
  <2>1. /\ consumer' # ConsumerIdle => consumer'.order \in Placed'
        /\ \A i \in 1 .. Len(channel') : idempotency'[channel'[i].key] \in Placed'
    BY <1>1, <1>4, <1>6 DEF Inductive, Control
  <2>2. ASSUME NEW g \in Orders, g # h PROVE pc'[g] = pc[g]
    BY <1>0, <1>1, <2>2 DEF GatewayTypeOK
  <2>3. pc'[h] = "failed"
    BY <1>0, <1>1 DEF GatewayTypeOK
  <2> QED BY <1>1, <1>2, <1>4, <1>5, <1>6, <2>1, <2>2, <2>3 DEF Inductive, Control, Stored, Sent
<1>9. Ownership'
  BY <1>4, <1>5, <1>6, WorkedOn DEF Inductive, Ownership
<1>10. ReportsFindTheirOrder'
  BY <1>1, <1>4, <1>6 DEF Inductive, ReportsFindTheirOrder
<1>11. Bindings'
  <2>1. BindingConsistent'
    BY <1>3, <1>4, <1>5 DEF Inductive, Bindings, BindingConsistent
  <2> QED BY <1>1, <1>3, <1>4, <1>5, <1>6, <2>1, WorkedOn DEF Inductive, Bindings
<1>12. Fills'
  <2>1. \A o \in Orders : pc'[o] # "failed" => pc[o] # "failed"
    BY <1>0, <1>1 DEF GatewayTypeOK
  <2> QED BY <1>1, <1>6, <2>1, WorkedOn DEF Inductive, Fills
<1>13. FilledTracksLedger'
  <2>1. pc'[h] = "failed"
    BY <1>0, <1>1 DEF GatewayTypeOK
  <2>2. ledgerQty[ExOf[h]] \in Nat
    BY <1>0, ExchangeAssumption DEF StoreTypeOK
  <2> QED BY <2>2, <1>3, <1>4, <1>5, <1>6, <2>1 DEF Inductive, FilledTracksLedger
<1> QED BY <1>7, <1>8, <1>9, <1>10, <1>11, <1>12, <1>13 DEF Inductive

\* Short sequences of steps.
LEMMA StepLists ==
  \A a, b, c \in Step : /\ <<a>> \in Seq(Step) /\ <<a>> # <<>>
                        /\ <<a, b>> \in Seq(Step) /\ <<a, b>> # <<>>
                        /\ <<a, b, c>> \in Seq(Step) /\ <<a, b, c>> # <<>>
OBVIOUS

\* The steps that SendOrder returns: acknowledgements without a quantity from
\* the BingX client, fills of the order itself from the paper exchange.
LEMMA SendReturnSteps ==
  ASSUME Inductive, NEW h \in Orders, SendReturn(h)
  PROVE  \E list \in Seq(Step) :
           /\ steps' = [steps EXCEPT ![h] = list]
           /\ list # <<>>
           /\ \A i \in 1 .. Len(list) : /\ list[i].ex \in {None, ExOf[h]}
                                        /\ list[i].qty > 0 => ~Async /\ list[i].ex = ExOf[h]
<1>0. ExOf[h] \in ExIDs
  BY ExchangeAssumption
<1>1. CASE SendReturnAsync(h)
  <2>1. PICK x \in {None, ExOf[h]} : steps' = [steps EXCEPT ![h] = <<AckStep(x)>>]
    BY <1>1 DEF SendReturnAsync
  <2>2. AckStep(x) \in Step /\ AckStep(x).ex = x /\ AckStep(x).qty = 0
    BY <1>0 DEF AckStep, Step, Open
  <2> DEFINE list == <<AckStep(x)>>
  <2>3. list \in Seq(Step) /\ list # <<>>
    BY <2>2, StepLists
  <2>4. \A i \in 1 .. Len(list) : list[i] = AckStep(x)
    OBVIOUS
  <2>5. steps' = [steps EXCEPT ![h] = list]
    BY <2>1
  <2>6. \A i \in 1 .. Len(list) : list[i].ex = x /\ list[i].qty = 0
    BY <2>2, <2>4
  <2> HIDE DEF list
  <2>7. \A i \in 1 .. Len(list) : /\ list[i].ex \in {None, ExOf[h]}
                                  /\ list[i].qty > 0 => ~Async /\ list[i].ex = ExOf[h]
    BY <2>6
  <2> QED BY <2>3, <2>5, <2>7
<1>2. CASE SendReturnPaper(h)
  <2> DEFINE size == reserved[h].size
             half == size \div 2
             ack == [status |-> "ACK", ex |-> ExOf[h], qty |-> 0]
             fill(s, q) == [status |-> s, ex |-> ExOf[h], qty |-> q]
  <2>1. ~Async /\ steps' = [steps EXCEPT ![h] = PaperSteps(h)]
    BY <1>2 DEF SendReturnPaper
  <2>2. size \in Nat
    <3>1. pc[h] = "send"
      BY DEF SendReturn, Goto
    <3> QED BY <3>1 DEF Inductive, Control, Order
  <2>3. half \in Nat /\ size - half \in Nat
    <3> HIDE DEF size
    <3> QED BY <2>2
  <2>4. \A q \in Nat : fill("PARTIAL", q) \in Step /\ fill("FILLED", q) \in Step
    BY <1>0 DEF Step, Open, Terminal
  <2>5. ack \in Step
    BY <1>0 DEF Step, Open
  <2>6. PaperSteps(h) \in {<<ack, fill("PARTIAL", half), fill("FILLED", size - half)>>,
                           <<ack, fill("FILLED", size)>>}
    BY DEF PaperSteps, AckStep
  <2>7. \A i \in 1 .. Len(PaperSteps(h)) : PaperSteps(h)[i].ex = ExOf[h]
    BY <2>6
  <2>8. PaperSteps(h) \in Seq(Step) /\ PaperSteps(h) # <<>>
    <3> HIDE DEF ack, fill, half, size
    <3> QED BY <2>2, <2>3, <2>4, <2>5, <2>6, StepLists
  <2> QED BY <2>1, <2>7, <2>8
<1> QED BY <1>1, <1>2 DEF SendReturn

\* SendOrder returns the steps that are still to be applied.
LEMMA SendReturnInductive == ASSUME Inductive, NEW h \in Orders, SendReturn(h) PROVE Inductive'
<1>0. StoreTypeOK /\ ExchangeTypeOK /\ GatewayTypeOK
  BY DEF Inductive, TypeOK
<1>1. /\ pc[h] = "send" /\ pc' = [pc EXCEPT ![h] = "step"]
      /\ UNCHANGED <<storeVars, channel, stream, req, snap, victim, reserved, consumer, call>>
  BY DEF SendReturn, Goto
<1>2. h \in Known /\ h \in Placed /\ reserved[h] \in Order
  BY <1>1 DEF Inductive, Control, Stored, Sent
<1>3. PICK list \in Seq(Step) :
        /\ steps' = [steps EXCEPT ![h] = list]
        /\ list # <<>>
        /\ \A i \in 1 .. Len(list) : /\ list[i].ex \in {None, ExOf[h]}
                                     /\ list[i].qty > 0 => ~Async /\ list[i].ex = ExOf[h]
  BY SendReturnSteps
<1>4. /\ book' \in [Orders -> Remote \cup {NoRemote}]
      /\ Placed' = Placed
      /\ \A o \in Placed : book'[o].key = book[o].key
  <2>1. CASE SendReturnAsync(h)
    BY <1>0, <2>1 DEF SendReturnAsync, ExchangeTypeOK, Placed
  <2>2. CASE SendReturnPaper(h)
    <3> DEFINE rec == [book[h] EXCEPT !.state = "filled", !.executed = reserved[h].size]
    <3>1. book[h] \in Remote /\ reserved[h].size \in Nat
      BY <1>0, <1>2, PlacedOrders DEF Order
    <3>2. rec \in Remote /\ rec.key = book[h].key
      BY <3>1 DEF Remote, RemoteStates
    <3>3. book' = [book EXCEPT ![h] = rec]
      BY <1>0, <2>2, <3>1 DEF SendReturnPaper, ExchangeTypeOK
    <3> HIDE DEF rec
    <3> QED BY <1>0, <1>2, <3>2, <3>3, BookEffect
  <2> QED BY <2>1, <2>2 DEF SendReturn
<1>5. StoreQuiet
  BY <1>0, <1>1, SameStoreQuiet
<1>6. \A g \in Orders : g # h => pc'[g] = pc[g] /\ steps'[g] = steps[g]
  BY <1>0, <1>1, <1>3 DEF GatewayTypeOK
<1>7. pc'[h] = "step" /\ steps'[h] = list
  BY <1>0, <1>1, <1>3 DEF GatewayTypeOK
<1>8. TypeOK'
  BY <1>0, <1>1, <1>3, <1>4, <1>5
     DEF TypeOK, ExchangeTypeOK, GatewayTypeOK, StoreQuiet, PCs
<1>9. Control'
  BY <1>1, <1>2, <1>3, <1>4, <1>5, <1>6, <1>7
     DEF Inductive, Control, Stored, Sent, StoreQuiet, storeVars
<1>10. Ownership'
  BY <1>4, <1>5, WorkedOn DEF Inductive, Ownership, StoreQuiet
<1>11. ReportsFindTheirOrder'
  BY <1>1, <1>5 DEF Inductive, ReportsFindTheirOrder, StoreQuiet
<1>12. Bindings'
  <2>1. BindingConsistent'
    BY <1>5 DEF Inductive, Bindings, BindingConsistent, StoreQuiet
  <2> QED BY <1>1, <1>3, <1>4, <1>5, <1>6, <1>7, <2>1, WorkedOn
          DEF Inductive, Bindings, StoreQuiet
<1>13. Fills'
  <2>1. \A g \in Orders : \A i \in 1 .. Len(steps'[g]) :
          steps'[g][i].qty > 0 => ~Async /\ steps'[g][i].ex = ExOf[g]
    BY <1>3, <1>6, <1>7 DEF Inductive, Fills
  <2>2. ledgerQty' = ledgerQty /\ \A g \in Orders : pc'[g] # "failed" => pc[g] # "failed"
    BY <1>1, <1>5, <1>6 DEF StoreQuiet
  <2> QED BY <1>1, <1>4, <2>1, <2>2, WorkedOn DEF Inductive, Fills
<1>14. FilledTracksLedger'
  <2>1. \A g \in Known : g \in Orders /\ (pc'[g] # "failed" => pc[g] # "failed")
    BY <1>1, <1>6 DEF Known
  <2> QED BY <1>5, <2>1 DEF Inductive, FilledTracksLedger, StoreQuiet
<1> QED BY <1>8, <1>9, <1>10, <1>11, <1>12, <1>13, <1>14 DEF Inductive

-----------------------------------------------------------------------------
(* The two critical sections of applyStep, from either goroutine *)

\* Binding an exchange id that is the order's own, or none.
BoundStore(o) ==
  /\ StoreTypeOK' /\ Known' = Known
  /\ \A p \in Known : /\ orders'[p].key = orders[p].key
                      /\ orders'[p].filled = orders[p].filled
                      /\ orders'[p].ex \in {None, ExOf[p]}
                      /\ p # o => orders'[p].ex = orders[p].ex
  /\ UNCHANGED <<idempotency, ledgerQty>>
  /\ BindingConsistent'
  /\ \A x \in ExIDs : exchangeIDs[x] # None => exchangeIDs'[x] = exchangeIDs[x]

\* Indexing the order's own exchange id keeps the index consistent, and
\* re-points nothing, because no other order has that id.
LEMMA IndexOwnID ==
  ASSUME Inductive, NEW o \in Known, Known' = Known,
         \A p \in Known \ {o} : orders'[p].ex = orders[p].ex,
         orders'[o].ex \in {None, ExOf[o]},
         exchangeIDs' = [exchangeIDs EXCEPT ![ExOf[o]] = o]
  PROVE  /\ BindingConsistent'
         /\ \A x \in ExIDs : exchangeIDs[x] # None => exchangeIDs'[x] = exchangeIDs[x]
<1>0. StoreTypeOK /\ o \in Orders /\ ExOf[o] \in ExIDs /\ o # None
  BY ExchangeAssumption, OrderStoreAssumption DEF Inductive, TypeOK, Known
<1>1. BindingConsistent /\ \A p \in Known : p \in Orders /\ orders[p].ex \in {None, ExOf[p]}
  BY DEF Inductive, Bindings, Known
<1>2. \A y \in ExIDs : exchangeIDs'[y] = IF y = ExOf[o] THEN o ELSE exchangeIDs[y]
  BY <1>0 DEF StoreTypeOK
<1>3. ASSUME NEW p \in Known, orders'[p].ex # None
      PROVE  exchangeIDs'[orders'[p].ex] = p
  <2>1. CASE p = o
    BY <1>0, <1>2, <1>3, <2>1
  <2>2. CASE p # o
    <3>1. orders'[p].ex = ExOf[p] /\ p \in Orders /\ orders[p].ex = ExOf[p]
      BY <1>1, <1>3, <2>2
    <3>2. ExOf[p] # ExOf[o] /\ ExOf[p] \in ExIDs
      BY <1>0, <2>2, <3>1, ExchangeAssumption
    <3>3. exchangeIDs[ExOf[p]] = p
      BY <1>1, <1>3, <3>1 DEF BindingConsistent
    <3> QED BY <1>2, <3>1, <3>2, <3>3
  <2> QED BY <2>1, <2>2
<1>4. ASSUME NEW y \in ExIDs, exchangeIDs'[y] # None
      PROVE  exchangeIDs'[y] \in Known /\ ExOf[exchangeIDs'[y]] = y
  BY <1>1, <1>2, <1>4 DEF BindingConsistent
<1>5. \A y \in ExIDs : exchangeIDs[y] # None => exchangeIDs'[y] = exchangeIDs[y]
  <2>1. ASSUME exchangeIDs[ExOf[o]] # None PROVE exchangeIDs[ExOf[o]] = o
    BY <1>0, <1>1, <2>1, ExchangeAssumption DEF BindingConsistent, Known
  <2> QED BY <1>2, <2>1
<1> QED BY <1>3, <1>4, <1>5 DEF BindingConsistent

\* The first critical section binds consistently.
LEMMA BindKeepsConsistent ==
  ASSUME Inductive, NEW o \in Known, NEW x \in {None, ExOf[o]}, Bind(o, x)
  PROVE  BoundStore(o)
<1>0. StoreTypeOK /\ o \in Orders /\ ExOf[o] \in ExIDs /\ BindingConsistent
  BY ExchangeAssumption DEF Inductive, TypeOK, Bindings, Known
<1>1. /\ StoreStep(o)
      /\ orders'[o].filled = orders[o].filled
      /\ ledgerQty' = ledgerQty
      /\ x = None => UNCHANGED <<orders, exchangeIDs>>
      /\ x # None => /\ orders'[o].ex = x
                     /\ exchangeIDs' = [exchangeIDs EXCEPT ![x] = o]
  BY <1>0, BindStep
<1>2. /\ StoreTypeOK' /\ Known' = Known /\ UNCHANGED <<idempotency, ledgerQty>>
      /\ \A p \in Known \ {o} : p \in Orders /\ orders'[p] = orders[p]
      /\ orders'[o].key = orders[o].key
  BY <1>1 DEF StoreStep, OthersKept, Known
<1>3. \A p \in Known : orders[p].ex \in {None, ExOf[p]}
  BY DEF Inductive, Bindings
<1>4. CASE x = None
  <2>1. BindingConsistent'
    BY <1>0, <1>1, <1>2, <1>4 DEF BindingConsistent
  <2> QED BY <1>1, <1>2, <1>3, <1>4, <2>1 DEF BoundStore
<1>5. CASE x # None
  BY <1>1, <1>2, <1>3, <1>5, IndexOwnID DEF BoundStore
<1> QED BY <1>4, <1>5

\* Doing what the status of a step or report says: at most the fill it carries
\* is booked, on the order and in the ledger alike.
AppliedStore(o) ==
  /\ StoreTypeOK' /\ Known' = Known
  /\ \A p \in Known : orders'[p].key = orders[p].key /\ orders'[p].ex = orders[p].ex
  /\ UNCHANGED <<idempotency, exchangeIDs>>
  /\ \A p \in Orders : p # o => ledgerQty'[ExOf[p]] = ledgerQty[ExOf[p]]
  /\ \A p \in Known : /\ orders'[p].filled <= ledgerQty'[ExOf[p]]
                      /\ pc[p] # "failed" => orders'[p].filled = ledgerQty'[ExOf[p]]

\* The second keeps the filled quantities and the ledger together.
LEMMA ApplyKeepsLedger ==
  ASSUME Inductive, NEW o \in Placed, NEW m \in Step \cup Report,
         m.qty > 0 => m.ex = ExOf[o], ApplyStatus(o, m)
  PROVE  /\ AppliedStore(o)
         /\ m.qty > 0 \/ ledgerQty' = ledgerQty
<1>0. StoreTypeOK /\ o \in Known /\ o \in Orders /\ BindingConsistent /\ FilledTracksLedger
  BY WorkedOn DEF Inductive, TypeOK, Bindings
<1>1. \/ QuietStep(o)
      \/ /\ StoreStep(o)
         /\ m.qty > 0 /\ m.qty \in Nat
         /\ exchangeIDs' = exchangeIDs
         /\ orders'[o].ex = orders[o].ex
         /\ orders'[o].filled = orders[o].filled + m.qty
         /\ ledgerQty' = [ledgerQty EXCEPT ![ExOf[o]] = ledgerQty[ExOf[o]] + m.qty]
  BY <1>0, ApplyStatusStep
<1>2. /\ StoreTypeOK' /\ Known' = Known /\ idempotency' = idempotency
      /\ exchangeIDs' = exchangeIDs
      /\ orders'[o].key = orders[o].key /\ orders'[o].ex = orders[o].ex
      /\ \A p \in Known \ {o} : p \in Orders /\ orders'[p] = orders[p]
  BY <1>1 DEF QuietStep, StoreStep, OthersKept, Known
<1>3. \A p \in Orders : ledgerQty[ExOf[p]] \in Nat
  BY <1>0, ExchangeAssumption DEF StoreTypeOK
<1>4. \A p \in Known : orders[p].filled \in Nat
  BY <1>0, KnownOrders DEF Order, Known
<1>5. CASE QuietStep(o)
  <2>1. ledgerQty' = ledgerQty /\ orders'[o].filled = orders[o].filled
    BY <1>5 DEF QuietStep
  <2> QED BY <1>0, <1>2, <2>1 DEF AppliedStore, FilledTracksLedger
<1>6. CASE /\ m.qty > 0 /\ m.qty \in Nat
           /\ orders'[o].filled = orders[o].filled + m.qty
           /\ ledgerQty' = [ledgerQty EXCEPT ![ExOf[o]] = ledgerQty[ExOf[o]] + m.qty]
  <2>1. \A p \in Orders : ledgerQty'[ExOf[p]] =
          IF p = o THEN ledgerQty[ExOf[p]] + m.qty ELSE ledgerQty[ExOf[p]]
    BY <1>0, <1>6, ExchangeAssumption DEF StoreTypeOK
  <2>2. \A p \in Known : /\ orders'[p].filled <= ledgerQty'[ExOf[p]]
                         /\ pc[p] # "failed" => orders'[p].filled = ledgerQty'[ExOf[p]]
    <3>1. /\ orders'[o].filled <= ledgerQty'[ExOf[o]]
          /\ pc[o] # "failed" => orders'[o].filled = ledgerQty'[ExOf[o]]
      BY <1>0, <1>3, <1>4, <1>6, <2>1 DEF FilledTracksLedger
    <3>2. ASSUME NEW p \in Known \ {o}
          PROVE  /\ orders'[p].filled <= ledgerQty'[ExOf[p]]
                 /\ pc[p] # "failed" => orders'[p].filled = ledgerQty'[ExOf[p]]
      BY <1>0, <1>2, <2>1, <3>2 DEF FilledTracksLedger
    <3> QED BY <3>1, <3>2
  <2> QED BY <1>2, <1>6, <2>1, <2>2 DEF AppliedStore
<1> QED BY <1>1, <1>5, <1>6

\* The head of a Submit call's steps is what the invariant says of every step.
LEMMA HeadStep ==
  ASSUME Inductive, NEW h \in Orders, pc[h] \in {"step", "apply"}
  PROVE  /\ h \in Placed /\ h \in Known
         /\ steps[h] \in Seq(Step) /\ steps[h] # <<>>
         /\ Head(steps[h]) = steps[h][1] /\ 1 \in 1 .. Len(steps[h])
         /\ Head(steps[h]) \in Step
         /\ Head(steps[h]).ex \in {None, ExOf[h]}
         /\ Head(steps[h]).qty > 0 => ~Async /\ Head(steps[h]).ex = ExOf[h]
<1>1. h \in Placed /\ h \in Known /\ steps[h] # <<>>
  BY DEF Inductive, Control, Stored, Sent
<1>2. steps[h] \in Seq(Step)
  BY DEF Inductive, TypeOK, GatewayTypeOK
<1>3. Head(steps[h]) = steps[h][1] /\ 1 \in 1 .. Len(steps[h]) /\ Head(steps[h]) \in Step
  BY <1>1, <1>2
<1> QED BY <1>1, <1>2, <1>3 DEF Inductive, Bindings, Fills

\* A Submit call binds the id of its next step ...
LEMMA StepBindInductive == ASSUME Inductive, NEW h \in Orders, StepBind(h) PROVE Inductive'
<1>0. StoreTypeOK /\ ExchangeTypeOK /\ GatewayTypeOK
  BY DEF Inductive, TypeOK
<1>1. /\ pc[h] = "step" /\ pc' = [pc EXCEPT ![h] = "apply"]
      /\ Bind(h, Head(steps[h]).ex)
      /\ UNCHANGED <<exchangeVars, req, snap, victim, reserved, steps, consumer, call>>
  BY DEF StepBind, Goto
<1>2. h \in Known /\ h \in Placed /\ Head(steps[h]).ex \in {None, ExOf[h]} /\ steps[h] # <<>>
  BY <1>1, HeadStep
<1>3. BoundStore(h)
  BY <1>1, <1>2, BindKeepsConsistent
<1>4. Placed' = Placed /\ UNCHANGED <<book, channel, stream>>
  BY <1>1 DEF Placed, exchangeVars
<1>5. pc'[h] = "apply" /\ \A g \in Orders : g # h => pc'[g] = pc[g]
  BY <1>0, <1>1 DEF GatewayTypeOK
<1>6. TypeOK'
  BY <1>0, <1>1, <1>3, <1>4 DEF TypeOK, ExchangeTypeOK, GatewayTypeOK, BoundStore, PCs
<1>7. Control'
  BY <1>1, <1>2, <1>3, <1>4, <1>5 DEF Inductive, Control, Stored, Sent, BoundStore
<1>8. Ownership'
  BY <1>3, <1>4, WorkedOn DEF Inductive, Ownership, BoundStore
<1>9. ReportsFindTheirOrder'
  BY <1>1, <1>3, <1>4 DEF Inductive, ReportsFindTheirOrder, BoundStore
<1>10. Bindings'
  BY <1>1, <1>2, <1>3, <1>4, WorkedOn DEF Inductive, Bindings, BoundStore
<1>11. Fills'
  <2>1. \A g \in Orders : pc'[g] # "failed" => pc[g] # "failed"
    BY <1>1, <1>5
  <2> QED BY <1>1, <1>3, <1>4, <2>1, WorkedOn DEF Inductive, Fills, BoundStore
<1>12. FilledTracksLedger'
  BY <1>1, <1>3, <1>5, WorkedOn DEF Inductive, FilledTracksLedger, BoundStore
<1> QED BY <1>6, <1>7, <1>8, <1>9, <1>10, <1>11, <1>12 DEF Inductive

\* ... and applies it.
LEMMA StepApplyInductive == ASSUME Inductive, NEW h \in Orders, StepApply(h) PROVE Inductive'
<1>0. StoreTypeOK /\ ExchangeTypeOK /\ GatewayTypeOK
  BY DEF Inductive, TypeOK
<1>1. /\ pc[h] = "apply"
      /\ pc' = [pc EXCEPT ![h] = IF Len(steps[h]) = 1 THEN "done" ELSE "step"]
      /\ ApplyStatus(h, Head(steps[h]))
      /\ steps' = [steps EXCEPT ![h] = Tail(steps[h])]
      /\ UNCHANGED <<exchangeVars, req, snap, victim, reserved, consumer, call>>
  BY DEF StepApply, Goto
<1> DEFINE m == Head(steps[h])
<1>2. /\ h \in Placed /\ h \in Known /\ m \in Step /\ m \in Step \cup Report
      /\ m.qty > 0 => ~Async /\ m.ex = ExOf[h]
      /\ steps[h] \in Seq(Step) /\ steps[h] # <<>>
  BY <1>1, HeadStep
<1>3. AppliedStore(h) /\ (m.qty > 0 \/ ledgerQty' = ledgerQty)
  <2> HIDE DEF m
  <2>1. ApplyStatus(h, m)
    BY <1>1 DEF m
  <2> QED BY <1>2, <2>1, ApplyKeepsLedger
<1>4. Placed' = Placed /\ UNCHANGED <<book, channel, stream>>
  BY <1>1 DEF Placed, exchangeVars
<1>5. /\ \A g \in Orders : g # h => pc'[g] = pc[g] /\ steps'[g] = steps[g]
      /\ pc'[h] = (IF Len(steps[h]) = 1 THEN "done" ELSE "step")
      /\ steps'[h] = Tail(steps[h])
  BY <1>0, <1>1 DEF GatewayTypeOK
<1>6. /\ Tail(steps[h]) \in Seq(Step)
      /\ Len(steps[h]) # 1 => Tail(steps[h]) # <<>>
      /\ \A i \in 1 .. Len(Tail(steps[h])) :
           Tail(steps[h])[i] = steps[h][i + 1] /\ i + 1 \in 1 .. Len(steps[h])
  <2> DEFINE s == steps[h]
  <2>1. s \in Seq(Step) /\ s # <<>>
    BY <1>2
  <2> HIDE DEF s
  <2>2. /\ Tail(s) \in Seq(Step) /\ Len(Tail(s)) = Len(s) - 1 /\ Len(s) \in Nat
        /\ \A i \in 1 .. Len(Tail(s)) : Tail(s)[i] = s[i + 1]
    BY <2>1, HeadTailProperties
  <2>3. Len(s) # 1 => Tail(s) # <<>>
    <3>1. Len(s) # 0
      BY <2>1, EmptySeq
    <3>2. Len(s) # 1 => Len(Tail(s)) # 0
      BY <2>2, <3>1
    <3> QED BY <3>2
  <2>4. \A i \in 1 .. Len(Tail(s)) : i + 1 \in 1 .. Len(s)
    BY <2>2
  <2> QED BY <2>2, <2>3, <2>4 DEF s
<1>7. TypeOK'
  BY <1>0, <1>1, <1>3, <1>4, <1>6
     DEF TypeOK, ExchangeTypeOK, GatewayTypeOK, AppliedStore, PCs, Returned
<1>8. Control'
  BY <1>1, <1>2, <1>3, <1>4, <1>5, <1>6 DEF Inductive, Control, Stored, Sent, AppliedStore
<1>9. Ownership'
  BY <1>3, <1>4, WorkedOn DEF Inductive, Ownership, AppliedStore
<1>10. ReportsFindTheirOrder'
  BY <1>1, <1>3, <1>4 DEF Inductive, ReportsFindTheirOrder, AppliedStore
<1>11. Bindings'
  <2>1. BindingConsistent'
    BY <1>3 DEF Inductive, Bindings, BindingConsistent, AppliedStore
  <2>2. \A g \in Orders : \A i \in 1 .. Len(steps'[g]) : steps'[g][i].ex \in {None, ExOf[g]}
    <3>1. \A g \in Orders : \A i \in 1 .. Len(steps[g]) : steps[g][i].ex \in {None, ExOf[g]}
      BY DEF Inductive, Bindings
    <3>2. ASSUME NEW i \in 1 .. Len(steps'[h]) PROVE steps'[h][i].ex \in {None, ExOf[h]}
      BY <1>5, <1>6, <3>1
    <3> QED BY <1>5, <3>1, <3>2
  <2> QED BY <1>1, <1>3, <1>4, <2>1, <2>2, WorkedOn DEF Inductive, Bindings, AppliedStore
<1>12. Fills'
  <2>1. \A g \in Orders : \A i \in 1 .. Len(steps'[g]) :
          steps'[g][i].qty > 0 => ~Async /\ steps'[g][i].ex = ExOf[g]
    <3>1. \A g \in Orders : \A i \in 1 .. Len(steps[g]) :
            steps[g][i].qty > 0 => ~Async /\ steps[g][i].ex = ExOf[g]
      BY DEF Inductive, Fills
    <3>2. ASSUME NEW i \in 1 .. Len(steps'[h])
          PROVE  steps'[h][i].qty > 0 => ~Async /\ steps'[h][i].ex = ExOf[h]
      BY <1>5, <1>6, <3>1
    <3> QED BY <1>5, <3>1, <3>2
  <2>2. \A g \in Orders \ Placed : ledgerQty'[ExOf[g]] = 0
    BY <1>2, <1>3 DEF Inductive, Fills, AppliedStore
  <2>3. consumer.pc = "reject" => Async
    BY DEF Inductive, Fills, ConsumerIdle
  <2>4. consumer.pc = "reject" => ledgerQty' = ledgerQty
    BY <1>2, <1>3, <2>3
  <2>5. \A g \in Orders : pc'[g] # "failed" => pc[g] # "failed"
    BY <1>1, <1>5
  <2> QED BY <1>1, <1>4, <2>1, <2>2, <2>4, <2>5, WorkedOn DEF Inductive, Fills
<1>13. FilledTracksLedger'
  <2>1. \A g \in Known : pc'[g] # "failed" => pc[g] # "failed"
    BY <1>1, <1>5, WorkedOn
  <2> QED BY <1>3, <2>1 DEF FilledTracksLedger, AppliedStore
<1> QED BY <1>7, <1>8, <1>9, <1>10, <1>11, <1>12, <1>13 DEF Inductive

-----------------------------------------------------------------------------
(* The consumer of reports *)

\* The report at the head of the channel names the order it is about.
LEMMA HeadReport ==
  ASSUME Inductive, channel # <<>>
  PROVE  /\ Head(channel) \in Report
         /\ Resolve(Head(channel)) \in Placed
         /\ ExOf[Resolve(Head(channel))] = Head(channel).ex
         /\ Tail(channel) \in Seq(Report)
         /\ \A i \in 1 .. Len(Tail(channel)) :
              Tail(channel)[i] = channel[i + 1] /\ i + 1 \in 1 .. Len(channel)
<1>1. channel \in Seq(Report)
  BY DEF Inductive, TypeOK, ExchangeTypeOK
<1>2. /\ Head(channel) \in Report /\ Tail(channel) \in Seq(Report)
      /\ Len(Tail(channel)) = Len(channel) - 1 /\ Len(channel) \in Nat
      /\ \A i \in 1 .. Len(Tail(channel)) : Tail(channel)[i] = channel[i + 1]
  BY <1>1, HeadTailProperties
<1>3. Head(channel) = channel[1] /\ 1 \in 1 .. Len(channel)
  BY <1>1
<1>4. \A i \in 1 .. Len(Tail(channel)) : i + 1 \in 1 .. Len(channel)
  BY <1>2
<1>5. LET k == Head(channel).key
      IN /\ idempotency[k] # None /\ idempotency[k] \in Placed
         /\ ExOf[idempotency[k]] = Head(channel).ex
  BY <1>3 DEF Inductive, Control, ReportsFindTheirOrder
<1> QED BY <1>2, <1>4, <1>5 DEF Resolve

\* The consumer takes a report and binds its exchange id ...
LEMMA ConsumerTakeInductive == ASSUME Inductive, ConsumerTake PROVE Inductive'
<1>0. StoreTypeOK /\ ExchangeTypeOK /\ GatewayTypeOK
  BY DEF Inductive, TypeOK
<1> DEFINE m == Head(channel)
           o == Resolve(m)
<1>1. /\ consumer = ConsumerIdle /\ channel # <<>> /\ channel' = Tail(channel)
      /\ UNCHANGED <<book, stream, submitVars, call>>
  BY DEF ConsumerTake
<1>2. /\ m \in Report /\ o \in Placed /\ ExOf[o] = m.ex
      /\ channel' \in Seq(Report)
      /\ \A i \in 1 .. Len(channel') :
           channel'[i] = channel[i + 1] /\ i + 1 \in 1 .. Len(channel)
  BY <1>1, HeadReport
<1>3. /\ o \in Known /\ o \in Orders /\ o # None /\ m.ex \in ExIDs /\ m.ex # None
      /\ m.ex \in {None, ExOf[o]}
  BY <1>2, WorkedOn, OrderStoreAssumption DEF Report
<1>4. BindExchangeOrderID(o, m.ex) /\ consumer' = [pc |-> "apply", order |-> o, msg |-> m]
  BY <1>3 DEF ConsumerTake
<1> HIDE DEF m, o
<1>5. BoundStore(o)
  <2>1. Bind(o, m.ex)
    BY <1>3, <1>4 DEF Bind
  <2> QED BY <1>3, <2>1, BindKeepsConsistent
<1>6. Placed' = Placed /\ UNCHANGED <<pc, req, snap, victim, reserved, steps>>
  BY <1>1 DEF Placed, submitVars
<1>7. consumer' \in Consumer /\ consumer'.pc = "apply" /\ consumer'.order = o /\ consumer'.msg = m
  BY <1>2, <1>3, <1>4 DEF Consumer
<1>8. TypeOK'
  BY <1>0, <1>1, <1>2, <1>5, <1>6, <1>7 DEF TypeOK, ExchangeTypeOK, GatewayTypeOK, BoundStore
<1>9. Control'
  BY <1>2, <1>5, <1>6, <1>7 DEF Inductive, Control, BoundStore, Stored
<1>10. Ownership'
  BY <1>1, <1>5, <1>6, WorkedOn DEF Inductive, Ownership, BoundStore
<1>11. ReportsFindTheirOrder'
  BY <1>2, <1>5, <1>7 DEF Inductive, ReportsFindTheirOrder, BoundStore
<1>12. Bindings'
  BY <1>2, <1>5, <1>6, <1>7, WorkedOn DEF Inductive, Bindings, BoundStore
<1>13. Fills'
  BY <1>1, <1>5, <1>6, <1>7 DEF Inductive, Fills, BoundStore
<1>14. FilledTracksLedger'
  BY <1>5, <1>6 DEF Inductive, FilledTracksLedger, BoundStore
<1> QED BY <1>8, <1>9, <1>10, <1>11, <1>12, <1>13, <1>14 DEF Inductive

\* ... and applies it.
LEMMA ConsumerApplyInductive == ASSUME Inductive, ConsumerApply PROVE Inductive'
<1>0. StoreTypeOK /\ ExchangeTypeOK /\ GatewayTypeOK
  BY DEF Inductive, TypeOK
<1> DEFINE m == consumer.msg
           o == consumer.order
<1>1. /\ consumer.pc = "apply" /\ ApplyStatus(o, m) /\ consumer' = ConsumerIdle
      /\ UNCHANGED <<exchangeVars, submitVars, call>>
  BY DEF ConsumerApply
<1>2. m \in Report /\ o \in Placed /\ ExOf[o] = m.ex /\ consumer # ConsumerIdle
  <2>1. consumer \in Consumer /\ consumer # ConsumerIdle
    BY <1>0, <1>1 DEF GatewayTypeOK, ConsumerIdle
  <2> QED BY <1>1, <2>1, WorkedOn DEF Consumer, Inductive, ReportsFindTheirOrder
<1> HIDE DEF m, o
<1>3. AppliedStore(o)
  BY <1>1, <1>2, ApplyKeepsLedger
<1>4. /\ Placed' = Placed /\ UNCHANGED <<book, channel, stream>>
      /\ UNCHANGED <<pc, req, snap, victim, reserved, steps>>
  BY <1>1 DEF Placed, exchangeVars, submitVars
<1>5. consumer' \in Consumer /\ consumer'.pc = "idle"
  BY <1>1 DEF Consumer, ConsumerIdle
<1>6. TypeOK'
  BY <1>0, <1>1, <1>3, <1>4, <1>5 DEF TypeOK, ExchangeTypeOK, GatewayTypeOK, AppliedStore
<1>7. Control'
  BY <1>1, <1>3, <1>4 DEF Inductive, Control, AppliedStore, Stored
<1>8. Ownership'
  BY <1>3, <1>4, WorkedOn DEF Inductive, Ownership, AppliedStore
<1>9. ReportsFindTheirOrder'
  BY <1>1, <1>3, <1>4 DEF Inductive, ReportsFindTheirOrder, AppliedStore
<1>10. Bindings'
  <2>1. BindingConsistent'
    BY <1>3 DEF Inductive, Bindings, BindingConsistent, AppliedStore
  <2> QED BY <1>3, <1>4, <1>5, <2>1 DEF Inductive, Bindings, AppliedStore
<1>11. Fills'
  <2>1. \A g \in Orders \ Placed : ledgerQty'[ExOf[g]] = 0
    BY <1>2, <1>3 DEF Inductive, Fills, AppliedStore
  <2> QED BY <1>1, <1>4, <1>5, <2>1 DEF Inductive, Fills
<1>12. FilledTracksLedger'
  BY <1>3, <1>4 DEF FilledTracksLedger, AppliedStore
<1> QED BY <1>6, <1>7, <1>8, <1>9, <1>10, <1>11, <1>12 DEF Inductive

\* Reading a rejected order: the copy is the order as it is.
LEMMA ConsumerReadInductive == ASSUME Inductive, ConsumerReadRejected PROVE Inductive'
<1>0. StoreTypeOK /\ ExchangeTypeOK /\ GatewayTypeOK
  BY DEF Inductive, TypeOK
<1> DEFINE o == consumer.order
           copy == [orders[o] EXCEPT !.status = "REJECTED"]
<1>1. /\ consumer.pc = "apply"
      /\ consumer' = [pc |-> "reject", order |-> o, copy |-> copy]
      /\ UNCHANGED <<storeVars, exchangeVars, submitVars, call>>
  BY DEF ConsumerReadRejected
<1>2. consumer # ConsumerIdle /\ o \in Placed /\ o \in Known /\ o \in Orders
  BY <1>1, WorkedOn DEF ConsumerIdle
<1>3. orders[o] \in Order
  BY <1>0, <1>2, KnownOrders
<1>4. /\ copy \in Order /\ copy.key = orders[o].key /\ copy.ex = orders[o].ex
      /\ copy.filled = orders[o].filled
  BY <1>3 DEF Order, Terminal
<1> HIDE DEF copy, o
<1>5. /\ consumer' \in Consumer /\ consumer'.pc = "reject" /\ consumer'.order = o
      /\ consumer'.copy = copy
  BY <1>1, <1>2, <1>4 DEF Consumer
<1>6. StoreQuiet
  BY <1>0, <1>1, SameStoreQuiet
<1>7. /\ Placed' = Placed /\ UNCHANGED <<orders, book, channel, stream>>
      /\ UNCHANGED <<pc, req, snap, victim, reserved, steps>>
  BY <1>1 DEF Placed, exchangeVars, submitVars, storeVars
<1>8. TypeOK'
  BY <1>0, <1>1, <1>5, <1>6, <1>7 DEF TypeOK, ExchangeTypeOK, GatewayTypeOK, StoreQuiet
<1>9. Control'
  BY <1>2, <1>5, <1>6, <1>7 DEF Inductive, Control, StoreQuiet, Stored
<1>10. Ownership'
  BY <1>6, <1>7, WorkedOn DEF Inductive, Ownership, StoreQuiet
<1>11. ReportsFindTheirOrder'
  BY <1>5, <1>6, <1>7 DEF Inductive, ReportsFindTheirOrder, StoreQuiet
<1>12. Bindings'
  <2>1. BindingConsistent'
    BY <1>6 DEF Inductive, Bindings, BindingConsistent, StoreQuiet
  <2> QED BY <1>2, <1>4, <1>5, <1>6, <1>7, <2>1 DEF Inductive, Bindings, StoreQuiet
<1>13. Fills'
  <2>1. /\ copy.filled <= ledgerQty[ExOf[o]]
        /\ pc[o] # "failed" => copy.filled = ledgerQty[ExOf[o]]
    BY <1>2, <1>4 DEF Inductive, FilledTracksLedger
  <2>2. Async
    BY <1>2 DEF Inductive, Fills
  <2> QED BY <1>1, <1>5, <1>6, <1>7, <2>1, <2>2 DEF Inductive, Fills, StoreQuiet
<1>14. FilledTracksLedger'
  BY <1>6, <1>7 DEF Inductive, FilledTracksLedger, StoreQuiet
<1> QED BY <1>8, <1>9, <1>10, <1>11, <1>12, <1>13, <1>14 DEF Inductive

\* Writing the copy back, although the order may have changed since.
LEMMA ConsumerWriteInductive == ASSUME Inductive, ConsumerWriteRejected PROVE Inductive'
<1>0. StoreTypeOK /\ ExchangeTypeOK /\ GatewayTypeOK /\ BindingConsistent
  BY DEF Inductive, TypeOK, Bindings
<1> DEFINE o == consumer.order
           copy == consumer.copy
<1>1. /\ consumer.pc = "reject" /\ UpdateOrder(o, copy) /\ consumer' = ConsumerIdle
      /\ UNCHANGED <<exchangeVars, submitVars, call>>
  BY DEF ConsumerWriteRejected
<1>2. /\ consumer # ConsumerIdle /\ o \in Placed /\ o \in Known /\ o \in Orders
      /\ copy.ex \in {None, ExOf[o]} /\ copy.key = orders[o].key
      /\ copy.filled <= ledgerQty[ExOf[o]]
      /\ pc[o] # "failed" => copy.filled = ledgerQty[ExOf[o]]
  BY <1>1, WorkedOn DEF Inductive, Bindings, Fills
<1>3. copy \in Order
  <2>1. consumer \in Consumer
    BY <1>0 DEF GatewayTypeOK
  <2> QED BY <1>1, <2>1 DEF Consumer, ConsumerIdle
<1> HIDE DEF o, copy
<1>4. /\ StoreTypeOK' /\ Known' = Known /\ OthersKept(o) /\ orders'[o] = copy
      /\ exchangeIDs' = IF copy.ex = None THEN exchangeIDs
                        ELSE [exchangeIDs EXCEPT ![copy.ex] = o]
      /\ UNCHANGED <<idempotency, fillVars>>
  BY <1>0, <1>1, <1>2, <1>3, UpdateOrderEffect
<1>5. /\ \A p \in Known \ {o} : orders'[p] = orders[p]
      /\ \A p \in Known : orders'[p].key = orders[p].key
      /\ ledgerQty' = ledgerQty
  BY <1>2, <1>4 DEF OthersKept, Known, fillVars
<1>6. BindingConsistent'
  <2>1. CASE copy.ex = None
    BY <1>0, <1>4, <1>5, <2>1 DEF BindingConsistent
  <2>2. CASE copy.ex # None
    BY <1>2, <1>4, <1>5, <2>2, IndexOwnID
  <2> QED BY <2>1, <2>2
<1>7. /\ Placed' = Placed /\ UNCHANGED <<book, channel, stream>>
      /\ UNCHANGED <<pc, req, snap, victim, reserved, steps>>
  BY <1>1 DEF Placed, exchangeVars, submitVars
<1>8. consumer' \in Consumer /\ consumer'.pc = "idle"
  BY <1>1 DEF Consumer, ConsumerIdle
<1>9. TypeOK'
  BY <1>0, <1>1, <1>4, <1>7, <1>8 DEF TypeOK, ExchangeTypeOK, GatewayTypeOK
<1>10. Control'
  BY <1>1, <1>4, <1>5, <1>7 DEF Inductive, Control, Stored
<1>11. Ownership'
  BY <1>4, <1>5, <1>7, WorkedOn DEF Inductive, Ownership
<1>12. ReportsFindTheirOrder'
  BY <1>1, <1>4, <1>7 DEF Inductive, ReportsFindTheirOrder
<1>13. Bindings'
  BY <1>2, <1>4, <1>5, <1>6, <1>7, <1>8 DEF Inductive, Bindings
<1>14. Fills'
  BY <1>1, <1>5, <1>7, <1>8 DEF Inductive, Fills
<1>15. FilledTracksLedger'
  BY <1>2, <1>4, <1>5, <1>7 DEF Inductive, FilledTracksLedger
<1> QED BY <1>9, <1>10, <1>11, <1>12, <1>13, <1>14, <1>15 DEF Inductive

-----------------------------------------------------------------------------
(* The theorems *)

\* Nothing is stored, placed or queued at the start.
LEMMA InitInductive == ASSUME Init PROVE Inductive
<1>1. StoreTypeOK
  BY StoreInitTyped DEF Init
<1>2. ExchangeTypeOK
  BY DEF Init, ExchangeInit, ExchangeTypeOK
<1>3. GatewayTypeOK
  BY DEF Init, GatewayTypeOK, PCs, Consumer, Call
<1>4. Known = {} /\ Placed = {}
  BY DEF Init, StoreInit, ExchangeInit, Known, Placed, NoOrder, NoRemote
<1>5. /\ consumer = ConsumerIdle /\ consumer.pc = "idle" /\ channel = <<>>
      /\ \A i \in 1 .. Len(channel) : FALSE
      /\ \A h \in Orders : pc[h] = "idle" /\ steps[h] = <<>>
      /\ \A h \in Orders : \A i \in 1 .. Len(steps[h]) : FALSE
      /\ \A c \in Calls : call[c].pc = "idle"
  BY DEF Init, ExchangeInit, ConsumerIdle, CallIdle
<1>6. \A k \in Keys : idempotency[k] = None
  BY DEF Init, StoreInit
<1>7. \A x \in ExIDs : exchangeIDs[x] = None /\ ledgerQty[x] = 0
  BY DEF Init, StoreInit
<1>8. Control
  BY <1>4, <1>5 DEF Control, Stored, Sent
<1>9. Ownership
  BY <1>4, <1>6 DEF Ownership
<1>10. ReportsFindTheirOrder /\ FilledTracksLedger
  BY <1>4, <1>5 DEF ReportsFindTheirOrder, FilledTracksLedger
<1>11. Bindings
  BY <1>4, <1>5, <1>7 DEF Bindings, BindingConsistent
<1>12. Fills
  BY <1>4, <1>5, <1>7, ExchangeAssumption DEF Fills
<1> QED BY <1>1, <1>2, <1>3, <1>8, <1>9, <1>10, <1>11, <1>12 DEF Inductive, TypeOK

\* A step that changes nothing preserves the invariant.
LEMMA StutterInductive == ASSUME Inductive, UNCHANGED vars PROVE Inductive'
<1>1. Background
  <2>0. StoreTypeOK /\ ExchangeTypeOK /\ GatewayTypeOK /\ Control /\ Fills
    BY DEF Inductive, TypeOK
  <2>1. UNCHANGED <<storeVars, exchangeVars, submitVars, consumer, call>>
    BY DEF vars
  <2>2. StoreQuiet /\ ExchangeStep
    BY <2>0, <2>1, SameStoreQuiet, NoExchangeEffect
  <2>3. GatewayTypeOK'
    BY <2>0, <2>1 DEF GatewayTypeOK, submitVars
  <2> QED BY <2>0, <2>1, <2>2, <2>3 DEF Background, Control, Fills, submitVars, exchangeVars
<1> QED BY <1>1, BackgroundInductive

\* Every action preserves the invariant.
LEMMA NextInductive == ASSUME Inductive, [Next]_vars PROVE Inductive'
<1>1. ASSUME NEW h \in Orders, Submit(h) PROVE Inductive'
  <2>1. CASE RiskDeny(h) \/ RiskAllow(h) \/ EvictRemote(h) \/ EvictLocal(h) \/ Duplicate(h)
    BY <2>1, BeforeReserve, BackgroundInductive
  <2>2. CASE Reserve(h) \/ Mark(h)
    BY <2>2, ReserveInductive, MarkInductive
  <2>3. CASE SendFail(h) \/ SendReturn(h)
    BY <2>3, SendFailInductive, SendReturnInductive
  <2>4. CASE StepBind(h) \/ StepApply(h)
    BY <2>4, StepBindInductive, StepApplyInductive
  <2> QED BY <1>1, <2>1, <2>2, <2>3, <2>4 DEF Submit
<1>2. CASE Consume
  BY <1>2, ConsumerTakeInductive, ConsumerApplyInductive, ConsumerReadInductive,
     ConsumerWriteInductive DEF Consume
<1>3. ASSUME NEW c \in Calls, StartCall(c) \/ FinishCall(c) PROVE Inductive'
  BY <1>3, StartCallBackground, FinishCallBackground, BackgroundInductive
<1>4. CASE Environment
  BY <1>4, EnvironmentBackground, BackgroundInductive
<1>5. CASE UNCHANGED vars
  BY <1>5, StutterInductive
<1> QED BY <1>1, <1>2, <1>3, <1>4, <1>5 DEF Next

\* The invariant holds in every reachable state.
THEOREM AlwaysInductive == Spec => []Inductive
<1>1. Init => Inductive
  BY InitInductive
<1>2. Inductive /\ [Next]_vars => Inductive'
  BY NextInductive
<1> QED BY <1>1, <1>2, PTL DEF Spec

\* Every variable of the control-plane model keeps its type.
THEOREM TypeCorrect == Spec => []TypeOK
<1>1. Inductive => TypeOK
  BY DEF Inductive
<1> QED BY <1>1, AlwaysInductive, PTL

\* The exchange receives at most one order for an idempotency key, however
\* Submit calls interleave, fail and are retried.
THEOREM AtMostOneRemoteOrder == Spec => []OneRemoteOrderPerKey
<1>1. Inductive => OneRemoteOrderPerKey
  BY WorkedOn DEF Inductive, Ownership, OneRemoteOrderPerKey
<1> QED BY <1>1, AlwaysInductive, PTL

\* A queued report is booked on the order it is about.
THEOREM ReportsAreAttributed == Spec => []ReportsFindTheirOrder
<1>1. Inductive => ReportsFindTheirOrder
  BY DEF Inductive
<1> QED BY <1>1, AlwaysInductive, PTL

\* The two directions of the exchange-id index agree.
THEOREM BindingsAgree == Spec => []BindingConsistent
<1>1. Inductive => BindingConsistent
  BY DEF Inductive, Bindings
<1> QED BY <1>1, AlwaysInductive, PTL

\* The filled quantity follows the ledger until a failed Submit overwrites it.
THEOREM FilledFollowsLedger == Spec => []FilledTracksLedger
<1>1. Inductive => FilledTracksLedger
  BY DEF Inductive
<1> QED BY <1>1, AlwaysInductive, PTL

-----------------------------------------------------------------------------
(* Keys and exchange ids are never re-pointed *)

IdsKept ==
  /\ \A k \in Keys : idempotency[k] # None => idempotency'[k] = idempotency[k]
  /\ \A x \in ExIDs : exchangeIDs[x] # None => exchangeIDs'[x] = exchangeIDs[x]

\* A Submit call claims a free key, and indexes no id but its own order's.
LEMMA SubmitKeepsIds == ASSUME Inductive, NEW h \in Orders, Submit(h) PROVE IdsKept
<1>1. CASE RiskDeny(h) \/ RiskAllow(h) \/ EvictRemote(h) \/ EvictLocal(h) \/ Duplicate(h)
  BY <1>1, BeforeReserve DEF Background, StoreQuiet, IdsKept
<1>2. CASE Reserve(h)
  <2>1. /\ idempotency[req[h].key] = None /\ exchangeIDs' = exchangeIDs
        /\ idempotency' = [idempotency EXCEPT ![req[h].key] = h]
    BY <1>2 DEF Reserve, ReserveOrder, IsDuplicate
  <2> QED BY <2>1 DEF Inductive, TypeOK, StoreTypeOK, IdsKept
<1>3. CASE Mark(h)
  BY <1>3 DEF Mark, MarkOrderSent, SetStatus, IdsKept
<1>4. CASE SendFail(h)
  <2>1. pc[h] = "send" /\ reserved[h] \in Order /\ reserved[h].ex = None
    BY <1>4 DEF SendFail, Goto, Inductive, Control
  <2>2. [reserved[h] EXCEPT !.status = "REJECTED"].ex = None
    BY <2>1 DEF Order
  <2> QED BY <1>4, <2>2 DEF SendFail, UpdateOrder, IdsKept
<1>5. CASE SendReturn(h)
  BY <1>5 DEF SendReturn, storeVars, IdsKept
<1>6. CASE StepBind(h)
  <2>1. Bind(h, Head(steps[h]).ex) /\ pc[h] = "step"
    BY <1>6 DEF StepBind, Goto
  <2> QED BY <2>1, HeadStep, BindKeepsConsistent DEF BoundStore, IdsKept
<1>7. CASE StepApply(h)
  <2>1. ApplyStatus(h, Head(steps[h])) /\ pc[h] = "apply"
    BY <1>7 DEF StepApply, Goto
  <2> QED BY <2>1, HeadStep, ApplyKeepsLedger DEF AppliedStore, IdsKept
<1> QED BY <1>1, <1>2, <1>3, <1>4, <1>5, <1>6, <1>7 DEF Submit

\* The consumer indexes the exchange id of the order it resolved to.
LEMMA ConsumeKeepsIds == ASSUME Inductive, Consume PROVE IdsKept
<1> USE DEF IdsKept
<1>1. CASE ConsumerTake
  <2> DEFINE o == Resolve(Head(channel))
  <2>1. channel # <<>>
    BY <1>1 DEF ConsumerTake
  <2>2. o \in Known /\ o # None /\ Head(channel).ex \in {ExOf[o]} \ {None}
    BY <2>1, HeadReport, WorkedOn, OrderStoreAssumption DEF Report
  <2>3. Bind(o, Head(channel).ex)
    BY <1>1, <2>2 DEF ConsumerTake, Bind
  <2> QED BY <2>2, <2>3, BindKeepsConsistent DEF BoundStore
<1>2. CASE ConsumerApply
  <2>1. /\ consumer.pc = "apply" /\ consumer # ConsumerIdle
        /\ ApplyStatus(consumer.order, consumer.msg)
    BY <1>2 DEF ConsumerApply, ConsumerIdle
  <2>2. consumer.order \in Placed /\ ExOf[consumer.order] = consumer.msg.ex
    BY <2>1, WorkedOn DEF Inductive, ReportsFindTheirOrder
  <2>3. consumer.msg \in Report
    BY <2>1 DEF Inductive, TypeOK, GatewayTypeOK, Consumer, ConsumerIdle
  <2> QED BY <2>1, <2>2, <2>3, ApplyKeepsLedger DEF AppliedStore
<1>3. CASE ConsumerReadRejected
  BY <1>3 DEF ConsumerReadRejected, storeVars
<1>4. CASE ConsumerWriteRejected
  <2> DEFINE o == consumer.order
             copy == consumer.copy
  <2>1. consumer.pc = "reject" /\ UpdateOrder(o, copy)
    BY <1>4 DEF ConsumerWriteRejected
  <2>2. o \in Known /\ o \in Orders /\ copy.ex \in {None, ExOf[o]}
    BY <2>1, WorkedOn DEF Inductive, Bindings
  <2>3. copy \in Order
    BY <2>1 DEF Inductive, TypeOK, GatewayTypeOK, Consumer, ConsumerIdle
  <2>4. StoreTypeOK
    BY DEF Inductive, TypeOK
  <2> HIDE DEF o, copy
  <2>5. /\ Known' = Known /\ OthersKept(o) /\ orders'[o] = copy
        /\ exchangeIDs' = IF copy.ex = None THEN exchangeIDs
                          ELSE [exchangeIDs EXCEPT ![copy.ex] = o]
        /\ idempotency' = idempotency
    BY <2>1, <2>2, <2>3, <2>4, UpdateOrderEffect
  <2>6. \A p \in Known \ {o} : orders'[p].ex = orders[p].ex
    BY <2>5 DEF OthersKept, Known
  <2>7. CASE copy.ex = None
    BY <2>5, <2>7
  <2>8. CASE copy.ex # None
    BY <2>2, <2>5, <2>6, <2>8, IndexOwnID
  <2> QED BY <2>7, <2>8
<1> QED BY <1>1, <1>2, <1>3, <1>4 DEF Consume

\* A key or an exchange id that names an order names it for good, whichever
\* goroutine binds it again and whatever copy is written back.
THEOREM IdsKeptForGood == Spec => IdsNeverRebound
<1>1. ASSUME Inductive, [Next]_vars PROVE IdsKept
  <2>1. CASE \E h \in Orders : Submit(h)
    BY <1>1, <2>1, SubmitKeepsIds
  <2>2. CASE Consume
    BY <1>1, <2>2, ConsumeKeepsIds
  <2>3. CASE \E c \in Calls : StartCall(c) \/ FinishCall(c)
    BY <1>1, <2>3, StartCallBackground, FinishCallBackground DEF Background, StoreQuiet, IdsKept
  <2>4. CASE Environment
    BY <1>1, <2>4 DEF Environment, storeVars, IdsKept
  <2>5. CASE UNCHANGED vars
    BY <2>5 DEF vars, storeVars, IdsKept
  <2> QED BY <1>1, <2>1, <2>2, <2>3, <2>4, <2>5 DEF Next
<1>2. Inductive /\ [Next]_vars => [IdsKept]_vars
  BY <1>1
<1>3. Spec => [][IdsKept]_vars
  BY <1>2, AlwaysInductive, PTL DEF Spec
<1> QED BY <1>3 DEF IdsNeverRebound, IdsKept
=============================================================================
