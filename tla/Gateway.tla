------------------------------- MODULE Gateway -------------------------------
(***************************************************************************)
(* The execution gateway of the Go control-plane                           *)
(* (control-plane/internal/execution/gateway.go).  Submit, Cancel, Replace *)
(* and SwitchStrategy run on one goroutine per HTTP request, and           *)
(* ApplyAsyncUpdate on the single goroutine that drains the exchange's     *)
(* report channel.  None of them holds a lock across two calls: every call *)
(* on the store is a step of its own, and so is every request on the wire. *)
(*                                                                         *)
(* A Submit call is named by the order id it draws.  Left out: logging,    *)
(* timestamps, the risk service's statistics, and the notifications that   *)
(* emit() offers to WebSocket clients.                                     *)
(***************************************************************************)
EXTENDS Exchange

CONSTANTS
  Requests,      \* requests that may arrive at POST /execution/requests
  Calls,         \* cancel, replace and switch-strategy calls
  SizeDown,      \* whether the risk service may reduce a size
  Async          \* TRUE: the BingX client; FALSE: PaperExchange

ASSUME GatewayAssumption ==
  /\ Requests \subseteq Request
  /\ \A r \in Requests : r.size > 0
  /\ SizeDown \in BOOLEAN
  /\ Async \in BOOLEAN

VARIABLES
  pc,        \* where each Submit call is
  req,       \* the request of each Submit call, after the risk service sized it
  snap,      \* opposing open orders the call has still to cancel, as copied
  victim,    \* the one it is cancelling
  reserved,  \* the call's own copy of its order (`reserved' in Submit)
  steps,     \* exchange steps returned by SendOrder, still to be applied
  consumer,  \* the goroutine running ApplyAsyncUpdate
  call       \* each cancel, replace or switch-strategy call

submitVars == <<pc, req, snap, victim, reserved, steps>>
vars == <<storeVars, exchangeVars, submitVars, consumer, call>>

Returned == {"rejected", "duplicate", "failed", "done"}
PCs == {"idle", "protect", "evict", "mark", "send", "step", "apply"} \cup Returned

Step == [status : Open \cup Terminal, ex : ExIDs \cup {None}, qty : Nat]
Copy == [id : Orders, ex : ExIDs \cup {None}]

ConsumerIdle == [pc |-> "idle"]
Consumer == {ConsumerIdle}
              \cup [pc : {"apply"}, order : Orders, msg : Report]
              \cup [pc : {"reject"}, order : Orders, copy : Order]

CallIdle == [pc |-> "idle"]
CallDone == [pc |-> "done"]
Call == {CallIdle, CallDone}
          \cup [pc : {"cancelRemote"}, order : Orders, ex : ExIDs]
          \cup [pc : {"cancelLocal"}, order : Orders]
          \cup [pc : {"replaceRemote"}, ex : ExIDs, price : Prices]

GatewayTypeOK ==
  /\ pc \in [Orders -> PCs]
  /\ req \in [Orders -> Request \cup {None}]
  /\ snap \in [Orders -> SUBSET Copy]
  /\ victim \in [Orders -> Orders \cup {None}]
  /\ reserved \in [Orders -> Order \cup {NoOrder}]
  /\ steps \in [Orders -> Seq(Step)]
  /\ consumer \in Consumer
  /\ call \in [Calls -> Call]

TypeOK == StoreTypeOK /\ ExchangeTypeOK /\ GatewayTypeOK

Init ==
  /\ StoreInit
  /\ ExchangeInit
  /\ pc = [h \in Orders |-> "idle"]
  /\ req = [h \in Orders |-> None]
  /\ snap = [h \in Orders |-> {}]
  /\ victim = [h \in Orders |-> None]
  /\ reserved = [h \in Orders |-> NoOrder]
  /\ steps = [h \in Orders |-> <<>>]
  /\ consumer = ConsumerIdle
  /\ call = [c \in Calls |-> CallIdle]

Goto(h, from, to) == pc[h] = from /\ pc' = [pc EXCEPT ![h] = to]

-----------------------------------------------------------------------------
(* Submit *)

\* risk.Evaluate denies the request: the order is reported, never stored.
RiskDeny(h) ==
  /\ Goto(h, "idle", "rejected")
  /\ UNCHANGED <<storeVars, exchangeVars, req, snap, victim, reserved, steps, consumer, call>>

\* risk.Evaluate allows the request and may size it down; the open orders of
\* the other side are then read, once.
RiskAllow(h) ==
  /\ Goto(h, "idle", "protect")
  /\ \E r \in Requests : \E q \in 1 .. r.size :
       /\ SizeDown \/ q = r.size
       /\ req' = [req EXCEPT ![h] = [r EXCEPT !.size = q]]
       /\ snap' = [snap EXCEPT ![h] = OpposingOpenOrders(r)]
  /\ UNCHANGED <<storeVars, exchangeVars, victim, reserved, steps, consumer, call>>

\* Self-trade prevention takes the orders it read in map order: the remote
\* cancel first, its error ignored ...
EvictRemote(h) ==
  /\ Goto(h, "protect", "evict")
  /\ \E s \in snap[h] :
       /\ victim' = [victim EXCEPT ![h] = s.id]
       /\ snap' = [snap EXCEPT ![h] = @ \ {s}]
       /\ IF Async /\ s.ex # None THEN CancelRemote(s.ex) ELSE UNCHANGED exchangeVars
  /\ UNCHANGED <<storeVars, req, reserved, steps, consumer, call>>

\* ... then the store.
EvictLocal(h) ==
  /\ Goto(h, "evict", "protect")
  /\ CancelOrder(victim[h])
  /\ victim' = [victim EXCEPT ![h] = None]
  /\ UNCHANGED <<exchangeVars, req, snap, reserved, steps, consumer, call>>

\* A second Submit of a key returns the order of the first.
Duplicate(h) ==
  /\ Goto(h, "protect", "duplicate")
  /\ snap[h] = {}
  /\ IsDuplicate(req[h].key)
  /\ UNCHANGED <<storeVars, exchangeVars, req, snap, victim, reserved, steps, consumer, call>>

Reserve(h) ==
  /\ Goto(h, "protect", "mark")
  /\ snap[h] = {}
  /\ ReserveOrder(h, req[h])
  /\ UNCHANGED <<exchangeVars, req, snap, victim, reserved, steps, consumer, call>>

\* MarkOrderSent, whose result becomes the call's copy and goes on the wire.
Mark(h) ==
  /\ Goto(h, "mark", "send")
  /\ MarkOrderSent(h)
  /\ reserved' = [reserved EXCEPT ![h] = orders'[h]]
  /\ Place(h, orders'[h])
  /\ UNCHANGED <<channel, stream, req, snap, victim, steps, consumer, call>>

\* SendOrder fails or times out, whatever became of the request: the copy made
\* before the request is written back as REJECTED.
SendFail(h) ==
  /\ Goto(h, "send", "failed")
  /\ UpdateOrder(h, [reserved[h] EXCEPT !.status = "REJECTED"])
  /\ UNCHANGED <<exchangeVars, req, snap, victim, reserved, steps, consumer, call>>

AckStep(x) == [status |-> "ACK", ex |-> x, qty |-> 0]

\* BingXClient.SendOrder: an acknowledgement carrying the order id of the
\* response.  It is empty when the exchange refused, and when doSigned had to
\* repeat a request whose first attempt was taken.
SendReturnAsync(h) ==
  /\ Async
  /\ book[h].state # "inflight"
  /\ \E x \in {None, ExOf[h]} :
       /\ book[h].state = "refused" => x = None
       /\ steps' = [steps EXCEPT ![h] = <<AckStep(x)>>]
  /\ UNCHANGED book

\* PaperExchange.SendOrder: an acknowledgement, then two halves for a limit
\* order and one fill otherwise.  A size counts half lots.
PaperSteps(h) ==
  LET size == reserved[h].size
      half == size \div 2
      PaperFill(status, qty) == [status |-> status, ex |-> ExOf[h], qty |-> qty]
  IN IF reserved[h].price # None
     THEN <<AckStep(ExOf[h]), PaperFill("PARTIAL", half), PaperFill("FILLED", size - half)>>
     ELSE <<AckStep(ExOf[h]), PaperFill("FILLED", size)>>

SendReturnPaper(h) ==
  /\ ~Async
  /\ steps' = [steps EXCEPT ![h] = PaperSteps(h)]
  /\ book' = [book EXCEPT ![h].state = "filled", ![h].executed = reserved[h].size]

SendReturn(h) ==
  /\ Goto(h, "send", "step")
  /\ SendReturnAsync(h) \/ SendReturnPaper(h)
  /\ UNCHANGED <<storeVars, channel, stream, req, snap, victim, reserved, consumer, call>>

\* applyStep binds the exchange id it is given ...
Bind(o, x) == IF x = None THEN UNCHANGED storeVars ELSE BindExchangeOrderID(o, x)

\* Variant: fills of an order that was canceled locally are ignored.
ApplyStatusUnlessCanceled(o, m) ==
  IF orders[o].status = "CANCELED" THEN UNCHANGED storeVars
  ELSE \/ m.status = "ACK" /\ MarkOrderAck(o)
       \/ m.status \in {"PARTIAL", "FILLED"} /\ ApplyExternalFill(o, m.ex, m.qty)
       \/ m.status = "CANCELED" /\ CancelOrder(o)
       \/ m.status \in {"NEW", "SENT"} /\ UNCHANGED storeVars

\* Variant: an acknowledgement waits for the order to be in SENT.
ApplyStatusInOrder(o, m) ==
  \/ m.status = "ACK" /\ orders[o].status = "SENT" /\ MarkOrderAck(o)
  \/ m.status \in {"PARTIAL", "FILLED"} /\ ApplyExternalFill(o, m.ex, m.qty)
  \/ m.status = "CANCELED" /\ CancelOrder(o)
  \/ m.status \in {"NEW", "SENT"} /\ UNCHANGED storeVars

\* ... and, in a second critical section, does what the status says.
ApplyStatus(o, m) ==
  \/ m.status = "ACK" /\ MarkOrderAck(o)
  \/ m.status \in {"PARTIAL", "FILLED"} /\ m.qty > 0 /\ ApplyExternalFill(o, m.ex, m.qty)
  \/ m.status \in {"PARTIAL", "FILLED"} /\ m.qty = 0 /\ UNCHANGED storeVars
  \/ m.status = "CANCELED" /\ CancelOrder(o)
  \/ m.status \in {"NEW", "SENT"} /\ UNCHANGED storeVars

StepBind(h) ==
  /\ Goto(h, "step", "apply")
  /\ Bind(h, Head(steps[h]).ex)
  /\ UNCHANGED <<exchangeVars, req, snap, victim, reserved, steps, consumer, call>>

StepApply(h) ==
  /\ Goto(h, "apply", IF Len(steps[h]) = 1 THEN "done" ELSE "step")
  /\ ApplyStatus(h, Head(steps[h]))
  /\ steps' = [steps EXCEPT ![h] = Tail(@)]
  /\ UNCHANGED <<exchangeVars, req, snap, victim, reserved, consumer, call>>

Submit(h) ==
  \/ RiskDeny(h) \/ RiskAllow(h)
  \/ EvictRemote(h) \/ EvictLocal(h)
  \/ Duplicate(h) \/ Reserve(h) \/ Mark(h)
  \/ SendFail(h) \/ SendReturn(h)
  \/ StepBind(h) \/ StepApply(h)

-----------------------------------------------------------------------------
(* ApplyAsyncUpdate, for each report of the user stream *)

\* Variant: the exchange id alone identifies the order.
ResolveByExchangeID(m) == exchangeIDs[m.ex]

\* The client order id is looked up first, the exchange id when it is unknown.
Resolve(m) ==
  IF idempotency[m.key] # None THEN idempotency[m.key] ELSE exchangeIDs[m.ex]

\* A report that names no known order is dropped.
ConsumerTake ==
  /\ consumer = ConsumerIdle
  /\ channel # <<>>
  /\ channel' = Tail(channel)
  /\ LET m == Head(channel)
         o == Resolve(m)
     IN IF o = None THEN UNCHANGED <<storeVars, consumer>>
        ELSE /\ BindExchangeOrderID(o, m.ex)
             /\ consumer' = [pc |-> "apply", order |-> o, msg |-> m]
  /\ UNCHANGED <<book, stream, submitVars, call>>

ConsumerApply ==
  /\ consumer.pc = "apply"
  /\ ApplyStatus(consumer.order, consumer.msg)
  /\ consumer' = ConsumerIdle
  /\ UNCHANGED <<exchangeVars, submitVars, call>>

\* REJECTED reads the order under one lock and writes it back under another.
ConsumerReadRejected ==
  /\ consumer.pc = "apply"
  /\ consumer.msg.status = "REJECTED"
  /\ consumer' = [pc |-> "reject", order |-> consumer.order,
                  copy |-> [orders[consumer.order] EXCEPT !.status = "REJECTED"]]
  /\ UNCHANGED <<storeVars, exchangeVars, submitVars, call>>

ConsumerWriteRejected ==
  /\ consumer.pc = "reject"
  /\ UpdateOrder(consumer.order, consumer.copy)
  /\ consumer' = ConsumerIdle
  /\ UNCHANGED <<exchangeVars, submitVars, call>>

Consume == ConsumerTake \/ ConsumerApply \/ ConsumerReadRejected \/ ConsumerWriteRejected

-----------------------------------------------------------------------------
(* Cancel, Replace and SwitchStrategy *)

\* Cancel reads the order; an unknown or terminal one ends the call.
StartCancel(c, o) ==
  /\ call[c] = CallIdle
  /\ call' = [call EXCEPT ![c] =
       IF o \notin Known \/ orders[o].status \in Terminal THEN CallDone
       ELSE IF Async /\ orders[o].ex # None
            THEN [pc |-> "cancelRemote", order |-> o, ex |-> orders[o].ex]
            ELSE [pc |-> "cancelLocal", order |-> o]]
  /\ UNCHANGED <<storeVars, exchangeVars, submitVars, consumer>>

\* An error of the remote cancel ends the call; otherwise the store follows.
CancelRemoteCall(c) ==
  /\ call[c].pc = "cancelRemote"
  /\ CancelRemote(call[c].ex)
  /\ \/ call' = [call EXCEPT ![c] = CallDone]
     \/ call' = [call EXCEPT ![c] = [pc |-> "cancelLocal", order |-> call[c].order]]
  /\ UNCHANGED <<storeVars, submitVars, consumer>>

CancelLocalCall(c) ==
  /\ call[c].pc = "cancelLocal"
  /\ CancelOrder(call[c].order)
  /\ call' = [call EXCEPT ![c] = CallDone]
  /\ UNCHANGED <<exchangeVars, submitVars, consumer>>

\* Replace changes the store first, and the exchange only when the order has
\* an exchange id by then.
StartReplace(c, o, p) ==
  /\ call[c] = CallIdle
  /\ IF o \notin Known THEN UNCHANGED storeVars ELSE ReplaceOrderPrice(o, p)
  /\ call' = [call EXCEPT ![c] =
       IF o \in Known /\ Async /\ orders[o].ex # None
       THEN [pc |-> "replaceRemote", ex |-> orders[o].ex, price |-> p]
       ELSE CallDone]
  /\ UNCHANGED <<exchangeVars, submitVars, consumer>>

ReplaceRemoteCall(c) ==
  /\ call[c].pc = "replaceRemote"
  /\ ReplaceRemote(call[c].ex, call[c].price)
  /\ call' = [call EXCEPT ![c] = CallDone]
  /\ UNCHANGED <<storeVars, submitVars, consumer>>

\* SwitchStrategy: without a price AGGRESSIVE and DEFENSIVE cancel, with one
\* every known strategy replaces, and the rest only reads the order.
SwitchStrategy(c, o, strategy, p) ==
  \/ strategy \in {"AGGRESSIVE", "DEFENSIVE"} /\ p = None /\ StartCancel(c, o)
  \/ strategy \in {"AGGRESSIVE", "DEFENSIVE", "PASSIVE"} /\ p # None /\ StartReplace(c, o, p)
  \/ /\ (strategy = "PASSIVE" /\ p = None) \/ strategy = "OTHER"
     /\ call[c] = CallIdle
     /\ call' = [call EXCEPT ![c] = CallDone]
     /\ UNCHANGED <<storeVars, exchangeVars, submitVars, consumer>>

Strategies == {"AGGRESSIVE", "DEFENSIVE", "PASSIVE", "OTHER"}

StartCall(c) ==
  \E o \in Orders :
    \/ StartCancel(c, o)
    \/ \E p \in Prices : StartReplace(c, o, p)
    \/ \E s \in Strategies, p \in Prices \cup {None} : SwitchStrategy(c, o, s, p)

FinishCall(c) == CancelRemoteCall(c) \/ CancelLocalCall(c) \/ ReplaceRemoteCall(c)

-----------------------------------------------------------------------------
\* What the exchange and the network do on their own.
Environment ==
  /\ Async
  /\ \/ \E o \in Orders : Accept(o) \/ Refuse(o) \/ Reject(o)
     \/ \E o \in Orders : book[o].state = "open" /\ \E q \in 1 .. book[o].size : Fill(o, q)
     \/ StreamDown \/ StreamUp
  /\ UNCHANGED <<storeVars, submitVars, consumer, call>>

\* Every HTTP call has returned and every report has been applied: the model
\* bounds the number of calls, so it stops here.
Quiescent ==
  /\ \A h \in Orders : pc[h] \in Returned
  /\ \A c \in Calls : call[c] = CallDone
  /\ consumer = ConsumerIdle
  /\ channel = <<>>

Next ==
  \/ \E h \in Orders : Submit(h)
  \/ Consume
  \/ \E c \in Calls : StartCall(c) \/ FinishCall(c)
  \/ Environment
  \/ Quiescent /\ UNCHANGED vars

Spec == Init /\ [][Next]_vars

\* The consumer goroutine ranges over the channel for as long as the process
\* runs.  Nothing is assumed of the exchange, of the stream, of handlers or of
\* clients.
Fairness == WF_vars(Consume)

FairSpec == Spec /\ Fairness
=============================================================================
