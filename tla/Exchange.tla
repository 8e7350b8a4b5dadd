------------------------------ MODULE Exchange ------------------------------
(***************************************************************************)
(* The exchange as the control-plane sees it through the BingX client      *)
(* (control-plane/internal/execution/bingx): the remote order book, which  *)
(* is external and modelled from the requests the client makes and the     *)
(* execution reports it parses, and the client's own delivery path: one    *)
(* WebSocket user stream that reconnects without replay, feeding a bounded *)
(* channel that drops a report when it is full.                            *)
(*                                                                         *)
(* A remote order is named by the local order it was placed for: the       *)
(* client sends one clientOrderId per order, and a retried POST of it is   *)
(* taken to be recognised by the exchange.                                 *)
(***************************************************************************)
EXTENDS OrderStore, Sequences

CONSTANTS
  ExOf,         \* the exchange id the exchange gives the order placed for o: an
                \* id of its own (BingX), or the order's own id (paper)
  ChannelCap,   \* capacity of BingXClient.updates (1024 in the code)
  StreamFails   \* whether the user stream may disconnect

ASSUME ExchangeAssumption ==
  /\ ExOf \in [Orders -> ExIDs]
  /\ \A o, p \in Orders : ExOf[o] = ExOf[p] => o = p
  /\ \A o \in Orders \cap ExIDs : ExOf[o] = o
  /\ ChannelCap \in Nat \ {0}
  /\ StreamFails \in BOOLEAN

VARIABLES
  book,      \* the remote order placed for each local order
  channel,   \* BingXClient.updates: reports waiting for the consumer
  stream     \* whether the user stream is connected

exchangeVars == <<book, channel, stream>>

RemoteStates == {"inflight", "refused", "open", "filled", "canceled", "rejected"}

Remote == [state : RemoteStates, key : Keys, size : Nat,
           price : Prices \cup {None}, executed : Nat, lost : Nat]

NoRemote == [state |-> "none", executed |-> 0, lost |-> 0]

Report == [key : Keys, ex : ExIDs, status : Open \cup Terminal, qty : Nat]

ExchangeTypeOK ==
  /\ book \in [Orders -> Remote \cup {NoRemote}]
  /\ channel \in Seq(Report)
  /\ stream \in {"up", "down"}

ExchangeInit ==
  /\ book = [o \in Orders |-> NoRemote]
  /\ channel = <<>>
  /\ stream = "up"

-----------------------------------------------------------------------------
\* Variant: an exchange status that mapOrderStatus does not know is kept.
ReportUnmapped(o, status, qty) ==
  [key |-> book[o].key, ex |-> ExOf[o], qty |-> qty,
   status |-> IF status = "PARTIAL" THEN "PARTIALLY_FILLED" ELSE status]

\* mapExecutionReport: the client order id is the idempotency key; an
\* exchange status NEW becomes SENT; only an executed quantity makes the
\* ledger and execution entries non-nil.
ReportOf(o, status, qty) ==
  [key |-> book[o].key, ex |-> ExOf[o], status |-> status, qty |-> qty]

Delivered == stream = "up" /\ Len(channel) < ChannelCap

\* Variant: the stream hands over the last report again after a reconnection.
DeliverTwice(r) == channel' = IF Delivered THEN channel \o <<r, r>> ELSE channel

\* A report is parsed into the channel, or gone for good.
Deliver(r) == channel' = IF Delivered THEN Append(channel, r) ELSE channel

\* PlaceOrder puts the request on the wire.
Place(o, order) ==
  book' = [book EXCEPT ![o] =
    [state |-> "inflight", key |-> order.key, size |-> order.size,
     price |-> order.price, executed |-> 0, lost |-> 0]]

Accept(o) ==
  /\ book[o].state = "inflight"
  /\ book' = [book EXCEPT ![o].state = "open"]
  /\ Deliver(ReportOf(o, "SENT", 0))
  /\ UNCHANGED stream

\* The exchange answers 200 with a non-zero code.  PlaceOrder never looks at
\* the code, so the caller is told the order was taken.
Refuse(o) ==
  /\ book[o].state = "inflight"
  /\ book' = [book EXCEPT ![o].state = "refused"]
  /\ UNCHANGED <<channel, stream>>

Fill(o, qty) ==
  LET executed == book[o].executed + qty
      full     == executed = book[o].size
  IN /\ book[o].state = "open"
     /\ executed <= book[o].size
     /\ book' = [book EXCEPT
                   ![o].executed = executed,
                   ![o].state = IF full THEN "filled" ELSE "open",
                   ![o].lost = IF Delivered THEN @ ELSE @ + qty]
     /\ Deliver(ReportOf(o, IF full THEN "FILLED" ELSE "PARTIAL", qty))
     /\ UNCHANGED stream

\* An order accepted and then failed by the exchange.
Reject(o) ==
  /\ book[o].state = "open"
  /\ book[o].executed = 0
  /\ book' = [book EXCEPT ![o].state = "rejected"]
  /\ Deliver(ReportOf(o, "REJECTED", 0))
  /\ UNCHANGED stream

RemoteOrder(x) == {o \in Orders : ExOf[o] = x}

\* CancelRemote and ReplaceRemote: the request may take effect on an open order
\* or not reach it.  What the caller is told does not depend on it: a request
\* that took effect can time out, and any 200 answer counts as success.
CancelRemote(x) ==
  \/ UNCHANGED exchangeVars
  \/ \E o \in RemoteOrder(x) :
       /\ book[o].state = "open"
       /\ book' = [book EXCEPT ![o].state = "canceled"]
       /\ Deliver(ReportOf(o, "CANCELED", 0))
       /\ UNCHANGED stream

ReplaceRemote(x, p) ==
  \/ UNCHANGED exchangeVars
  \/ \E o \in RemoteOrder(x) :
       /\ book[o].state = "open"
       /\ book' = [book EXCEPT ![o].price = p]
       /\ UNCHANGED <<channel, stream>>

\* runUserStream: consumeUserStream ends on an error and starts again after a
\* second with a new listen key; nothing asks for what was missed.
StreamDown ==
  /\ StreamFails
  /\ stream = "up"
  /\ stream' = "down"
  /\ UNCHANGED <<book, channel>>

StreamUp ==
  /\ stream = "down"
  /\ stream' = "up"
  /\ UNCHANGED <<book, channel>>
=============================================================================
