----------------------------- MODULE OrderStore -----------------------------
(***************************************************************************)
(* The in-memory order store of the Go control-plane                       *)
(* (control-plane/internal/state/store.go).  Every method of Store holds   *)
(* one mutex from its first to its last statement, so every operator below *)
(* is one atomic step; what several calls do together is up to the caller  *)
(* (module Gateway), and that is where the interleavings are.              *)
(*                                                                         *)
(* Abstracted data: timestamps, fees, average prices and slippage are left *)
(* out, and the append-only slices `ledger' and `executions' are kept as   *)
(* the per-order sums that Store.Reconciliation computes from them.        *)
(***************************************************************************)
EXTENDS Integers, FiniteSets

CONSTANTS
  Orders,    \* order ids; newID() draws a fresh one for each Submit call
  ExIDs,     \* order ids assigned by the exchange
  Keys,      \* idempotency keys
  Symbols,   \* trading symbols
  Prices,    \* limit prices
  None       \* the empty string: no id

ASSUME OrderStoreAssumption == None \notin Orders \cup ExIDs \cup Keys \cup Prices

\* A run of the process takes finitely many requests.
ASSUME FiniteOrders == IsFiniteSet(Orders)

VARIABLES
  orders,        \* Store.orders
  idempotency,   \* Store.idempotency: key -> order id
  exchangeIDs,   \* Store.exchangeIDs: exchange id -> order id
  positions,     \* Store.positions: the signed size held in each symbol
  ledgerQty,     \* sum of FillLedgerEntry.Quantity by OrderID, an exchange id
  executionQty   \* sum of ExecutionEvent.FilledQuantity by OrderID

fillVars   == <<positions, ledgerQty, executionQty>>
storeVars  == <<orders, idempotency, exchangeIDs, fillVars>>

Sides    == {"BUY", "SELL"}
Open     == {"NEW", "SENT", "ACK", "PARTIAL"}
Terminal == {"FILLED", "CANCELED", "REJECTED"}

\* A request or order without a limit price (nil in the code) has price None.
Request == [key : Keys, symbol : Symbols, side : Sides, size : Nat,
            price : Prices \cup {None}]

Order == [key : Keys, symbol : Symbols, side : Sides, size : Nat,
          price : Prices \cup {None}, status : Open \cup Terminal, filled : Nat,
          ex : ExIDs \cup {None}]

\* An id that is not a key of the orders map.
NoOrder == [status |-> "NONE"]
Known   == {o \in Orders : orders[o].status # "NONE"}

StoreTypeOK ==
  /\ orders \in [Orders -> Order \cup {NoOrder}]
  /\ idempotency \in [Keys -> Orders \cup {None}]
  /\ exchangeIDs \in [ExIDs -> Orders \cup {None}]
  /\ positions \in [Symbols -> Int]
  /\ ledgerQty \in [ExIDs -> Nat]
  /\ executionQty \in [ExIDs -> Nat]

\* NewStore: empty maps and slices.
StoreInit ==
  /\ orders = [o \in Orders |-> NoOrder]
  /\ idempotency = [k \in Keys |-> None]
  /\ exchangeIDs = [x \in ExIDs |-> None]
  /\ positions = [s \in Symbols |-> 0]
  /\ ledgerQty = [x \in ExIDs |-> 0]
  /\ executionQty = [x \in ExIDs |-> 0]

-----------------------------------------------------------------------------
\* The record Submit builds from a request before it is stored.
NewOrder(r) ==
  [key |-> r.key, symbol |-> r.symbol, side |-> r.side, size |-> r.size,
   price |-> r.price, status |-> "NEW", filled |-> 0, ex |-> None]

\* Variant: a key whose order was rejected may be used again.
IsDuplicateUnlessRejected(key) ==
  idempotency[key] # None /\ orders[idempotency[key]].status # "REJECTED"

\* ReserveOrder finds the key already mapped and hands back the earlier order.
IsDuplicate(key) == idempotency[key] # None

\* ReserveOrder for a key seen for the first time.
ReserveOrder(o, r) ==
  /\ ~IsDuplicate(r.key)
  /\ orders' = [orders EXCEPT ![o] = NewOrder(r)]
  /\ idempotency' = [idempotency EXCEPT ![r.key] = o]
  /\ UNCHANGED <<exchangeIDs, fillVars>>

\* MarkOrderSent, MarkOrderAck and CancelOrder set the status of any order that
\* exists, whatever its status is.
SetStatus(o, s) ==
  /\ o \in Known
  /\ orders' = [orders EXCEPT ![o].status = s]
  /\ UNCHANGED <<idempotency, exchangeIDs, fillVars>>

MarkOrderSent(o) == SetStatus(o, "SENT")
MarkOrderAck(o)  == SetStatus(o, "ACK")
CancelOrder(o)   == SetStatus(o, "CANCELED")

\* ReplaceOrderPrice leaves a terminal order as it is.
ReplaceOrderPrice(o, p) ==
  /\ o \in Known
  /\ orders' = IF orders[o].status \in Terminal THEN orders
               ELSE [orders EXCEPT ![o].price = p]
  /\ UNCHANGED <<idempotency, exchangeIDs, fillVars>>

\* UpdateOrder writes the caller's copy over whatever is stored.
UpdateOrder(o, copy) ==
  /\ orders' = [orders EXCEPT ![o] = copy]
  /\ exchangeIDs' = IF copy.ex = None THEN exchangeIDs
                    ELSE [exchangeIDs EXCEPT ![copy.ex] = o]
  /\ UNCHANGED <<idempotency, fillVars>>

\* Variant: the order is given its exchange id and the index is not.
BindWithoutIndex(o, x) ==
  /\ orders' = [orders EXCEPT ![o].ex = x]
  /\ UNCHANGED <<idempotency, exchangeIDs, fillVars>>

BindExchangeOrderID(o, x) ==
  /\ o \in Known
  /\ orders' = [orders EXCEPT ![o].ex = x]
  /\ exchangeIDs' = [exchangeIDs EXCEPT ![x] = o]
  /\ UNCHANGED <<idempotency, fillVars>>

\* Variant: the side is ignored.
Unsigned(side, qty) == qty

Signed(side, qty) == IF side = "SELL" THEN -qty ELSE qty

\* Variant: a first fill is taken for a full one.
StatusAtAnyFill(filled, size) == IF filled > 0 THEN "FILLED" ELSE "PARTIAL"

FillStatus(filled, size) == IF filled >= size THEN "FILLED" ELSE "PARTIAL"

\* Variant: the fill's quantity replaces the filled quantity.
LastFill(o, qty) == qty

FilledAfter(o, qty) == orders[o].filled + qty

\* ApplyExternalFill takes an order id or an exchange id, and adds the fill to
\* the order, the position, the ledger and the executions in one critical
\* section.  The entries carry the exchange's order id x.
FillTarget(o) == IF o \in ExIDs /\ exchangeIDs[o] # None THEN exchangeIDs[o] ELSE o

ApplyExternalFill(id, x, qty) ==
  LET o      == FillTarget(id)
      filled == FilledAfter(o, qty)
  IN /\ o \in Known
     /\ orders' = [orders EXCEPT
                     ![o].filled = filled,
                     ![o].status = FillStatus(filled, orders[o].size)]
     /\ positions' = [positions EXCEPT
                        ![orders[o].symbol] = @ + Signed(orders[o].side, qty)]
     /\ ledgerQty' = [ledgerQty EXCEPT ![x] = @ + qty]
     /\ executionQty' = [executionQty EXCEPT ![x] = @ + qty]
     /\ UNCHANGED <<idempotency, exchangeIDs>>

\* OpenOrdersBySymbol, restricted to the side opposite to the request's as the
\* only caller does.  Each element is a copy of what the caller reads later.
OpposingOpenOrders(r) ==
  {[id |-> o, ex |-> orders[o].ex] : o \in
     {p \in Known : /\ orders[p].status \in Open
                    /\ orders[p].symbol = r.symbol
                    /\ orders[p].side # r.side}}

\* Reconciliation().Matched: the execution sums agree with the ledger sums.
Matched == \A x \in ExIDs : executionQty[x] = ledgerQty[x]
=============================================================================
