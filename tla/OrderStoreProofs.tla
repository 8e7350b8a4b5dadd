-------------------------- MODULE OrderStoreProofs --------------------------
(***************************************************************************)
(* What each method of the order store preserves: its types, and the       *)
(* fields it leaves alone.  GatewayProofs cites these facts instead of     *)
(* expanding the methods.                                                  *)
(***************************************************************************)
EXTENDS OrderStore, TLAPS

\* Every entry but that of one order is the one before the step.
OthersKept(o) == \A p \in Orders \ {o} : orders'[p] = orders[p]

\* A stored order is a full record, unlike the entry of an unknown id.
LEMMA KnownOrders ==
  ASSUME StoreTypeOK, NEW o \in Orders
  PROVE  o \in Known => orders[o] \in Order
BY DEF StoreTypeOK, Known, NoOrder

\* NewStore is well-typed.
LEMMA StoreInitTyped == StoreInit => StoreTypeOK
BY OrderStoreAssumption DEF StoreInit, StoreTypeOK

\* MarkOrderSent, MarkOrderAck and CancelOrder change one status.
LEMMA SetStatusEffect ==
  ASSUME StoreTypeOK, NEW o \in Orders, NEW s \in Open \cup Terminal, SetStatus(o, s)
  PROVE  /\ StoreTypeOK'
         /\ Known' = Known
         /\ o \in Known
         /\ OthersKept(o)
         /\ orders'[o] = [orders[o] EXCEPT !.status = s]
         /\ UNCHANGED <<idempotency, exchangeIDs, fillVars>>
<1>1. o \in Known /\ orders[o] \in Order
  BY KnownOrders DEF SetStatus
<1>2. [orders[o] EXCEPT !.status = s] \in Order
  BY <1>1 DEF Order
<1>3. orders' = [orders EXCEPT ![o] = [orders[o] EXCEPT !.status = s]]
  BY DEF SetStatus
<1>4. UNCHANGED <<idempotency, exchangeIDs, fillVars>>
  BY DEF SetStatus
<1>5. StoreTypeOK'
  BY <1>2, <1>3, <1>4 DEF StoreTypeOK, fillVars
<1>6. Known' = Known
  BY <1>1, <1>2, <1>3 DEF Known, StoreTypeOK, Order, Open, Terminal
<1> QED BY <1>1, <1>3, <1>4, <1>5, <1>6 DEF OthersKept, StoreTypeOK

\* ReserveOrder stores a NEW order under a key nobody had.
LEMMA ReserveOrderEffect ==
  ASSUME StoreTypeOK, NEW o \in Orders, NEW r \in Request, ReserveOrder(o, r)
  PROVE  /\ StoreTypeOK'
         /\ Known' = Known \cup {o}
         /\ OthersKept(o)
         /\ orders'[o] = NewOrder(r)
         /\ idempotency[r.key] = None
         /\ r.key \in Keys
         /\ idempotency' = [idempotency EXCEPT ![r.key] = o]
         /\ UNCHANGED <<exchangeIDs, fillVars>>
<1>1. NewOrder(r) \in Order
  BY DEF NewOrder, Request, Order, Open
<1>2. orders' = [orders EXCEPT ![o] = NewOrder(r)]
  BY DEF ReserveOrder
<1>3. idempotency[r.key] = None /\ idempotency' = [idempotency EXCEPT ![r.key] = o]
  BY DEF ReserveOrder, IsDuplicate
<1>4. UNCHANGED <<exchangeIDs, fillVars>>
  BY DEF ReserveOrder
<1>5. r.key \in Keys
  BY DEF Request
<1>6. StoreTypeOK'
  BY <1>1, <1>2, <1>3, <1>4, <1>5 DEF StoreTypeOK, fillVars
<1>7. Known' = Known \cup {o}
  BY <1>2 DEF Known, StoreTypeOK, NewOrder
<1> QED BY <1>2, <1>3, <1>4, <1>5, <1>6, <1>7 DEF OthersKept, StoreTypeOK

\* ReplaceOrderPrice changes at most one price.
LEMMA ReplaceOrderPriceEffect ==
  ASSUME StoreTypeOK, NEW o \in Orders, NEW p \in Prices, ReplaceOrderPrice(o, p)
  PROVE  /\ StoreTypeOK'
         /\ Known' = Known
         /\ OthersKept(o)
         /\ orders'[o] = orders[o] \/ orders'[o] = [orders[o] EXCEPT !.price = p]
         /\ o \in Known
         /\ UNCHANGED <<idempotency, exchangeIDs, fillVars>>
<1>1. o \in Known /\ orders[o] \in Order
  BY KnownOrders DEF ReplaceOrderPrice
<1>2. [orders[o] EXCEPT !.price = p] \in Order
  BY <1>1 DEF Order
<1>3. \/ orders' = orders
      \/ orders' = [orders EXCEPT ![o] = [orders[o] EXCEPT !.price = p]]
  BY DEF ReplaceOrderPrice
<1>4. UNCHANGED <<idempotency, exchangeIDs, fillVars>>
  BY DEF ReplaceOrderPrice
<1>5. StoreTypeOK'
  BY <1>2, <1>3, <1>4 DEF StoreTypeOK, fillVars
<1>6. Known' = Known
  BY <1>1, <1>2, <1>3 DEF Known, StoreTypeOK, Order, Open, Terminal
<1> QED BY <1>1, <1>3, <1>4, <1>5, <1>6 DEF OthersKept, StoreTypeOK

\* UpdateOrder replaces one entry, and indexes the exchange id it carries.
LEMMA UpdateOrderEffect ==
  ASSUME StoreTypeOK, NEW o \in Known, NEW copy \in Order, UpdateOrder(o, copy)
  PROVE  /\ StoreTypeOK'
         /\ Known' = Known
         /\ OthersKept(o)
         /\ orders'[o] = copy
         /\ exchangeIDs' = IF copy.ex = None THEN exchangeIDs
                           ELSE [exchangeIDs EXCEPT ![copy.ex] = o]
         /\ UNCHANGED <<idempotency, fillVars>>
<1>0. o \in Orders
  BY DEF Known
<1>1. /\ orders' = [orders EXCEPT ![o] = copy]
      /\ exchangeIDs' = IF copy.ex = None THEN exchangeIDs
                        ELSE [exchangeIDs EXCEPT ![copy.ex] = o]
      /\ UNCHANGED <<idempotency, fillVars>>
  BY DEF UpdateOrder
<1>2. copy.ex \in ExIDs \cup {None}
  BY DEF Order
<1>3. StoreTypeOK'
  BY <1>0, <1>1, <1>2 DEF StoreTypeOK, fillVars
<1>4. Known' = Known
  BY <1>0, <1>1 DEF Known, StoreTypeOK, Order, Open, Terminal
<1> QED BY <1>0, <1>1, <1>3, <1>4 DEF OthersKept, StoreTypeOK

\* BindExchangeOrderID gives one order its exchange id and indexes it.
LEMMA BindEffect ==
  ASSUME StoreTypeOK, NEW o \in Orders, NEW x \in ExIDs, BindExchangeOrderID(o, x)
  PROVE  /\ StoreTypeOK'
         /\ Known' = Known
         /\ o \in Known
         /\ OthersKept(o)
         /\ orders'[o] = [orders[o] EXCEPT !.ex = x]
         /\ exchangeIDs' = [exchangeIDs EXCEPT ![x] = o]
         /\ UNCHANGED <<idempotency, fillVars>>
<1>1. o \in Known /\ orders[o] \in Order
  BY KnownOrders DEF BindExchangeOrderID
<1>2. [orders[o] EXCEPT !.ex = x] \in Order
  BY <1>1 DEF Order
<1>3. /\ orders' = [orders EXCEPT ![o] = [orders[o] EXCEPT !.ex = x]]
      /\ exchangeIDs' = [exchangeIDs EXCEPT ![x] = o]
      /\ UNCHANGED <<idempotency, fillVars>>
  BY DEF BindExchangeOrderID
<1>4. StoreTypeOK'
  BY <1>2, <1>3 DEF StoreTypeOK, fillVars
<1>5. Known' = Known
  BY <1>1, <1>2, <1>3 DEF Known, StoreTypeOK, Order, Open, Terminal
<1> QED BY <1>1, <1>3, <1>4, <1>5 DEF OthersKept, StoreTypeOK

\* ApplyExternalFill adds one quantity to the order it resolves to, to the
\* position of its symbol and to the sums of its exchange id.
LEMMA ApplyExternalFillEffect ==
  ASSUME StoreTypeOK, NEW o \in Orders, NEW x \in ExIDs, NEW qty \in Nat,
         FillTarget(o) = o, ApplyExternalFill(o, x, qty)
  PROVE  /\ StoreTypeOK'
         /\ Known' = Known
         /\ o \in Known
         /\ OthersKept(o)
         /\ orders'[o].filled = orders[o].filled + qty
         /\ orders'[o].key = orders[o].key
         /\ orders'[o].ex = orders[o].ex
         /\ orders'[o].symbol = orders[o].symbol
         /\ orders'[o].side = orders[o].side
         /\ orders'[o].size = orders[o].size
         /\ orders'[o].status = "FILLED" => orders'[o].filled >= orders[o].size
         /\ positions' = [positions EXCEPT ![orders[o].symbol] =
                            positions[orders[o].symbol] + Signed(orders[o].side, qty)]
         /\ ledgerQty' = [ledgerQty EXCEPT ![x] = ledgerQty[x] + qty]
         /\ UNCHANGED <<idempotency, exchangeIDs>>
<1>1. o \in Known /\ orders[o] \in Order
  BY KnownOrders DEF ApplyExternalFill
<1>2. PICK s \in Open \cup Terminal :
        /\ orders' = [orders EXCEPT ![o] = [orders[o] EXCEPT !.filled = orders[o].filled + qty,
                                                             !.status = s]]
        /\ s = "FILLED" => orders[o].filled + qty >= orders[o].size
  <2> DEFINE s == FillStatus(orders[o].filled + qty, orders[o].size)
  <2>1. s \in Open \cup Terminal
    BY DEF FillStatus, Open, Terminal
  <2>2. orders' = [orders EXCEPT ![o].filled = orders[o].filled + qty, ![o].status = s]
    BY DEF ApplyExternalFill, FilledAfter
  <2>3. orders' = [orders EXCEPT ![o] = [orders[o] EXCEPT !.filled = orders[o].filled + qty,
                                                          !.status = s]]
    BY <2>2, <1>1 DEF Order, StoreTypeOK
  <2>4. s = "FILLED" => orders[o].filled + qty >= orders[o].size
    BY DEF FillStatus
  <2> QED BY <2>1, <2>3, <2>4
<1>3. [orders[o] EXCEPT !.filled = orders[o].filled + qty, !.status = s] \in Order
  <2>1. orders[o].filled + qty \in Nat
    BY <1>1 DEF Order
  <2>2. \A n \in Nat : [orders[o] EXCEPT !.filled = n, !.status = s] \in Order
    BY <1>1 DEF Order
  <2> QED BY <2>1, <2>2
<1>4. /\ positions' = [positions EXCEPT
                        ![orders[o].symbol] = positions[orders[o].symbol] + Signed(orders[o].side, qty)]
      /\ ledgerQty' = [ledgerQty EXCEPT ![x] = ledgerQty[x] + qty]
      /\ executionQty' = [executionQty EXCEPT ![x] = executionQty[x] + qty]
      /\ UNCHANGED <<idempotency, exchangeIDs>>
  BY DEF ApplyExternalFill
<1>5. Signed(orders[o].side, qty) \in Int /\ orders[o].symbol \in Symbols
  BY <1>1 DEF Signed, Order
<1>6. orders' \in [Orders -> Order \cup {NoOrder}]
  BY <1>1, <1>2, <1>3 DEF StoreTypeOK
<1>7. StoreTypeOK'
  BY <1>4, <1>5, <1>6 DEF StoreTypeOK
<1>8. Known' = Known
  BY <1>1, <1>2, <1>3 DEF Known, StoreTypeOK, Order, Open, Terminal
<1>9. /\ orders'[o].filled = orders[o].filled + qty
      /\ orders'[o].key = orders[o].key
      /\ orders'[o].ex = orders[o].ex
      /\ orders'[o].symbol = orders[o].symbol
      /\ orders'[o].side = orders[o].side
      /\ orders'[o].size = orders[o].size
      /\ orders'[o].status = s
  BY <1>1, <1>2 DEF StoreTypeOK, Order
<1>10. OthersKept(o)
  BY <1>1, <1>2 DEF OthersKept, StoreTypeOK
<1> QED BY <1>1, <1>2, <1>4, <1>7, <1>8, <1>9, <1>10
=============================================================================
