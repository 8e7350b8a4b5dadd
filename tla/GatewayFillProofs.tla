-------------------------- MODULE GatewayFillProofs --------------------------
(***************************************************************************)
(* What the gateway does with quantities, for any number of orders, calls  *)
(* and reports: nothing the exchange executes is counted twice or lost     *)
(* inside the process, positions are the signed ledger, and the gateway    *)
(* implements OrderService.                                                *)
(*                                                                         *)
(* Every action is shown to be one of five kinds of progress; that each    *)
(* kind preserves the sums, and that it is a step of OrderService or       *)
(* stutters, is then shown once for each kind.                             *)
(***************************************************************************)
EXTENDS GatewayProofs, SumProofs

-----------------------------------------------------------------------------
(* What a queue of reports or steps carries *)

Msg == Report \cup Step

Carried(m, x) == IF m.ex = x THEN m.qty ELSE 0

\* A report or a step carries a number.
LEMMA MsgCarries ==
  ASSUME NEW m \in Msg, NEW x
  PROVE  m.qty \in Nat /\ Carried(m, x) \in Nat
BY DEF Msg, Report, Step, Carried

\* Quantity is the sum of what each element carries.
LEMMA CarriedSeq ==
  ASSUME NEW s \in Seq(Msg), NEW x
  PROVE  /\ [i \in 1 .. Len(s) |-> Carried(s[i], x)] \in Seq(Int)
         /\ Len([i \in 1 .. Len(s) |-> Carried(s[i], x)]) = Len(s)
         /\ Quantity(s, x) = Total([i \in 1 .. Len(s) |-> Carried(s[i], x)])
         /\ \A i \in 1 .. Len(s) : Carried(s[i], x) \in Nat
<1>1. \A i \in 1 .. Len(s) : Carried(s[i], x) \in Nat /\ Carried(s[i], x) \in Int
  BY MsgCarries
<1>2. Quantity(s, x) = Total([i \in 1 .. Len(s) |-> Carried(s[i], x)])
  BY DEF Quantity, Carried
<1> QED BY <1>1, <1>2

\* A queue carries a natural quantity ...
LEMMA QuantityNat == ASSUME NEW s \in Seq(Msg), NEW x PROVE Quantity(s, x) \in Nat
<1> DEFINE xs == [i \in 1 .. Len(s) |-> Carried(s[i], x)]
<1>1. xs \in Seq(Int) /\ Len(xs) = Len(s) /\ Quantity(s, x) = Total(xs)
      /\ \A i \in 1 .. Len(s) : Carried(s[i], x) \in Nat
  BY CarriedSeq
<1>2. \A i \in 1 .. Len(xs) : xs[i] >= 0
  BY <1>1
<1> HIDE DEF xs
<1> QED BY <1>1, <1>2, TotalNat

\* ... none when it is empty ...
LEMMA QuantityEmpty == ASSUME NEW x PROVE Quantity(<<>>, x) = 0
<1>1. [i \in 1 .. Len(<<>>) |-> Carried(<<>>[i], x)] \in Seq(Int) /\ <<>> \in Seq(Msg)
  OBVIOUS
<1> QED BY <1>1, CarriedSeq, TotalEmpty

\* ... one more element adds what it carries ...
LEMMA QuantityAppend ==
  ASSUME NEW s \in Seq(Msg), NEW m \in Msg, NEW x
  PROVE  Quantity(Append(s, m), x) = Quantity(s, x) + Carried(m, x)
<1> DEFINE t == Append(s, m)
           xs == [i \in 1 .. Len(s) |-> Carried(s[i], x)]
           ys == [i \in 1 .. Len(t) |-> Carried(t[i], x)]
<1>1. t \in Seq(Msg) /\ Len(t) = Len(s) + 1 /\ t[Len(t)] = m
      /\ \A i \in 1 .. Len(s) : t[i] = s[i]
  OBVIOUS
<1> HIDE DEF t
<1>2. Len(ys) = Len(xs) + 1 /\ ys[Len(ys)] = Carried(m, x)
      /\ \A i \in 1 .. Len(xs) : ys[i] = xs[i]
  BY <1>1
<1>3. xs \in Seq(Int) /\ ys \in Seq(Int) /\ Quantity(s, x) = Total(xs) /\ Quantity(t, x) = Total(ys)
  BY <1>1, CarriedSeq
<1>4. Total(ys) = Total(xs) + ys[Len(ys)]
  <2> HIDE DEF xs, ys
  <2> QED BY <1>2, <1>3, TotalSnoc
<1> QED BY <1>2, <1>3, <1>4 DEF t

\* ... and taking the first takes what that one carries.
LEMMA QuantityTail ==
  ASSUME NEW s \in Seq(Msg), s # <<>>, NEW x
  PROVE  Quantity(s, x) = Carried(Head(s), x) + Quantity(Tail(s), x)
<1> DEFINE t == Tail(s)
           xs == [i \in 1 .. Len(s) |-> Carried(s[i], x)]
           ys == [i \in 1 .. Len(t) |-> Carried(t[i], x)]
<1>1. t \in Seq(Msg) /\ Len(t) = Len(s) - 1 /\ Head(s) = s[1] /\ 1 \in 1 .. Len(s)
      /\ \A i \in 1 .. Len(t) : t[i] = s[i + 1] /\ i + 1 \in 1 .. Len(s)
  OBVIOUS
<1> HIDE DEF t
<1>2. Len(ys) = Len(xs) - 1 /\ 1 \in 1 .. Len(xs) /\ xs[1] = Carried(Head(s), x)
      /\ \A i \in 1 .. Len(ys) : ys[i] = xs[IF i < 1 THEN i ELSE i + 1]
  BY <1>1
<1>3. xs \in Seq(Int) /\ ys \in Seq(Int) /\ Quantity(s, x) = Total(xs) /\ Quantity(t, x) = Total(ys)
  BY <1>1, CarriedSeq
<1>4. Total(ys) = Total(xs) - xs[1] /\ Total(xs) \in Int
  <2> HIDE DEF xs, ys
  <2> QED BY <1>2, <1>3, TotalWithout, TotalType
<1>5. Carried(Head(s), x) \in Nat
  <2>1. Head(s) \in Msg
    BY <1>1
  <2> QED BY <2>1, MsgCarries
<1> HIDE DEF xs, ys
<1>6. Quantity(s, x) = Carried(Head(s), x) + Quantity(t, x)
  BY <1>2, <1>3, <1>4, <1>5
<1> QED BY <1>6 DEF t

\* What the consumer has taken and not applied yet.
Taken(o) == IF consumer.pc = "apply" /\ consumer.msg.ex = ExOf[o] THEN consumer.msg.qty ELSE 0

\* What waits in the channel, in a Submit call and with the consumer.
LEMMA Queues ==
  ASSUME TypeOK
  PROVE  /\ channel \in Seq(Report) /\ channel \in Seq(Msg)
         /\ \A h \in Orders : steps[h] \in Seq(Step) /\ steps[h] \in Seq(Msg)
         /\ consumer.pc = "apply" => consumer.msg \in Report /\ consumer.msg \in Msg
                                     /\ consumer.order \in Orders
<1>1. channel \in Seq(Report) /\ \A h \in Orders : steps[h] \in Seq(Step)
  BY DEF TypeOK, ExchangeTypeOK, GatewayTypeOK
<1>2. consumer.pc = "apply" => consumer.msg \in Report /\ consumer.order \in Orders
  BY DEF TypeOK, GatewayTypeOK, Consumer, ConsumerIdle
<1> QED BY <1>1, <1>2 DEF Msg

\* What is in hand is queued, returned or taken.
LEMMA InHandParts ==
  ASSUME TypeOK, NEW o \in Orders
  PROVE  /\ InHand(o) = Quantity(channel, ExOf[o]) + Quantity(steps[o], ExOf[o]) + Taken(o)
         /\ Quantity(channel, ExOf[o]) \in Nat
         /\ Quantity(steps[o], ExOf[o]) \in Nat
         /\ Taken(o) \in Nat
         /\ InHand(o) \in Nat
<1>1. Quantity(channel, ExOf[o]) \in Nat /\ Quantity(steps[o], ExOf[o]) \in Nat
  BY Queues, QuantityNat
<1>2. Taken(o) \in Nat
  BY Queues, MsgCarries DEF Taken
<1>3. InHand(o) = Quantity(channel, ExOf[o]) + Quantity(steps[o], ExOf[o]) + Taken(o)
  BY DEF InHand, Taken
<1> QED BY <1>1, <1>2, <1>3

\* It is a natural number ...
LEMMA HandsNat == TypeOK => \A o \in Orders : InHand(o) \in Nat
BY InHandParts

\* ... after a step as well.
LEMMA HandsNatAfter == TypeOK' => \A o \in Orders : InHand(o)' \in Nat
<1>1. TypeOK' => (\A o \in Orders : InHand(o) \in Nat)'
  BY HandsNat, PTL
<1> QED BY <1>1

-----------------------------------------------------------------------------
(* The kinds of progress *)

\* The store keeps what was asked for and what was booked, and calls no order
\* FILLED that it did not call so before.
StoreKept ==
  /\ Known' = Known
  /\ \A o \in Known :
       /\ SameOrder(orders'[o], o)
       /\ \/ orders'[o].status # "FILLED"
          \/ orders'[o].status = orders[o].status /\ orders'[o].filled = orders[o].filled
  /\ UNCHANGED <<idempotency, positions, ledgerQty>>

\* Nothing is placed or executed.
BooksKept ==
  /\ Placed' = Placed
  /\ \A o \in Orders : book'[o].executed = book[o].executed /\ book'[o].lost = book[o].lost
  /\ \A o \in Placed : book'[o].size = book[o].size

HandsKept == \A o \in Orders : InHand(o)' = InHand(o)

Quiet == StoreKept /\ BooksKept /\ HandsKept

\* A free key is given the new order h.
Claims(h) ==
  /\ h \notin Known /\ Known' = Known \cup {h}
  /\ \A o \in Known : orders'[o] = orders[o]
  /\ orders'[h].status = "NEW"
  /\ \E k \in Keys : idempotency[k] = None /\ idempotency' = [idempotency EXCEPT ![k] = h]
  /\ UNCHANGED <<positions, ledgerQty>>
  /\ BooksKept /\ HandsKept

\* The order h goes on the wire.
Places(h) ==
  /\ StoreKept /\ HandsKept
  /\ h \in Known \ Placed /\ Placed' = Placed \cup {h}
  /\ \A o \in Orders : book'[o].executed = book[o].executed /\ book'[o].lost = book[o].lost

\* The exchange executes qty of the order o, which is in hand or lost from then on.
Executes(o, qty) ==
  /\ StoreKept
  /\ o \in Placed /\ Placed' = Placed
  /\ book'[o].executed = book[o].executed + qty
  /\ InHand(o)' + book'[o].lost = InHand(o) + book[o].lost + qty
  /\ \A p \in Orders \ {o} :
       /\ book'[p].executed = book[p].executed
       /\ book'[p].lost = book[p].lost
       /\ InHand(p)' = InHand(p)

\* qty of the order o is booked, and is no longer in hand.
Books(o, qty) ==
  /\ BooksKept
  /\ o \in Known /\ Known' = Known
  /\ \A p \in Known : SameOrder(orders'[p], p) /\ (p # o => orders'[p] = orders[p])
  /\ orders'[o].status = "FILLED" => orders'[o].filled >= orders[o].size
  /\ positions' = [positions EXCEPT ![orders[o].symbol] =
                     positions[orders[o].symbol] + Signed(orders[o].side, qty)]
  /\ ledgerQty' = [ledgerQty EXCEPT ![ExOf[o]] = ledgerQty[ExOf[o]] + qty]
  /\ idempotency' = idempotency
  /\ InHand(o)' + qty = InHand(o)
  /\ \A p \in Orders \ {o} : InHand(p)' = InHand(p)

Progress ==
  \/ Quiet
  \/ \E h \in Orders : Claims(h) \/ Places(h)
  \/ \E o \in Orders, qty \in 1 .. MaxQty : Executes(o, qty) \/ Books(o, qty)

-----------------------------------------------------------------------------
(* Each kind of progress preserves the sums *)

\* The figures of an order on the exchange and in the ledger.
LEMMA BookNumbers ==
  ASSUME TypeOK, NEW o \in Orders
  PROVE  /\ book[o].executed \in Nat /\ book[o].lost \in Nat
         /\ ledgerQty[ExOf[o]] \in Nat /\ ExOf[o] \in ExIDs
<1>1. ExOf[o] \in ExIDs /\ ledgerQty[ExOf[o]] \in Nat
  BY ExchangeAssumption DEF TypeOK, StoreTypeOK
<1>2. book[o] \in Remote \cup {NoRemote}
  BY DEF TypeOK, ExchangeTypeOK
<1>3. book[o].executed \in Nat /\ book[o].lost \in Nat
  BY <1>2 DEF Remote, NoRemote
<1> QED BY <1>1, <1>3

\* Executed is booked, in hand or lost: each kind of progress moves one quantity
\* from one of these to another, or adds it to two sides.
LEMMA ProgressConserves ==
  ASSUME TypeOK, TypeOK', FillConservation, Progress
  PROVE  FillConservation'
<1> SUFFICES ASSUME NEW p \in Orders
             PROVE  book'[p].executed = ledgerQty'[ExOf[p]] + InHand(p)' + book'[p].lost
  BY DEF FillConservation
<1>1. /\ book[p].executed = ledgerQty[ExOf[p]] + InHand(p) + book[p].lost
      /\ book[p].executed \in Nat /\ book[p].lost \in Nat /\ ledgerQty[ExOf[p]] \in Nat
      /\ InHand(p) \in Nat
  BY BookNumbers, InHandParts DEF FillConservation
<1>2. book'[p].lost \in Nat /\ InHand(p)' \in Nat
  <2>1. InHand(p)' \in Nat
    BY HandsNatAfter
  <2>2. book'[p] \in Remote \cup {NoRemote}
    BY DEF TypeOK, ExchangeTypeOK
  <2> QED BY <2>1, <2>2 DEF Remote, NoRemote
<1>3. ASSUME BooksKept, HandsKept, ledgerQty' = ledgerQty
      PROVE  book'[p].executed = ledgerQty'[ExOf[p]] + InHand(p)' + book'[p].lost
  BY <1>1, <1>3 DEF BooksKept, HandsKept
<1>4. ASSUME NEW h \in Orders, Places(h)
      PROVE  book'[p].executed = ledgerQty'[ExOf[p]] + InHand(p)' + book'[p].lost
  BY <1>1, <1>4 DEF Places, HandsKept, StoreKept
<1>5. ASSUME NEW o \in Orders, NEW qty \in 1 .. MaxQty, Executes(o, qty)
      PROVE  book'[p].executed = ledgerQty'[ExOf[p]] + InHand(p)' + book'[p].lost
  <2>0. ledgerQty' = ledgerQty
    BY <1>5 DEF Executes, StoreKept
  <2>1. CASE p = o
    <3>1. book'[p].executed = book[p].executed + qty
          /\ InHand(p)' + book'[p].lost = InHand(p) + book[p].lost + qty /\ qty \in Nat
      BY <1>5, <2>1, MaxQtyAssumption DEF Executes
    <3> QED BY <1>1, <1>2, <2>0, <3>1
  <2>2. CASE p # o
    BY <1>1, <1>5, <2>0, <2>2 DEF Executes
  <2> QED BY <2>1, <2>2
<1>6. ASSUME NEW o \in Orders, NEW qty \in 1 .. MaxQty, Books(o, qty)
      PROVE  book'[p].executed = ledgerQty'[ExOf[p]] + InHand(p)' + book'[p].lost
  <2>0. /\ book'[p].executed = book[p].executed /\ book'[p].lost = book[p].lost
        /\ ledgerQty' = [ledgerQty EXCEPT ![ExOf[o]] = ledgerQty[ExOf[o]] + qty]
        /\ ledgerQty \in [ExIDs -> Nat] /\ ExOf[o] \in ExIDs /\ ExOf[p] \in ExIDs
        /\ qty \in Nat
    BY <1>6, BookNumbers, MaxQtyAssumption DEF Books, BooksKept, TypeOK, StoreTypeOK
  <2>1. CASE p = o
    <3>1. ledgerQty'[ExOf[p]] = ledgerQty[ExOf[p]] + qty
      BY <2>0, <2>1
    <3>2. InHand(p)' + qty = InHand(p)
      BY <1>6, <2>1 DEF Books
    <3> QED BY <1>1, <1>2, <2>0, <3>1, <3>2
  <2>2. CASE p # o
    <3>1. ExOf[p] # ExOf[o]
      BY <2>2, ExchangeAssumption
    <3>2. ledgerQty'[ExOf[p]] = ledgerQty[ExOf[p]]
      BY <2>0, <3>1
    <3>3. InHand(p)' = InHand(p)
      BY <1>6, <2>2 DEF Books
    <3> QED BY <1>1, <2>0, <3>2, <3>3
  <2> QED BY <2>1, <2>2
<1> QED BY <1>3, <1>4, <1>5, <1>6 DEF Progress, Quiet, Claims, StoreKept

\* What the order o adds to the booked quantity of a symbol and a side.
Share(o, symbol, side) ==
  IF o \in Known /\ orders[o].symbol = symbol /\ orders[o].side = side
  THEN ledgerQty[ExOf[o]] ELSE 0

\* Booked adds up the shares, before a step and after it.
LEMMA BookedIsTotal ==
  ASSUME NEW symbol, NEW side
  PROVE  /\ Booked(symbol, side) = TotalOver(Orders, [o \in Orders |-> Share(o, symbol, side)])
         /\ Booked(symbol, side)' = TotalOver(Orders, [o \in Orders |-> Share(o, symbol, side)'])
BY DEF Booked, Share

\* A share is a natural number.
LEMMA SharesNat ==
  ASSUME TypeOK, TypeOK', NEW o \in Orders, NEW symbol, NEW side
  PROVE  Share(o, symbol, side) \in Nat /\ Share(o, symbol, side)' \in Nat
BY ExchangeAssumption DEF Share, TypeOK, StoreTypeOK

\* Equal shares give equal sums ...
LEMMA BookedKept ==
  ASSUME NEW symbol, NEW side,
         \A o \in Orders : Share(o, symbol, side)' = Share(o, symbol, side)
  PROVE  Booked(symbol, side)' = Booked(symbol, side)
<1> DEFINE f == [p \in Orders |-> Share(p, symbol, side)]
           g == [p \in Orders |-> Share(p, symbol, side)']
<1>1. /\ \A p \in Orders : g[p] = f[p]
      /\ Booked(symbol, side) = TotalOver(Orders, f)
      /\ Booked(symbol, side)' = TotalOver(Orders, g)
  BY BookedIsTotal
<1>2. f = g
  OBVIOUS
<1> HIDE DEF f, g
<1> QED BY <1>1, <1>2

\* ... and a change of one share changes the sum by as much.
LEMMA BookedChange ==
  ASSUME TypeOK, TypeOK', NEW symbol, NEW side, NEW o \in Orders, NEW qty \in Nat,
         Share(o, symbol, side)' = Share(o, symbol, side) + qty,
         \A p \in Orders \ {o} : Share(p, symbol, side)' = Share(p, symbol, side)
  PROVE  Booked(symbol, side)' = Booked(symbol, side) + qty
<1>1. PICK f, g : /\ f = [p \in Orders |-> Share(p, symbol, side)]
                  /\ g = [p \in Orders |-> Share(p, symbol, side)']
  OBVIOUS
<1>2. \A p \in Orders : f[p] \in Int /\ g[p] \in Int
  BY <1>1, SharesNat
<1>3. \A p \in Orders \ {o} : g[p] = f[p]
  BY <1>1
<1>4. g[o] = f[o] + qty
  BY <1>1
<1>5. Booked(symbol, side) = TotalOver(Orders, f) /\ Booked(symbol, side)' = TotalOver(Orders, g)
  BY <1>1, BookedIsTotal
<1>6. TotalOver(Orders, g) = TotalOver(Orders, f) + (g[o] - f[o])
  BY <1>2, <1>3, FiniteOrders, TotalOverChange
<1>7. TotalOver(Orders, f) \in Int /\ g[o] - f[o] = qty
  BY <1>2, <1>4, FiniteOrders, TotalOverType
<1> QED BY <1>5, <1>6, <1>7

\* Positions follow the ledger: a fill enters both, with the sign of its side.
LEMMA ProgressBalances ==
  ASSUME Inductive, TypeOK', PositionIsSignedLedger, Progress
  PROVE  PositionIsSignedLedger'
<1>0. TypeOK /\ Known \subseteq Orders
  BY WorkedOn DEF Inductive
<1>1. ASSUME UNCHANGED <<positions, ledgerQty>>, Known \subseteq Known',
             \A o \in Known : SameOrder(orders'[o], o),
             \A o \in Known' \ Known : ledgerQty[ExOf[o]] = 0
      PROVE  PositionIsSignedLedger'
  <2>1. \A o \in Orders, symbol \in Symbols, side \in Sides :
          Share(o, symbol, side)' = Share(o, symbol, side)
    BY <1>1 DEF Share, SameOrder
  <2>2. \A symbol \in Symbols, side \in Sides : Booked(symbol, side)' = Booked(symbol, side)
    BY <2>1, BookedKept
  <2> QED BY <1>1, <2>2 DEF PositionIsSignedLedger, Sides
<1>2. CASE Quiet
  BY <1>1, <1>2 DEF Quiet, StoreKept
<1>3. ASSUME NEW h \in Orders, Claims(h) PROVE PositionIsSignedLedger'
  <2>1. h \notin Placed
    BY <1>3, WorkedOn DEF Claims
  <2>2. ledgerQty[ExOf[h]] = 0
    BY <2>1 DEF Inductive, Fills
  <2> QED BY <1>1, <1>3, <2>2 DEF Claims, SameOrder
<1>4. ASSUME NEW h \in Orders, Places(h) PROVE PositionIsSignedLedger'
  BY <1>1, <1>4 DEF Places, StoreKept
<1>5. ASSUME NEW o \in Orders, NEW qty \in 1 .. MaxQty, Executes(o, qty)
      PROVE  PositionIsSignedLedger'
  BY <1>1, <1>5 DEF Executes, StoreKept
<1>6. ASSUME NEW o \in Orders, NEW qty \in 1 .. MaxQty, Books(o, qty)
      PROVE  PositionIsSignedLedger'
  <2>0. orders[o].symbol \in Symbols /\ orders[o].side \in Sides
    BY <1>0, <1>6, KnownOrders DEF Books, Order, TypeOK
  <2> PICK symbol \in Symbols, side \in Sides : symbol = orders[o].symbol /\ side = orders[o].side
    BY <2>0
  <2>1. /\ qty \in Nat /\ symbol \in Symbols /\ side \in Sides /\ o \in Known
        /\ positions \in [Symbols -> Int] /\ ledgerQty \in [ExIDs -> Nat]
    BY <1>0, <1>6, MaxQtyAssumption DEF Books, TypeOK, StoreTypeOK
  <2>2. /\ positions' = [positions EXCEPT ![symbol] = positions[symbol] + Signed(side, qty)]
        /\ ledgerQty' = [ledgerQty EXCEPT ![ExOf[o]] = ledgerQty[ExOf[o]] + qty]
        /\ Known' = Known
        /\ \A p \in Known : SameOrder(orders'[p], p)
    BY <1>6 DEF Books
  <2>3. /\ ledgerQty'[ExOf[o]] = ledgerQty[ExOf[o]] + qty
        /\ \A p \in Orders \ {o} : ledgerQty'[ExOf[p]] = ledgerQty[ExOf[p]]
    <3>1. \A p \in Orders : ExOf[p] \in ExIDs /\ (p # o => ExOf[p] # ExOf[o])
      BY ExchangeAssumption
    <3> QED BY <2>1, <2>2, <3>1
  <2>4. \A p \in Orders, s \in Symbols, d \in Sides :
          (p = o /\ s = symbol /\ d = side) \/ Share(p, s, d)' = Share(p, s, d)
    BY <2>2, <2>3 DEF Share, SameOrder
  <2>5. Share(o, symbol, side)' = Share(o, symbol, side) + qty
    BY <2>1, <2>2, <2>3 DEF Share, SameOrder
  <2>6. Booked(symbol, side)' = Booked(symbol, side) + qty
    <3>1. \A p \in Orders \ {o} : Share(p, symbol, side)' = Share(p, symbol, side)
      BY <2>4
    <3> QED BY <1>0, <2>1, <2>5, <3>1, BookedChange
  <2>7. \A s \in Symbols, d \in Sides :
          (s = symbol /\ d = side) \/ Booked(s, d)' = Booked(s, d)
    BY <2>4, BookedKept
  <2>8. \A s \in Symbols, d \in Sides : Booked(s, d) \in Int
    <3>1. ASSUME NEW s \in Symbols, NEW d \in Sides PROVE Booked(s, d) \in Int
      <4>1. \A p \in Orders : [q \in Orders |-> Share(q, s, d)][p] \in Int
        BY <1>0, SharesNat
      <4> QED BY <4>1, FiniteOrders, BookedIsTotal, TotalOverType
    <3> QED BY <3>1
  <2>9. ASSUME NEW s \in Symbols
        PROVE  positions'[s] = Booked(s, "BUY")' - Booked(s, "SELL")'
    <3>1. /\ positions[s] = Booked(s, "BUY") - Booked(s, "SELL")
          /\ Booked(s, "BUY") \in Int /\ Booked(s, "SELL") \in Int
          /\ "BUY" \in Sides /\ "SELL" \in Sides
      BY <2>8 DEF PositionIsSignedLedger, Sides
    <3>2. CASE s # symbol
      BY <2>1, <2>2, <2>7, <3>1, <3>2
    <3>3. CASE s = symbol /\ side = "BUY"
      <4>1. /\ positions'[s] = positions[s] + qty
            /\ Booked(s, "BUY")' = Booked(s, "BUY") + qty
            /\ Booked(s, "SELL")' = Booked(s, "SELL")
        <5>1. positions'[s] = positions[s] + qty
          BY <2>1, <2>2, <3>3 DEF Signed
        <5>2. "SELL" # side
          BY <3>3
        <5> QED BY <2>6, <2>7, <3>1, <3>3, <5>1, <5>2, Zenon
      <4> QED BY <2>1, <3>1, <4>1
    <3>4. CASE s = symbol /\ side = "SELL"
      <4>1. /\ positions'[s] = positions[s] + (-qty)
            /\ Booked(s, "SELL")' = Booked(s, "SELL") + qty
            /\ Booked(s, "BUY")' = Booked(s, "BUY")
        <5>1. positions'[s] = positions[s] + (-qty)
          BY <2>1, <2>2, <3>4 DEF Signed
        <5>2. "BUY" # side
          BY <3>4
        <5> QED BY <2>6, <2>7, <3>1, <3>4, <5>1, <5>2, Zenon
      <4> QED BY <2>1, <3>1, <4>1
    <3> QED BY <2>1, <3>2, <3>3, <3>4 DEF Sides
  <2> QED BY <2>9 DEF PositionIsSignedLedger
<1> QED BY <1>2, <1>3, <1>4, <1>5, <1>6 DEF Progress

\* No order is called FILLED before its filled quantity reached its size.
LEMMA ProgressFillsUp ==
  ASSUME FilledIsEnough, Progress
  PROVE  FilledIsEnough'
<1>1. CASE StoreKept
  BY <1>1 DEF StoreKept, FilledIsEnough, SameOrder
<1>2. CASE \E h \in Orders : Claims(h)
  BY <1>2 DEF Claims, FilledIsEnough
<1>3. CASE \E o \in Orders, qty \in 1 .. MaxQty : Books(o, qty)
  BY <1>3 DEF Books, FilledIsEnough, SameOrder
<1> QED BY <1>1, <1>2, <1>3 DEF Progress, Quiet, Places, Executes

-----------------------------------------------------------------------------
(* Each kind of progress is a step of OrderService, or stutters *)

Executed == [o \in Orders |-> book[o].executed]
Applied  == [o \in Orders |-> ledgerQty[ExOf[o]]]

\* What is booked was executed.
LEMMA AppliedAtMostExecuted ==
  TypeOK /\ FillConservation => \A o \in Orders : ledgerQty[ExOf[o]] <= book[o].executed
<1> SUFFICES ASSUME TypeOK, FillConservation, NEW o \in Orders
             PROVE  ledgerQty[ExOf[o]] <= book[o].executed
  OBVIOUS
<1> QED BY BookNumbers, InHandParts DEF FillConservation

\* The same after a step.
LEMMA AppliedAtMostExecutedAfter ==
  TypeOK' /\ FillConservation' => \A o \in Orders : ledgerQty'[ExOf[o]] <= book'[o].executed
<1>1. (TypeOK /\ FillConservation)' => (\A o \in Orders : ledgerQty[ExOf[o]] <= book[o].executed)'
  BY AppliedAtMostExecuted, PTL
<1> QED BY <1>1

\* Claims is Claim, Places is Place, Executes is Execute, Books is Apply, and the
\* rest stutters.
LEMMA ProgressImplements ==
  ASSUME Inductive, FillConservation, TypeOK', FillConservation', Progress
  PROVE  [Service!Next]_Service!vars
<1>0. TypeOK /\ Known \subseteq Orders /\ Placed \subseteq Known
  BY WorkedOn DEF Inductive
<1>1. BooksKept => Placed' = Placed /\ Executed' = Executed
  BY DEF BooksKept, Executed
<1>2. ledgerQty' = ledgerQty => Applied' = Applied
  BY DEF Applied
<1>3. CASE Quiet
  <2>1. UNCHANGED <<idempotency, Placed, Executed, Applied>>
    BY <1>1, <1>2, <1>3 DEF Quiet, StoreKept
  <2> QED BY <2>1 DEF Service!vars, Executed, Applied
<1>4. ASSUME NEW h \in Orders, Claims(h) PROVE Service!Next
  <2>1. UNCHANGED <<Placed, Executed, Applied>>
    BY <1>1, <1>2, <1>4 DEF Claims
  <2>2. PICK k \in Keys : idempotency[k] = None /\ idempotency' = [idempotency EXCEPT ![k] = h]
    BY <1>4 DEF Claims
  <2>3. \A j \in Keys : idempotency[j] # h
    <3>1. h \notin Known /\ h # None
      BY <1>4, OrderStoreAssumption DEF Claims
    <3> QED BY <3>1 DEF Inductive, Ownership
  <2>4. Service!Claim(k, h)
    BY <2>1, <2>2, <2>3 DEF Service!Claim, Executed, Applied
  <2> QED BY <2>4 DEF Service!Next
<1>5. ASSUME NEW h \in Orders, Places(h) PROVE Service!Next
  <2>1. /\ UNCHANGED <<idempotency, Executed, Applied>>
        /\ h \in Known \ Placed /\ Placed' = Placed \cup {h}
    BY <1>2, <1>5 DEF Places, StoreKept, Executed
  <2>2. \E k \in Keys : idempotency[k] = h
    <3>1. orders[h].key \in Keys
      BY <1>0, <2>1, KnownOrders DEF Order, TypeOK
    <3> QED BY <2>1, <3>1 DEF Inductive, Ownership
  <2>3. Service!Place(h)
    BY <2>1, <2>2 DEF Service!Place, Executed, Applied
  <2> QED BY <2>3 DEF Service!Next
<1>6. ASSUME NEW o \in Orders, NEW qty \in 1 .. MaxQty, Executes(o, qty) PROVE Service!Next
  <2>1. UNCHANGED <<idempotency, Placed, Applied>> /\ o \in Placed
    BY <1>2, <1>6 DEF Executes, StoreKept
  <2>2. Executed' = [Executed EXCEPT ![o] = Executed[o] + qty]
    BY <1>6 DEF Executes, Executed
  <2>3. Service!Execute(o, qty)
    BY <2>1, <2>2 DEF Service!Execute, Executed, Applied
  <2> QED BY <2>3 DEF Service!Next
<1>7. ASSUME NEW o \in Orders, NEW qty \in 1 .. MaxQty, Books(o, qty) PROVE Service!Next
  <2>1. UNCHANGED <<idempotency, Placed, Executed>>
    BY <1>1, <1>7 DEF Books
  <2>2. ledgerQty' = [ledgerQty EXCEPT ![ExOf[o]] = ledgerQty[ExOf[o]] + qty]
    BY <1>7 DEF Books
  <2>3. ledgerQty \in [ExIDs -> Nat] /\ \A p \in Orders : ExOf[p] \in ExIDs
    BY <1>0, ExchangeAssumption DEF TypeOK, StoreTypeOK
  <2>4. Applied' = [Applied EXCEPT ![o] = Applied[o] + qty]
    BY <2>2, <2>3, ExchangeAssumption DEF Applied
  <2>5. Applied[o] + qty <= Executed[o]
    <3>1. ledgerQty'[ExOf[o]] = ledgerQty[ExOf[o]] + qty
      BY <2>2, <2>3
    <3>2. ledgerQty'[ExOf[o]] <= book'[o].executed
      BY AppliedAtMostExecutedAfter
    <3>3. book'[o].executed = book[o].executed
      BY <1>7 DEF Books, BooksKept
    <3> QED BY <3>1, <3>2, <3>3 DEF Applied, Executed
  <2>6. Service!Apply(o, qty)
    BY <2>1, <2>4, <2>5 DEF Service!Apply, Executed, Applied
  <2> QED BY <2>6 DEF Service!Next
<1> QED BY <1>3, <1>4, <1>5, <1>6, <1>7 DEF Progress

-----------------------------------------------------------------------------
(* The store's methods *)

\* One entry is replaced by one for the same order, which is not called FILLED
\* because of it.
LEMMA EntryKept ==
  ASSUME StoreTypeOK, NEW o \in Known, Known' = Known, OthersKept(o),
         SameOrder(orders'[o], o),
         \/ orders'[o].status # "FILLED"
         \/ orders'[o].status = orders[o].status /\ orders'[o].filled = orders[o].filled,
         UNCHANGED <<idempotency, fillVars>>
  PROVE  StoreKept
BY DEF StoreKept, OthersKept, SameOrder, fillVars, Known

\* MarkOrderSent, MarkOrderAck and CancelOrder keep the order and book nothing.
LEMMA SetStatusKept ==
  ASSUME StoreTypeOK, NEW o \in Orders, NEW s \in Open \cup Terminal, s # "FILLED",
         SetStatus(o, s)
  PROVE  StoreKept
<1>1. /\ Known' = Known /\ o \in Known /\ OthersKept(o)
      /\ orders'[o] = [orders[o] EXCEPT !.status = s]
      /\ UNCHANGED <<idempotency, fillVars>>
  BY SetStatusEffect
<1>2. orders[o] \in Order
  BY <1>1, KnownOrders
<1>3. SameOrder(orders'[o], o) /\ orders'[o].status # "FILLED"
  BY <1>1, <1>2 DEF SameOrder, Order
<1> QED BY <1>1, <1>3, EntryKept

\* So does ReplaceOrderPrice ...
LEMMA ReplacePriceKept ==
  ASSUME StoreTypeOK, NEW o \in Orders, NEW p \in Prices, ReplaceOrderPrice(o, p)
  PROVE  StoreKept
<1>1. /\ Known' = Known /\ o \in Known /\ OthersKept(o)
      /\ orders'[o] = orders[o] \/ orders'[o] = [orders[o] EXCEPT !.price = p]
      /\ UNCHANGED <<idempotency, fillVars>>
  BY ReplaceOrderPriceEffect
<1>2. orders[o] \in Order
  BY <1>1, KnownOrders
<1>3. /\ SameOrder(orders'[o], o)
      /\ orders'[o].status = orders[o].status /\ orders'[o].filled = orders[o].filled
  BY <1>1, <1>2 DEF SameOrder, Order
<1> QED BY <1>1, <1>3, EntryKept

\* ... BindExchangeOrderID ...
LEMMA BindKept ==
  ASSUME StoreTypeOK, NEW o \in Known, NEW x \in ExIDs \cup {None}, Bind(o, x)
  PROVE  StoreKept
<1>0. o \in Orders /\ orders[o] \in Order
  BY KnownOrders DEF Known
<1>1. CASE UNCHANGED storeVars
  BY <1>1 DEF StoreKept, SameOrder, storeVars, fillVars, Known
<1>2. CASE x # None
  <2>1. x \in ExIDs /\ BindExchangeOrderID(o, x)
    BY <1>2 DEF Bind
  <2>2. /\ Known' = Known /\ OthersKept(o)
        /\ orders'[o] = [orders[o] EXCEPT !.ex = x]
        /\ UNCHANGED <<idempotency, fillVars>>
    BY <1>0, <2>1, BindEffect
  <2>3. /\ SameOrder(orders'[o], o)
        /\ orders'[o].status = orders[o].status /\ orders'[o].filled = orders[o].filled
    BY <1>0, <2>2 DEF SameOrder, Order
  <2> QED BY <2>2, <2>3, EntryKept
<1> QED BY <1>1, <1>2 DEF Bind

\* ... and UpdateOrder with a copy of the same order that says REJECTED.
LEMMA UpdateKept ==
  ASSUME StoreTypeOK, NEW o \in Known, NEW copy \in Order, SameOrder(copy, o),
         copy.status = "REJECTED", UpdateOrder(o, copy)
  PROVE  StoreKept
<1>1. Known' = Known /\ OthersKept(o) /\ orders'[o] = copy /\ UNCHANGED <<idempotency, fillVars>>
  BY UpdateOrderEffect
<1> QED BY <1>1, EntryKept

\* An untouched store is kept.
LEMMA SameStoreKept == ASSUME UNCHANGED storeVars PROVE StoreKept
BY DEF StoreKept, SameOrder, storeVars, fillVars, Known

\* What ApplyStatus does to quantities: it books the one it was given, once, when
\* the status says so.
LEMMA ApplyStatusBooks ==
  ASSUME StoreTypeOK, BindingConsistent, NEW o \in Known, NEW m \in Msg,
         m.qty > 0 => m.ex = ExOf[o],
         m.status \in {"PARTIAL", "FILLED"} \/ m.qty = 0, ApplyStatus(o, m)
  PROVE  \/ m.qty = 0 /\ StoreKept
         \/ /\ m.qty > 0
            /\ Known' = Known
            /\ \A p \in Known : SameOrder(orders'[p], p) /\ (p # o => orders'[p] = orders[p])
            /\ orders'[o].status = "FILLED" => orders'[o].filled >= orders[o].size
            /\ positions' = [positions EXCEPT ![orders[o].symbol] =
                               positions[orders[o].symbol] + Signed(orders[o].side, m.qty)]
            /\ ledgerQty' = [ledgerQty EXCEPT ![ExOf[o]] = ledgerQty[ExOf[o]] + m.qty]
            /\ idempotency' = idempotency
<1>0. o \in Orders /\ m.qty \in Nat
  BY MsgCarries DEF Known
<1>1. CASE m.status = "ACK" /\ MarkOrderAck(o)
  <2>1. StoreKept
    BY <1>0, <1>1, SetStatusKept DEF MarkOrderAck, Open
  <2> QED BY <1>1, <2>1
<1>2. CASE m.status = "CANCELED" /\ CancelOrder(o)
  <2>1. StoreKept
    BY <1>0, <1>2, SetStatusKept DEF CancelOrder, Terminal
  <2> QED BY <1>2, <2>1
<1>3. CASE m.qty = 0 /\ UNCHANGED storeVars
  BY <1>3, SameStoreKept
<1>4. CASE m.qty > 0 /\ ApplyExternalFill(o, m.ex, m.qty)
  <2>1. ExOf[o] \in ExIDs /\ m.ex = ExOf[o]
    BY <1>0, <1>4, ExchangeAssumption
  <2>2. FillTarget(o) = o
    BY <1>0, FillTargetIsOrder
  <2>3. ApplyExternalFill(o, ExOf[o], m.qty)
    BY <1>4, <2>1
  <2>4. /\ Known' = Known /\ OthersKept(o) /\ SameOrder(orders'[o], o)
        /\ orders'[o].status = "FILLED" => orders'[o].filled >= orders[o].size
        /\ positions' = [positions EXCEPT ![orders[o].symbol] =
                           positions[orders[o].symbol] + Signed(orders[o].side, m.qty)]
        /\ ledgerQty' = [ledgerQty EXCEPT ![ExOf[o]] = ledgerQty[ExOf[o]] + m.qty]
        /\ idempotency' = idempotency
    BY <1>0, <2>1, <2>2, <2>3, ApplyExternalFillEffect DEF SameOrder
  <2>5. \A p \in Known : SameOrder(orders'[p], p) /\ (p # o => orders'[p] = orders[p])
    BY <2>4 DEF OthersKept, SameOrder, Known
  <2> QED BY <1>4, <2>4, <2>5
<1> QED BY <1>0, <1>1, <1>2, <1>3, <1>4 DEF ApplyStatus

-----------------------------------------------------------------------------
(* The exchange *)

\* The exchange executes nothing, and what it may report is not an execution.
ExchangeIdle ==
  /\ BooksKept
  /\ \/ channel' = channel
     \/ \E r \in Report : r.qty = 0 /\ channel' = Append(channel, r)

\* It executes qty of o, and reports it or loses the report.
ExchangeFills(o, qty) ==
  /\ o \in Placed /\ Placed' = Placed
  /\ book'[o].executed = book[o].executed + qty /\ book'[o].executed <= book'[o].size
  /\ \A p \in Placed : book'[p].size = book[p].size
  /\ \A p \in Orders \ {o} : book'[p] = book[p]
  /\ \/ channel' = channel /\ book'[o].lost = book[o].lost + qty
     \/ /\ book'[o].lost = book[o].lost
        /\ \E r \in Report : /\ r.ex = ExOf[o] /\ r.qty = qty
                             /\ r.status \in {"PARTIAL", "FILLED"}
                             /\ channel' = Append(channel, r)

\* An untouched exchange is idle.
LEMMA SameExchangeIdle == ASSUME UNCHANGED exchangeVars PROVE ExchangeIdle
BY DEF ExchangeIdle, BooksKept, Placed, exchangeVars

\* A new state or price of one order keeps what is counted.
LEMMA StateOrPriceKept ==
  ASSUME ExchangeTypeOK, NEW o \in Placed, NEW rec \in Remote,
         rec.size = book[o].size, rec.executed = book[o].executed, rec.lost = book[o].lost,
         book' = [book EXCEPT ![o] = rec]
  PROVE  BooksKept
<1>1. rec.state # "none"
  BY DEF Remote, RemoteStates
<1> QED BY <1>1 DEF ExchangeTypeOK, BooksKept, Placed

\* A report without a quantity, delivered or lost.
LEMMA DeliverNothingExecuted ==
  ASSUME ExchangeTypeOK, NEW o \in Placed, NEW status \in Open \cup Terminal,
         Deliver(ReportOf(o, status, 0))
  PROVE  \/ channel' = channel
         \/ \E r \in Report : r.qty = 0 /\ channel' = Append(channel, r)
<1> DEFINE r == ReportOf(o, status, 0)
<1>1. book[o].key \in Keys /\ ExOf[o] \in ExIDs
  BY PlacedOrders, ExchangeAssumption DEF Placed, Remote
<1>2. r \in Report /\ r.qty = 0
  BY <1>1 DEF ReportOf, Report
<1>3. channel' = channel \/ channel' = Append(channel, r)
  BY DEF Deliver
<1> QED BY <1>2, <1>3

\* A placed order changes its state, or its price, to any other.
LEMMA StateChangeIdle ==
  ASSUME ExchangeTypeOK, NEW o \in Placed, NEW state \in RemoteStates,
         book' = [book EXCEPT ![o].state = state],
         \/ channel' = channel
         \/ \E r \in Report : r.qty = 0 /\ channel' = Append(channel, r)
  PROVE  ExchangeIdle
<1>1. book[o] \in Remote
  BY PlacedOrders DEF Placed
<1>2. PICK rec : rec = [book[o] EXCEPT !.state = state]
  OBVIOUS
<1>3. /\ rec \in Remote /\ rec.size = book[o].size /\ rec.executed = book[o].executed
      /\ rec.lost = book[o].lost
  BY <1>1, <1>2 DEF Remote
<1>4. book' = [book EXCEPT ![o] = rec]
  BY <1>2
<1> QED BY <1>3, <1>4, StateOrPriceKept DEF ExchangeIdle

\* The same for its price.
LEMMA PriceChangeIdle ==
  ASSUME ExchangeTypeOK, NEW o \in Placed, NEW p \in Prices,
         book' = [book EXCEPT ![o].price = p], channel' = channel
  PROVE  ExchangeIdle
<1>1. book[o] \in Remote
  BY PlacedOrders DEF Placed
<1>2. PICK rec : rec = [book[o] EXCEPT !.price = p]
  OBVIOUS
<1>3. /\ rec \in Remote /\ rec.size = book[o].size /\ rec.executed = book[o].executed
      /\ rec.lost = book[o].lost
  BY <1>1, <1>2 DEF Remote
<1>4. book' = [book EXCEPT ![o] = rec]
  BY <1>2
<1> QED BY <1>3, <1>4, StateOrPriceKept DEF ExchangeIdle

\* A remote cancel executes nothing, whether it takes effect or not ...
LEMMA CancelRemoteIdle == ASSUME ExchangeTypeOK, NEW x, CancelRemote(x) PROVE ExchangeIdle
<1>1. ASSUME NEW o \in RemoteOrder(x), book[o].state = "open",
             book' = [book EXCEPT ![o].state = "canceled"], Deliver(ReportOf(o, "CANCELED", 0))
      PROVE  ExchangeIdle
  <2>1. o \in Placed /\ "CANCELED" \in Terminal /\ "canceled" \in RemoteStates
    BY <1>1 DEF RemoteOrder, Placed, Terminal, RemoteStates
  <2> QED BY <1>1, <2>1, DeliverNothingExecuted, StateChangeIdle
<1> QED BY <1>1, SameExchangeIdle DEF CancelRemote

\* ... nor does a remote replace.
LEMMA ReplaceRemoteIdle ==
  ASSUME ExchangeTypeOK, NEW x, NEW p \in Prices, ReplaceRemote(x, p)
  PROVE  ExchangeIdle
<1>1. ASSUME NEW o \in RemoteOrder(x), book[o].state = "open",
             book' = [book EXCEPT ![o].price = p], channel' = channel
      PROVE  ExchangeIdle
  <2>1. o \in Placed
    BY <1>1 DEF RemoteOrder, Placed
  <2> QED BY <1>1, <2>1, PriceChangeIdle
<1> QED BY <1>1, SameExchangeIdle DEF ReplaceRemote

\* A fill on the exchange is executed, and reported or lost.
LEMMA FillExecutes ==
  ASSUME ExchangeTypeOK, NEW o \in Orders, NEW qty \in Nat, Fill(o, qty)
  PROVE  ExchangeFills(o, qty)
<1>1. o \in Placed /\ book[o] \in Remote
  BY PlacedOrders DEF Fill, Placed
<1>2. PICK executed, full, lost, state :
        /\ executed = book[o].executed + qty
        /\ full = (executed = book[o].size)
        /\ lost = IF Delivered THEN book[o].lost ELSE book[o].lost + qty
        /\ state = IF full THEN "filled" ELSE "open"
  OBVIOUS
<1>3. PICK rec : rec = [book[o] EXCEPT !.executed = executed, !.state = state, !.lost = lost]
  OBVIOUS
<1>4. book' = [book EXCEPT ![o] = rec]
  BY <1>1, <1>2, <1>3 DEF Fill, ExchangeTypeOK
<1>5. /\ rec.executed = executed /\ rec.lost = lost /\ rec.size = book[o].size
      /\ rec.state # "none"
  BY <1>1, <1>2, <1>3 DEF Remote
<1>6. /\ book'[o] = rec /\ \A p \in Orders \ {o} : book'[p] = book[p]
      /\ o \in Orders
  BY <1>4 DEF ExchangeTypeOK
<1>7. Placed' = Placed
  BY <1>1, <1>5, <1>6 DEF Placed
<1>8. executed <= book[o].size
  BY <1>2 DEF Fill
<1>9. PICK status \in {"PARTIAL", "FILLED"} :
        channel' = IF Delivered THEN Append(channel, ReportOf(o, status, qty)) ELSE channel
  BY DEF Fill, Deliver
<1>10. /\ ReportOf(o, status, qty) \in Report
       /\ ReportOf(o, status, qty).ex = ExOf[o]
       /\ ReportOf(o, status, qty).qty = qty
       /\ ReportOf(o, status, qty).status \in {"PARTIAL", "FILLED"}
  <2>1. book[o].key \in Keys /\ ExOf[o] \in ExIDs
    BY <1>1, ExchangeAssumption DEF Remote
  <2> QED BY <2>1 DEF ReportOf, Report, Open, Terminal
<1>11. \A p \in Placed : book'[p].size = book[p].size
  BY <1>5, <1>6 DEF Placed
<1>12. CASE Delivered
  BY <1>1, <1>2, <1>5, <1>6, <1>7, <1>8, <1>9, <1>10, <1>11, <1>12 DEF ExchangeFills
<1>13. CASE ~Delivered
  BY <1>1, <1>2, <1>5, <1>6, <1>7, <1>8, <1>9, <1>11, <1>13 DEF ExchangeFills
<1> QED BY <1>12, <1>13

\* What the exchange and the network do on their own.
LEMMA EnvironmentIdleOrFills ==
  ASSUME Inductive, Sizes, Environment
  PROVE  ExchangeIdle \/ \E o \in Orders, qty \in 1 .. MaxQty : ExchangeFills(o, qty)
<1>0. ExchangeTypeOK /\ Placed \subseteq Known
  BY WorkedOn DEF Inductive, TypeOK
<1>1. ASSUME NEW o \in Orders, Accept(o) PROVE ExchangeIdle
  <2>1. o \in Placed /\ "SENT" \in Open /\ "open" \in RemoteStates
    BY <1>1 DEF Accept, Placed, Open, RemoteStates
  <2> QED BY <1>0, <1>1, <2>1, DeliverNothingExecuted, StateChangeIdle DEF Accept
<1>2. ASSUME NEW o \in Orders, Refuse(o) PROVE ExchangeIdle
  <2>1. o \in Placed /\ "refused" \in RemoteStates
    BY <1>2 DEF Refuse, Placed, RemoteStates
  <2> QED BY <1>0, <1>2, <2>1, StateChangeIdle DEF Refuse
<1>3. ASSUME NEW o \in Orders, Reject(o) PROVE ExchangeIdle
  <2>1. o \in Placed /\ "REJECTED" \in Terminal /\ "rejected" \in RemoteStates
    BY <1>3 DEF Reject, Placed, Terminal, RemoteStates
  <2> QED BY <1>0, <1>3, <2>1, DeliverNothingExecuted, StateChangeIdle DEF Reject
<1>4. ASSUME NEW o \in Orders, book[o].state = "open", NEW q \in 1 .. book[o].size, Fill(o, q)
      PROVE  \E qty \in 1 .. MaxQty : ExchangeFills(o, qty)
  <2>1. o \in Placed
    BY <1>4 DEF Placed
  <2>2. book[o].size = orders[o].size /\ orders[o].size <= MaxQty /\ book[o].size \in Nat
    BY <1>0, <2>1, PlacedOrders DEF Sizes, Remote
  <2>3. q \in Nat /\ q \in 1 .. MaxQty
    BY <2>2, MaxQtyAssumption
  <2> QED BY <1>0, <1>4, <2>3, FillExecutes
<1>5. CASE StreamDown \/ StreamUp
  BY <1>5 DEF StreamDown, StreamUp, ExchangeIdle, BooksKept, Placed
<1>6. \/ \E o \in Orders : Accept(o) \/ Refuse(o) \/ Reject(o)
      \/ \E o \in Orders : book[o].state = "open" /\ \E q \in 1 .. book[o].size : Fill(o, q)
      \/ StreamDown \/ StreamUp
  BY DEF Environment
<1> QED BY <1>1, <1>2, <1>3, <1>4, <1>5, <1>6

-----------------------------------------------------------------------------
(* Steps in the background of an order *)

\* What is in hand after a step.
LEMMA HandsAfter ==
  ASSUME NEW o \in Orders
  PROVE  InHand(o)' = Quantity(channel', ExOf[o]) + Quantity(steps'[o], ExOf[o]) + Taken(o)'
BY DEF InHand, Taken

\* A report that comes in.
LEMMA HandsReport ==
  ASSUME TypeOK, UNCHANGED <<steps, consumer>>, NEW r \in Report, channel' = Append(channel, r),
         NEW o \in Orders
  PROVE  InHand(o)' = InHand(o) + Carried(r, ExOf[o])
<1>1. r \in Msg /\ Carried(r, ExOf[o]) \in Nat
  <2>1. r \in Msg
    BY DEF Msg
  <2> QED BY <2>1, MsgCarries
<1>2. Quantity(channel', ExOf[o]) = Quantity(channel, ExOf[o]) + Carried(r, ExOf[o])
  BY <1>1, Queues, QuantityAppend
<1>3. Quantity(steps'[o], ExOf[o]) = Quantity(steps[o], ExOf[o]) /\ Taken(o)' = Taken(o)
  BY DEF Taken
<1> QED BY <1>1, <1>2, <1>3, HandsAfter, InHandParts

\* An idle exchange puts nothing in hand ...
LEMMA IdleHandsKept ==
  ASSUME TypeOK, UNCHANGED <<steps, consumer>>, ExchangeIdle
  PROVE  HandsKept
<1>1. CASE channel' = channel
  BY <1>1 DEF HandsKept, InHand
<1>2. ASSUME NEW r \in Report, r.qty = 0, channel' = Append(channel, r) PROVE HandsKept
  <2>1. ASSUME NEW o \in Orders PROVE InHand(o)' = InHand(o)
    <3>1. InHand(o)' = InHand(o) + Carried(r, ExOf[o])
      BY <1>2, HandsReport
    <3>2. Carried(r, ExOf[o]) = 0
      BY <1>2 DEF Carried
    <3> QED BY <3>1, <3>2, InHandParts
  <2> QED BY <2>1 DEF HandsKept
<1> QED BY <1>1, <1>2 DEF ExchangeIdle

\* ... and a fill puts what it executed in hand, or loses it.
LEMMA FillsExecute ==
  ASSUME Inductive, StoreKept, UNCHANGED <<steps, consumer>>, NEW o \in Orders,
         NEW qty \in 1 .. MaxQty, ExchangeFills(o, qty)
  PROVE  Executes(o, qty)
<1>0. TypeOK /\ qty \in Nat /\ o \in Placed
  BY MaxQtyAssumption DEF Inductive, ExchangeFills
<1>1. book[o].lost \in Nat /\ InHand(o) \in Nat
  BY <1>0, BookNumbers, InHandParts
<1>2. CASE channel' = channel /\ book'[o].lost = book[o].lost + qty
  <2>1. \A p \in Orders : InHand(p)' = InHand(p)
    BY <1>2 DEF InHand
  <2> QED BY <1>0, <1>1, <1>2, <2>1 DEF ExchangeFills, Executes
<1>3. ASSUME NEW r \in Report, r.ex = ExOf[o], r.qty = qty, channel' = Append(channel, r),
             book'[o].lost = book[o].lost
      PROVE  Executes(o, qty)
  <2>1. \A p \in Orders : InHand(p)' = InHand(p) + Carried(r, ExOf[p])
    BY <1>0, <1>3, HandsReport
  <2>2. Carried(r, ExOf[o]) = qty /\ \A p \in Orders \ {o} : Carried(r, ExOf[p]) = 0
    BY <1>3, ExchangeAssumption DEF Carried
  <2>3. \A p \in Orders \ {o} : InHand(p)' = InHand(p)
    BY <1>0, <2>1, <2>2, InHandParts
  <2> QED BY <1>0, <1>1, <1>3, <2>1, <2>2, <2>3 DEF ExchangeFills, Executes
<1> QED BY <1>2, <1>3 DEF ExchangeFills

\* The reports in the channel after a step of the exchange.
LEMMA ChannelAfter ==
  ASSUME TypeOK, Executions,
         ExchangeIdle \/ \E o \in Orders, qty \in 1 .. MaxQty : ExchangeFills(o, qty)
  PROVE  \A i \in 1 .. Len(channel') :
           channel'[i].status \in {"PARTIAL", "FILLED"} \/ channel'[i].qty = 0
<1>1. CASE channel' = channel
  BY <1>1 DEF Executions
<1>2. ASSUME NEW r \in Report, r.status \in {"PARTIAL", "FILLED"} \/ r.qty = 0,
             channel' = Append(channel, r), NEW i \in 1 .. Len(channel')
      PROVE  channel'[i].status \in {"PARTIAL", "FILLED"} \/ channel'[i].qty = 0
  <2>1. channel'[i] = r \/ (i \in 1 .. Len(channel) /\ channel'[i] = channel[i])
    BY <1>2, Queues
  <2> QED BY <1>2, <2>1 DEF Executions
<1>3. \/ channel' = channel
      \/ \E r \in Report : /\ r.status \in {"PARTIAL", "FILLED"} \/ r.qty = 0
                           /\ channel' = Append(channel, r)
  BY DEF ExchangeIdle, ExchangeFills
<1> QED BY <1>1, <1>2, <1>3

\* A step in the background is quiet, or the exchange executes.
LEMMA BackgroundProgress ==
  ASSUME Accounted, Background, StoreKept,
         \/ ExchangeIdle
         \/ Async /\ \E o \in Orders, qty \in 1 .. MaxQty : ExchangeFills(o, qty),
         \A h \in Orders : pc'[h] \notin {"idle", "rejected"} => req'[h].size <= MaxQty
  PROVE  Progress /\ Sizes' /\ Executions'
<1>0. /\ Inductive /\ TypeOK /\ Sizes /\ Executions /\ UNCHANGED <<reserved, steps, consumer>>
      /\ Placed \subseteq Known /\ Known \subseteq Orders
  BY WorkedOn DEF Accounted, Inductive, Background
<1>1. Progress
  <2>1. ExchangeIdle => Quiet
    BY <1>0, IdleHandsKept DEF Quiet, ExchangeIdle
  <2>2. \A o \in Orders, qty \in 1 .. MaxQty : ExchangeFills(o, qty) => Executes(o, qty)
    BY <1>0, FillsExecute
  <2> QED BY <2>1, <2>2 DEF Progress
<1>2. \A o \in Placed' : /\ o \in Placed /\ book'[o].size = book[o].size
                         /\ book'[o].executed <= book'[o].size
  <2>1. CASE ExchangeIdle
    BY <1>0, <2>1 DEF ExchangeIdle, BooksKept, Sizes, Placed
  <2>2. ASSUME NEW o \in Orders, NEW qty \in 1 .. MaxQty, ExchangeFills(o, qty), NEW p \in Placed'
        PROVE  /\ p \in Placed /\ book'[p].size = book[p].size
               /\ book'[p].executed <= book'[p].size
    <3>1. p \in Placed /\ p \in Orders
      BY <2>2 DEF ExchangeFills, Placed
    <3> QED BY <1>0, <2>2, <3>1 DEF ExchangeFills, Sizes
  <2> QED BY <2>1, <2>2
<1>3. \A h \in Orders : pc'[h] = pc[h] \/ (pc'[h] \notin Stored /\ pc[h] \notin Stored)
  BY DEF Background
<1>4. \A o \in Known : SameOrder(orders'[o], o)
  BY DEF StoreKept
<1>5. \A h \in Orders : pc[h] \in Stored => h \in Known
  BY <1>0 DEF Inductive, Control
<1>6. Sizes'
  <2>1. \A o \in Known' : orders'[o].size <= MaxQty
    BY <1>0, <1>4 DEF StoreKept, Sizes, SameOrder
  <2>2. \A o \in Placed' : book'[o].size = orders'[o].size
    BY <1>0, <1>2, <1>4 DEF Sizes, SameOrder
  <2>3. \A h \in Orders : pc'[h] = "send" => SameOrder(reserved[h], h)'
    BY <1>0, <1>3, <1>4, <1>5 DEF Sizes, SameOrder, Stored
  <2>4. consumer.pc = "reject" => SameOrder(consumer.copy, consumer.order)'
    <3>1. consumer.pc = "reject" => consumer.order \in Known
      BY <1>0, WorkedOn
    <3> QED BY <1>0, <1>4, <3>1 DEF Sizes, SameOrder
  <2> QED BY <1>0, <1>2, <2>1, <2>2, <2>3, <2>4 DEF Sizes
<1>7. Executions'
  <2>1. \A i \in 1 .. Len(channel') :
          channel'[i].status \in {"PARTIAL", "FILLED"} \/ channel'[i].qty = 0
    BY <1>0, ChannelAfter
  <2>2. \A h \in Orders : pc'[h] \notin {"step", "apply"} => steps'[h] = <<>>
    BY <1>0, <1>3 DEF Executions, Stored
  <2>3. ASSUME ~Async, NEW h \in Orders
        PROVE  /\ book'[h].lost = 0
               /\ book'[h].executed =
                    IF pc'[h] \in {"step", "apply", "done"} THEN orders'[h].size ELSE 0
    <3>1. book'[h].lost = book[h].lost /\ book'[h].executed = book[h].executed
      BY <2>3 DEF ExchangeIdle, BooksKept
    <3>2. CASE pc'[h] \in {"step", "apply", "done"}
      <4>1. pc[h] = pc'[h] /\ h \in Known
        BY <1>3, <1>5, <3>2 DEF Stored
      <4> QED BY <1>0, <1>4, <2>3, <3>1, <3>2, <4>1 DEF Executions, SameOrder
    <3>3. CASE pc'[h] \notin {"step", "apply", "done"}
      <4>1. pc[h] \notin {"step", "apply", "done"}
        BY <1>3, <3>3 DEF Stored
      <4> QED BY <1>0, <2>3, <3>1, <3>3, <4>1 DEF Executions
    <3> QED BY <3>2, <3>3
  <2> QED BY <1>0, <2>1, <2>2, <2>3 DEF Executions
<1> QED BY <1>1, <1>6, <1>7
\* Before the order is stored: an allowed request may only have become smaller.
LEMMA BeforeReserveProgress ==
  ASSUME Accounted, NEW h \in Orders,
         RiskDeny(h) \/ RiskAllow(h) \/ EvictRemote(h) \/ EvictLocal(h) \/ Duplicate(h)
  PROVE  Progress /\ Sizes' /\ Executions'
<1>0. /\ Inductive /\ Sizes /\ StoreTypeOK /\ ExchangeTypeOK
      /\ pc \in [Orders -> PCs] /\ req \in [Orders -> Request \cup {None}]
  BY DEF Accounted, Inductive, TypeOK, GatewayTypeOK
<1>1. Background
  BY <1>0, BeforeReserve
<1>2. StoreKept
  <2>1. CASE EvictLocal(h)
    <3>1. CancelOrder(victim[h]) /\ victim[h] \in Orders
      BY <2>1 DEF EvictLocal, CancelOrder, SetStatus, Known
    <3> QED BY <1>0, <3>1, SetStatusKept DEF CancelOrder, Terminal
  <2>2. CASE RiskDeny(h) \/ RiskAllow(h) \/ EvictRemote(h) \/ Duplicate(h)
    BY <2>2, SameStoreKept DEF RiskDeny, RiskAllow, EvictRemote, Duplicate
  <2> QED BY <2>1, <2>2
<1>3. ExchangeIdle
  <2>1. CASE EvictRemote(h)
    BY <1>0, <2>1, CancelRemoteIdle, SameExchangeIdle DEF EvictRemote
  <2>2. CASE RiskDeny(h) \/ RiskAllow(h) \/ EvictLocal(h) \/ Duplicate(h)
    BY <2>2, SameExchangeIdle DEF RiskDeny, RiskAllow, EvictLocal, Duplicate
  <2> QED BY <2>1, <2>2
<1>4. \A g \in Orders : pc'[g] \notin {"idle", "rejected"} => req'[g].size <= MaxQty
  <2>1. CASE RiskAllow(h)
    <3>1. PICK r \in Requests : \E q \in 1 .. r.size : req' = [req EXCEPT ![h] = [r EXCEPT !.size = q]]
      BY <2>1 DEF RiskAllow
    <3>2. PICK q \in 1 .. r.size : req' = [req EXCEPT ![h] = [r EXCEPT !.size = q]]
      BY <3>1
    <3>3. r \in Request /\ r.size \in Nat /\ r.size <= MaxQty
      BY GatewayAssumption, MaxQtyAssumption DEF Request
    <3>4. req'[h].size = q /\ \A g \in Orders \ {h} : req'[g] = req[g]
      BY <1>0, <3>2, <3>3 DEF Request
    <3>5. q <= MaxQty
      BY <3>3, MaxQtyAssumption
    <3>6. \A g \in Orders \ {h} : pc'[g] = pc[g]
      BY <1>0, <2>1 DEF RiskAllow, Goto
    <3> QED BY <1>0, <3>4, <3>5, <3>6 DEF Sizes
  <2>2. CASE RiskDeny(h) \/ EvictRemote(h) \/ EvictLocal(h) \/ Duplicate(h)
    <3>1. req' = req /\ \A g \in Orders : pc'[g] \notin {"idle", "rejected"} => pc[g] \notin {"idle", "rejected"}
      BY <1>0, <2>2 DEF RiskDeny, EvictRemote, EvictLocal, Duplicate, Goto
    <3> QED BY <1>0, <3>1 DEF Sizes
  <2> QED BY <2>1, <2>2
<1> QED BY <1>1, <1>2, <1>3, <1>4, BackgroundProgress

\* A step that leaves every Submit call where it is.
LEMMA CallProgress ==
  ASSUME Accounted, Background, StoreKept, UNCHANGED submitVars,
         \/ ExchangeIdle
         \/ Async /\ \E o \in Orders, qty \in 1 .. MaxQty : ExchangeFills(o, qty)
  PROVE  Progress /\ Sizes' /\ Executions'
<1>1. \A h \in Orders : pc'[h] \notin {"idle", "rejected"} => req'[h].size <= MaxQty
  BY DEF Accounted, Sizes, submitVars
<1> QED BY <1>1, BackgroundProgress

\* Replace changes a price in the store and nothing else.
LEMMA StartReplaceKept ==
  ASSUME StoreTypeOK, NEW c, NEW o \in Orders, NEW p \in Prices, StartReplace(c, o, p)
  PROVE  StoreKept /\ UNCHANGED submitVars /\ UNCHANGED exchangeVars
BY SameStoreKept, ReplacePriceKept DEF StartReplace

\* The calls that cancel, replace and switch are quiet at their start ...
LEMMA StartCallProgress ==
  ASSUME Accounted, NEW c \in Calls, StartCall(c)
  PROVE  Progress /\ Sizes' /\ Executions'
<1>0. Inductive /\ StoreTypeOK
  BY DEF Accounted, Inductive, TypeOK
<1>1. Background
  BY <1>0, StartCallBackground
<1>2. ASSUME NEW o \in Orders, StartCancel(c, o)
      PROVE  StoreKept /\ UNCHANGED submitVars /\ UNCHANGED exchangeVars
  BY <1>2, SameStoreKept DEF StartCancel
<1>3. ASSUME NEW o \in Orders, NEW s \in Strategies, NEW p \in Prices \cup {None},
             SwitchStrategy(c, o, s, p)
      PROVE  StoreKept /\ UNCHANGED submitVars /\ UNCHANGED exchangeVars
  <2>1. CASE StartCancel(c, o)
    BY <1>2, <2>1
  <2>2. CASE p # None /\ StartReplace(c, o, p)
    BY <1>0, <2>2, StartReplaceKept
  <2>3. CASE UNCHANGED <<storeVars, exchangeVars, submitVars, consumer>>
    BY <2>3, SameStoreKept
  <2> QED BY <1>3, <2>1, <2>2, <2>3 DEF SwitchStrategy
<1>4. StoreKept /\ UNCHANGED submitVars /\ UNCHANGED exchangeVars
  BY <1>0, <1>2, <1>3, StartReplaceKept DEF StartCall
<1> QED BY <1>1, <1>4, SameExchangeIdle, CallProgress

\* ... and at their end.
LEMMA FinishCallProgress ==
  ASSUME Accounted, NEW c \in Calls, FinishCall(c)
  PROVE  Progress /\ Sizes' /\ Executions'
<1>0. Inductive /\ StoreTypeOK /\ ExchangeTypeOK /\ GatewayTypeOK
  BY DEF Accounted, Inductive, TypeOK
<1>1. Background
  BY <1>0, FinishCallBackground
<1>2. UNCHANGED submitVars
  BY DEF FinishCall, CancelRemoteCall, CancelLocalCall, ReplaceRemoteCall
<1>3. StoreKept
  <2>1. CASE CancelLocalCall(c)
    <3>1. CancelOrder(call[c].order) /\ call[c].order \in Orders
      BY <2>1 DEF CancelLocalCall, CancelOrder, SetStatus, Known
    <3> QED BY <1>0, <3>1, SetStatusKept DEF CancelOrder, Terminal
  <2> QED BY <2>1, SameStoreKept DEF FinishCall, CancelRemoteCall, ReplaceRemoteCall
<1>4. ExchangeIdle
  <2>1. CASE ReplaceRemoteCall(c)
    <3>1. call[c] \in Call /\ call[c].pc = "replaceRemote"
      BY <1>0, <2>1 DEF ReplaceRemoteCall, GatewayTypeOK
    <3>2. call[c].price \in Prices
      BY <3>1 DEF Call, CallIdle, CallDone
    <3> QED BY <1>0, <2>1, <3>2, ReplaceRemoteIdle DEF ReplaceRemoteCall
  <2>2. CASE CancelRemoteCall(c)
    BY <1>0, <2>2, CancelRemoteIdle DEF CancelRemoteCall
  <2>3. CASE CancelLocalCall(c)
    BY <2>3, SameExchangeIdle DEF CancelLocalCall
  <2> QED BY <2>1, <2>2, <2>3 DEF FinishCall
<1> QED BY <1>1, <1>2, <1>3, <1>4, CallProgress

\* The exchange on its own is idle or executes.
LEMMA EnvironmentProgress ==
  ASSUME Accounted, Environment
  PROVE  Progress /\ Sizes' /\ Executions'
<1>0. Inductive /\ Sizes
  BY DEF Accounted
<1>1. Background
  BY <1>0, EnvironmentBackground
<1>2. Async /\ StoreKept /\ UNCHANGED submitVars
  BY SameStoreKept DEF Environment
<1> QED BY <1>0, <1>1, <1>2, EnvironmentIdleOrFills, CallProgress

\* Nothing happens.
LEMMA StutterProgress ==
  ASSUME Accounted, UNCHANGED vars
  PROVE  Progress /\ Sizes' /\ Executions'
<1>1. Background
  <2>0. StoreTypeOK /\ ExchangeTypeOK /\ GatewayTypeOK /\ Control /\ Fills
    BY DEF Accounted, Inductive, TypeOK
  <2>1. UNCHANGED <<storeVars, exchangeVars, submitVars, consumer, call>>
    BY DEF vars
  <2>2. StoreQuiet /\ ExchangeStep
    BY <2>0, <2>1, SameStoreQuiet, NoExchangeEffect
  <2>3. GatewayTypeOK'
    BY <2>0, <2>1 DEF GatewayTypeOK, submitVars
  <2> QED BY <2>0, <2>1, <2>2, <2>3 DEF Background, Control, Fills, submitVars, exchangeVars
<1>2. StoreKept /\ ExchangeIdle /\ UNCHANGED submitVars
  BY SameStoreKept, SameExchangeIdle DEF vars
<1> QED BY <1>1, <1>2, CallProgress

-----------------------------------------------------------------------------
(* The steps that change an order *)

\* Nothing moves on the exchange or in the channel, and nothing of what the
\* consumer holds.
LEMMA NothingMoves ==
  ASSUME UNCHANGED <<exchangeVars, steps, consumer>>
  PROVE  BooksKept /\ HandsKept
BY DEF BooksKept, HandsKept, InHand, Placed, exchangeVars

\* Reserving claims the key.
LEMMA ReserveProgress ==
  ASSUME Accounted, NEW h \in Orders, Reserve(h)
  PROVE  Progress /\ Sizes' /\ Executions'
<1>0. /\ Inductive /\ Sizes /\ Executions /\ StoreTypeOK /\ GatewayTypeOK
      /\ Placed \subseteq Known /\ Known \subseteq Orders
  BY WorkedOn DEF Accounted, Inductive, TypeOK
<1>1. /\ pc[h] = "protect" /\ pc' = [pc EXCEPT ![h] = "mark"] /\ ReserveOrder(h, req[h])
      /\ UNCHANGED <<exchangeVars, req, snap, victim, reserved, steps, consumer, call>>
  BY DEF Reserve, Goto
<1>2. req[h] \in Request /\ h \notin Known /\ h \notin Placed /\ req[h].size <= MaxQty
  BY <1>0, <1>1 DEF Inductive, Control, Stored, Sent, Sizes
<1>3. /\ Known' = Known \cup {h}
      /\ OthersKept(h)
      /\ orders'[h] = NewOrder(req[h])
      /\ idempotency[req[h].key] = None /\ req[h].key \in Keys
      /\ idempotency' = [idempotency EXCEPT ![req[h].key] = h]
      /\ UNCHANGED fillVars
  BY <1>0, <1>1, <1>2, ReserveOrderEffect
<1>4. orders'[h].status = "NEW" /\ orders'[h].size = req[h].size
  BY <1>3 DEF NewOrder
<1>5. \A o \in Known : o # h /\ o \in Orders /\ orders'[o] = orders[o] /\ pc'[o] = pc[o]
  BY <1>0, <1>1, <1>2, <1>3 DEF OthersKept, GatewayTypeOK
<1>6. BooksKept /\ HandsKept
  BY <1>1, NothingMoves
<1>7. Claims(h)
  BY <1>2, <1>3, <1>4, <1>5, <1>6 DEF Claims, fillVars
<1>8. pc'[h] = "mark" /\ \A g \in Orders \ {h} : pc'[g] = pc[g]
  BY <1>0, <1>1 DEF GatewayTypeOK
<1>9. Placed' = Placed /\ UNCHANGED <<book, channel>>
  BY <1>1 DEF exchangeVars, Placed
<1>10. Sizes'
  <2>1. \A o \in Known' : orders'[o].size <= MaxQty
    BY <1>0, <1>2, <1>3, <1>4, <1>5 DEF Sizes
  <2>2. \A o \in Placed' : book'[o].size = orders'[o].size /\ book'[o].executed <= book'[o].size
    BY <1>0, <1>5, <1>9 DEF Sizes
  <2>3. \A g \in Orders : pc'[g] \notin {"idle", "rejected"} => req'[g].size <= MaxQty
    BY <1>0, <1>1, <1>2, <1>8 DEF Sizes
  <2>4. \A g \in Orders : pc'[g] = "send" => SameOrder(reserved[g], g)'
    <3>1. \A g \in Orders : pc'[g] = "send" => g \in Known /\ pc[g] = "send"
      BY <1>0, <1>8 DEF Inductive, Control, Stored
    <3> QED BY <1>0, <1>1, <1>5, <3>1 DEF Sizes, SameOrder
  <2>5. consumer.pc = "reject" =>
          consumer.copy.status = "REJECTED" /\ SameOrder(consumer.copy, consumer.order)'
    <3>1. consumer.pc = "reject" => consumer.order \in Known
      BY <1>0, WorkedOn
    <3> QED BY <1>0, <1>1, <1>5, <3>1 DEF Sizes, SameOrder
  <2> QED BY <1>1, <2>1, <2>2, <2>3, <2>4, <2>5 DEF Sizes
<1>11. Executions'
  <2>1. \A g \in Orders : /\ pc'[g] \notin {"step", "apply"} => steps'[g] = <<>>
                          /\ steps'[g] = steps[g]
    BY <1>0, <1>1, <1>8 DEF Executions
  <2>2. ASSUME ~Async, NEW g \in Orders
        PROVE  /\ book'[g].lost = 0
               /\ book'[g].executed = IF pc'[g] \in {"step", "apply", "done"} THEN orders'[g].size ELSE 0
    <3>1. CASE g = h
      BY <1>0, <1>1, <1>8, <1>9, <2>2, <3>1 DEF Executions
    <3>2. CASE g # h
      <4>1. pc[g] \in {"step", "apply", "done"} => orders'[g] = orders[g]
        BY <1>0, <1>5 DEF Inductive, Control, Stored
      <4> QED BY <1>0, <1>8, <1>9, <2>2, <3>2, <4>1 DEF Executions
    <3> QED BY <3>1, <3>2
  <2> QED BY <1>0, <1>1, <1>9, <2>1, <2>2 DEF Executions
<1> QED BY <1>7, <1>10, <1>11 DEF Progress

\* Marking an order as sent places it.
LEMMA MarkProgress ==
  ASSUME Accounted, NEW h \in Orders, Mark(h)
  PROVE  Progress /\ Sizes' /\ Executions'
<1>0. /\ Inductive /\ Sizes /\ Executions /\ StoreTypeOK /\ ExchangeTypeOK /\ GatewayTypeOK
      /\ Placed \subseteq Known /\ Known \subseteq Orders /\ FillConservation /\ TypeOK
  BY WorkedOn DEF Accounted, Inductive, TypeOK
<1>1. /\ pc[h] = "mark" /\ pc' = [pc EXCEPT ![h] = "send"] /\ SetStatus(h, "SENT")
      /\ reserved' = [reserved EXCEPT ![h] = orders'[h]]
      /\ Place(h, orders'[h])
      /\ UNCHANGED <<channel, stream, req, snap, victim, steps, consumer, call>>
  BY DEF Mark, Goto, MarkOrderSent
<1>2. h \in Known /\ h \notin Placed
  BY <1>0, <1>1 DEF Inductive, Control, Stored, Sent
<1>3. StoreKept
  BY <1>0, <1>1, SetStatusKept DEF Open
<1>4. book[h] = NoRemote
  BY <1>0, <1>2 DEF ExchangeTypeOK, Placed, Remote, RemoteStates
<1>5. /\ book'[h].executed = 0 /\ book'[h].lost = 0 /\ book'[h].size = orders'[h].size
      /\ book'[h].state = "inflight"
      /\ \A o \in Orders \ {h} : book'[o] = book[o]
  BY <1>0, <1>1 DEF Place, ExchangeTypeOK
<1>6. Placed' = Placed \cup {h}
  BY <1>5 DEF Placed
<1>7. HandsKept
  BY <1>1 DEF HandsKept, InHand
<1>8. Places(h)
  BY <1>2, <1>3, <1>4, <1>5, <1>6, <1>7 DEF Places, NoRemote
<1>9. pc'[h] = "send" /\ reserved'[h] = orders'[h]
      /\ \A g \in Orders \ {h} : pc'[g] = pc[g] /\ reserved'[g] = reserved[g]
  BY <1>0, <1>1 DEF GatewayTypeOK
<1>10. Known' = Known /\ \A o \in Known : SameOrder(orders'[o], o)
  BY <1>3 DEF StoreKept
<1>11. orders[h].size \in Nat
  BY <1>0, <1>2, KnownOrders DEF Order
<1>12. Sizes'
  <2>1. \A o \in Known' : orders'[o].size <= MaxQty
    BY <1>0, <1>10 DEF Sizes, SameOrder
  <2>2. \A o \in Placed' : book'[o].size = orders'[o].size /\ book'[o].executed <= book'[o].size
    <3>1. book'[h].size = orders'[h].size /\ book'[h].executed <= book'[h].size
      BY <1>2, <1>5, <1>10, <1>11 DEF SameOrder
    <3> QED BY <1>0, <1>2, <1>5, <1>6, <1>10, <3>1 DEF Sizes, SameOrder
  <2>3. \A g \in Orders : pc'[g] \notin {"idle", "rejected"} => req'[g].size <= MaxQty
    BY <1>0, <1>1, <1>9 DEF Sizes
  <2>4. \A g \in Orders : pc'[g] = "send" => SameOrder(reserved[g], g)'
    <3>1. \A g \in Orders : pc[g] = "send" => g \in Known
      BY <1>0 DEF Inductive, Control, Stored
    <3> QED BY <1>0, <1>9, <1>10, <3>1 DEF Sizes, SameOrder
  <2>5. consumer.pc = "reject" =>
          consumer.copy.status = "REJECTED" /\ SameOrder(consumer.copy, consumer.order)'
    <3>1. consumer.pc = "reject" => consumer.order \in Known
      BY <1>0, WorkedOn
    <3> QED BY <1>0, <1>1, <1>10, <3>1 DEF Sizes, SameOrder
  <2> QED BY <1>1, <2>1, <2>2, <2>3, <2>4, <2>5 DEF Sizes
<1>13. Executions'
  <2>1. \A g \in Orders : /\ pc'[g] \notin {"step", "apply"} => steps'[g] = <<>>
                          /\ steps'[g] = steps[g]
    BY <1>0, <1>1, <1>9 DEF Executions
  <2>2. ASSUME ~Async, NEW g \in Orders
        PROVE  /\ book'[g].lost = 0
               /\ book'[g].executed = IF pc'[g] \in {"step", "apply", "done"} THEN orders'[g].size ELSE 0
    <3>1. CASE g = h
      BY <1>5, <1>9, <3>1
    <3>2. CASE g # h
      <4>1. pc[g] \in {"step", "apply", "done"} => g \in Known
        BY <1>0 DEF Inductive, Control, Stored
      <4> QED BY <1>0, <1>5, <1>9, <1>10, <2>2, <3>2, <4>1 DEF Executions, SameOrder
    <3> QED BY <3>1, <3>2
  <2> QED BY <1>0, <1>1, <2>1, <2>2 DEF Executions
<1> QED BY <1>8, <1>12, <1>13 DEF Progress

\* A failed request is quiet: the copy written back is of the same order.
LEMMA SendFailProgress ==
  ASSUME Accounted, NEW h \in Orders, SendFail(h)
  PROVE  Progress /\ Sizes' /\ Executions'
<1>0. /\ Inductive /\ Sizes /\ Executions /\ StoreTypeOK /\ GatewayTypeOK
      /\ Placed \subseteq Known /\ Known \subseteq Orders
  BY WorkedOn DEF Accounted, Inductive, TypeOK
<1>1. /\ pc[h] = "send" /\ pc' = [pc EXCEPT ![h] = "failed"]
      /\ UpdateOrder(h, [reserved[h] EXCEPT !.status = "REJECTED"])
      /\ UNCHANGED <<exchangeVars, req, snap, victim, reserved, steps, consumer, call>>
  BY DEF SendFail, Goto
<1>2. h \in Known /\ reserved[h] \in Order /\ SameOrder(reserved[h], h)
  BY <1>0, <1>1 DEF Inductive, Control, Stored, Sizes
<1>3. PICK copy \in Order : copy = [reserved[h] EXCEPT !.status = "REJECTED"]
  BY <1>2 DEF Order, Terminal
<1>4. copy.status = "REJECTED" /\ SameOrder(copy, h)
  BY <1>2, <1>3 DEF SameOrder, Order
<1>5. StoreKept
  BY <1>0, <1>1, <1>2, <1>3, <1>4, UpdateKept
<1>6. BooksKept /\ HandsKept
  BY <1>1, NothingMoves
<1>7. pc'[h] = "failed" /\ \A g \in Orders \ {h} : pc'[g] = pc[g]
  BY <1>0, <1>1 DEF GatewayTypeOK
<1>8. Known' = Known /\ \A o \in Known : SameOrder(orders'[o], o)
  BY <1>5 DEF StoreKept
<1>9. Placed' = Placed /\ UNCHANGED <<book, channel>>
  BY <1>1 DEF exchangeVars, Placed
<1>10. Sizes'
  <2>1. \A o \in Known' : orders'[o].size <= MaxQty
    BY <1>0, <1>8 DEF Sizes, SameOrder
  <2>2. \A o \in Placed' : book'[o].size = orders'[o].size /\ book'[o].executed <= book'[o].size
    BY <1>0, <1>8, <1>9 DEF Sizes, SameOrder
  <2>3. \A g \in Orders : pc'[g] \notin {"idle", "rejected"} => req'[g].size <= MaxQty
    BY <1>0, <1>1, <1>7 DEF Sizes
  <2>4. \A g \in Orders : pc'[g] = "send" => SameOrder(reserved[g], g)'
    <3>1. \A g \in Orders : pc'[g] = "send" => pc[g] = "send" /\ g \in Known
      BY <1>0, <1>7 DEF Inductive, Control, Stored
    <3> QED BY <1>0, <1>1, <1>8, <3>1 DEF Sizes, SameOrder
  <2>5. consumer.pc = "reject" =>
          consumer.copy.status = "REJECTED" /\ SameOrder(consumer.copy, consumer.order)'
    <3>1. consumer.pc = "reject" => consumer.order \in Known
      BY <1>0, WorkedOn
    <3> QED BY <1>0, <1>1, <1>8, <3>1 DEF Sizes, SameOrder
  <2> QED BY <1>1, <2>1, <2>2, <2>3, <2>4, <2>5 DEF Sizes
<1>11. Executions'
  <2>1. \A g \in Orders : /\ pc'[g] \notin {"step", "apply"} => steps'[g] = <<>>
                          /\ steps'[g] = steps[g]
    BY <1>0, <1>1, <1>7 DEF Executions
  <2>2. ASSUME ~Async, NEW g \in Orders
        PROVE  /\ book'[g].lost = 0
               /\ book'[g].executed = IF pc'[g] \in {"step", "apply", "done"} THEN orders'[g].size ELSE 0
    <3>1. CASE g = h
      BY <1>0, <1>1, <1>7, <1>9, <2>2, <3>1 DEF Executions
    <3>2. CASE g # h
      <4>1. pc[g] \in {"step", "apply", "done"} => g \in Known
        BY <1>0 DEF Inductive, Control, Stored
      <4> QED BY <1>0, <1>7, <1>8, <1>9, <2>2, <3>2, <4>1 DEF Executions, SameOrder
    <3> QED BY <3>1, <3>2
  <2> QED BY <1>0, <1>1, <1>9, <2>1, <2>2 DEF Executions
<1> QED BY <1>5, <1>6, <1>10, <1>11 DEF Progress, Quiet

\* What lists of one, two and three steps carry.
LEMMA QuantityLists ==
  ASSUME NEW x, NEW a \in Step, NEW b \in Step, NEW c \in Step
  PROVE  /\ Quantity(<<a>>, x) = Carried(a, x)
         /\ Quantity(<<a, b>>, x) = Carried(a, x) + Carried(b, x)
         /\ Quantity(<<a, b, c>>, x) = Carried(a, x) + Carried(b, x) + Carried(c, x)
<1>1. a \in Msg /\ b \in Msg /\ c \in Msg
  BY DEF Msg
<1>2. PICK e, s, t, u : /\ e = <<>> /\ s = <<a>> /\ t = <<a, b>> /\ u = <<a, b, c>>
                         /\ e \in Seq(Msg) /\ s \in Seq(Msg) /\ t \in Seq(Msg)
                         /\ s = Append(e, a) /\ t = Append(s, b) /\ u = Append(t, c)
  <2>1. <<>> \in Seq(Msg) /\ <<a>> \in Seq(Msg) /\ <<a, b>> \in Seq(Msg)
    BY <1>1
  <2>2. <<a>> = Append(<<>>, a)
    OBVIOUS
  <2>3. <<a, b>> = Append(<<a>>, b)
    OBVIOUS
  <2>4. <<a, b, c>> = Append(<<a, b>>, c)
    OBVIOUS
  <2> QED BY <2>1, <2>2, <2>3, <2>4, Zenon
<1>3. Carried(a, x) \in Nat /\ Carried(b, x) \in Nat /\ Carried(c, x) \in Nat
  BY <1>1, MsgCarries
<1>4. Quantity(e, x) = 0
  BY <1>2, QuantityEmpty
<1>5. /\ Quantity(s, x) = Quantity(e, x) + Carried(a, x)
      /\ Quantity(t, x) = Quantity(s, x) + Carried(b, x)
      /\ Quantity(u, x) = Quantity(t, x) + Carried(c, x)
  <2>0. e \in Seq(Msg) /\ s \in Seq(Msg) /\ t \in Seq(Msg)
    BY <1>2, Zenon
  <2>1. /\ Quantity(Append(e, a), x) = Quantity(e, x) + Carried(a, x)
        /\ Quantity(Append(s, b), x) = Quantity(s, x) + Carried(b, x)
        /\ Quantity(Append(t, c), x) = Quantity(t, x) + Carried(c, x)
    <3>1. Quantity(Append(e, a), x) = Quantity(e, x) + Carried(a, x)
      BY <1>1, <2>0, QuantityAppend
    <3>2. Quantity(Append(s, b), x) = Quantity(s, x) + Carried(b, x)
      BY <1>1, <2>0, QuantityAppend
    <3>3. Quantity(Append(t, c), x) = Quantity(t, x) + Carried(c, x)
      BY <1>1, <2>0, QuantityAppend
    <3> QED BY <3>1, <3>2, <3>3, Zenon
  <2> QED BY <1>2, <2>1, Zenon
<1>6. /\ Quantity(s, x) = Carried(a, x)
      /\ Quantity(t, x) = Carried(a, x) + Carried(b, x)
      /\ Quantity(u, x) = Carried(a, x) + Carried(b, x) + Carried(c, x)
  BY <1>3, <1>4, <1>5
<1> QED BY <1>2, <1>6, Zenon

\* The last of them, for a list of three known by another name.
LEMMA QuantityThree ==
  ASSUME NEW x, NEW a \in Step, NEW b \in Step, NEW c \in Step, NEW u, u = <<a, b, c>>
  PROVE  Quantity(u, x) = Carried(a, x) + Carried(b, x) + Carried(c, x)
BY QuantityLists

\* The paper exchange returns the whole size of the order, in one fill or two.
LEMMA PaperStepsCarrySize ==
  ASSUME NEW h \in Orders, reserved[h].size \in Nat
  PROVE  /\ PaperSteps(h) \in Seq(Step)
         /\ Quantity(PaperSteps(h), ExOf[h]) = reserved[h].size
         /\ \A i \in 1 .. Len(PaperSteps(h)) :
              PaperSteps(h)[i].status \in {"PARTIAL", "FILLED"} \/ PaperSteps(h)[i].qty = 0
<1>0. ExOf[h] \in ExIDs
  BY ExchangeAssumption
<1>1. PICK size \in Nat, half \in Nat :
        size = reserved[h].size /\ half = size \div 2 /\ half <= size
  <2>1. \A n \in Nat : n \div 2 \in Nat /\ n \div 2 <= n
    OBVIOUS
  <2> QED BY <2>1
<1>2. size - half \in Nat /\ 0 + half + (size - half) = size
  <2>1. \A m, n \in Nat : n <= m => m - n \in Nat /\ 0 + n + (m - n) = m
    OBVIOUS
  <2> QED BY <1>1, <2>1, Zenon
<1>3. PICK ack, whole, first, second :
        /\ ack = AckStep(ExOf[h])
        /\ whole = [status |-> "FILLED", ex |-> ExOf[h], qty |-> size]
        /\ first = [status |-> "PARTIAL", ex |-> ExOf[h], qty |-> half]
        /\ second = [status |-> "FILLED", ex |-> ExOf[h], qty |-> size - half]
  OBVIOUS
<1>4. ack \in Step /\ whole \in Step /\ first \in Step /\ second \in Step
  BY <1>0, <1>1, <1>2, <1>3 DEF AckStep, Step, Open, Terminal
<1>5. /\ Carried(ack, ExOf[h]) = 0 /\ Carried(whole, ExOf[h]) = size
      /\ Carried(first, ExOf[h]) = half /\ Carried(second, ExOf[h]) = size - half
  BY <1>3 DEF Carried, AckStep
<1>6. /\ ack.qty = 0
      /\ \A m \in {whole, first, second} : m.status \in {"PARTIAL", "FILLED"}
  BY <1>3 DEF AckStep
<1>7. PaperSteps(h) = <<ack, first, second>> \/ PaperSteps(h) = <<ack, whole>>
  BY <1>1, <1>3 DEF PaperSteps
<1>8. CASE PaperSteps(h) = <<ack, first, second>>
  <2>1. Quantity(<<ack, first, second>>, ExOf[h]) =
          Carried(ack, ExOf[h]) + Carried(first, ExOf[h]) + Carried(second, ExOf[h])
    BY <1>4, QuantityThree
  <2>2. Quantity(<<ack, first, second>>, ExOf[h]) = size
    BY <1>2, <1>5, <2>1
  <2>3. <<ack, first, second>> \in Seq(Step)
    BY <1>4
  <2>4. \A i \in 1 .. 3 : \/ <<ack, first, second>>[i].status \in {"PARTIAL", "FILLED"}
                          \/ <<ack, first, second>>[i].qty = 0
    BY <1>6
  <2> QED BY <1>1, <1>8, <2>2, <2>3, <2>4
<1>9. CASE PaperSteps(h) = <<ack, whole>>
  <2>1. Quantity(<<ack, whole>>, ExOf[h]) = 0 + size
    BY <1>4, <1>5, QuantityLists
  <2>2. <<ack, whole>> \in Seq(Step)
    BY <1>4
  <2> QED BY <1>1, <1>6, <1>9, <2>1, <2>2
<1> QED BY <1>7, <1>8, <1>9

\* SendOrder returns: quiet with the BingX client, an execution with the paper
\* exchange, unless the size is zero.
LEMMA SendReturnProgress ==
  ASSUME Accounted, NEW h \in Orders, SendReturn(h)
  PROVE  Progress /\ Sizes' /\ Executions'
<1>0. /\ Inductive /\ Sizes /\ Executions /\ TypeOK
      /\ StoreTypeOK /\ ExchangeTypeOK /\ GatewayTypeOK
      /\ Placed \subseteq Known /\ Known \subseteq Orders
  BY WorkedOn DEF Accounted, Inductive, TypeOK
<1>1. /\ pc[h] = "send" /\ pc' = [pc EXCEPT ![h] = "step"]
      /\ UNCHANGED <<storeVars, channel, stream, req, snap, victim, reserved, consumer, call>>
  BY DEF SendReturn, Goto
<1>2. /\ h \in Known /\ h \in Placed /\ reserved[h] \in Order /\ reserved[h].size = orders[h].size
      /\ book[h] \in Remote /\ book[h].size = orders[h].size
      /\ steps[h] = <<>>
  BY <1>0, <1>1, PlacedOrders DEF Inductive, Control, Stored, Sent, Sizes, SameOrder, Executions
<1>3. PICK size \in Nat : size = orders[h].size /\ size = reserved[h].size /\ size <= MaxQty
  BY <1>0, <1>2 DEF Order, Sizes
<1>4. PICK list \in Seq(Step) :
        /\ steps' = [steps EXCEPT ![h] = list]
        /\ Quantity(list, ExOf[h]) = IF Async THEN 0 ELSE size
        /\ \A i \in 1 .. Len(list) : list[i].status \in {"PARTIAL", "FILLED"} \/ list[i].qty = 0
  <2>1. CASE SendReturnAsync(h)
    <3>1. PICK x \in {None, ExOf[h]} : steps' = [steps EXCEPT ![h] = <<AckStep(x)>>]
      BY <2>1 DEF SendReturnAsync
    <3>2. AckStep(x) \in Step /\ AckStep(x).qty = 0 /\ Carried(AckStep(x), ExOf[h]) = 0
      BY ExchangeAssumption DEF AckStep, Step, Open, Carried
    <3>3. Quantity(<<AckStep(x)>>, ExOf[h]) = 0 /\ <<AckStep(x)>> \in Seq(Step)
      <4> PICK a \in Step : a = AckStep(x)
        BY <3>2
      <4>1. Quantity(<<a>>, ExOf[h]) = Carried(a, ExOf[h])
        BY QuantityLists
      <4>2. <<a>> \in Seq(Step)
        OBVIOUS
      <4> QED BY <3>2, <4>1, <4>2
    <3>4. \A i \in 1 .. Len(<<AckStep(x)>>) : <<AckStep(x)>>[i].qty = 0
      BY <3>2
    <3>5. Async
      BY <2>1 DEF SendReturnAsync
    <3> QED BY <3>1, <3>3, <3>4, <3>5
  <2>2. CASE SendReturnPaper(h)
    BY <1>3, <2>2, PaperStepsCarrySize DEF SendReturnPaper
  <2> QED BY <2>1, <2>2 DEF SendReturn
<1>5. /\ pc'[h] = "step" /\ steps'[h] = list
      /\ \A g \in Orders \ {h} : pc'[g] = pc[g] /\ steps'[g] = steps[g]
  BY <1>0, <1>1, <1>4 DEF GatewayTypeOK
<1>6. /\ Known' = Known /\ orders' = orders /\ StoreKept
  BY <1>1, SameStoreKept DEF storeVars, Known
<1>7. /\ \A g \in Orders \ {h} : book'[g] = book[g]
      /\ book'[h].size = book[h].size /\ book'[h].lost = book[h].lost /\ book'[h].state # "none"
      /\ book'[h].executed = IF Async THEN book[h].executed ELSE size
  <2>1. CASE Async /\ UNCHANGED book
    BY <1>2, <2>1 DEF Placed
  <2>2. CASE /\ ~Async
             /\ book' = [book EXCEPT ![h].state = "filled", ![h].executed = reserved[h].size]
    <3>1. book' = [book EXCEPT ![h] = [book[h] EXCEPT !.state = "filled", !.executed = size]]
      BY <1>0, <1>2, <1>3, <2>2 DEF ExchangeTypeOK
    <3>2. book'[h] = [book[h] EXCEPT !.state = "filled", !.executed = size]
          /\ \A g \in Orders \ {h} : book'[g] = book[g]
      BY <1>0, <3>1 DEF ExchangeTypeOK
    <3>3. PICK rec \in Remote : rec = book[h]
      BY <1>2
    <3>4. /\ [rec EXCEPT !.state = "filled", !.executed = size].size = rec.size
          /\ [rec EXCEPT !.state = "filled", !.executed = size].lost = rec.lost
          /\ [rec EXCEPT !.state = "filled", !.executed = size].state = "filled"
          /\ [rec EXCEPT !.state = "filled", !.executed = size].executed = size
      BY DEF Remote
    <3> QED BY <2>2, <3>2, <3>3, <3>4
  <2> QED BY <2>1, <2>2 DEF SendReturn, SendReturnAsync, SendReturnPaper
<1>8. Placed' = Placed
  BY <1>2, <1>7 DEF Placed
<1>9. /\ \A g \in Orders \ {h} : InHand(g)' = InHand(g)
      /\ InHand(h)' = InHand(h) + (IF Async THEN 0 ELSE size)
  <2>1. \A g \in Orders \ {h} : InHand(g)' = InHand(g)
    BY <1>1, <1>5 DEF InHand
  <2>2. Taken(h)' = Taken(h)
    BY <1>1 DEF Taken
  <2>3. InHand(h)' = Quantity(channel, ExOf[h]) + (IF Async THEN 0 ELSE size) + Taken(h)
    BY <1>1, <1>4, <1>5, <2>2, HandsAfter
  <2>4. InHand(h) = Quantity(channel, ExOf[h]) + 0 + Taken(h)
    BY <1>0, <1>2, InHandParts, QuantityEmpty
  <2>5. Quantity(channel, ExOf[h]) \in Nat /\ Taken(h) \in Nat
    BY <1>0, InHandParts
  <2> QED BY <2>1, <2>3, <2>4, <2>5
<1>10. InHand(h) \in Nat /\ book[h].lost \in Nat
  BY <1>0, InHandParts, BookNumbers
<1>11. ~Async => book[h].executed = 0
  BY <1>0, <1>1 DEF Executions
<1>12. Progress
  <2>1. CASE Async \/ size = 0
    <3>1. BooksKept
      BY <1>7, <1>8, <1>11, <2>1 DEF BooksKept, Placed
    <3>2. HandsKept
      BY <1>9, <1>10, <2>1 DEF HandsKept
    <3> QED BY <1>6, <3>1, <3>2 DEF Progress, Quiet
  <2>2. CASE ~Async /\ size # 0
    <3>1. size \in 1 .. MaxQty
      BY <1>3, <2>2, MaxQtyAssumption
    <3>2. Executes(h, size)
      BY <1>2, <1>6, <1>7, <1>8, <1>9, <1>10, <1>11, <2>2 DEF Executes
    <3> QED BY <3>1, <3>2 DEF Progress
  <2> QED BY <2>1, <2>2
<1>13. Sizes'
  <2>1. \A o \in Placed' : book'[o].size = orders'[o].size /\ book'[o].executed <= book'[o].size
    <3>1. book'[h].size = orders'[h].size /\ book'[h].executed <= book'[h].size
      BY <1>0, <1>2, <1>3, <1>6, <1>7 DEF Sizes
    <3> QED BY <1>0, <1>6, <1>7, <1>8, <3>1 DEF Sizes, Placed
  <2>2. \A g \in Orders : pc'[g] \notin {"idle", "rejected"} => req'[g].size <= MaxQty
    BY <1>0, <1>1, <1>5 DEF Sizes
  <2>3. \A g \in Orders : pc'[g] = "send" => SameOrder(reserved[g], g)'
    BY <1>0, <1>1, <1>5, <1>6 DEF Sizes, SameOrder
  <2>4. consumer.pc = "reject" =>
          consumer.copy.status = "REJECTED" /\ SameOrder(consumer.copy, consumer.order)'
    BY <1>0, <1>1, <1>6 DEF Sizes, SameOrder
  <2> QED BY <1>0, <1>1, <1>6, <2>1, <2>2, <2>3, <2>4 DEF Sizes
<1>14. Executions'
  <2>1. \A g \in Orders : pc'[g] \notin {"step", "apply"} => steps'[g] = <<>>
    BY <1>0, <1>5 DEF Executions
  <2>2. \A g \in Orders : \A i \in 1 .. Len(steps'[g]) :
          steps'[g][i].status \in {"PARTIAL", "FILLED"} \/ steps'[g][i].qty = 0
    BY <1>0, <1>4, <1>5 DEF Executions
  <2>3. ASSUME ~Async, NEW g \in Orders
        PROVE  /\ book'[g].lost = 0
               /\ book'[g].executed = IF pc'[g] \in {"step", "apply", "done"} THEN orders'[g].size ELSE 0
    <3>1. CASE g = h
      BY <1>0, <1>3, <1>5, <1>6, <1>7, <2>3, <3>1 DEF Executions
    <3>2. CASE g # h
      <4>1. book'[g] = book[g] /\ orders'[g] = orders[g] /\ pc'[g] = pc[g]
        BY <1>0, <1>5, <1>6, <1>7, <3>2
      <4> QED BY <1>0, <2>3, <4>1 DEF Executions
    <3> QED BY <3>1, <3>2
  <2> QED BY <1>0, <1>1, <2>1, <2>2, <2>3 DEF Executions
<1> QED BY <1>12, <1>13, <1>14

-----------------------------------------------------------------------------
(* applyStep, from either goroutine *)

\* The store keeps what was asked for of every order.
Asked == Known' = Known /\ \A o \in Known : SameOrder(orders'[o], o)

\* Steps that keep what was asked for keep the sizes ...
LEMMA SizesKept ==
  ASSUME Inductive, Sizes, Asked, BooksKept, UNCHANGED <<req, reserved>>,
         \A g \in Orders : /\ pc'[g] \notin {"idle", "rejected"} => pc[g] \notin {"idle", "rejected"}
                           /\ pc'[g] = "send" => pc[g] = "send",
         consumer'.pc = "reject" => /\ consumer'.order \in Known
                                    /\ consumer'.copy.status = "REJECTED"
                                    /\ SameOrder(consumer'.copy, consumer'.order)
  PROVE  Sizes'
<1>0. Placed \subseteq Known /\ Known \subseteq Orders
  BY WorkedOn
<1>1. \A o \in Known' : orders'[o].size <= MaxQty
  BY DEF Asked, Sizes, SameOrder
<1>2. \A o \in Placed' : book'[o].size = orders'[o].size /\ book'[o].executed <= book'[o].size
  BY <1>0 DEF Asked, Sizes, SameOrder, BooksKept
<1>3. \A g \in Orders : pc'[g] \notin {"idle", "rejected"} => req'[g].size <= MaxQty
  BY DEF Sizes
<1>4. \A g \in Orders : pc'[g] = "send" => SameOrder(reserved[g], g)'
  <2>1. \A g \in Orders : pc[g] = "send" => g \in Known
    BY DEF Inductive, Control, Stored
  <2> QED BY <2>1 DEF Sizes, Asked, SameOrder
<1>5. consumer'.pc = "reject" =>
        consumer'.copy.status = "REJECTED" /\ SameOrder(consumer.copy, consumer.order)'
  BY DEF Asked, SameOrder
<1> QED BY <1>1, <1>2, <1>3, <1>4, <1>5 DEF Sizes

\* ... and those that keep the phase of every call keep what its steps may carry.
LEMMA ExecutionsKept ==
  ASSUME Inductive, Executions, Asked, BooksKept,
         \A i \in 1 .. Len(channel') :
           channel'[i].status \in {"PARTIAL", "FILLED"} \/ channel'[i].qty = 0,
         consumer'.pc = "apply" =>
           consumer'.msg.status \in {"PARTIAL", "FILLED"} \/ consumer'.msg.qty = 0,
         \A h \in Orders : \A i \in 1 .. Len(steps'[h]) :
           steps'[h][i].status \in {"PARTIAL", "FILLED"} \/ steps'[h][i].qty = 0,
         \A h \in Orders : /\ pc'[h] \notin {"step", "apply"} => steps'[h] = <<>>
                           /\ pc'[h] \in {"step", "apply", "done"} <=> pc[h] \in {"step", "apply", "done"}
  PROVE  Executions'
<1>1. ASSUME ~Async, NEW h \in Orders
      PROVE  /\ book'[h].lost = 0
             /\ book'[h].executed = IF pc'[h] \in {"step", "apply", "done"} THEN orders'[h].size ELSE 0
  <2>1. pc[h] \in {"step", "apply", "done"} => h \in Known
    BY DEF Inductive, Control, Stored
  <2> QED BY <1>1, <2>1 DEF Executions, Asked, SameOrder, BooksKept
<1> QED BY <1>1 DEF Executions

\* A quantity that ApplyStatus was given is no longer in hand, and is booked.
LEMMA AppliedProgress ==
  ASSUME Accounted, TypeOK', NEW o \in Placed, NEW m \in Msg, m.qty > 0 => m.ex = ExOf[o],
         m.status \in {"PARTIAL", "FILLED"} \/ m.qty = 0, ApplyStatus(o, m), BooksKept,
         InHand(o)' + m.qty = InHand(o),
         \A p \in Orders \ {o} : InHand(p)' = InHand(p)
  PROVE  Progress /\ Asked
<1>0. /\ Inductive /\ TypeOK /\ Sizes /\ FillConservation /\ StoreTypeOK /\ BindingConsistent
      /\ o \in Known /\ o \in Orders
  BY WorkedOn DEF Accounted, Inductive, TypeOK, Bindings
<1>1. m.qty \in Nat /\ InHand(o) \in Nat /\ InHand(o)' \in Nat
  BY <1>0, MsgCarries, InHandParts, HandsNatAfter
<1>2. CASE m.qty = 0 /\ StoreKept
  <2>1. HandsKept
    BY <1>1, <1>2 DEF HandsKept
  <2> QED BY <1>2, <2>1 DEF Progress, Quiet, StoreKept, Asked
<1>3. CASE /\ m.qty > 0
           /\ Known' = Known
           /\ \A p \in Known : SameOrder(orders'[p], p) /\ (p # o => orders'[p] = orders[p])
           /\ orders'[o].status = "FILLED" => orders'[o].filled >= orders[o].size
           /\ positions' = [positions EXCEPT ![orders[o].symbol] =
                              positions[orders[o].symbol] + Signed(orders[o].side, m.qty)]
           /\ ledgerQty' = [ledgerQty EXCEPT ![ExOf[o]] = ledgerQty[ExOf[o]] + m.qty]
           /\ idempotency' = idempotency
  <2>1. Books(o, m.qty) /\ Asked
    BY <1>0, <1>3 DEF Books, Asked
  <2>2. m.qty <= InHand(o)
    BY <1>1
  <2>3. /\ book[o].executed = ledgerQty[ExOf[o]] + InHand(o) + book[o].lost
        /\ book[o].executed \in Nat /\ ledgerQty[ExOf[o]] \in Nat /\ book[o].lost \in Nat
        /\ book[o].executed <= book[o].size /\ book[o].size <= MaxQty /\ book[o].size \in Nat
    BY <1>0, BookNumbers, PlacedOrders DEF FillConservation, Sizes, TypeOK, Remote
  <2>4. m.qty \in 1 .. MaxQty
    BY <1>1, <1>3, <2>2, <2>3, MaxQtyAssumption
  <2> QED BY <1>0, <2>1, <2>4 DEF Progress
<1> QED BY <1>0, <1>2, <1>3, ApplyStatusBooks

\* What a copy or a report held by the consumer is about.
LEMMA ConsumerHolds ==
  ASSUME Inductive
  PROVE  /\ consumer.pc = "apply" => /\ consumer.order \in Placed /\ consumer.msg \in Msg
                                     /\ consumer.msg.ex = ExOf[consumer.order]
         /\ consumer.pc = "reject" => consumer.order \in Known /\ consumer.copy \in Order
<1>1. consumer.pc \in {"apply", "reject"} => consumer # ConsumerIdle
  BY DEF ConsumerIdle
<1>2. consumer \in Consumer
  BY DEF Inductive, TypeOK, GatewayTypeOK
<1>3. consumer.pc = "reject" => consumer.copy \in Order
  BY <1>2 DEF Consumer, ConsumerIdle
<1>4. consumer.pc = "apply" => consumer.msg \in Msg
  BY Queues DEF Inductive
<1> QED BY <1>1, <1>3, <1>4, WorkedOn DEF Inductive, ReportsFindTheirOrder

\* Binding an exchange id is quiet.
LEMMA StepBindProgress ==
  ASSUME Accounted, NEW h \in Orders, StepBind(h)
  PROVE  Progress /\ Sizes' /\ Executions'
<1>0. Inductive /\ Sizes /\ Executions /\ StoreTypeOK /\ GatewayTypeOK
  BY DEF Accounted, Inductive, TypeOK
<1>1. /\ pc[h] = "step" /\ pc' = [pc EXCEPT ![h] = "apply"]
      /\ Bind(h, Head(steps[h]).ex)
      /\ UNCHANGED <<exchangeVars, req, snap, victim, reserved, steps, consumer, call>>
  BY DEF StepBind, Goto
<1>2. h \in Known /\ Head(steps[h]).ex \in ExIDs \cup {None}
  BY <1>0, <1>1, HeadStep, ExchangeAssumption
<1>3. StoreKept
  BY <1>0, <1>1, <1>2, BindKept
<1>4. BooksKept /\ HandsKept
  BY <1>1, NothingMoves
<1>5. Asked
  BY <1>3 DEF Asked, StoreKept
<1>6. pc'[h] = "apply" /\ \A g \in Orders \ {h} : pc'[g] = pc[g]
  BY <1>0, <1>1 DEF GatewayTypeOK
<1>7. Sizes'
  <2>1. consumer.pc = "reject" => consumer.order \in Known
    BY <1>0, WorkedOn
  <2>2. consumer'.pc = "reject" => /\ consumer'.order \in Known
                                   /\ consumer'.copy.status = "REJECTED"
                                   /\ SameOrder(consumer'.copy, consumer'.order)
    BY <1>0, <1>1, <2>1 DEF Sizes
  <2> QED BY <1>0, <1>1, <1>4, <1>5, <1>6, <2>2, SizesKept
<1>8. Executions'
  <2>1. UNCHANGED <<channel, consumer, steps>>
    BY <1>1 DEF exchangeVars
  <2>2. \A g \in Orders : /\ pc'[g] \notin {"step", "apply"} => steps'[g] = <<>>
                          /\ pc'[g] \in {"step", "apply", "done"} <=> pc[g] \in {"step", "apply", "done"}
    BY <1>0, <1>1, <1>6, <2>1 DEF Executions
  <2> QED BY <1>0, <1>4, <1>5, <2>1, <2>2, ExecutionsKept DEF Executions
<1> QED BY <1>3, <1>4, <1>7, <1>8 DEF Progress, Quiet

\* Applying a step books what it carries.
LEMMA StepApplyProgress ==
  ASSUME Accounted, NEW h \in Orders, StepApply(h)
  PROVE  Progress /\ Sizes' /\ Executions'
<1>0. Inductive /\ Sizes /\ Executions /\ TypeOK /\ StoreTypeOK /\ GatewayTypeOK
  BY DEF Accounted, Inductive, TypeOK
<1>1. /\ pc[h] = "apply"
      /\ pc' = [pc EXCEPT ![h] = IF Len(steps[h]) = 1 THEN "done" ELSE "step"]
      /\ ApplyStatus(h, Head(steps[h]))
      /\ steps' = [steps EXCEPT ![h] = Tail(steps[h])]
      /\ UNCHANGED <<exchangeVars, req, snap, victim, reserved, consumer, call>>
  BY DEF StepApply, Goto
<1>2. TypeOK'
  BY <1>0, StepApplyInductive DEF Inductive
<1>3. PICK s, m : /\ s = steps[h] /\ m = Head(s) /\ s \in Seq(Msg) /\ s # <<>> /\ m = s[1]
                  /\ m \in Msg /\ h \in Placed /\ 1 \in 1 .. Len(s)
                  /\ m.qty > 0 => m.ex = ExOf[h]
  <2>1. steps[h] \in Seq(Msg)
    BY <1>0, Queues
  <2> QED BY <1>0, <1>1, <2>1, HeadStep DEF Msg
<1>4. m.status \in {"PARTIAL", "FILLED"} \/ m.qty = 0
  BY <1>0, <1>3 DEF Executions
<1>5. /\ \A g \in Orders \ {h} : pc'[g] = pc[g] /\ steps'[g] = steps[g]
      /\ pc'[h] = (IF Len(s) = 1 THEN "done" ELSE "step")
      /\ steps'[h] = Tail(s)
  BY <1>0, <1>1, <1>3 DEF GatewayTypeOK
<1>6. BooksKept
  BY <1>1 DEF BooksKept, Placed, exchangeVars
<1>7. InHand(h)' + m.qty = InHand(h)
  <2>1. Carried(m, ExOf[h]) = m.qty /\ m.qty \in Nat
    BY <1>3, MsgCarries DEF Carried
  <2>2. Quantity(s, ExOf[h]) = m.qty + Quantity(Tail(s), ExOf[h])
    BY <1>3, <2>1, QuantityTail
  <2>3. Quantity(Tail(s), ExOf[h]) \in Nat
    <3>1. Tail(s) \in Seq(Msg)
      BY <1>3
    <3> QED BY <3>1, QuantityNat
  <2>4. InHand(h)' = Quantity(channel, ExOf[h]) + Quantity(Tail(s), ExOf[h]) + Taken(h)
    BY <1>1, <1>5, HandsAfter DEF Taken, exchangeVars
  <2>5. /\ InHand(h) = Quantity(channel, ExOf[h]) + Quantity(s, ExOf[h]) + Taken(h)
        /\ Quantity(channel, ExOf[h]) \in Nat /\ Taken(h) \in Nat
    BY <1>0, <1>3, InHandParts
  <2> QED BY <2>1, <2>2, <2>3, <2>4, <2>5
<1>8. \A g \in Orders \ {h} : InHand(g)' = InHand(g)
  BY <1>1, <1>5 DEF InHand, exchangeVars
<1>9. Progress /\ Asked
  BY <1>1, <1>2, <1>3, <1>4, <1>6, <1>7, <1>8, AppliedProgress
<1>10. Sizes'
  <2>1. consumer.pc = "reject" => consumer.order \in Known
    BY <1>0, WorkedOn
  <2>2. consumer'.pc = "reject" => /\ consumer'.order \in Known
                                   /\ consumer'.copy.status = "REJECTED"
                                   /\ SameOrder(consumer'.copy, consumer'.order)
    BY <1>0, <1>1, <2>1 DEF Sizes
  <2> QED BY <1>0, <1>1, <1>5, <1>6, <1>9, <2>2, SizesKept
<1>11. Executions'
  <2>1. UNCHANGED <<channel, consumer>>
    BY <1>1 DEF exchangeVars
  <2>2. /\ Len(s) = 1 => Tail(s) = <<>>
        /\ \A i \in 1 .. Len(Tail(s)) : Tail(s)[i] = s[i + 1] /\ i + 1 \in 1 .. Len(s)
    <3>1. /\ Tail(s) \in Seq(Msg) /\ Len(Tail(s)) = Len(s) - 1 /\ Len(s) \in Nat
          /\ \A i \in 1 .. Len(Tail(s)) : Tail(s)[i] = s[i + 1]
      BY <1>3, HeadTailProperties
    <3>2. Len(s) = 1 => Len(Tail(s)) = 0
      BY <3>1
    <3>3. Len(s) = 1 => Tail(s) = <<>>
      BY <3>1, <3>2, EmptySeq
    <3>4. \A i \in 1 .. Len(Tail(s)) : i + 1 \in 1 .. Len(s)
      BY <3>1
    <3> QED BY <3>1, <3>3, <3>4
  <2>3. \A g \in Orders : /\ pc'[g] \notin {"step", "apply"} => steps'[g] = <<>>
                          /\ pc'[g] \in {"step", "apply", "done"} <=> pc[g] \in {"step", "apply", "done"}
    BY <1>0, <1>1, <1>5, <2>2 DEF Executions
  <2>4. \A g \in Orders : \A i \in 1 .. Len(steps'[g]) :
          steps'[g][i].status \in {"PARTIAL", "FILLED"} \/ steps'[g][i].qty = 0
    <3>1. ASSUME NEW i \in 1 .. Len(steps'[h])
          PROVE  steps'[h][i].status \in {"PARTIAL", "FILLED"} \/ steps'[h][i].qty = 0
      BY <1>0, <1>3, <1>5, <2>2 DEF Executions
    <3>2. ASSUME NEW g \in Orders \ {h}, NEW i \in 1 .. Len(steps'[g])
          PROVE  steps'[g][i].status \in {"PARTIAL", "FILLED"} \/ steps'[g][i].qty = 0
      BY <1>0, <1>5 DEF Executions
    <3> QED BY <3>1, <3>2
  <2> QED BY <1>0, <1>6, <1>9, <2>1, <2>3, <2>4, ExecutionsKept DEF Executions
<1> QED BY <1>9, <1>10, <1>11

\* Taking a report moves its quantity from the channel to the consumer.
LEMMA ConsumerTakeProgress ==
  ASSUME Accounted, ConsumerTake
  PROVE  Progress /\ Sizes' /\ Executions'
<1>0. Inductive /\ Sizes /\ Executions /\ TypeOK /\ StoreTypeOK
  BY DEF Accounted, Inductive, TypeOK
<1>1. /\ consumer = ConsumerIdle /\ channel # <<>> /\ channel' = Tail(channel)
      /\ UNCHANGED <<book, stream, submitVars, call>>
  BY DEF ConsumerTake
<1>2. PICK m, o : m = Head(channel) /\ o = Resolve(m)
  OBVIOUS
<1>3. /\ m \in Report /\ m \in Msg /\ o \in Placed /\ ExOf[o] = m.ex
      /\ channel \in Seq(Msg) /\ Tail(channel) \in Seq(Msg)
      /\ \A i \in 1 .. Len(channel') :
           channel'[i] = channel[i + 1] /\ i + 1 \in 1 .. Len(channel)
      /\ m = channel[1] /\ 1 \in 1 .. Len(channel)
  <2>1. channel \in Seq(Msg)
    BY <1>0, Queues
  <2>2. m = channel[1] /\ 1 \in 1 .. Len(channel) /\ Tail(channel) \in Seq(Msg)
    BY <1>1, <1>2, <2>1
  <2> QED BY <1>0, <1>1, <1>2, <2>1, <2>2, HeadReport DEF Msg
<1>4. o \in Known /\ o # None /\ m.ex \in ExIDs
  BY <1>0, <1>3, WorkedOn, OrderStoreAssumption DEF Report
<1>5. BindExchangeOrderID(o, m.ex) /\ consumer' = [pc |-> "apply", order |-> o, msg |-> m]
  BY <1>2, <1>4 DEF ConsumerTake
<1>6. StoreKept
  <2>1. Bind(o, m.ex)
    BY <1>4, <1>5, OrderStoreAssumption DEF Bind
  <2> QED BY <1>0, <1>4, <2>1, BindKept
<1>7. BooksKept
  BY <1>1 DEF BooksKept, Placed
<1>8. HandsKept
  <2> SUFFICES ASSUME NEW p \in Orders PROVE InHand(p)' = InHand(p)
    BY DEF HandsKept
  <2>1. Quantity(channel, ExOf[p]) = Carried(m, ExOf[p]) + Quantity(Tail(channel), ExOf[p])
    BY <1>1, <1>2, <1>3, QuantityTail
  <2>2. Taken(p) = 0
    BY <1>1 DEF Taken, ConsumerIdle
  <2>3. Taken(p)' = Carried(m, ExOf[p])
    BY <1>5 DEF Taken, Carried
  <2>4. InHand(p)' = Quantity(Tail(channel), ExOf[p]) + Quantity(steps[p], ExOf[p]) + Carried(m, ExOf[p])
    BY <1>1, <2>3, HandsAfter DEF submitVars
  <2>5. /\ Quantity(Tail(channel), ExOf[p]) \in Nat /\ Carried(m, ExOf[p]) \in Nat
        /\ Quantity(steps[p], ExOf[p]) \in Nat
        /\ InHand(p) = Quantity(channel, ExOf[p]) + Quantity(steps[p], ExOf[p]) + Taken(p)
    BY <1>0, <1>3, QuantityNat, MsgCarries, InHandParts
  <2> QED BY <2>1, <2>2, <2>4, <2>5
<1>9. Asked
  BY <1>6 DEF Asked, StoreKept
<1>10. m.status \in {"PARTIAL", "FILLED"} \/ m.qty = 0
  BY <1>0, <1>3 DEF Executions
<1>11. Sizes'
  BY <1>0, <1>1, <1>5, <1>7, <1>9, SizesKept DEF submitVars
<1>12. Executions'
  <2>1. \A i \in 1 .. Len(channel') :
          channel'[i].status \in {"PARTIAL", "FILLED"} \/ channel'[i].qty = 0
    BY <1>0, <1>3 DEF Executions
  <2>2. UNCHANGED <<pc, steps>>
    BY <1>1 DEF submitVars
  <2> QED BY <1>0, <1>5, <1>7, <1>9, <1>10, <2>1, <2>2, ExecutionsKept DEF Executions
<1> QED BY <1>6, <1>7, <1>8, <1>11, <1>12 DEF Progress, Quiet

\* Applying a report books what it carries.
LEMMA ConsumerApplyProgress ==
  ASSUME Accounted, ConsumerApply
  PROVE  Progress /\ Sizes' /\ Executions'
<1>0. Inductive /\ Sizes /\ Executions /\ TypeOK
  BY DEF Accounted, Inductive
<1>1. /\ consumer.pc = "apply" /\ ApplyStatus(consumer.order, consumer.msg)
      /\ consumer' = ConsumerIdle /\ UNCHANGED <<exchangeVars, submitVars, call>>
  BY DEF ConsumerApply
<1>2. TypeOK'
  BY <1>0, ConsumerApplyInductive DEF Inductive
<1>3. PICK o, m : o = consumer.order /\ m = consumer.msg
  OBVIOUS
<1>4. /\ o \in Placed /\ o \in Orders /\ m \in Msg /\ m.ex = ExOf[o]
      /\ m.status \in {"PARTIAL", "FILLED"} \/ m.qty = 0
  BY <1>0, <1>1, <1>3, ConsumerHolds DEF Executions, Placed
<1>5. BooksKept
  BY <1>1 DEF BooksKept, Placed, exchangeVars
<1>6. \A p \in Orders : Taken(p)' = 0 /\ Taken(p) = IF p = o THEN m.qty ELSE 0
  BY <1>1, <1>3, <1>4, ExchangeAssumption DEF Taken, ConsumerIdle
<1>7. ASSUME NEW p \in Orders PROVE InHand(p)' + (IF p = o THEN m.qty ELSE 0) = InHand(p)
  <2>1. InHand(p)' = Quantity(channel, ExOf[p]) + Quantity(steps[p], ExOf[p]) + Taken(p)'
    BY <1>1, HandsAfter DEF exchangeVars, submitVars
  <2>2. InHand(p) = Quantity(channel, ExOf[p]) + Quantity(steps[p], ExOf[p]) + Taken(p)
        /\ Quantity(channel, ExOf[p]) \in Nat /\ Quantity(steps[p], ExOf[p]) \in Nat
    BY <1>0, InHandParts
  <2>3. m.qty \in Nat
    BY <1>4, MsgCarries
  <2> QED BY <1>6, <2>1, <2>2, <2>3
<1>8. InHand(o)' + m.qty = InHand(o)
  BY <1>4, <1>7
<1>9. \A p \in Orders \ {o} : InHand(p)' = InHand(p)
  <2>1. \A p \in Orders : InHand(p)' \in Nat
    BY <1>2, HandsNatAfter
  <2> QED BY <1>7, <2>1
<1>10. Progress /\ Asked
  BY <1>1, <1>2, <1>3, <1>4, <1>5, <1>8, <1>9, AppliedProgress
<1>11. Sizes'
  BY <1>0, <1>1, <1>5, <1>10, SizesKept DEF submitVars, ConsumerIdle
<1>12. Executions'
  <2>1. UNCHANGED <<channel, pc, steps>>
    BY <1>1 DEF submitVars, exchangeVars
  <2> QED BY <1>0, <1>1, <1>5, <1>10, <2>1, ExecutionsKept DEF Executions, ConsumerIdle
<1> QED BY <1>10, <1>11, <1>12

\* A report that is read as REJECTED carries no quantity.
LEMMA ConsumerReadProgress ==
  ASSUME Accounted, ConsumerReadRejected
  PROVE  Progress /\ Sizes' /\ Executions'
<1>0. Inductive /\ Sizes /\ Executions /\ TypeOK /\ StoreTypeOK
  BY DEF Accounted, Inductive, TypeOK
<1>1. PICK o, copy : o = consumer.order /\ copy = [orders[o] EXCEPT !.status = "REJECTED"]
  OBVIOUS
<1>2. /\ consumer.pc = "apply" /\ consumer.msg.status = "REJECTED"
      /\ consumer' = [pc |-> "reject", order |-> o, copy |-> copy]
      /\ UNCHANGED <<storeVars, exchangeVars, submitVars, call>>
  BY <1>1 DEF ConsumerReadRejected
<1>3. consumer.msg.qty = 0
  BY <1>0, <1>2 DEF Executions
<1>4. o \in Known /\ o \in Orders /\ orders[o] \in Order
  BY <1>0, <1>1, <1>2, ConsumerHolds, WorkedOn, KnownOrders
<1>5. copy.status = "REJECTED" /\ SameOrder(copy, o)
  BY <1>1, <1>4 DEF Order, SameOrder
<1>6. StoreKept /\ Asked
  BY <1>2, SameStoreKept DEF Asked, StoreKept
<1>7. BooksKept
  BY <1>2 DEF BooksKept, Placed, exchangeVars
<1>8. HandsKept
  <2>1. \A p \in Orders : Taken(p)' = Taken(p)
    BY <1>2, <1>3 DEF Taken
  <2>2. \A p \in Orders : InHand(p) = Quantity(channel, ExOf[p]) + Quantity(steps[p], ExOf[p]) + Taken(p)
    BY <1>0, InHandParts
  <2>3. UNCHANGED <<channel, steps>>
    BY <1>2 DEF exchangeVars, submitVars
  <2> QED BY <2>1, <2>2, <2>3, HandsAfter DEF HandsKept
<1>9. Sizes'
  BY <1>0, <1>2, <1>4, <1>5, <1>6, <1>7, SizesKept DEF submitVars
<1>10. Executions'
  <2>1. UNCHANGED <<channel, pc, steps>>
    BY <1>2 DEF submitVars, exchangeVars
  <2> QED BY <1>0, <1>2, <1>6, <1>7, <2>1, ExecutionsKept DEF Executions
<1> QED BY <1>6, <1>7, <1>8, <1>9, <1>10 DEF Progress, Quiet

\* The copy written back is of the same order, and books nothing.
LEMMA ConsumerWriteProgress ==
  ASSUME Accounted, ConsumerWriteRejected
  PROVE  Progress /\ Sizes' /\ Executions'
<1>0. Inductive /\ Sizes /\ Executions /\ TypeOK /\ StoreTypeOK
  BY DEF Accounted, Inductive, TypeOK
<1>1. /\ consumer.pc = "reject" /\ UpdateOrder(consumer.order, consumer.copy)
      /\ consumer' = ConsumerIdle /\ UNCHANGED <<exchangeVars, submitVars, call>>
  BY DEF ConsumerWriteRejected
<1>2. PICK o, copy : o = consumer.order /\ copy = consumer.copy
  OBVIOUS
<1>3. o \in Known /\ copy \in Order /\ copy.status = "REJECTED" /\ SameOrder(copy, o)
  BY <1>0, <1>1, <1>2, ConsumerHolds DEF Sizes
<1>4. StoreKept
  BY <1>0, <1>1, <1>2, <1>3, UpdateKept
<1>5. Asked
  BY <1>4 DEF Asked, StoreKept
<1>6. BooksKept
  BY <1>1 DEF BooksKept, Placed, exchangeVars
<1>7. HandsKept
  BY <1>1 DEF HandsKept, InHand, exchangeVars, submitVars, ConsumerIdle
<1>8. Sizes'
  BY <1>0, <1>1, <1>5, <1>6, SizesKept DEF submitVars, ConsumerIdle
<1>9. Executions'
  <2>1. UNCHANGED <<channel, pc, steps>>
    BY <1>1 DEF submitVars, exchangeVars
  <2> QED BY <1>0, <1>1, <1>5, <1>6, <2>1, ExecutionsKept DEF Executions, ConsumerIdle
<1> QED BY <1>4, <1>6, <1>7, <1>8, <1>9 DEF Progress, Quiet

-----------------------------------------------------------------------------
(* The theorems *)

\* Every step of the gateway is progress of one of the five kinds.
LEMMA NextProgress ==
  ASSUME Accounted, [Next]_vars
  PROVE  Progress /\ Sizes' /\ Executions'
<1>1. ASSUME NEW h \in Orders, Submit(h) PROVE Progress /\ Sizes' /\ Executions'
  BY <1>1, BeforeReserveProgress, ReserveProgress, MarkProgress, SendFailProgress,
     SendReturnProgress, StepBindProgress, StepApplyProgress DEF Submit
<1>2. CASE Consume
  BY <1>2, ConsumerTakeProgress, ConsumerApplyProgress, ConsumerReadProgress,
     ConsumerWriteProgress DEF Consume
<1>3. CASE \E c \in Calls : StartCall(c) \/ FinishCall(c)
  BY <1>3, StartCallProgress, FinishCallProgress
<1>4. CASE Environment
  BY <1>4, EnvironmentProgress
<1>5. CASE UNCHANGED vars
  BY <1>5, StutterProgress
<1> QED BY <1>1, <1>2, <1>3, <1>4, <1>5 DEF Next

\* The invariant is inductive.
LEMMA NextAccounted == ASSUME Accounted, [Next]_vars PROVE Accounted'
<1>1. Inductive' /\ TypeOK /\ TypeOK'
  BY NextInductive DEF Accounted, Inductive
<1>2. Progress /\ Sizes' /\ Executions'
  BY NextProgress
<1>3. FilledIsEnough' /\ FillConservation' /\ PositionIsSignedLedger'
  BY <1>1, <1>2, ProgressFillsUp, ProgressConserves, ProgressBalances DEF Accounted
<1> QED BY <1>1, <1>2, <1>3 DEF Accounted

\* Nothing is in hand of any order, and nothing is booked.
LEMMA InitAccounted == ASSUME Init PROVE Accounted
<1>0. Inductive
  BY InitInductive
<1>1. Known = {} /\ Placed = {}
  BY DEF Init, StoreInit, ExchangeInit, Known, Placed, NoOrder, NoRemote
<1>2. /\ consumer.pc = "idle" /\ channel = <<>>
      /\ \A h \in Orders : /\ pc[h] = "idle" /\ steps[h] = <<>>
                           /\ book[h].executed = 0 /\ book[h].lost = 0
                           /\ ledgerQty[ExOf[h]] = 0
  BY ExchangeAssumption DEF Init, StoreInit, ExchangeInit, ConsumerIdle, NoRemote
<1>3. \A i \in 1 .. Len(channel) : FALSE
  BY <1>2
<1>4. \A h \in Orders : \A i \in 1 .. Len(steps[h]) : FALSE
  BY <1>2
<1>5. Sizes /\ FilledIsEnough
  BY <1>1, <1>2 DEF Sizes, FilledIsEnough
<1>6. Executions
  BY <1>2, <1>3, <1>4 DEF Executions
<1>7. FillConservation
  <2>1. ASSUME NEW o \in Orders PROVE InHand(o) = 0
    BY <1>2, QuantityEmpty DEF InHand
  <2> QED BY <1>2, <2>1 DEF FillConservation
<1>8. PositionIsSignedLedger
  <2>1. ASSUME NEW symbol, NEW side PROVE Booked(symbol, side) = 0
    <3>1. PICK f : f = [o \in Orders |-> Share(o, symbol, side)]
      OBVIOUS
    <3>2. \A o \in Orders : f[o] = 0
      BY <1>1, <3>1 DEF Share
    <3>3. TotalOver(Orders, f) = 0
      BY <3>2, FiniteOrders, TotalOverZero
    <3> QED BY <3>1, <3>3, BookedIsTotal
  <2>2. \A s \in Symbols : positions[s] = 0
    BY DEF Init, StoreInit
  <2> QED BY <2>1, <2>2 DEF PositionIsSignedLedger
<1> QED BY <1>0, <1>5, <1>6, <1>7, <1>8 DEF Accounted

\* The invariant holds in every reachable state.
THEOREM AlwaysAccounted == Spec => []Accounted
<1>1. Init => Accounted
  BY InitAccounted
<1>2. Accounted /\ [Next]_vars => Accounted'
  BY NextAccounted
<1> QED BY <1>1, <1>2, PTL DEF Spec

\* What the exchange executed of an order is in the ledger, in the hands of a
\* goroutine, or was lost in the stream: in any number of orders and reports,
\* none is booked twice and none disappears between Gateway and Store.
THEOREM FillsConserved == Spec => []FillConservation
<1>1. Accounted => FillConservation
  BY DEF Accounted
<1> QED BY <1>1, AlwaysAccounted, PTL

\* A position is the signed sum of the ledger over the orders of its symbol.
THEOREM PositionsMatchLedger == Spec => []PositionIsSignedLedger
<1>1. Accounted => PositionIsSignedLedger
  BY DEF Accounted
<1> QED BY <1>1, AlwaysAccounted, PTL

\* FILLED is only said of an order that the exchange executed in full, and no
\* order is filled beyond its size.
THEOREM FilledIsExecuted == Spec => []FilledMeansExecuted
<1>1. Accounted => FilledMeansExecuted
  <2> SUFFICES ASSUME Accounted, NEW o \in Known
               PROVE  /\ orders[o].filled <= orders[o].size
                      /\ orders[o].status = "FILLED" =>
                           orders[o].filled = orders[o].size /\ book[o].executed = orders[o].size
    BY DEF FilledMeansExecuted
  <2>1. /\ TypeOK /\ o \in Orders /\ orders[o] \in Order
    BY KnownOrders DEF Accounted, Inductive, TypeOK, Known
  <2>2. /\ orders[o].filled \in Nat /\ orders[o].size \in Nat
        /\ orders[o].filled <= ledgerQty[ExOf[o]]
        /\ orders[o].status = "FILLED" => orders[o].filled >= orders[o].size
    BY <2>1 DEF Accounted, Inductive, FilledTracksLedger, FilledIsEnough, Order
  <2>3. /\ ledgerQty[ExOf[o]] <= book[o].executed
        /\ ledgerQty[ExOf[o]] \in Nat /\ book[o].executed \in Nat
    BY <2>1, AppliedAtMostExecuted, BookNumbers DEF Accounted
  <2>4. book[o].executed <= orders[o].size
    <3>1. CASE o \in Placed
      <4>1. book[o].executed <= book[o].size /\ book[o].size = orders[o].size
        BY <3>1 DEF Accounted, Sizes
      <4> QED BY <4>1
    <3>2. CASE o \notin Placed
      <4>1. book[o] = NoRemote
        BY <2>1, <3>2 DEF Placed, TypeOK, ExchangeTypeOK, Remote, RemoteStates
      <4> QED BY <2>2, <4>1 DEF NoRemote
    <3> QED BY <3>1, <3>2
  <2> QED BY <2>2, <2>3, <2>4
<1> QED BY <1>1, AlwaysAccounted, PTL

\* With the paper exchange an order that Submit brought to its end is filled and
\* booked to its full size.
THEOREM PaperOrdersAreSettled == ~Async => (Spec => []PaperOrdersSettle)
<1>1. ~Async /\ Accounted => PaperOrdersSettle
  <2> SUFFICES ASSUME ~Async, Accounted, NEW h \in Orders, pc[h] = "done"
               PROVE  /\ orders[h].filled = orders[h].size
                      /\ ledgerQty[ExOf[h]] = orders[h].size
    BY DEF PaperOrdersSettle
  <2>1. /\ TypeOK /\ Control /\ Fills /\ FilledTracksLedger /\ Executions /\ FillConservation
    BY DEF Accounted, Inductive
  <2>2. h \in Known
    BY <2>1 DEF Control, Stored
  <2>3. InHand(h) = 0
    <3>1. channel = <<>> /\ consumer.pc = "idle" /\ steps[h] = <<>>
      BY <2>1 DEF Fills, Executions, ConsumerIdle
    <3> QED BY <3>1, QuantityEmpty DEF InHand
  <2>4. book[h].executed = orders[h].size /\ book[h].lost = 0
    BY <2>1 DEF Executions
  <2>5. book[h].executed = ledgerQty[ExOf[h]] + InHand(h) + book[h].lost
        /\ ledgerQty[ExOf[h]] \in Nat
    BY <2>1, BookNumbers DEF FillConservation
  <2>6. ledgerQty[ExOf[h]] = orders[h].size
    BY <2>3, <2>4, <2>5
  <2> QED BY <2>1, <2>2, <2>6 DEF FilledTracksLedger
<1> SUFFICES ASSUME ~Async PROVE Spec => []PaperOrdersSettle
  OBVIOUS
<1>2. Accounted => PaperOrdersSettle
  BY <1>1
<1> QED BY <1>2, AlwaysAccounted, PTL

\* Gateway, store and client together implement OrderService: every step of a
\* handler, of the consumer or of the exchange is one of its steps, or does
\* nothing it speaks of.
THEOREM GatewayImplementsOrderService == Spec => ImplementsOrderService
<1>1. Init => Service!Init
  <2> SUFFICES ASSUME Init PROVE Service!Init
    OBVIOUS
  <2>1. Placed = {}
    BY DEF Init, ExchangeInit, Placed, NoRemote
  <2>2. \A o \in Orders : book[o].executed = 0 /\ ledgerQty[ExOf[o]] = 0
    BY ExchangeAssumption DEF Init, StoreInit, ExchangeInit, NoRemote
  <2>3. idempotency = [k \in Keys |-> None]
    BY DEF Init, StoreInit
  <2> QED BY <2>1, <2>2, <2>3 DEF Service!Init
<1>2. Accounted /\ [Next]_vars => [Service!Next]_Service!vars
  <2> SUFFICES ASSUME Accounted, [Next]_vars PROVE [Service!Next]_Service!vars
    OBVIOUS
  <2>1. Accounted'
    BY NextAccounted
  <2>2. TypeOK' /\ FillConservation' /\ Inductive /\ FillConservation
    BY <2>1 DEF Accounted, Inductive
  <2> QED BY <2>2, NextProgress, ProgressImplements
<1> QED BY <1>1, <1>2, AlwaysAccounted, PTL DEF Spec, ImplementsOrderService, Service!Spec
=============================================================================
