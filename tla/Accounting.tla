----------------------------- MODULE Accounting -----------------------------
(***************************************************************************)
(* The lot ledger of RTTS (accounting/ledger.rs): fills open lots or close *)
(* the oldest (or newest) opposite ones, and realised profit, costs and    *)
(* the marked value of what is open follow from that.                      *)
(*                                                                         *)
(* Quantities, prices and costs are integers, a cost being what one unit   *)
(* costs net of its rebate (fees, rebates and funding are spread over the  *)
(* units of a fill, and taken along pro rata, all three alike).  A cost    *)
(* below zero is not one of the model's: the code clamps each part at      *)
(* zero, and the control-plane reports funding as zero.                    *)
(***************************************************************************)
EXTENDS Integers, SequencesExt, Sums

CONSTANTS
  Symbols,      \* the instruments fills may arrive for
  Fifo          \* whether the oldest lot is matched first (else the newest)

ASSUME AccountingAssumption == Fifo \in BOOLEAN

Sides == {"Buy", "Sell"}
Opposite(side) == IF side = "Buy" THEN "Sell" ELSE "Buy"
Signed(side, qty) == IF side = "Buy" THEN qty ELSE -qty

Unmarked == 0     \* no mark price yet; prices are positive

Lot == [side : Sides, entry : Nat, left : Nat \ {0}, cost : Nat]

Account == [lots : [Symbols -> Seq(Lot)], marks : [Symbols -> Nat],
            realized : Int, unrealized : Int]

NewAccount == [lots |-> [s \in Symbols |-> <<>>], marks |-> [s \in Symbols |-> Unmarked],
               realized |-> 0, unrealized |-> 0]

Lesser(a, b) == IF a <= b THEN a ELSE b
Greater(a, b) == IF a >= b THEN a ELSE b

\* The lots a fill of this side may close, and the one it closes first.
OppositeLots(lots, side) == {i \in 1..Len(lots) : lots[i].side # side}
OppositeLot(lots, side) ==
  CHOOSE i \in OppositeLots(lots, side) : \A j \in OppositeLots(lots, side) :
    IF Fifo THEN i <= j ELSE j <= i

RealizedGross(lot, price, qty) == Signed(lot.side, (price - lot.entry) * qty)
UnrealizedFor(lot, mark) == Signed(lot.side, (mark - lot.entry) * lot.left)

\* A variant that charges what is left of a lot's cost to each part closed.
ChargeWhole(lot, fill, qty) ==
  RealizedGross(lot, fill.price, qty) - lot.cost * lot.left - fill.cost * qty
\* What closing qty units of a lot realises, the costs of both sides taken off.
Realizes(lot, fill, qty) ==
  RealizedGross(lot, fill.price, qty) - lot.cost * qty - fill.cost * qty

\* One turn of the matching loop: m is the lots, what was realised so far, and
\* the quantity of the fill that is still unmatched.
MatchOne(m, fill) ==
  LET i == OppositeLot(m.lots, fill.side)
      qty == Lesser(m.left, m.lots[i].left)
  IN [lots |-> IF qty = m.lots[i].left THEN RemoveAt(m.lots, i)
               ELSE [m.lots EXCEPT ![i].left = @ - qty],
      realized |-> m.realized + Realizes(m.lots[i], fill, qty),
      left |-> m.left - qty]

\* The loop ends when the fill is used up or no opposite lot is left; a turn
\* uses up the one or closes one of the other, so there are at most Len(lots).
Turn(m, fill) ==
  IF m.left > 0 /\ OppositeLots(m.lots, fill.side) # {} THEN MatchOne(m, fill) ELSE m
Matched(lots, fill) ==
  LET after[n \in 0..Len(lots)] ==
        IF n = 0 THEN [lots |-> lots, realized |-> 0, left |-> fill.qty]
        ELSE Turn(after[n - 1], fill)
  IN after[Len(lots)]

\* A variant that opens a lot for the whole fill whatever it closed.
OpenWhole(m, fill) ==
  Append(m.lots, [side |-> fill.side, entry |-> fill.price, left |-> fill.qty, cost |-> fill.cost])
\* What the lots do not absorb opens a lot of its own, behind the others.
OpenRest(m, fill) ==
  IF m.left = 0 THEN m.lots
  ELSE Append(m.lots, [side |-> fill.side, entry |-> fill.price,
                       left |-> m.left, cost |-> fill.cost])

UnrealizedAt(lots, mark) == Total([i \in 1..Len(lots) |-> UnrealizedFor(lots[i], mark)])

UnrealizedTotal(lots, marks) ==
  TotalOver(Symbols, [s \in Symbols |->
    IF marks[s] = Unmarked THEN 0 ELSE UnrealizedAt(lots[s], marks[s])])

\* A fill of a marked symbol leaves `unrealized' with that symbol's value alone.
ApplyFill(acct, fill) ==
  LET s == fill.symbol
      m == Matched(acct.lots[s], fill)
      lots == [acct.lots EXCEPT ![s] = OpenRest(m, fill)]
  IN [acct EXCEPT !.lots = lots,
                  !.realized = @ + m.realized,
                  !.unrealized = IF acct.marks[s] # Unmarked
                                 THEN UnrealizedAt(lots[s], acct.marks[s])
                                 ELSE UnrealizedTotal(lots, acct.marks)]

\* A variant that leaves `unrealized' as the last fill left it.
MarkOnly(acct, s, mark) == [acct EXCEPT !.marks[s] = mark]
MarkToMarket(acct, s, mark) ==
  LET marks == [acct.marks EXCEPT ![s] = mark]
  IN [acct EXCEPT !.marks = marks, !.unrealized = UnrealizedTotal(acct.lots, marks)]

\* What the position module reads of a symbol.
NetQuantity(acct, s) ==
  Total([i \in 1..Len(acct.lots[s]) |-> Signed(acct.lots[s][i].side, acct.lots[s][i].left)])
PositionExposure(acct, s) ==
  [net |-> NetQuantity(acct, s),
   entries |-> Len(acct.lots[s]),
   unrealized |-> IF acct.marks[s] = Unmarked THEN 0
                  ELSE UnrealizedAt(acct.lots[s], acct.marks[s])]

=============================================================================
