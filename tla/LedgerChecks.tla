---------------------------- MODULE LedgerChecks ----------------------------
(***************************************************************************)
(* The lot ledger against a reference definition, for every sequence of a  *)
(* few fills, the oldest lot first and the newest.  The reference trades   *)
(* one unit at a time: a unit closes the unit it would be matched with, or *)
(* joins the units that are open.  Fills that close part of a lot, several *)
(* lots, or more than is open and turn the position round, which the       *)
(* bounds of the decision loop do not reach, are all among the inputs.     *)
(***************************************************************************)
EXTENDS Integers, SequencesExt

Oldest == INSTANCE Accounting WITH Symbols <- {"own"}, Fifo <- TRUE
Newest == INSTANCE Accounting WITH Symbols <- {"own"}, Fifo <- FALSE

MaxFills == 4

Fills == {[symbol |-> "own", side |-> side, qty |-> qty, price |-> price, cost |-> price \div 10] :
            side \in {"Buy", "Sell"}, qty \in 1..3, price \in {100, 200}}

Histories == UNION {[1..n -> Fills] : n \in 0..MaxFills}

Unit(x, price) == [side |-> x.side, price |-> price, cost |-> x.cost]

\* The units of a fill, and those of the open lots, in order.
UnitsOfFill(fill) == [i \in 1..fill.qty |-> Unit(fill, fill.price)]
UnitsOfLots(lots) ==
  FoldLeft(LAMBDA units, lot : units \o [i \in 1..lot.left |-> Unit(lot, lot.entry)], <<>>, lots)

Profit(closed, unit) ==
  (IF closed.side = "Buy" THEN unit.price - closed.price ELSE closed.price - unit.price)
  - closed.cost - unit.cost

\* Trading one unit: all that is open is of one side, so that a unit of the
\* other side closes the first one, or the last.
TradeUnit(book, unit, oldest) ==
  IF book.open = <<>> \/ Head(book.open).side = unit.side
  THEN [book EXCEPT !.open = Append(@, unit)]
  ELSE IF oldest THEN [open |-> Tail(book.open),
                       realized |-> book.realized + Profit(Head(book.open), unit)]
  ELSE [open |-> Front(book.open), realized |-> book.realized + Profit(Last(book.open), unit)]

Reference(fills, oldest) ==
  FoldLeft(LAMBDA book, unit : TradeUnit(book, unit, oldest), [open |-> <<>>, realized |-> 0],
           FoldLeft(LAMBDA units, fill : units \o UnitsOfFill(fill), <<>>, fills))

Agrees(acct, book) ==
  /\ UnitsOfLots(acct.lots["own"]) = book.open
  /\ acct.realized = book.realized

\* After any fills the open lots hold the units the reference holds, in its
\* order, and what was realised is the same (apply_fill_internal, ledger.rs).
ASSUME FifoMatchesReference ==
  \A fills \in Histories :
    Agrees(FoldLeft(Oldest!ApplyFill, Oldest!NewAccount, fills), Reference(fills, TRUE))
ASSUME LifoMatchesReference ==
  \A fills \in Histories :
    Agrees(FoldLeft(Newest!ApplyFill, Newest!NewAccount, fills), Reference(fills, FALSE))

=============================================================================
