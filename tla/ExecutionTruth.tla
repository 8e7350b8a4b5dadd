--------------------------- MODULE ExecutionTruth ---------------------------
(***************************************************************************)
(* How RTTS measures a fill (execution_truth.rs): the price is noted at    *)
(* the first market update 100 ms, 500 ms and 5 s after the fill, and when *)
(* the last is known the fill at the head of the queue becomes a learning  *)
(* sample.  Time is counted in ticks, from the fill's own time stamp to    *)
(* that of the update.  Left out: the price after 1 s and the reports on   *)
(* latency and quality, which only the metrics read.                       *)
(***************************************************************************)
EXTENDS EdgeValidation

CONSTANTS
  Early,        \* ticks for MARKOUT_100_MS
  Mid,          \* ticks for MARKOUT_500_MS
  Final         \* ticks for MARKOUT_5S

ASSUME TruthAssumption == Early \in Nat \ {0} /\ Mid \in Nat /\ Final \in Nat
                          /\ Early <= Mid /\ Mid <= Final

Unknown == 0    \* a price not noted yet; prices are positive

Flags == {"None", "SlowFill", "CancelLatency", "RepeatedOutbid", "PartialFillToxicity"}

\* How much later the market clock stands than the time stamp of a fill: less than
\* zero when it is behind (the code counts that as zero, which is before any
\* horizon too), no more than Final when it is past the last horizon.
Ages == {a \in Int : a <= Final}

\* `flag' is what the fill came with, SlowFill when it was slow to arrive; `ratio' is
\* how much of the order is done, `edge' the markout the order's sender expected.
Pending == [id : Nat, side : {"Buy", "Sell"}, qty : Nat, price : Nat, cost : Nat, slip : Int,
            ratio : 0..100, edge : Int, flag : Flags, age : Ages, early : Nat, mid : Nat]

\* A fill as it comes from the feed, `lag' after its time stamp.
Fresh(fill, lag) ==
  [id |-> fill.id, side |-> fill.side, qty |-> fill.qty, price |-> fill.price, cost |-> fill.cost,
   slip |-> fill.slip, ratio |-> fill.ratio, edge |-> fill.edge, flag |-> fill.flag,
   age |-> lag, early |-> Unknown, mid |-> Unknown]

Older(p, dt) == [p EXCEPT !.age = IF @ + dt > Final THEN Final ELSE @ + dt]

Noted(known, age, horizon, price) == IF known = Unknown /\ age >= horizon THEN price ELSE known

Note(p, price, dt) ==
  LET q == Older(p, dt)
  IN [q EXCEPT !.early = Noted(@, q.age, Early, price), !.mid = Noted(@, q.age, Mid, price)]

\* A variant that releases fills only at the update that notes their last price.
RipeNow(queue, dt) ==
  Max({n \in 0..Len(queue) : \A i \in 1..n : queue[i].age < Final /\ queue[i].age + dt >= Final})
\* How many fills at the head have reached the last horizon by this update; one
\* that has not holds up those behind it, although their prices are known.
Ripe(queue, dt) == Max({n \in 0..Len(queue) : \A i \in 1..n : queue[i].age + dt >= Final})

MarkoutPnl(p, future) ==
  (IF p.side = "Buy" THEN future - p.price ELSE p.price - future) * p.qty - p.cost * p.qty

Loss(x) == IF x < 0 THEN -x ELSE 0

CompetitionFlag(p) ==
  IF p.flag # "None" THEN p.flag
  ELSE IF p.ratio < 60 /\ MarkoutPnl(p, p.early) < 0 THEN "PartialFillToxicity"
  ELSE "None"

\* The profit of a fill is its markout after 500 ms less what it slipped.
SampleOf(p) ==
  LET markout == MarkoutPnl(p, p.mid)
      pnl == markout - Loss(-p.slip)
  IN [edge |-> p.edge, markout |-> markout, pnl |-> pnl, alpha |-> pnl - p.edge,
      ratio |-> p.ratio, slip |-> p.slip,
      outbid |-> IF CompetitionFlag(p) = "None" THEN 0 ELSE 100,
      adverse |-> Loss(MarkoutPnl(p, p.early)) + Loss(markout) \div 4,
      loss |-> Loss(pnl - p.edge)]

=============================================================================
