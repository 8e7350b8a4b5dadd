------------------------------ MODULE MCGateway ------------------------------
(* Instances of Gateway for TLC. *)
EXTENDS GatewayProperties, TLC

CONSTANTS o1, o2, x1, x2, k1, k2, btc, p1, p2, c1, c2

MCExOf == [o \in Orders |-> CASE o = o1 -> x1 [] o = o2 -> x2]

\* The paper exchange gives an order its own id.
PaperExOf == [o \in Orders |-> o]

MCRequest(key, side, size, price) ==
  [key |-> key, symbol |-> btc, side |-> side, size |-> size, price |-> price]

\* A buy of two lots, which may be retried, and a sell that crosses it.
CrossingRequests == {MCRequest(k1, "BUY", 2, p1), MCRequest(k2, "SELL", 1, p1)}

\* One buy of two lots.
OneRequest == {MCRequest(k1, "BUY", 2, p1)}

\* On the paper exchange: a limit order and a market order across it.
PaperRequests == {MCRequest(k1, "BUY", 2, p1), MCRequest(k2, "SELL", 2, None)}
=============================================================================
