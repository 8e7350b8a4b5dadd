---------------------------- MODULE OrderService ----------------------------
(***************************************************************************)
(* What the control-plane's execution path promises, whatever its handlers *)
(* interleave: an idempotency key belongs to at most one order for ever,   *)
(* that order is placed on the exchange at most once, and an execution is  *)
(* entered in the ledger at most once and never before it happened.  It    *)
(* does not promise that every execution reaches the ledger.               *)
(***************************************************************************)
EXTENDS Integers

CONSTANTS Keys, Orders, None, MaxQty

VARIABLES
  owner,      \* the order each idempotency key belongs to
  placed,     \* orders put on the wire
  executed,   \* what the exchange executed of each order
  applied     \* what the ledger holds of each order

vars == <<owner, placed, executed, applied>>

Init ==
  /\ owner = [k \in Keys |-> None]
  /\ placed = {}
  /\ executed = [o \in Orders |-> 0]
  /\ applied = [o \in Orders |-> 0]

Claim(k, o) ==
  /\ owner[k] = None
  /\ \A j \in Keys : owner[j] # o
  /\ owner' = [owner EXCEPT ![k] = o]
  /\ UNCHANGED <<placed, executed, applied>>

Place(o) ==
  /\ \E k \in Keys : owner[k] = o
  /\ o \notin placed
  /\ placed' = placed \cup {o}
  /\ UNCHANGED <<owner, executed, applied>>

Execute(o, qty) ==
  /\ o \in placed
  /\ executed' = [executed EXCEPT ![o] = @ + qty]
  /\ UNCHANGED <<owner, placed, applied>>

Apply(o, qty) ==
  /\ applied[o] + qty <= executed[o]
  /\ applied' = [applied EXCEPT ![o] = @ + qty]
  /\ UNCHANGED <<owner, placed, executed>>

Next ==
  \E o \in Orders :
    \/ \E k \in Keys : Claim(k, o)
    \/ Place(o)
    \/ \E qty \in 1 .. MaxQty : Execute(o, qty) \/ Apply(o, qty)

Spec == Init /\ [][Next]_vars
=============================================================================
