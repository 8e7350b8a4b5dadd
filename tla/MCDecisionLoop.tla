--------------------------- MODULE MCDecisionLoop ---------------------------
(***************************************************************************)
(* Instances of the decision loop for TLC.  Prices are 1.00 and 2.00, the  *)
(* markout RTTS expects of its orders is 0.90 and a unit costs 0.10, so    *)
(* that a fill is a win, a loss of its costs, or a loss.                   *)
(***************************************************************************)
EXTENDS LoopProperties

Base == [price |-> 100, stale |-> FALSE, entry |-> "None", direction |-> "Long",
         timing |-> "Optimal", flow |-> "Strong", adverse |-> 0, score |-> 90,
         strong |-> TRUE, aligned |-> TRUE, regime |-> "Normal"]

MCFrames == {Base, [Base EXCEPT !.flow = "ReversalRisk", !.score = 40]}

MCForeign == {
  [symbol |-> "own", side |-> "Buy", qty |-> 2, slip |-> 0, ratio |-> 100, edge |-> 200,
   flag |-> "None"],
  [symbol |-> "other", side |-> "Sell", qty |-> 1, slip |-> 0, ratio |-> 50, edge |-> 90,
   flag |-> "None"]}

Approved == [toxic |-> FALSE, ev |-> "Good", quality |-> TRUE, crowding |-> "Low",
             ranked |-> TRUE, hurried |-> TRUE]

MCJudgements == {Approved}

\* An expectation above zero that is below the threshold.
MCDoubtful == {Approved, [Approved EXCEPT !.ev = "Weak"]}

\* A fill may be stamped a tick ahead of the market clock; the next one, stamped
\* with the clock, then waits behind it with its prices known.
MCLags == {-1, 0}

MCFailures == {[severity |-> 80, decayed |-> FALSE], [severity |-> 35, decayed |-> TRUE]}

=============================================================================
