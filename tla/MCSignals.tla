----------------------------- MODULE MCSignals -----------------------------
(***************************************************************************)
(* An instance of the signal stages for TLC: the trigger arms one per cent *)
(* below the high and starts anew at two and a half; the prices lie above, *)
(* between and below its thresholds, and within a window's reach or not.   *)
(* The check of the ledger, which has no state, is made with this run.     *)
(***************************************************************************)
EXTENDS Signals, LedgerChecks

Calm == [price |-> 1000, dt |-> 1, regime |-> "Normal", flow |-> "Strong",
         timing |-> "Optimal", delta |-> 0, order |-> 0, top |-> 0, velocity |-> 0,
         absorbed |-> 40, exhausted |-> FALSE, calm |-> TRUE, open |-> TRUE, quiet |-> TRUE,
         strong |-> FALSE, likely |-> "Yes", scored |-> "Helped"]

MCFrames == {
  Calm,
  [Calm EXCEPT !.price = 1003, !.delta = 100, !.dt = 0],
  [Calm EXCEPT !.price = 1003, !.flow = "Exhaustion", !.likely = "Helped"],
  [Calm EXCEPT !.price = 994, !.delta = -100, !.dt = 0],
  [Calm EXCEPT !.price = 990, !.flow = "Weak", !.scored = "Yes"],
  [Calm EXCEPT !.price = 970, !.regime = "TrendExpansion"]}

MCSamples == [side : {"Buy", "Sell"}, win : BOOLEAN, quick : {TRUE}]

=============================================================================
