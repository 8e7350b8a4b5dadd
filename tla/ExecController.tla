--------------------------- MODULE ExecController ---------------------------
(***************************************************************************)
(* One execution controller of RTTS (rtts/src/execution_controller.rs): the *)
(* local view of one submitted order and the rule that picks the next       *)
(* action on it.  Pure operators on a controller record; the loop that owns *)
(* the controllers is ExecLoop.                                             *)
(*                                                                          *)
(* Times are whole milliseconds, quantities natural numbers of lots.  Scores *)
(* and probabilities are left out: where the code compares one, the choice  *)
(* is free, within what the modelled fields (status, times, fills, limits,  *)
(* competition, quotes) force.                                              *)
(***************************************************************************)
EXTENDS Integers

CONSTANTS
  Keys,        \* idempotency keys: symbol, timestamp and side of an intent
  Ids,         \* order ids the control-plane draws
  IdOf,        \* the id it draws for a key
  None,
  Cooldown,    \* execution_action_cooldown_ms
  MaxCancel,   \* max_cancel_per_order
  MaxReplace   \* max_replace_per_order

ASSUME ControllerAssumption ==
  /\ None \notin Keys \cup Ids
  /\ Keys \cap Ids = {}
  /\ IdOf \in [Keys -> Ids]
  /\ \A k, l \in Keys : IdOf[k] = IdOf[l] => k = l
  /\ Cooldown \in Nat
  /\ MaxCancel \in Nat
  /\ MaxReplace \in Nat

Statuses == {"NEW", "SENT", "ACK", "PARTIAL", "FILLED", "CANCELED", "REJECTED"}
Terminal == {"FILLED", "CANCELED", "REJECTED"}
Modes == {"Passive", "Aggressive", "Defensive"}
Competition == {"Normal", "Competitive", "Saturated"}

\* An order intent.  `chance' is the queue estimate's fill probability and
\* `pace' the urgency factor, both in percent; `samples' is the edge half-life.
Intent == [key : Keys, size : Nat, mode : Modes, approved : BOOLEAN,
           duration : Nat, chance : Nat, pace : Nat, samples : Nat \ {0}]

Controller ==
  [id : Keys \cup Ids, status : Statuses, mode : Modes, filled : Nat, remaining : Nat,
   cancels : Nat, replaces : Nat, acted : Nat, start : Nat, fillTime : Nat,
   halfLife : Nat, approved : BOOLEAN, competition : Competition, quotes : {"none", "touch"}]

Lesser(a, b) == IF a < b THEN a ELSE b
Greater(a, b) == IF a < b THEN b ELSE a

ExpectedFillTime(i) == (i.duration * i.pace) \div Greater(i.chance, 5)
EdgeHalfLife(i) == Lesser(i.samples, 12) * i.duration

NewController(i, t) ==
  [id |-> i.key, status |-> "SENT", mode |-> i.mode, filled |-> 0, remaining |-> i.size,
   cancels |-> 0, replaces |-> 0, acted |-> 0, start |-> t,
   fillTime |-> ExpectedFillTime(i), halfLife |-> EdgeHalfLife(i),
   approved |-> i.approved, competition |-> "Normal", quotes |-> "none"]

-----------------------------------------------------------------------------
(* Observations *)

\* The quotes of the queue engine's own state: best bid and ask stay at the zero
\* they are created with.  (EngineQuotesKept: an engine told of the touch.)
EngineQuotesKept == "touch"
EngineQuotes == "none"

\* A book delta stores the quotes, then replaces the whole queue state by the
\* engine's and classifies the competition; a trade only replaces it.
OnMarketUpdate(c, competition) ==
  [c EXCEPT !.competition = competition, !.quotes = EngineQuotes]

\* A variant that takes the order's total for an increment.
OnExecutionEventAdding(c, e, competition) ==
  [c EXCEPT !.id = e.id, !.status = e.status, !.competition = competition,
            !.filled = @ + e.cum, !.remaining = e.remaining]

\* An execution event renames and re-states the order.  Quantities move only
\* with a fill; its flag may raise the competition.
OnExecutionEvent(c, e, competition) ==
  [c EXCEPT !.id = e.id, !.status = e.status, !.competition = competition,
            !.filled = IF e.delta > 0 THEN Greater(e.cum, @) ELSE @,
            !.remaining = IF e.delta > 0 THEN e.remaining ELSE @]

-----------------------------------------------------------------------------
(* The next action *)

Elapsed(c, t) == Greater(t - c.start, 0)
CooldownSinceStart(c, t) == Elapsed(c, t) >= Cooldown
CooldownElapsed(c, t) == Greater(t - c.acted, 0) >= Cooldown

\* The edge is gone, or somebody else is taking it.
EdgeLost(c, t) ==
  ~c.approved \/ c.competition = "Saturated" \/ Elapsed(c, t) > c.halfLife

\* Strategies should_switch_strategy may name.  (Its third case, Defensive, asks
\* for a lost edge, which evaluate_action has dealt with before.)
SwitchTargets(c, t) ==
  LET left == Greater(c.halfLife - Elapsed(c, t), 0) IN
    {m \in {"Aggressive"} : c.mode = "Passive" /\ left < Greater(c.fillTime, 1)}
      \cup {m \in {"Passive"} : c.mode = "Aggressive" /\ 4 * left > 3 * c.fillTime}

\* should_replace, and a price different from the current one to replace it by:
\* without quotes the improved price is capped at the current price.
MayReplace(c, t) ==
  /\ c.mode = "Passive" /\ c.replaces < MaxReplace /\ c.remaining > 0
  /\ Elapsed(c, t) > 0
  /\ c.quotes = "touch"

MayCancel(c, t) == c.cancels < MaxCancel /\ c.filled = 0 /\ Elapsed(c, t) > 0
MustCancel(c, t) == MayCancel(c, t) /\ 5 * Elapsed(c, t) > 6 * c.fillTime

\* evaluate_action, as the set of actions it may return.
Choices(c, t) ==
  IF c.status \in Terminal \/ ~CooldownElapsed(c, t) THEN {"Hold"}
  ELSE IF EdgeLost(c, t) THEN IF c.filled > 0 THEN {"Exit"} ELSE {"Abort"}
  ELSE IF c.fillTime > c.halfLife
       THEN {"Abort"} \cup {a \in {"ToAggressive"} : SwitchTargets(c, t) # {}}
  ELSE {a \in {"Exit"} : c.filled > 0}
         \cup {a \in {"ToAggressive"} : "Aggressive" \in SwitchTargets(c, t)}
         \cup {a \in {"ToPassive"} : "Passive" \in SwitchTargets(c, t)}
         \cup {a \in {"StepAhead"} : MayReplace(c, t) /\ c.competition = "Competitive"}
         \cup {a \in {"CrossSpread", "Replace"} :
                 MayReplace(c, t) /\ c.competition = "Normal"}
         \cup {a \in {"Cancel"} : MayCancel(c, t)}
         \cup {a \in {"Hold"} : ~MustCancel(c, t)}

Cancelling == {"Cancel", "Exit", "Abort"}
Replacing == {"StepAhead", "CrossSpread", "Replace"}

\* apply_action.
ApplyAction(c, a, t) ==
  IF a = "Hold" THEN c
  ELSE [c EXCEPT !.acted = t,
                 !.cancels = IF a \in Cancelling THEN @ + 1 ELSE @,
                 !.replaces = IF a \in Replacing THEN @ + 1 ELSE @,
                 !.mode = CASE a \in {"CrossSpread", "ToAggressive"} -> "Aggressive"
                            [] a = "ToPassive" -> "Passive"
                            [] OTHER -> @,
                 !.status = IF a = "Abort" THEN "CANCELED" ELSE @]

Instruction == [kind : {"Submit", "Cancel", "Reprice", "Switch", "Exit"}, key : Keys,
                id : Keys \cup Ids, size : Nat, mode : Modes]

SubmitOf(i) == [kind |-> "Submit", key |-> i.key, id |-> i.key, size |-> i.size, mode |-> i.mode]

\* The instruction an action other than Hold becomes, named by what it asks of
\* the control-plane: an abort is a cancel, and whatever carries a price a new
\* price.
InstructionFor(k, c, a) ==
  [kind |-> CASE a \in {"Cancel", "Abort"} -> "Cancel"
              [] a \in Replacing -> "Reprice"
              [] a \in {"ToAggressive", "ToPassive"} -> IF c.quotes = "touch" THEN "Reprice" ELSE "Switch"
              [] OTHER -> "Exit",
   key |-> k, id |-> c.id, size |-> c.filled,
   mode |-> IF a = "ToPassive" THEN "Passive" ELSE "Aggressive"]
=============================================================================
