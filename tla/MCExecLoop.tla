----------------------------- MODULE MCExecLoop -----------------------------
(* Instances of ExecLoop for TLC. *)
EXTENDS ExecProperties, TLC

CONSTANTS k1, k2, i1, i2

MCIdOf == [k \in Keys |-> CASE k = k1 -> i1 [] k = k2 -> i2]

MCIntent(key, size, mode, approved, chance, samples) ==
  [key |-> key, size |-> size, mode |-> mode, approved |-> approved,
   duration |-> 1, chance |-> chance, pace |-> 90, samples |-> samples]

\* What position.rs builds: no queue estimate, and, once trading is disabled, a
\* market order that closes the position.
PipelineIntents == {MCIntent(k1, 2, "Passive", TRUE, 0, 2), MCIntent(k1, 1, "Aggressive", FALSE, 0, 2)}

\* With the estimate the controller's unit tests use as well.
AllIntents == PipelineIntents \cup {MCIntent(k1, 2, "Passive", TRUE, 50, 2)}

\* One lot, for the runs about names.
OneLot == {MCIntent(k1, 1, "Passive", TRUE, 0, 2)}

\* A half-life of twelve durations: the longest there is.
LongIntents == {MCIntent(k1, 1, "Passive", TRUE, 0, 12)}
=============================================================================
