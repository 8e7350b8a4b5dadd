# TLA+ specifications of the real-time trading system

This directory holds a TLA+ model of the program in `src/`, the TLC
configurations that check it on small instances, and proofs about it that the
TLA+ proof system (TLAPS) checks for every instance. `PROJECT.json` lists, for
every definition that models code, the lines it stands for, and for every
property the code mutation that breaks it.

## 1. The system

Two processes trade together.

* The **control-plane** (Go, `src/control-plane`) owns the orders: it accepts
  execution requests over HTTP, checks risk, places orders on an exchange
  (BingX, or a built-in paper exchange) and books fills.
* **RTTS** (Rust, `src/rtts`) turns market data into trade decisions and
  execution requests, controls resting orders, and keeps its own accounting
  from the execution events the control-plane publishes.

A Python research backend and a React front end take no part in trading.

| component | state | operations | hard behaviour | what makes it correct |
|---|---|---|---|---|
| order store `state/store.go` | orders, key index, exchange-id index, positions, ledger, executions, one mutex | Reserve, MarkSent, MarkAck, Cancel, ReplacePrice, Update, Bind, ApplyExternalFill, Upsert, SetPosition, Reconciliation | every call is atomic, sequences of calls are not; status is set unconditionally | indexes agree with orders; position and filled quantity follow the ledger |
| gateway `execution/gateway.go` | none of its own: local variables of concurrent handlers | Submit, Cancel, Replace, SwitchStrategy, ApplyAsyncUpdate | handlers and the report consumer interleave; copies written back; time-outs | one order per key, each execution booked once, on its order |
| BingX client `execution/bingx` | report channel (1024), listen key | SendOrder, CancelRemote, ReplaceRemote, user stream, Reconcile | stream reconnects without replay; reports dropped when the channel is full; retries; 200 answers that refuse | what is lost is only what the stream lost |
| boot reconciliation `bingx/reconciliation.go` | writes the store before trading | Reconcile | restart with an empty store, 24 h fill window, open orders only | store agrees with the exchange before trading |
| risk service `risk/*.go` | kill switch, breakers, EMAs, feedback regime | Evaluate, Observe*, SetKillSwitch, SetCircuitBreaker | flags read and written by different handlers; breaker hysteresis | a tripped breaker denies; a stopped system can be started |
| fan-out `api/hub.go`, `pipeline.go`, `marketdata` | bounded channels, client set | offer, broadcast | full channels drop | slow clients do not block trading |
| RTTS execution controller `execution_controller.rs`, `execution_smart.rs`, `execution_external.rs` | active orders, counters, queue | on_market_update, on_execution_event, evaluate_action, apply_action | actions decided on stale state, order ids that change, orders never retired | cancel and replace limits; every order is eventually retired |
| RTTS accounting `accounting/*.rs` | open lots per symbol, marks, realized and unrealized PnL; windows of samples, streak, failure average | apply_fill, mark_to_market, position_exposure; observe, observe_failure, snapshot | partial closes, fills through zero, marks of one symbol; ties, empty windows, thresholds | the ledger balances against the cash flows; the statistics are what their names say |
| RTTS execution truth `execution_truth.rs` | queue of fills being measured | fill, market update | prices noted at horizons, a queue released from its head, samples dropped | every fill that arrives is measured |
| RTTS signal stages `trigger_engine.rs`, `reversal_engine.rs`, `reversal_classifier.rs`, `entry_scoring.rs` | local high and observation flag; reversal window, last pressures | observe, observe_learning, observe_frame, classify, evaluate | flags that outlive their frame; samples racing frames; windows that must close | an entry rests on a fall or on a profitable trade, once |
| RTTS decision loop `adaptive_engine.rs`, `position.rs`, `risk.rs`, `meta_engine.rs` | learnt threshold, losses, lock-out, last score; ledger and position; recent results | score_frame, decide_order, validate, evaluate | back-pressure, lock-outs, decisions on positions that are behind | no order without evidence and all approvals; halts are halts |

How they interact: RTTS posts requests to `/execution/requests` and reads the
updates the hub broadcasts; HTTP handlers call the gateway, each on its own
goroutine with a 750 ms (submit) or 500 ms (other calls) deadline; the gateway
calls the store (one mutex, held per call) and the exchange client; the
exchange client's stream goroutine feeds a channel that a single consumer
goroutine drains into `ApplyAsyncUpdate`.

## 2. Modules

| module | models | notes |
|---|---|---|
| `OrderStore` | `state/store.go` | one operator per method; pure state, no `Next` of its own |
| `Exchange` | the remote book (external), `bingx/orders.go`, `bingx/ws.go` | requests on the wire, reports, the lossy stream |
| `Gateway` | `execution/gateway.go`, `paper.go`, the HTTP handlers' arrivals | extends both; one action per store call or request |
| `OrderService` | the abstract promise of the execution path | refined by `Gateway` |
| `GatewayProperties` | properties, refinement mapping, inductive invariant | |
| `MCGateway` | TLC instances | |
| `OrderStoreProofs`, `GatewayProofs`, `GatewayFillProofs` | TLAPS proofs: store operations; keys, ids and fills; quantities and the refinement | |
| `Sums`, `SumProofs` | sums over sequences and finite sets, and their laws | recursive functions only, so that modules above them can be proved about |
| `ExecController` | one controller of `execution_controller.rs`, and what it sees of `queue_engine.rs` | pure operators on a record; no `Next` of its own |
| `ExecLoop` | the select loop, the executor (`execution_smart.rs`), the feed (`execution_external.rs`), the control-plane's orders as they appear from RTTS | extends `ExecController` |
| `ExecProperties`, `MCExecLoop` | properties, TLC instances | |
| `ExecProofs` | TLAPS proofs | |
| `Accounting` | `accounting/ledger.rs` | operators on an account record |
| `EdgeValidation` | `accounting/edge_validation.rs` | operators on a window of samples |
| `ExecutionTruth` | the data of `execution_truth.rs` | operators on a pending fill; extends `EdgeValidation` |
| `DecisionLoop` | `adaptive_engine.rs`, `position.rs`, `risk.rs`, `meta_engine.rs`, the fills of `execution_external.rs`, the task of `execution_truth.rs` | composes the three above; one action per arm of each `select!` |
| `LoopProperties`, `MCDecisionLoop` | properties, TLC instances | |
| `LoopProofs`, `LedgerProofs` | TLAPS proofs: evidence, halts and the statistic (extends the second); types and the ledger | |
| `Signals` | `trigger_engine.rs`, `reversal_engine.rs`, `reversal_classifier.rs`, `entry_scoring.rs` | one action per stage, with its properties |
| `MCSignals`, `SignalsProofs` | TLC instance, TLAPS proofs | |
| `LedgerChecks` | a reference definition of the lot ledger | assumptions TLC evaluates, made with the run `signals` |

The four families are separate. `Signals` ends where `DecisionLoop` begins: what
scoring makes of a frame is the field `entry` of the frames the loop takes its
choice from, and the profitable samples `Signals` is offered are those the loop
measures. `DecisionLoop` ends where `ExecLoop` begins: an order that got
through is executed in parts, given up, or reported as failed. Of the other two,
`Gateway` takes its calls from anywhere, and `ExecLoop` keeps of the control-plane
only what RTTS can tell apart (an order's status, fills and time stamp, changed under the lock and reported later). It
assumes the BingX path, on which `SendOrder` returns an acknowledgement only.

**Correspondence.** A `Submit` call is named by the order id it draws, so `pc`,
`req`, `snap`, `victim`, `reserved` and `steps`, indexed by `Orders`, are the
locals of that call. `pc` walks the function: `idle` (risk verdict and read of
the opposing orders) → `protect`/`evict` (self-trade prevention, remote cancel
then local cancel) → `mark` (the order is reserved) → `send` (on the wire) →
`step`/`apply` (the two critical sections of `applyStep` for each returned
step) → one of `rejected`, `duplicate`, `failed`, `done`. `consumer` is the
goroutine that runs `ApplyAsyncUpdate`; `call` holds the cancel, replace and
switch-strategy handlers. Nothing is atomic in the model that is not under one
acquisition of the store's mutex in the code, with one exception: the read of
the opposing orders is joined to the risk verdict before it, which touches no
modelled state.

In `ExecLoop`, `controllers` and `lookup` are the two maps of `run`, `actions`
and `events` its bounded channels; `Arrive`, `HandleEvent`/`IgnoreEvent` and
`MarketUpdate` are the arms of its `select!`, each with the evaluation and the
`try_send` it ends in. `Post` is the executor taking an instruction and the
control-plane starting its handler, one at a time because the executor awaits
the answer; `SendAck`, `SendFail`, `CancelLocal` and `HandlerEmits` finish it.
`StreamFill`, `StreamCancel`, `StreamReject` and `StreamEmits` are the report
consumer. The order changes in one step and its snapshot is emitted in another,
so the two goroutines' snapshots overtake each other as they do in the code.
`missed` remembers, for the properties only, the orders whose end the loop cannot
learn of.

In `DecisionLoop` every task of `pipeline.rs` keeps its own variable and every
channel is a sequence. `Learn`, `LearnFailure` and `Decide` are the three arms of
the adaptive engine's `select!`; it is `biased`, which their guards on the
earlier channels say. `ApplyExternalFill` and `DecidePosition` are the two of the
position module, `CheckRisk` and `JudgeMeta` the loops of risk and meta engine.
`StageCap` bounds the channels whose sender waits (`try_send`, then `send`), which
is the guard of the sending action; `DropCap` those that drop (`TrySend`).
`Execute` and `ForeignFill` are one `execution_update` of the control-plane:
`handle_update` offers the fill to the measurement and to the position module,
each of which may miss it. `TakeFill` and `Measure` are the two arms of
`execution_truth::run`. `history` counts, for properties and bounds only, what was
posted, executed, lost and paid.

In `Signals`, `ObserveTrigger` is `TriggerEngine::observe` with the send that
follows, `ObserveLearning` and `ObserveFrame` the arms of the reversal task's
unbiased `select!`, `Offer` the measurement's `try_send` to it, and `Score`
classifier and entry scoring, which keep no state and therefore are one step.

**Abstractions.** Quantities are natural numbers of lots. Prices are model
values, `None` standing for a missing one. Ledger and execution slices are kept
as the per-order sums that `Reconciliation` computes from them. The exchange
gives every order one exchange id, accepts or refuses it, executes it in any
parts, and may cancel, reject or answer late; a repeated POST of one
`clientOrderId` (the client retries up to four times) is taken to be recognised
by the exchange, and then answered without an order id.

Of a controller's scores and probabilities `ExecController` keeps the two times
they are condensed to when it is created; every later comparison of a score is a
free choice between the actions that status, times, fills, limits, competition
and quotes still allow (`Choices`). `quotes` says whether the queue state carries
best bid and ask. Times are whole milliseconds of one clock, which stamps
intents, market updates, acknowledgements and fills.

Where the decision loop has floating point, the model has integers: prices,
profits and ratios in hundredths, the learnt threshold and the shares of a high
per mille, quotients rounded toward zero. A frame carries the weighted scores
computed from the market as fields; every comparison with them, and every score
computed from what was learnt, is in the model. A judgement carries what the
scenario simulation and the recent results make of an intent, `toxic` folding
together five reasons for one and the same verdict. Left out, because no
property tells them apart:

* the learnt weights of the raw score, and the surcharges of spread, volatility and
  slippage on the learnt threshold;
* the share of a return that depends on how long the fill took, the noise floor of
  1e-4, the price after one second, and the reports that only feed metrics;
* the multipliers of an order's size: an entry is one unit, a size of zero (which
  risk rejects as `bad_size`) is a decision without intent;
* branches no run of the program takes: the kill switch of `risk.rs` (scores are
  clamped, and the profit it watches stays zero), the trigger's fast exit (computed
  from an empty position), `trigger_long_ready` (entry scoring has decided before
  it is looked at), and the decay of the local high (`max` with the high itself).

The market clock of the measurement does not run backwards; the time stamps of
fills are the exchange's and need not agree with it (`Lags`). What the exchange still
fills of an order while it is being canceled is taken to be announced before its
cancel. A sample dropped at a full channel is not counted anywhere, as in the code;
a fill dropped there is (`lost`). Costs of a fill are
per unit and not negative. A reduce-only order executes like any other, as on the
paper exchange. The position the module syncs with a foreign fill's symbol is
synced again with its own before it is used, and so is not kept.

## 3. What TLC checks

| run | instance | shows |
|---|---|---|
| `gw_submit` | 2 orders, 2 keys, a buy of 2 lots and a sell of 1 that cross, sizes may be reduced, channel of 2 reports, stream may fail | all safety properties of the BingX path and the refinement of `OrderService` |
| `gw_calls` | 1 order of 2 lots, 2 concurrent cancel/replace/switch calls, 2 prices, fairness | executions reach the ledger, safety under cancels |
| `gw_paper` | paper exchange, 2 orders (limit and market), 2 calls | the synchronous path, where order ids and exchange ids share one name space |
| `gw_lifecycle` | 1 order | *violation*: PARTIAL goes back to ACK |
| `gw_reconciled` | 1 order | *violation*: reconciliation matches although a fill was lost |
| `gw_selftrade` | 2 orders | *violation*: both sides rest on the exchange |
| `exec_loop` | 1 order: a pipeline intent, one with a queue estimate, or one with trading disabled; channels of 1, 4 ms, cooldown 2 ms | spacing of actions, exits within fills, no repricing, ends reach and retire the controller |
| `exec_keys` | 1 key with up to 2 intents, beside an order an earlier process left | names of orders are never mixed up |
| `exec_replace` | 1 passive order with the longest half-life, 11 ms | *violation*: a contested passive order is given up, not replaced |
| `loop_trade` | 2 symbols, 2 frames, 2 orders, 1 foreign fill (of 2 units or half filled), 1 failure, fills stamped with the market clock or a tick ahead, window of 2 samples, channels of 1, a feed that breaks | ledger, statistics, evidence, halts and measurement |
| `loop_uncertain` | the same with a judgement below the threshold, unbroken feed | *violation*: an order on an uncertain edge passes no threshold |
| `signals` | 6 frames around every threshold, 2 samples of 2 sides, won or lost, timeout of 2 ticks, channels of 1 | observations, windows and flips |

The properties, by what could go wrong:

* duplicate submission: `OneRemoteOrderPerKey`, `IdsNeverRebound`;
* a fill booked on the wrong order: `ReportsFindTheirOrder`, `BindingConsistent`;
* a fill lost or counted twice inside the process: `FillConservation`
  (executed = booked + in hand + lost by the stream), `FilledTracksLedger`,
  `PositionIsSignedLedger`, and the refinement `ImplementsOrderService`;
* an order called FILLED that is not: `FilledMeansExecuted`;
* a fill that never arrives: `FillsReachLedger`;
* cancels racing synchronous fills: `PaperOrdersSettle`;
* an instruction storm from stale events and repeated evaluations:
  `ActionsAreSpaced` (the per-order limits do not bound exits and aborts);
* an exit larger than the position: `ExitsStayWithinFills`;
* an event applied to another order, an instruction naming one:
  `AttributionHolds`;
* a controller that acts on an order that has ended: `EndsReachTheController`,
  `TerminalEventsRetire`;
* the branch of `evaluate_action` that is never taken: `NeverReprices`;
* money made or lost by the books: `AccountsBalance` relates what was realised to
  the cash that moved and to the lots that are open, `LotsOneSided` and
  `UnrealizedMatchesMarks` say that the lots can be read as a position and its
  value;
* a fill booked twice or not at all: `FillsAccountedFor`;
* a statistic that is not what its name says: `KSAgrees` compares the sweep of
  `ks_statistic` with the definition by distribution functions;
* trading without evidence, or in spite of a halt: `EvidenceBeforeTrading`,
  `HaltIsFinal`. Both describe what the code does to itself: an edge without
  samples counts as saturated, so that a fresh RTTS trades only after somebody
  else's order was filled and a measured fill was learnt from (a fill that was booked
  but not measured starts nothing); and a halt also stops the forced exits it
  gives rise to, so that a position stays open until a foreign fill changes the
  verdict;
* a fill never measured, or held up for good behind one with a later time stamp:
  `FillsAreMeasured`;
* a trigger that observes without cause, a trade turned round twice, a window that
  re-enters the side it should leave, or never closes: `ObservationNeedsDrop`,
  `OneFlipPerWindow`, `LongWindowNeverBuys`, `WindowsClose`. The mirror image of the
  third does not hold: a frame ready both ways goes short in either window
  (entry_scoring.rs:53-56, adaptive_engine.rs:223).

`LedgerChecks` states no property of a run but two assumptions TLC evaluates before
it starts: for every sequence of up to four fills of one to three units at two
prices, the ledger holds the units, and has realised the profit, of a reference that
trades unit by unit, with the oldest lot matched first and with the newest
(`FifoMatchesReference`, `LifoMatchesReference`). The runs use the first method only,
as RTTS does.

`FilledTracksLedger` carries an exception the code forces: after a failed
`SendOrder` the copy made before the request is written back, and the fills the
stream delivered meanwhile are forgotten by the order (not by ledger and
position).

**Bounds.** Two orders are enough for everything two calls do to each other:
same key, opposite sides, one canceling the other. Sizes of two lots give
partial fills; a channel of two reports overflows. The number of calls is
bounded by the finite sets `Orders` and `Calls`; a behaviour that used them all
up stutters in `Quiescent`, so deadlock checking stays on and reports any other
stop. In the `exec_` runs a channel of one place is full after one message, a
time of 4 ms lets a cooldown of 2 ms pass, and a half-life of 2 ms end, between
any two steps; orders of two lots give partial fills. `EndsReachTheController` and `TerminalEventsRetire` say nothing of orders
in `missed`: what becomes of the controller of an order whose end was lost is not
promised anywhere, and only its actions stay spaced. `MaxTime` and `MaxIntents`
bound the clock and the arrivals. Market updates never stop, so these runs cannot
deadlock. `exec_replace` needs 11 ms because 55% of the least expected fill time
of a pipeline order comes after 9.

In the `loop_` runs a window of two samples is full, overflows and has a
variance; `MinSamples`, the streaks and `MaxLosses` are lowered with it
(in the code 128 samples, 24, streaks of 4, 6 and 8, and a configured number of
losses). Two prices around costs and the expected markout make a fill a win, a loss
of its costs or a loss. One foreign
fill, of two units of the own symbol or of another symbol, starts RTTS trading and
is closed in parts by orders of one unit. With these bounds no single fill turns a
position round; that case is one of the inputs of `LedgerChecks`.
`Early`, `Mid` and `Final` coincide at one tick, as a tick between them
multiplies the states without a new order of events; the order of the horizons
enters no property. A fill comes with a time stamp equal to the market clock or one
tick ahead of it (`Lags`): one stamped ahead is not ripe at the next update, and the
fill behind it, which is, waits with its prices noted. That fills arrive out of the
order of their stamps is what `FillsAreMeasured` is about; its mutant releases a fill only at the update
that notes its last price, and such a fill never.
`MaxOrders`, `MaxForeign` and `MaxFailures` bound the arrivals,
and with them the fills; a market update always remains possible. The bounds of
`JudgeMeta` on orders stop the meta engine when they are used up, so that deadlock
is not checked. `MaxSamples` bounds the windows of `signals`; frames never stop,
and deadlock is checked.

**Fairness** (`FairSpec`). For `gw_calls`: weak fairness of the consumer goroutine,
which ranges over the channel for the life of the process. Nothing is assumed
of handlers, clients, the exchange, or the stream coming back. For `exec_loop`: weak
fairness of taking an event, because `tokio::select!` polls its branches in
random order and no branch waits for anything. For `loop_trade`: weak fairness
of taking a fill and of market updates that move the clock, since the market
never stops; nothing is assumed of decisions, orders or the feed. For `signals`:
weak fairness of the reversal stage and of scoring, and strong fairness of frames
whose clock has moved on: the market never stops, but the trigger stage takes them
only while there is room behind it.

## 4. What is proved

`GatewayProofs` proves for any sets of orders, keys, symbols, prices, requests
and calls, any channel capacity, with or without the stream failing and for
both exchanges:

* `AlwaysInductive`: `Spec => []Inductive`;
* `TypeCorrect`, `AtMostOneRemoteOrder`, `ReportsAreAttributed`,
  `BindingsAgree`, `FilledFollowsLedger`: the invariants of the same names;
* `IdsKeptForGood`: the action property `IdsNeverRebound`.

The safety properties are not inductive alone. That a key reaches the exchange
once needs that the key index and the orders name each other (`Ownership`) and
that exactly the calls past `mark` have placed theirs (`Control`). That a report
finds its order needs in addition that reports only exist for placed orders.
The binding invariant needs that no order, returned step or copy in flight
holds an exchange id other than its own (`Bindings`), and the fill invariant
that only one of the two paths — returned steps on paper, the consumer on BingX
— ever carries quantities (`Fills`). `Inductive` is their conjunction.
`OrderStoreProofs` states what each store operation does to a typed store;
`GatewayProofs` first classifies exchange steps (`ExchangeStep`) and steps that
touch no order's key, id or fills (`Background`), proves the invariant once for
those, and then once for each remaining action.

`GatewayFillProofs` proves, for the same instances, what happens to quantities:

* `AlwaysAccounted`: `Spec => []Accounted`;
* `FillsConserved`, `PositionsMatchLedger`, `FilledIsExecuted`,
  `PaperOrdersAreSettled`: the invariants `FillConservation`,
  `PositionIsSignedLedger`, `FilledMeansExecuted`, and on the paper exchange
  `PaperOrdersSettle`;
* `GatewayImplementsOrderService`: `Spec => ImplementsOrderService`, under the
  refinement mapping of `GatewayProperties`.

`Accounted` adds to `Inductive` that the exchange executes no more of an order than
was asked for, that the store keeps the size that was placed, that a status FILLED
came with the whole size, and that the books balance: what was executed is in the
ledger, in a report or returned step under way, or was lost. The balance is over
sums, and a step moves a quantity between two of them. The proof therefore sorts
the actions by what they do to quantities (execute, deliver, take, apply, lose, or
nothing) and shows the balance once for each kind. A position is a sum over the
orders of a symbol; booking a fill changes one term of one sum
(`TotalOverChange`). The refinement follows: a step of the gateway claims a key,
places an order, executes or applies a quantity, or does none of these; that it
applies no more than was executed is `FillConservation`.

`SumProofs` holds the laws of `Sums`: a sum over a sequence with one element more
or fewer, a sum over a finite set with one term changed, and the types of both.
Each is an induction over the size of its argument. The library's induction
theorems take an operator and cannot be used, so `SetInduction` states induction for
*sets* of naturals: a set that holds 0 and the successor of each of its members
holds every natural. Its proof rests on facts about finite sets of the library.

`ExecProofs` proves for any finite set of keys, any intents, capacities, limits
and cooldown, with or without a lossy feed:

* `InductiveInvariant`: `Spec => []Inductive`;
* `ExecTypeCorrect`, `ActionsAreSpacedAlways`, `AttributionAlwaysHolds`,
  `ExitsAlwaysStayWithinFills`, `NeverRepricesAlways` and
  `EndsAlwaysReachTheController`: the safety properties of `ExecProperties`;
* `UnestimatedOrdersAreSlow`: an order without a queue estimate has an expected
  fill time beyond its edge half-life, whatever its parameters.

Its invariant describes what may be in each place: a good controller (its name is
one of its order's two, it has no quotes and no replaces, its actions are spaced,
its fills were executed), a good instruction and a good event. An event claims
only what was executed because snapshots copy the recorded fills, which never
exceed the executions; executions only grow (`Grows`), so what was good when it
was emitted is good when it arrives, late or out of order (`MoreExecuted`). That
an event changes only its own order's controller (`ResolveIsKey`) needs that
`lookup` never mixes names, and that distinct keys have distinct order ids.

`EndsReachTheController` is not inductive, because it speaks of live controllers and a
late event brings an aborted one back to life (its status is overwritten by the
event's). `EndsKept` says the same of every controller the loop holds. A step then
disturbs it in one of two ways (`EndsStep`): it ends an order, and puts the end in
the handler's or the stream's hands or marks it missed; or it takes an end from the
channel, and then, since the event resolves to its own order, retires the
controller.

`LoopProofs` proves for any symbols, frames, judgements, failures, foreign fills,
window, thresholds and capacities:

* `NoEvidenceNoTrading`: `Spec => []EvidenceBeforeTrading`;
* `HaltStays`: `Spec => HaltIsFinal`;
* `KSAlwaysAgrees`: `Spec => []KSAgrees`.

The first two rest on the invariant `LoopInv`. Its first part, `Shape`, says only that each
queue is a sequence of something. Its second, `ColdStart`, says that as long as no
foreign order was filled, the loop is `Stuck`: the edge is halted, nothing is at work,
being measured or on its way back, and every decision and intent carries a halted
verdict. Its third, `Unlearnt`, says that as long as no sample is in the window the
loop is `Quiet`: the same but for the fills, which may be booked, measured or lost
meanwhile. That the edge as created is halted (`EmptyEdgeHalted`) is computed from the
definitions: the mean fill ratio of no samples is zero, which
`ClassifyCompetition` calls saturated. That a halted decision leads to a halted
intent (`IntentVerdict`) and a halted intent to none (`HaltedIsSkipped`) closes the
circle: no step but learning ends the quiet (`QuietStep`), and a sample that is learnt
stands in the window from then on (`WindowStep`, which needs the types of
`LedgerProofs`). For a halt at any later time (`StuckStep`) there is nothing to learn
either, and no fill left that could touch a lot.

`KSAlwaysAgrees` says of every window, of any length, that `ks_statistic`
(`edge_validation.rs:670-693`) returns the greatest distance of the two empirical
distributions, with ties within a sample and between the two. Of the state it needs
only that the samples are integers (from `LedgerAlwaysKept` below). It has three steps:

* sorting. `Sorted` gives the k-th place an order statistic: a value with fewer than
  k values below it and k or more not above it. `OrderStatistic` shows that there is
  one, `SortedCounts` that the k-th place is at or below a value exactly when k is at
  most the number of the values that are (`AtMost`);
* the sweep. `SweepInv` says that after n turns the pointers stand behind all the
  values up to one of them, that the maximum is the greatest of the gaps at these, and
  that n values are passed unless a sample is at its end. A turn keeps it
  (`SweepMoves`: it advances both pointers behind all the values equal to the lesser
  head), and so does every number of turns (`SweepsStand`);
* the end. The code stops when the first of the samples is exhausted. Beyond that
  point one share is the whole, the other only grows, and the gap only shrinks
  (`SweepEnds`); so nothing is missed (`KSExact`).

`KsStatistic` takes its turns by a recursive function whose value is a `CHOOSE`;
`SweepsExist` shows that there is such a function for every number of turns. Both it
and `SweepsStand` are inductions over a number, made with `SetInduction` on the set
of the numbers that have the property, since the library's rule takes an operator.

`LedgerProofs` proves for the same instances, with any costs, horizons and prices:

* `LedgerAlwaysKept`: `Spec => [](Types /\ Ledger)`;
* `LoopTypesHold`, `AccountsAlwaysBalance`, `LotsStayOneSided`,
  `UnrealizedIsMarked`, `EveryFillIsAccountedFor`: the invariants `LoopTypeOK`,
  `AccountsBalance`, `LotsOneSided`, `UnrealizedMatchesMarks` and
  `FillsAccountedFor`.

The heart is the matching loop of `apply_fill_internal`, which the model writes as a
recursive function over turns. `MatchOK` says what holds between two turns: the
lots are all on one side, what is left of the fill and the lots together are the
position the fill leads to, and what was realised balances against the cash of the
units matched so far. Every turn keeps it (`TurnKeeps`), and each shortens the lots or
ends the loop, so that after as many turns as there were lots the loop is done, and
what is left opens a lot on the right side. `ApplyFill` alone leaves the
unrealised profit of one symbol; `Ledger` states the balance only after the
marking that follows in the same arm of the `select!`.

The balance needs that quantities are what they should be wherever a fill comes
from, so `Types` is stronger than `LoopTypeOK`: an intent that has passed risk has
at least one unit, an order at work has between one unit and its size left, and
the executed parts of orders are typed with the fills in flight. Types of the
statistics need that `Root`, by which the deviation and the skew are computed, is a
number for every natural; it is a recursive function, twice the root of a quarter
or one more, and its type an induction over the argument.

`SignalsProofs` proves for any frames, samples, thresholds and capacities:

* `ObservationStandsOnADrop`: `Spec => []ObservationNeedsDrop`. The invariant adds
  that the lowest price since the high was set is below the high, and that a
  lower price has fallen by as much (`FallenFurther`); the case that needs an
  argument is a new high while the trigger observes: then the price has
  recovered, and the flag is taken back (`HighRecovers`);
* `AtMostOneFlip`: `Spec => []OneFlipPerWindow`. Inductive with an open window
  counted as one not yet turned round;
* `LongWindowSells`: `Spec => []LongWindowNeverBuys`, which needs no more than what
  `Score` writes, in every state;
* `SignalsTypesHold`: `Spec => []SignalsTypeOK`, with the bound on a window's age: a
  frame that finds the window too old closes it (`reversal_engine.rs:162-174`), and
  one that closes it forgets its exit price.

All proofs start from the named assumptions of the modules, which TLC evaluates on
every run. For the gateway: `None` is no id, the exchange gives distinct orders
distinct ids (and, on paper, the order's own id), the channel has room for one
report, no request has size zero (`risk/service.go:75`) or more than `MaxQty`, the
bound of the abstract service's steps (`MaxQtyAssumption`), and a run
creates finitely many orders (`FiniteOrders`; without it a sum over orders means
nothing). For the execution loop: the keys are finitely many, and `None` is neither
an order nor an event. Numbers are integers of any size throughout.

Every invariant and action property of a passing run is stated by a theorem. Only
model-checked:

* the liveness properties `FillsReachLedger`, `TerminalEventsRetire`,
  `FillsAreMeasured` and `WindowsClose`, since fairness and
  `ENABLED` are beyond the prover;
* the assumptions of `LedgerChecks`: the order in which lots are matched is
  compared with a reference for small inputs only. What is proved of the ledger
  for every input (the balance) does not depend on it;
* the runs that find a violation.

## 5. Where the code departs from its documents

* `gw_lifecycle`: README.md:359 promises the order
  `NEW -> SENT -> ACK -> PARTIAL -> FILLED/CANCELED`; every status setter of the
  store is unconditional (store.go:72, 86, 101, 150-154).
* `gw_reconciled`: README.md:361 promises that the check compares exchange fills
  with the ledger; the two slices compared are appended together
  (store.go:181-182, 314-342).
* `exec_replace`: the test at execution_controller.rs:1125 expects a passive order
  whose queue worsens to be stepped ahead or replaced. In the program it never
  is, for two reasons: position.rs:241 gives every intent an empty queue
  estimate, which makes evaluate_action give the order up at line 391 first
  (`UnestimatedOrdersAreSlow`); and on_market_update overwrites the quotes the
  improved price is computed from (lines 276 and 284, `NeverReprices`).
* `loop_uncertain`: README.md:329 says of an uncertain edge that trading is
  "degraded with smaller size and tighter thresholds". The thresholds of
  `meta_engine.rs` are tighter indeed (168-172), but an uncertain edge of low
  reliability is answered Wait before they are looked at (110-113), and Wait ends
  in Execute (29-47): the intent is evaluated a second time, unchanged, and compared
  with its own first evaluation.
* `gw_selftrade`: README.md:364 promises self-trade prevention by symbol;
  gateway.go:76 reads the open orders before gateway.go:90 stores its own.

## 6. Not modelled, and the plan

Not modelled: the scoring formulas of RTTS and of the risk service (tuned
floating-point arithmetic without a reference to compare with), the computation
of frames from market data (`ingestion.rs`, `microstructure.rs`, `orderbook.rs`),
the legacy event engine that `pipeline.rs` does not use, the research backend and
the front end, JSON and HTTP plumbing.

Of the execution loop: metrics, the feedback offered to the adaptive engine (it is
`Fail` in `DecisionLoop`), and the executor's scoring of a submission (modelled as a
possible drop). Of the accounting: the memory per market regime with the size
multipliers, and the latency, quality and validation reports.

Planned, in this order:

1. `Recovery`: a crash empties the store, boot reconciliation refills it from
   positions, open orders and recent fills, and retried requests follow.
2. `RiskService`: kill switch, breakers with hysteresis, feedback regimes.
3. An abstract specification of the decision loop (evidence, halt, position) that
   `DecisionLoop` implements.
