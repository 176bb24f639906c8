# lob-engine: a TLA+ verification project

This directory models the limit order book exchange of this repository, checks
the models with TLC, and proves the central properties with TLAPS.
`PROJECT.json` lists every component, run, finding, hazard and theorem, and maps
each definition to the source lines it models.

## The system

| Part | State | Operations | Interacts with |
|---|---|---|---|
| `PriceLevel` | deque of ids, set of cancelled ids, volume | push_back, pop_front, remove, reduce_front_volume, front, empty | owned by a book |
| `OrderBook` | two price maps of levels, `id_map_`, last trade price | insert, cancel, update quantity, reduce volume, best level | owned by an engine |
| `MatchingEngine` | book, `pending_stops_` | submit: new, cancel, modify, replace | called by the manager, the replay tool and the benchmark |
| `ExchangeManager` | one engine per symbol | process, snapshot_all | called on T2 only |
| `Gateway` | running flag, inbound ring | start, stop; T1 receives, T2 matches and takes snapshots | T1 → T2 |
| `exchange_main` | shutdown flag | a signal handler sets the flag, main starts and stops the gateway | owns the gateway |
| `EventDispatcher` | ring | enqueue (T2), publisher_loop (T3) | T2 → T3 |
| `ReplayLogger` | ring | log (T2), writer_loop (T4) | T2 → T4 |
| `Logger` | ring | log, writer_loop | its own writer thread |
| `SnapshotManager` | a file | save, load | a book, pending stops |
| `CsvReplayReader` | position in the event file | next | the replay tool |
| replay tool | trade lines | load, replay, compare | snapshot, reader, engine |
| `SyntheticGenerator` | list of live orders, next id | next | the benchmark |
| `BenchmarkRunner` | histogram | run | generator, engine |
| `LatencyHistogram`, `Metrics` | buckets, counters | record, percentile | the benchmark |
| serializer, configuration | – | conversions, plain data | T1, T2, T3 |

Two things are hard here. The **engine** is sequential, but it removes orders
lazily (a cancelled entry stays in its queue under a mark), and it is recursive:
a fill evaluates the stops, a triggered stop is a new order that fills in turn
and evaluates the stops that are left. The **threads** share five copies of a
lock-free single-producer single-consumer ring, drop what finds a ring full, and
shut down by three flags, a join for each thread, and a last drain of each ring.
A third, smaller one: a **snapshot** keeps less than the engine has (no dead
queue entries, no level volumes), may be cut short by a crash, and the engine
that is restored from it must trade as the saved one.

What makes the parts correct:

* levels and `id_map_` agree, so that the front of a level is always an order;
* quantity is neither made nor lost; the book is not crossed;
* orders trade by price, then time; stops are neither lost, doubled nor reordered;
* every submit returns;
* the published events say what happened to every order;
* a ring delivers in order, once, without a race, and is drained on shutdown;
* nothing is lost between the threads without being counted, a signal ends the
  process, and no thread ends while another still hands it something;
* a replay from a snapshot trades as the live engine did, and an incomplete
  snapshot is refused;
* the generator only cancels orders it has sent and not cancelled before; a
  percentile is the latency of its rank, up to the resolution.

## Modules

| Module | Models | State and actions |
|---|---|---|
| `PriceLevel` | `price_level.hpp/.cpp` | a level is a record; its methods are operators. `DrainCount` says how many entries the loop of `drain_cancelled` pops. |
| `OrderBook` | `order_book.cpp` | a book is a record of two maps of levels, `id_map` and the last price; its methods are operators. |
| `MatchingEngine` | `matching_engine.cpp` | `book`, `pending_stops`; `stack` is the C++ call stack of matching loops, each frame with its order and, during `evaluate_stop_triggers`, its `working` vector and captured price; `result` is the MatchResult. One action per outcome of an event (`SubmitNew`, `CancelPending`, `ModifyRequeue`, …) and per iteration of a loop (`Fill`, `TriggerStop`, `KeepStop`, `Finish…`). `ledger` and `stop_arrivals` are history. |
| `PriceTimeBook` | – | the abstract book: where each order rests (`at`), which of two is served first (`ahead`), what it shows and keeps in reserve (`lots`), and the trades of the call (`tape`); no lazy deletion, no ids map. A trade must be with the oldest order at the best price, at its price, and takes from it what the tape says. What becomes of the order then is determined: it stays first as long as it shows something, leaves when nothing is left, or shows a new peak at the back. An amendment goes to the back exactly if it changes the price or shows more. |
| `ExchangeManager` | `exchange_manager.cpp` | extends the engine with the message in process, the events it produced, and `view`: what a subscriber works out from them. |
| `BoundedQueue` | – | the abstract ring: a queue of bounded length that drops and counts. |
| `SpscRing` | `spsc_queue.hpp` and its copies in gateway, dispatcher, replay log and logger | `head`, `tail`, `buffer`; a producer and a consumer whose steps are single accesses to an index or a slot; shutdown. Implements `BoundedQueue`. |
| `Gateway` | `exchange_main.cpp`, `gateway.cpp`, `event_dispatcher.cpp`, `replay_logger.cpp` | main and T1 to T4 with their loops, the three flags, three `BoundedQueue`s, the PULL socket, the snapshot timer. One action per test of a flag, receive, push, pop with `process()`, hand-over of an event, and join. |
| `Replay` | `snapshot.cpp`, `csv_replay.cpp`, `tools/replay.cpp` | a live `MatchingEngine`, the snapshot file, the event file, and the tool with an engine of its own (an INSTANCE of `MatchingEngine`). |
| `Histogram` | `metrics/histogram.hpp` | a histogram is a record; its methods are operators. |
| `Benchmark` | `synthetic_gen.cpp`, `benchmark_runner.cpp` | generator, `MatchingEngine` and `Histogram` together. |
| `MC…` | – | inputs of the runs. |
| `MatchingEngine_proofs`, `EngineSafety_proofs`, `EngineTotals_proofs` | – | theorems on the engine: its invariant; conservation, crossing, stops and the refinement of `PriceTimeBook`; volumes of levels and the end of every call. Each extends the one before. |
| `ExchangeManager_proofs`, `Benchmark_proofs`, `Replay_proofs` | – | theorems on the components around the engine; they extend `EngineTotals_proofs`. `Benchmark_proofs` has those on `Histogram` too. |
| `SpscRing_proofs`, `Gateway_proofs` | – | theorems on the ring and on the threads. |

Faithfulness notes.

* A trade, the change of the book and the swap of the stop vector happen in one
  iteration of the matching loop without a call in between, so `Fill` is one
  action; each stop of a `working` vector is a step, since a triggered one runs
  a whole matching loop before the next is looked at.
* `Quantity` is unsigned. Where the code can wrap (the split of an iceberg) the
  model computes modulo `QtyMod`; everywhere else the theorem on types shows
  that no subtraction goes below zero.
* A front id that `id_map_` does not know fails an assertion, or is undefined
  behaviour in a release build. The model has no step from there; `FrontIsKnown`
  says that it does not happen.
* `Discipline` names two rules that clients can keep and the engine does not
  check: *ids* (an order does not come with an id that the engine still knows,
  dead queue entries included) and *requeues* (a modify does not queue an order
  at a price whose level still holds a dead entry of it). Runs and theorems that
  need the rules say so; `requeue` shows what happens without the second.
* The ring's acquire loads pair with the release stores of the other thread, so
  interleaving the accesses is enough. The exception is `Logger`, which tests its
  flag with a relaxed load (`logger.cpp:63`): it may see the flag cleared and still
  read an old `tail`, so what is said of the final drain (`FinalDrainComplete`,
  `EveryItemDelivered`) is about the other rings. A slot access is under way as long as the
  thread's pc stands before it; a race is two such accesses to one slot.
* The kind of a ring is chosen by `Init`: `release_first` is the replay log, which
  stores `head` before it reads the slot; `joined` tells the rings whose producer
  thread is joined before their flag is cleared (dispatcher, replay log) from the
  inbound ring, whose producer and consumer watch the same flag.
* In `Gateway` a push or a pop is one step. That is what `IsBoundedQueue` allows:
  the ring takes effect in one store. `process()` is one step with its pop, since
  no other thread can see the engine; how many events it yields is given by
  `EventCount`, at least one (BOOK). Orders and events are numbers, so that
  sequences show order, loss and duplication.
* An exception from `start()` is not caught by `main`; the process ends, with
  whatever threads it had started (`Alive`).
* In `Replay` the snapshot file is a sequence of fields; what a crash or a full
  disk leaves is a prefix of it. `load` reads on after the end of the file and
  leaves default values, as the code does, and only its return value tells. The
  two nested loops of `save` are said by what they produce: the live queue entries
  as pairs of price and position (`WrittenEntries`), the order in which the loops
  come to them (`WrittenBefore`), and the i-th order as the one that comes after
  i - 1 others (`OrdersOf`). The tool's engine is subject to no client rule.
* `mute` in `ExchangeManager` holds the orders that were never answered (finding
  6); a subscriber cannot account for those, and `StreamAccounts` is about all
  others. `EveryOrderHeard` says which they can be.
* The live engine of `Replay` takes the events a replay file can hold: new, cancel
  and modify (finding 8).
* Random draws are choices from small sets; the benchmark's clock is one of a few
  sequences of latencies on both sides of every boundary of the buckets.

## Runs

`tlc -workers 2 -config <cfg> <module>`; every run takes two minutes or less.

| Run | Bounds | Shows |
|---|---|---|
| `exchange` | 5 ids, 5 orders of 8 kinds, 2 prices | engine and manager: consistency, conservation, no crossed book, volume never understated; nested stop evaluation loses, doubles and reorders nothing and always ends; the event stream names every order, accounts for every answered one, names the sides, and snapshots show the open prices |
| `queues` | 3 ids, 4 orders of 5 kinds, 3 amendments | refinement of `PriceTimeBook` (who loses the place in a queue and who keeps it), types, consistency, conservation and the assertion of `match_limit` under modify, replace, replenishment and a triggered stop |
| `ring` | 4 slots, 6 items of 2 kinds, three kinds of ring | no race, order, no overwriting, delivery, drain, join; refinement of `BoundedQueue` |
| `gateway` | rings for 2, 1 and 2 items, 3 messages, 1 instrument, 1 expiry of the interval | losses are counted, streams are in order, the threads end in the right order, shutdown completes, orders are processed, due snapshots come out |
| `replay` | 3 ids, 4 orders of 4 kinds, 1 amendment, 2 events after the snapshot | replay reproduces the live trades and state; incomplete snapshots are refused; the exit code is right |
| `benchmark` | 5 events, quantities 1 and 2, 3 latency sequences, both price modes | consistency without client rules, the generator's list against the book, percentiles against ranks for latencies below 9 ms and from 10 ms on |
| `volume`, `crossed`, `missed_stop`, `requeue`, `inbound`, `latency` | small | a documented statement that the code does not keep: see Findings |

Why the bounds are enough to be interesting. `exchange`: two orders trade and
three stops wait, so a triggered stop trades, moves the price and triggers others
while the outer evaluation still has stops to look at; two prices give sweeps.
`queues`: more orders than ids, so ids are used again; two or three orders at one
price make queues with an entry in the middle to cancel or amend. `ring`: it
fills, drops and wraps. `gateway`: every ring can fill and drop (an order yields
up to two events, a snapshot one, and the publisher's ring holds one), two orders
can wait in the inbound ring when the flag is cleared, and malformed messages and
unknown symbols come in between. `replay`: books with dead entries, spent icebergs
and pending stops are saved; every proper prefix of their image is tried; the
event file starts with a blank and an unparsable line or not; two later events
are enough to trade and to trigger a restored stop. `benchmark`: cancels from the
middle and the end of the list, of filled and of resting orders; prices that
cross and a draw that is clamped to 1. `MaxOrders`, `MaxItems`, `MaxLines`,
`MaxEvents` and `MaxExpiries` are needed because histories, volumes and counters
grow. Ids are symmetric where they are model values: nothing orders them. Runs
with a liveness property do not use symmetry.

Deadlock is checked in every run. The engine can always take a cancel; the other
modules end in `Terminated`, `Ended`, `Exited` or `Reported`.

Fairness. The ring's `FairSpec` asks that the producer finishes the push it has
begun and that the consumer thread keeps running. The gateway's asks weak
fairness of main and of each thread, which the operating system's scheduler
gives: their loops never block, they yield, and main sleeps 50 ms at a time.
Nothing is asked of the arrival of messages or signals, of binds succeeding, or
of the clock. That `submit` returns needs no fairness: `EveryStepProgresses` names
a measure that every step of a call lowers.

## Findings

1. `volume` – a filled order is removed when its quantity is already zero, so
   the level keeps its volume (`matching_engine.cpp:149`, against
   `docs/testing.md:91`). What does hold is that a level never reports less than
   its orders show (`VolumeCoversOrders`), for orders without a peak.
2. `crossed` – an aggressive iceberg matches one peak only and rests across
   (`matching_engine.cpp:56`, against `docs/testing.md:122`). `process_modify`
   also inserts without matching (line 306), which the run does not show: it has
   no amendments. The gateway does not offer modify.
3. `missed_stop` – the captured price is stale for the rest of the vector
   (`matching_engine.cpp:191`, against `docs/engine-design.md:85`).
4. `requeue` – grow an order, cancel it, trade: the assertion of `match_limit`
   fails (`matching_engine.cpp:85`), because two entries share one mark.
5. `inbound` – an order can be pushed after the final drain
   (`gateway.cpp:186`). What does hold is `AtMostOneStranded`: never more than one.
6. The rejection of a triggered stop suppresses the acceptance of the order that
   triggered it (`exchange_manager.cpp:124`, against `README.md:212`). The
   `exchange` run reaches such orders and shows what does hold: they are named in
   a trade of their call (`EveryOrderHeard`), and `StreamAccounts` holds for the
   orders that are answered. The `exchange` run leaves icebergs out, because the report of a
   cancelled one omits its reserve and because of finding 2.

7. `latency` – a latency of 9 ms is in no bucket (`histogram.hpp:61`, against the
   comments of lines 49 and 61): the third range is numbered from 2010, so that its
   last ten buckets are past the end of the table. A percentile whose rank is such
   a latency is reported as the maximum; in the run the rank's latency is 9 ms and
   10 ms is reported. What does hold is `PercentileIsRank`, which says nothing of
   latencies from 9 ms to 10 ms; `BucketBounds` proves that the table ends just
   below 9 ms.
8. `docs/testing.md:42` and `data/sample-replay/README.md:15` list REPLACE among the
   events of a replay file; `CsvReplayReader` does not know it and skips the line
   (`csv_replay.cpp:100`). The `replay` run has such a line in its files and shows
   that it has no effect. `ReplayReproduces` is about the other three events.

## Proofs

`tlapm` on each of the eight `…_proofs` modules; those that reach the engine take
some minutes each, the others a minute or less.

**Engine.** For every set of ids, prices, orders and amendments and any number
of orders, if clients keep both rules: type correctness (`TypeCorrect`), the
agreement of levels and `id_map_` (`Consistency`), the assertion of
`match_limit` (`FrontKnown`), and that no order is in two places at once
(`Exclusivity`, which follows from `Apart` below). `BookConsistent` alone is not inductive: nothing in
it keeps a triggered stop from coming to rest behind a dead entry of its own id.
The invariant is

    Inv == TypeOK /\ Sound(book) /\ Apart(book, pending_stops, stack)

`Sound` says that in every level ids are queued once, marks are on queued ids,
the entries without a mark are exactly the orders `id_map_` places there, and a
level without any is not in the map. `Apart` says that the ids of pending stops,
of the stops in every `working` vector and of the orders being matched are all
different and have no trace in the book, dead entries included. The rule *ids*
establishes `Apart` when an order enters; each of the book's operators leaves no
new trace of any id but its own (lemmas `InsertSound`, `CancelSound`,
`FillSound`, …); a triggered stop moves from `working` to an activation of its
own. At the bottom are lemmas on a level: what draining keeps (`DrainAlive`),
that push, pop and remove change the set of live ids as their names say.

Five more properties rest on `Inv` and an invariant of their own (the first three
in `EngineSafety_proofs`, the others in `EngineTotals_proofs`).

* *Conservation* (`QuantityConserved`, both rules). `Conserved` ties what is open
  of every order, wherever it is, to its ledger entry, and adds which orders can
  have a reserve at all: a pending stop has none, and an order rests with one only
  if it has a peak. Without that, the fill that empties an order might remove a
  reserve with it. The hypothesis `PeaksFit` says that an iceberg's peak is
  positive and at most its quantity; otherwise `quantity - peak_qty` wraps in
  `process_new_order`, and the statement is false.
* *Uncrossing* (`NoCrossedBook`, the events of the gateway, rule *ids*, no
  icebergs). `Separated` says that every resting bid is below every resting ask
  and that the orders outside the book are of the kinds for which the matching
  loop runs until nothing crosses. Finding 2 is why icebergs, and modify events,
  are excluded.
* *ArrivalOrder* (`StopsInArrivalOrder`, both rules). `Arrived` lists the waiting
  stops as one line, pending stops first, then each `working` vector from the
  innermost evaluation outwards, and says that this line is `stop_arrivals`.
* *Coverage* (`VolumeCoversOrders`, all events, both rules). `Covered` is the
  property itself with the orders of a level found through `id_map_`; it is
  inductive on top of `Inv` and `Peakless`, no order has a peak. The hypothesis
  `NoPeaks` is needed: `visible_qty` of an order with a peak is the peak even when
  less is left, so a partial fill takes the volume below what the order shows.
  The volume may exceed the sum (finding 1), and the subtractions are clamped;
  the lemmas show for each operation that the volume goes down by no more than
  the sum does.
* *Progress* (`EveryStepProgresses`, both rules) and *MeasureNatural*: every step
  of a call lowers `Remaining`, whose parts are natural numbers, so every call
  ends. What a fill takes from the orders in flight, what a triggered stop moves
  from a `working` vector to an activation, and what is popped from the stack are
  compared as sums over all activations.

Sums and folds are recursive functions over finite sets in the community modules,
with an arbitrary choice of the next element. The first part of
`EngineTotals_proofs` proves, by induction on the size of the set (`Induct`,
`FiniteInduct`), that the recursion exists, does not depend on the choices and
gains one term with one element. The induction lemmas are about a *set* of numbers
or of sets instead of a predicate, which the provers can instantiate.

**Price-time priority.** Under the hypotheses of *Conservation*, the engine
implements `PriceTimeBook` (`PriceTime`, the property `PriceTimePriority`). The
queues hold entries the abstract book does not know, and `front`, `pop_front` and
`empty` drop them at moments of their own. So the proof first shows, operation by
operation, what happens to the order of the *live* ids of a level (`DrainOrder`,
`PushOrder`, `RemoveOrder`, `PopPushOrder`), then of the whole book (`CancelAhead`,
`InsertAhead`, `FillAhead`), and then matches the actions: `Fill` is a `Trade`,
`FinishResting` a `Place`, a cancel or replace a `Withdraw`, a modify a `Requeue` or a
`Shrink`, everything else changes nothing. `FillAhead` also says what the order
that gave the fill holds afterwards, which decides between staying first, leaving
and a new peak at the back. A trade may report quantity 0: an iceberg that spent its peak as aggressor rests
with nothing shown, and the first order to meet it makes it show a new peak.

**Manager.** The manager implements the engine's specification restricted to the
gateway's events (`ManagerImplementsEngine`), so what is proved of `GatewaySpec`
holds behind it: consistency, the assertion and exclusivity (`ExchangeConsistent`)
need the rule *ids* only, since no modify arrives. The buyer of a published trade
is not an order on the sell side, nor the seller one on the buy side (`SidesNamed`);
the invariant `Named` follows each trade from the result to the published event
while its orders fill, rest and are cancelled.

The event stream is complete (`StreamComplete`, the property `StreamAccounts`; rule
*ids*, no icebergs): between two calls a subscriber's open quantity of every order
that was answered is the engine's. `Reconciled` joins `Conserved` and `Separated`
with `Flat`, no resting order has a reserve (a cancel reports the visible quantity
only, which is why icebergs are excluded), and `Accounts`: between calls `view` is
the ledger's open quantity; during a call the two differ by exactly what the
message and the result still hold of trades, reports and rejections. A published
snapshot lists exactly the prices at which an order rests, with at least what the
subscribers take to be open there (`SnapshotComplete`, the property
`SnapshotShowsOpen`); this adds `Covered`, `Peakless` and `Pictured`, the snapshot
among the events is the depth of the book as it is.

Every new order is named in an event of its call (`NoOrderUnheard`, the property
`EveryOrderHeard`; rule *ids*). `Followed` says that the order has traded, or the call
is still alone with it: no stop was evaluated, so every activation and every
rejection is the order's own.

**Ring.** For every capacity, any items and any number of them, in both
consumer modes: indices in range (`TypeCorrect`), no race (`RaceFree`), delivery
in order and once (`Fifo`), nothing overwritten (`NoOverwrite`), and, if the
producer is joined first, a complete final drain (`FinalDrain`). The invariant
says that the slots from `head` to `tail` hold exactly the published items not
yet consumed, that the consumer in mode `ReleaseFirst` reads the slot just before
`head`, and that the producer has left one slot free since it tested for full:
these two keep it out of that slot. From the same invariant, the ring implements
`BoundedQueue` (`Refinement`): the store to `tail` is its `Put`, the store to `head`
its `Take`, the test that finds the ring full its `Drop`, everything else stutters.

**Gateway.** For rings of any size, any traffic, any number of instruments and
events: T3 and T4 end after T2 and with empty rings (`EndLast`), and at most one
order is left in the inbound ring (`OneStranded`). Neither is inductive. The
invariant adds how far main has come when a flag is down although its thread was
started (`Flags`), that threads not started yet are off (`Unstarted`), that a thread
in its last round has seen its flag cleared, and that T2 has nothing to hand over
outside `emit` and `snapshots` (`Seen`), and that when T2 is done T1 has pushed its
last order or holds it with the ring empty (`Stranded`): T2 ends with the ring
empty, after `running` is cleared, so T1 cannot start another round.

Nothing is lost uncounted (`Accounting`) and every stream is in order
(`Ordering`). The invariant `Counted` says of each ring that what came out of it
followed by what is in it increases and is bounded by the number handed to it, the
counted drops included, and of T2 that the events in its hand are exactly the ones
not handed to each ring yet, each offered to the log before the publisher.

**Benchmark.** For any draws, both price modes and any number of events, and
without a rule on clients: the book is consistent (`BenchmarkConsistent`), every
resting order is in the generator's list once (`Drawable`), and only a cancel of a
filled order is rejected (`RejectedWereFilled`). `BenchmarkInv` adds to the engine's
`Inv` and `Conserved` that ids from `next_order_id` on have no trace in the book (this
is what replaces the rule *ids*), that all orders are limit orders, that the
generator's list has no repetition and names every order the engine has (`Tracked`),
and that nothing of an order on the list was cancelled (`Unspent`): if such an order
is no longer in the book, conservation leaves only that it was filled.
`DomainsAssumption` says that the ids and prices the generator can produce are in
the model's `Ids` and `Prices`.

**Histogram.** For every latency: it has a bucket exactly if it is below 9 ms, and
the value reported for its bucket is the latency rounded down to the resolution
(`BucketBounds`); among those with a bucket, a longer latency never has an earlier
one (`BucketsInOrder`), which is what makes cumulative counts ranks. Without that
condition it is false: from 9.1 ms on `bucket_index` exceeds the `kBuckets` that it
returns for 10 ms and more; neither is counted in a bucket.

For every sequence of latencies, every number of calls and every percentile from 0
to 100, `percentile` gives 0 for rank 0, the latency of its rank rounded down to
the resolution if that is below 9 ms, and the longest latency if it is 10 ms or
more (`PercentilesRank`, the property `PercentileIsRank`). `Recorded` says that the
histogram pictures the latencies of the calls so far: the count, the maximum, and
for each bucket how many fell into it (`Pictures`). The sum of the buckets up to one
is then the number of latencies that are not in a later one (`CumulativeCounts`),
and the first bucket whose sum reaches the rank holds a latency of that rank
(`RankReported`).

**Snapshots.** For every book the engine can be in under both rules, whatever dead
entries its queues have, any pending stops and any number of events. A snapshot
that was cut short, at whatever field, is never replayed from (`CompleteLoaded`, the
property `OnlyCompleteLoaded`), and a complete one gives back what was saved
(`SnapshotRestores`): the same `id_map_`, the same order of any two orders of a level
(`IsAhead`, the relation `PriceTimeBook` is about), the same stops in the same order
and the same last trade price. The argument has three parts.

* The file. `save` writes the size of `id_map_` and then the orders it finds in the
  queues. By `Sound` the live entries and the orders correspond one to one, so the
  count is right (`OrdersCounted`), every field is at the place `load` reads it from
  (`ImageIsImage`), and the stream fails on every proper prefix (`PrefixLoads`).
* The order. `WrittenBefore` is a strict total order of finitely many entries, so
  their ranks are 0, 1, 2, … and each order is written exactly once, the older of
  two in a queue first (`Enumerated`, `SavedInOrder`).
* The load. `insert_order` is folded over the orders. By induction over their number
  (`FoldSteps`, `BuiltAll`) the book so far holds exactly the orders read, no dead
  entries, and each queue in the order of the file.

`FileInv` carries this through the steps: the file loads exactly if the event file
starts at it, and describes the engine until the next event.

**Only model-checked.** Liveness (`EveryItemDelivered`, `ConsumerJoins`,
`OrdersProcessed`, `ShutdownCompletes`, `SnapshotsComeOut`), which needs fairness
and ENABLED. Three invariants of `Replay`, which compare the tool's engine with the
live one after all events: `ReplayReproduces`, `VerdictExact` and `RestoredAgrees`.
`SnapshotRestores` is their base. The rest would be a simulation between two
engines that run at different times: the model keeps no history of the live
engine's states, so the invariant would have to say that a run of the engine over
the remaining lines exists which ends in the live state, and each action of the
engine would have to be restated as a relation on such states. `RestoredAgrees` and
`VerdictExact` also use `SelectSeq` (through `order_ids` and `NotBlank`), whose
recursive definition the provers cannot unfold.

## Not modelled

* Formatting and scanning: JSON, splitting of CSV lines, number parsing, argument
  parsing, printing. They keep no state; which messages and lines are accepted is
  modelled.
* What ZeroMQ does with a message it was given. PUB sockets drop for slow
  subscribers; nothing in the exchange reacts to it.
* A crash of the exchange process. It recovers nothing on restart: engines start
  empty, and lines in the replay log's stream buffer are lost.
* Files that cannot be opened (the tools exit, the replay log writes nothing).
* Timestamps, sequence numbers, order status and client ids: they decide nothing.
  `sequence_` is saved and printed; the replay tool does not put it back.
* `Metrics`, which only counts, and the configuration, plain data. `Logger` has the
  ring and the loop of `SpscRing`; starting it again after a stop is left out, and
  so is what its relaxed load of the flag allows in the last drain.
* Snapshots under endless traffic: `exchange_loop` looks at its timer only when the
  inbound ring is empty, so a snapshot can be late for as long as orders keep the
  ring from being empty. `SnapshotsComeOut` is about traffic that pauses.
* The snapshot file that `save` truncates: in `Replay` there is no older one, and no
  document promises that it survives a failed save.
* An iceberg whose peak is larger than its quantity: `SplitIceberg` has the unsigned
  wrap, but no document says what the engine should do with such an order.

## Plan

Done: levels and book, engine, abstract book and refinement, ring, manager; the
ring's abstract queue, gateway with its threads, snapshot and replay, generator,
benchmark and histogram; proofs of every safety property the runs check, but for
the three of `Replay` named above.

Left: the simulation of the live engine by the tool's engine, action by action,
with the relation of `SnapshotRestores` (`SameOrders`) as the relation between their
books.
