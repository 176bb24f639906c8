------------------------------ MODULE Benchmark ------------------------------
(***************************************************************************)
(* The benchmark (src/benchmarks/benchmark_runner.cpp): events of the      *)
(* SyntheticGenerator (src/src/feed/synthetic_gen.cpp) are submitted to an *)
(* engine, and the time each call takes is recorded.  The random draws of  *)
(* the generator are choices, the clock is one of the sequences Timings.   *)
(***************************************************************************)
EXTENDS MatchingEngine, Histogram

CONSTANTS
  MidPrice,    \* config_.mid_price
  Offsets,     \* the draws of price_dist_, rounded
  Spreads,     \* the draws of spread_dist
  Quantities,  \* the draws of qty_dist_
  Timings,     \* sequences of latencies, one for each call
  MaxEvents    \* max_events_

ASSUME DrawsAssumption ==
  /\ MidPrice \in Nat /\ Offsets \subseteq Int /\ Spreads \subseteq Nat
  /\ Quantities \subseteq Nat \ {0} /\ MaxEvents \in Nat
  /\ \A timing \in Timings : timing \in Seq(Nat) /\ Len(timing) >= MaxEvents

(* The ids and the prices of the generator are ids and prices. *)
ASSUME DomainsAssumption ==
  /\ 1..MaxEvents \subseteq Ids /\ 1 \in Prices
  /\ \A d \in Offsets : MidPrice + d >= 1 => MidPrice + d \in Prices
  /\ \A d \in Spreads : {MidPrice - d, MidPrice + d} \subseteq Prices

VARIABLES
  market_maker_mode,  \* config_.market_maker_mode
  next_order_id,      \* next_order_id_
  event_count,        \* event_count_
  live_orders,        \* live_orders_
  runner,             \* where run_scenario() is
  latency,            \* latency_
  timing              \* the latencies the clock will show

generatorVars == <<market_maker_mode, next_order_id, event_count, live_orders>>
benchmarkVars == <<vars, generatorVars, runner, latency, timing>>

BenchmarkInit ==
  /\ Init
  /\ market_maker_mode \in BOOLEAN
  /\ next_order_id = 1 /\ event_count = 0 /\ live_orders = <<>>
  /\ runner = "next"
  /\ latency = EmptyHistogram
  /\ timing \in Timings

-----------------------------------------------------------------------------
(* SyntheticGenerator::next and, in the same step, submit(). *)

GeneratorPrices(side) ==
  CASE ~market_maker_mode -> {IF MidPrice + d >= 1 THEN MidPrice + d ELSE 1 : d \in Offsets}
    [] market_maker_mode /\ side = Buy  -> {MidPrice - d : d \in Spreads}
    [] market_maker_mode /\ side = Sell -> {MidPrice + d : d \in Spreads}

Generates ==
  /\ runner = "next" /\ event_count < MaxEvents
  /\ runner' = "submit"
  /\ event_count' = event_count + 1
  /\ UNCHANGED <<market_maker_mode, latency, timing>>

(* A fault: the number of live orders serves as id. *)
GenerateNew_CountsLive(side, price, quantity) ==
  LET order == [id |-> Len(live_orders) + 1, side |-> side, type |-> "Limit", price |-> price,
                stop_price |-> 0, quantity |-> quantity, peak_qty |-> 0, reserve_qty |-> 0]
  IN  /\ Generates
      /\ SubmitNew(order)
      /\ next_order_id' = next_order_id + 1
      /\ live_orders' = Append(live_orders, order.id)

GenerateNew(side, price, quantity) ==
  LET order == [id |-> next_order_id, side |-> side, type |-> "Limit", price |-> price,
                stop_price |-> 0, quantity |-> quantity, peak_qty |-> 0, reserve_qty |-> 0]
  IN  /\ Generates
      /\ SubmitNew(order)
      /\ next_order_id' = next_order_id + 1
      /\ live_orders' = Append(live_orders, order.id)

(* A fault: the pop without the swap. *)
WithoutOrder_PopOnly(seq, idx) == Front(seq)

(* A fault: the swap without the pop. *)
WithoutOrder_SwapOnly(seq, idx) == [seq EXCEPT ![idx] = Last(seq)]

(* Swap-and-pop. *)
WithoutOrder(seq, idx) == Front([seq EXCEPT ![idx] = Last(seq)])

(* live_orders_ still has orders that are filled by now. *)
GenerateCancel(idx) ==
  /\ Generates
  /\ LET id == live_orders[idx]
     IN  CancelPending(id) \/ CancelResting(id) \/ CancelUnknown(id)
  /\ live_orders' = WithoutOrder(live_orders, idx)
  /\ UNCHANGED next_order_id

EngineStep == Step /\ UNCHANGED <<generatorVars, runner, latency, timing>>

(* The call has returned: its latency is recorded, and the duration may be *)
(* over.                                                                   *)
RecordLatency ==
  /\ runner = "submit" /\ Idle
  /\ latency' = record(latency, timing[latency.count + 1])
  /\ runner' \in {"next", "done"}
  /\ UNCHANGED <<vars, generatorVars, timing>>

GeneratorEnds ==
  /\ runner = "next" /\ event_count >= MaxEvents
  /\ runner' = "done"
  /\ UNCHANGED <<vars, generatorVars, latency, timing>>

Reported == runner = "done" /\ UNCHANGED benchmarkVars

BenchmarkNext ==
  \/ \E side \in Sides : \E price \in GeneratorPrices(side), quantity \in Quantities :
       GenerateNew(side, price, quantity)
  \/ \E idx \in 1..Len(live_orders) : GenerateCancel(idx)
  \/ EngineStep \/ RecordLatency \/ GeneratorEnds \/ Reported
BenchmarkSpec == BenchmarkInit /\ [][BenchmarkNext]_benchmarkVars

-----------------------------------------------------------------------------
(* Properties *)

(* The generator keeps track of the book: every resting order can still be *)
(* drawn for a cancellation and by one index only, whatever indices were   *)
(* swapped and popped before.                                              *)
RestingCanBeDrawn ==
  /\ \A i, j \in 1..Len(live_orders) : live_orders[i] = live_orders[j] => i = j
  /\ Idle => \A id \in DOMAIN book.id_map :
               \E i \in 1..Len(live_orders) : live_orders[i] = id

(* A cancellation of the generator is rejected only when the order has     *)
(* traded in full: it never cancels an order twice, nor one that has not   *)
(* been sent.                                                              *)
OnlyFilledRejected ==
  \A i \in 1..Len(result.rejections) :
    LET entry == ledger[result.rejections[i].order_id]
    IN  entry.orig > 0 /\ entry.filled = entry.orig

(* What report() prints of the latencies, when all that are shorter than   *)
(* limit are in the table: every percentile is the latency of that rank,   *)
(* rounded down to the resolution of its range, and the maximum when that  *)
(* latency is 10 ms or more, which is kept in no bucket.  A rank below the *)
(* first sample gives 0.                                                   *)
IsOfRank(ns, rank) ==
  /\ Cardinality({i \in 1..latency.count : timing[i] < ns}) < rank
  /\ Cardinality({i \in 1..latency.count : timing[i] <= ns}) >= rank
Overflow == 10000000
PercentilesReported(limit) ==
  runner = "done" =>
  LET samples == {timing[i] : i \in 1..latency.count}
  IN  \A p \in 0..100 :
        LET rank  == (latency.count * p) \div 100
            value == percentile(latency, p)
        IN  /\ rank = 0 => value = 0
            /\ rank > 0 =>
                 \E ns \in samples :
                   /\ IsOfRank(ns, rank)
                   /\ ns < limit => value <= ns /\ ns - value < Resolution(ns)
                   /\ ns >= Overflow => value = Max(samples)

(* The percentiles are right whenever the latency of the rank is shorter   *)
(* than 9 ms, or overflows, whatever other latencies were recorded.        *)
(* Nothing is said of one from 9 ms to 10 ms: see DocumentedTable.         *)
Limit == 9000000
PercentileIsRank == PercentilesReported(Limit)

(* The documented table (histogram.hpp:49 and 61-62): its last range goes  *)
(* up to the overflow at 10 ms, "1ms-9ms (100 us res)" in buckets 2000 to  *)
(* 2089.  The code does not keep to it: bucket_index() numbers that range  *)
(* from 2010, so 9 ms is already past the last bucket.                     *)
DocumentedTable == PercentilesReported(Overflow)

=============================================================================
