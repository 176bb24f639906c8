----------------------------- MODULE MCBenchmark -----------------------------
(***************************************************************************)
(* Inputs for the runs of Benchmark: draws that cross and that are clamped *)
(* at price 1, and latencies on both sides of every boundary.              *)
(***************************************************************************)
EXTENDS Benchmark

AroundMid == {-3, 0}
ClockReadings ==
  {<<999, 0, 1000, 1001, 999, 1999, 0>>,
   <<999999, 1000000, 1999, 8999999, 1099999, 999, 1>>,
   <<9000000, 8999999, 10000000, 5, 9999999, 1000000, 20000000>>}

=============================================================================
