------------------------------ MODULE Histogram ------------------------------
(***************************************************************************)
(* LatencyHistogram (src/src/metrics/histogram.hpp) as a value and the     *)
(* functions on it.  A histogram is a record: count and max of what was    *)
(* recorded, and buckets, which maps the index of every bucket that is not *)
(* empty to its number of samples.  Latencies are in nanoseconds.          *)
(***************************************************************************)
EXTENDS Integers, FiniteSetsExt, Functions

kBuckets == 1000 + 1000 + 90

(* A fault: the third range is meant to start at bucket 2000. *)
bucket_index_FromZero(ns) ==
  CASE ns < 1000     -> ns
    [] ns >= 1000 /\ ns < 1000000      -> 1000 + ns \div 1000
    [] ns >= 1000000 /\ ns < 10000000  -> 2000 + (ns - 1000000) \div 100000
    [] ns >= 10000000 -> kBuckets

bucket_index(ns) ==
  CASE ns < 1000     -> ns
    [] ns >= 1000 /\ ns < 1000000      -> 1000 + ns \div 1000
    [] ns >= 1000000 /\ ns < 10000000  -> 2000 + ns \div 100000
    [] ns >= 10000000 -> kBuckets

bucket_to_ns(idx) ==
  CASE idx < 1000 -> idx
    [] idx >= 1000 /\ idx < 2000 -> (idx - 1000) * 1000
    [] idx >= 2000 -> (idx - 2000) * 100000

(* "1 ns res", "1 us res", "100 us res": the width of a bucket. *)
Resolution(ns) ==
  CASE ns < 1000 -> 1
    [] ns >= 1000 /\ ns < 1000000 -> 1000
    [] ns >= 1000000 -> 100000

EmptyHistogram == [count |-> 0, max |-> 0, buckets |-> [i \in {} |-> 0]]

InBucket(h, i) == IF i \in DOMAIN h.buckets THEN h.buckets[i] ELSE 0

(* A latency beyond the last bucket is counted, but in no bucket. *)
record(h, ns) ==
  LET idx == bucket_index(ns)
  IN  [count   |-> h.count + 1,
       max     |-> IF ns > h.max THEN ns ELSE h.max,
       buckets |-> IF idx >= kBuckets THEN h.buckets
                   ELSE [i \in DOMAIN h.buckets \cup {idx} |->
                           InBucket(h, i) + (IF i = idx THEN 1 ELSE 0)]]

(* The loop returns the first bucket at which the cumulative count reaches *)
(* the target: bucket 0 or one that is not empty.  None does when too many *)
(* samples are in no bucket.                                               *)
Cumulative(h, i) ==
  SumFunctionOnSet(h.buckets, {j \in DOMAIN h.buckets : j <= i})
percentile(h, p) ==
  LET target  == (h.count * p) \div 100
      Reached == {i \in DOMAIN h.buckets \cup {0} : Cumulative(h, i) >= target}
  IN  CASE h.count = 0                    -> 0
        [] h.count > 0 /\ Reached = {}    -> h.max
        [] h.count > 0 /\ Reached # {}    -> bucket_to_ns(Min(Reached))

=============================================================================
