----------------------------- MODULE PriceLevel -----------------------------
(***************************************************************************)
(* One price level of the book (src/src/book/price_level.hpp).  A level is *)
(* a record: queue, the FIFO of order ids; cancelled, the set of ids whose *)
(* queue entry is dead and still to be drained; total_volume, the visible  *)
(* volume the level reports.  Removal is lazy: remove only marks the id,   *)
(* and the entry leaves the queue when it reaches the front.               *)
(***************************************************************************)
EXTENDS Integers, Sequences, FiniteSets

(* A level freshly emplaced by OrderBook::insert_order. *)
EmptyLevel == [queue |-> <<>>, cancelled |-> {}, total_volume |-> 0]

(* A fault: a subtraction without its clamp. *)
ClampedMinus_Unclamped(a, b) == a - b

(* Every subtraction from total_volume_ in the class is clamped at zero. *)
ClampedMinus(a, b) == IF a >= b THEN a - b ELSE 0

(* drain_cancelled erases the mark of each entry it pops, so a second      *)
(* entry of the same id further back is not covered by the same mark.      *)
DrainableAt(level, i) ==
  /\ level.queue[i] \in level.cancelled
  /\ \A j \in 1..(i - 1) : level.queue[j] # level.queue[i]

(* The number of leading entries the loop of drain_cancelled pops. *)
DrainCount(level) ==
  CHOOSE n \in 0..Len(level.queue) :
    /\ \A i \in 1..n : DrainableAt(level, i)
    /\ n < Len(level.queue) => ~DrainableAt(level, n + 1)

drain_cancelled(level) ==
  LET n == DrainCount(level)
  IN  [level EXCEPT
         !.queue = SubSeq(level.queue, n + 1, Len(level.queue)),
         !.cancelled = level.cancelled \ {level.queue[i] : i \in 1..n}]

(* A fault: the volume of the new entry is not counted. *)
push_back_NoVolume(level, id, qty) ==
  [level EXCEPT !.queue = Append(level.queue, id)]

push_back(level, id, qty) ==
  [level EXCEPT !.queue = Append(level.queue, id),
                !.total_volume = level.total_volume + qty]

reduce_front_volume(level, qty) ==
  [level EXCEPT !.total_volume = ClampedMinus(level.total_volume, qty)]

(* Called only when the level has a live order: popping an empty deque is  *)
(* undefined.                                                              *)
pop_front(level, filled_qty) ==
  LET drained == drain_cancelled(level)
  IN  reduce_front_volume([drained EXCEPT !.queue = Tail(drained.queue)],
                          filled_qty)

(* A fault: the volume goes, the entry is not marked. *)
remove_Unmarked(level, id, qty) == reduce_front_volume(level, qty)

remove(level, id, qty) ==
  reduce_front_volume([level EXCEPT !.cancelled = level.cancelled \cup {id}],
                      qty)

(* The queue entries no mark covers, as order_ids() returns them.  *)
order_ids(level) == SelectSeq(level.queue, LAMBDA id : id \notin level.cancelled)

=============================================================================
