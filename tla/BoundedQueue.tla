---------------------------- MODULE BoundedQueue ----------------------------
(***************************************************************************)
(* What every ring of the exchange promises to the threads it connects: a  *)
(* first-in first-out queue of at most Bound items.  An item that comes    *)
(* when the queue is full is dropped and counted; no one ever waits.       *)
(***************************************************************************)
EXTENDS Integers, Sequences

CONSTANTS Bound, Elements

VARIABLES
  queue,   \* the items in the queue, the oldest first
  taken,   \* history: the items taken out, in order
  drops    \* drops_: the items that found the queue full

queueVars == <<queue, taken, drops>>

Init == queue = <<>> /\ taken = <<>> /\ drops = 0

Put(item) ==
  /\ Len(queue) < Bound
  /\ queue' = Append(queue, item)
  /\ UNCHANGED <<taken, drops>>

Drop ==
  /\ Len(queue) = Bound
  /\ drops' = drops + 1
  /\ UNCHANGED <<queue, taken>>

Offer(item) == Put(item) \/ Drop

Take ==
  /\ queue # <<>>
  /\ queue' = Tail(queue)
  /\ taken' = Append(taken, Head(queue))
  /\ UNCHANGED drops

Next == Take \/ \E item \in Elements : Offer(item)
Spec == Init /\ [][Next]_queueVars

=============================================================================
