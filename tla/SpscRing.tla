------------------------------ MODULE SpscRing ------------------------------
(***************************************************************************)
(* The single-producer single-consumer ring buffer that connects the       *)
(* threads of the exchange.  The code has five copies of it:               *)
(*   SpscQueue           src/src/core/spsc_queue.hpp                       *)
(*   Gateway inbound     src/src/gateway/gateway.cpp         (T1 to T2)    *)
(*   EventDispatcher     src/src/gateway/event_dispatcher.cpp (T2 to T3)   *)
(*   ReplayLogger        src/src/gateway/replay_logger.cpp   (T2 to T4)    *)
(*   Logger              src/src/logging/logger.cpp                        *)
(* All have the same producer.  All consumers but one read the slot and    *)
(* then release it by storing head; ReplayLogger::writer_loop stores head  *)
(* first and writes the line out of the slot afterwards (release_first).   *)
(*                                                                         *)
(* Each access to an atomic and each access to a slot is a step; an access *)
(* to a slot is under way as long as the thread's pc stands before it.     *)
(* The acquire loads of the other thread's index pair with its release     *)
(* stores, so the steps interleave as if memory were sequentially          *)
(* consistent; the relaxed load of a thread's own index is part of the     *)
(* step that follows it.  & mask_ is % Capacity.                           *)
(* One load has no such pair: Logger::writer_loop tests running_ with a    *)
(* relaxed load (logger.cpp:63) and may find it false but still an old     *)
(* tail.  FinalDrainComplete and EveryItemDelivered are therefore said of  *)
(* the other rings, which load the flag with acquire, and not of Logger.   *)
(*                                                                         *)
(* Shutdown: the owner clears running, and the consumer drains the ring    *)
(* once more after it has seen that.  The owners of the dispatcher and of  *)
(* the replay log join the producer thread before (joined); the inbound    *)
(* ring's producer T1 is told to stop by the same flag as its consumer T2. *)
(* Which of the rings it is, is chosen by Init and stays.                  *)
(***************************************************************************)
EXTENDS Integers, Sequences

CONSTANTS
  Capacity,        \* slots of the ring, one of which always stays empty
  Items,           \* what is sent through it
  MaxItems,        \* bound: items the producer takes up
  Rings            \* the kinds of ring: [release_first, joined]

ASSUME CapacityAssumption == Capacity \in Nat \ {0}
ASSUME ItemsAssumption == Items # {}
ASSUME MaxItemsAssumption == MaxItems \in Nat
ASSUME RingsAssumption == Rings \subseteq [release_first : BOOLEAN, joined : BOOLEAN]

VARIABLES
  ring,          \* which ring this is
  head, tail,    \* head_, tail_
  buffer,        \* buffer_
  running,       \* running_
  drops,         \* drops_
  p_pc, p_item,  \* the producer, and the item it has in hand
  c_pc, c_slot, c_item, c_final,  \* the consumer; c_final: in its last drain
  pushed,        \* history: the items published, in order
  output         \* history: the items the consumer got, in order

producerVars == <<tail, buffer, drops, p_pc, p_item, pushed>>
consumerVars == <<head, c_pc, c_slot, c_item, c_final, output>>
vars == <<ring, head, tail, buffer, running, drops, p_pc, p_item,
          c_pc, c_slot, c_item, c_final, pushed, output>>

(* Does the consumer store head before it reads the slot?  Is the producer *)
(* joined before running is cleared?                                       *)
ReleaseFirst == ring.release_first
ProducerJoined == ring.joined

Slots == 0..(Capacity - 1)
(* A fault: the index is not masked. *)
NextSlot_Unmasked(slot) == slot + 1

NextSlot(slot) == IF slot + 1 = Capacity THEN 0 ELSE slot + 1

Init ==
  /\ ring \in Rings
  /\ head = 0 /\ tail = 0
  /\ buffer \in [Slots -> Items]
  /\ running = TRUE
  /\ drops = 0
  /\ p_pc = "idle" /\ p_item \in Items
  /\ c_pc = "idle" /\ c_slot = 0 /\ c_item \in Items /\ c_final = FALSE
  /\ pushed = <<>> /\ output = <<>>

-----------------------------------------------------------------------------
(* The producer. *)

(* The producer's loop comes by with the next item.  T1 looks at running   *)
(* before it receives; the other producers are not the ring's business.    *)
TakeItem(item) ==
  /\ p_pc = "idle"
  /\ ~ProducerJoined => running
  /\ Len(pushed) + drops < MaxItems
  /\ p_item' = item
  /\ p_pc' = "check"
  /\ UNCHANGED <<tail, buffer, drops, pushed, running, ring, consumerVars>>

(* push: the ring is full, the item is dropped and counted. *)
PushFull ==
  /\ p_pc = "check"
  /\ NextSlot(tail) = head
  /\ drops' = drops + 1
  /\ p_pc' = "idle"
  /\ UNCHANGED <<tail, buffer, p_item, pushed, running, ring, consumerVars>>

(* A fault: the test for a full ring is one slot late. *)
PushBegin_AnySlot ==
  /\ p_pc = "check"
  /\ p_pc' = "write"
  /\ UNCHANGED <<tail, buffer, drops, p_item, pushed, running, ring, consumerVars>>

PushBegin ==
  /\ p_pc = "check"
  /\ NextSlot(tail) # head
  /\ p_pc' = "write"
  /\ UNCHANGED <<tail, buffer, drops, p_item, pushed, running, ring, consumerVars>>

(* A fault: the write is lost, and the slot published with what it held. *)
PushWrite_Lost ==
  /\ p_pc = "write"
  /\ p_pc' = "publish"
  /\ UNCHANGED <<tail, buffer, drops, p_item, pushed, running, ring, consumerVars>>

PushWrite ==
  /\ p_pc = "write"
  /\ buffer' = [buffer EXCEPT ![tail] = p_item]
  /\ p_pc' = "publish"
  /\ UNCHANGED <<tail, drops, p_item, pushed, running, ring, consumerVars>>

PushPublish ==
  /\ p_pc = "publish"
  /\ tail' = NextSlot(tail)
  /\ pushed' = Append(pushed, p_item)
  /\ p_pc' = "idle"
  /\ UNCHANGED <<buffer, drops, p_item, running, ring, consumerVars>>

ProducerExits ==
  /\ p_pc = "idle"
  /\ ~ProducerJoined => ~running
  /\ p_pc' = "done"
  /\ UNCHANGED <<tail, buffer, drops, p_item, pushed, running, ring, consumerVars>>

-----------------------------------------------------------------------------
(* The consumer. *)

(* The loop condition: once running is seen to be false, only the final    *)
(* drain is left, and since the flag is loaded with acquire that drain     *)
(* sees every index stored before the flag was cleared.                    *)
SeeStop ==
  /\ c_pc = "idle"
  /\ ~c_final
  /\ ~running
  /\ c_final' = TRUE
  /\ UNCHANGED <<head, c_pc, c_slot, c_item, output, running, ring, producerVars>>

(* A fault: a single item is left waiting for a second one. *)
PopBegin_WaitsForTwo ==
  /\ c_pc = "idle"
  /\ head # tail
  /\ IF NextSlot(head) = tail THEN UNCHANGED <<c_slot, c_pc>>
     ELSE c_slot' = head /\ c_pc' = IF ReleaseFirst THEN "release" ELSE "read"
  /\ UNCHANGED <<head, c_item, c_final, output, running, ring, producerVars>>

(* pop finds an item. *)
PopBegin ==
  /\ c_pc = "idle"
  /\ head # tail
  /\ c_slot' = head
  /\ c_pc' = IF ReleaseFirst THEN "release" ELSE "read"
  /\ UNCHANGED <<head, c_item, c_final, output, running, ring, producerVars>>

PopRead ==
  /\ c_pc = "read"
  /\ c_item' = buffer[c_slot]
  /\ \/ /\ ReleaseFirst
        /\ output' = Append(output, c_item')
        /\ c_pc' = "idle"
     \/ /\ ~ReleaseFirst
        /\ c_pc' = "release"
        /\ UNCHANGED output
  /\ UNCHANGED <<head, c_slot, c_final, running, ring, producerVars>>

PopRelease ==
  /\ c_pc = "release"
  /\ head' = NextSlot(head)
  /\ \/ /\ ReleaseFirst
        /\ c_pc' = "read"
        /\ UNCHANGED output
     \/ /\ ~ReleaseFirst
        /\ output' = Append(output, c_item)
        /\ c_pc' = "idle"
  /\ UNCHANGED <<c_slot, c_item, c_final, running, ring, producerVars>>

(* A fault: no final drain. *)
ConsumerExits_NoDrain ==
  /\ c_pc = "idle"
  /\ c_final
  /\ c_pc' = "done"
  /\ UNCHANGED <<head, c_slot, c_item, c_final, output, running, ring, producerVars>>

(* The final drain finds the ring empty. *)
ConsumerExits ==
  /\ c_pc = "idle"
  /\ c_final
  /\ head = tail
  /\ c_pc' = "done"
  /\ UNCHANGED <<head, c_slot, c_item, c_final, output, running, ring, producerVars>>

-----------------------------------------------------------------------------
(* stop(): the owner. *)
Stop ==
  /\ running
  /\ ProducerJoined => p_pc = "done"
  /\ running' = FALSE
  /\ UNCHANGED <<ring, producerVars, consumerVars>>

Terminated ==
  /\ p_pc = "done" /\ c_pc = "done"
  /\ UNCHANGED vars

Push == PushFull \/ PushBegin \/ PushWrite \/ PushPublish
Produce == (\E item \in Items : TakeItem(item)) \/ Push \/ ProducerExits
Consume == SeeStop \/ PopBegin \/ PopRead \/ PopRelease \/ ConsumerExits

Next == Produce \/ Consume \/ Stop \/ Terminated
Spec == Init /\ [][Next]_vars

(* Both threads are scheduled again and again; items need not come. *)
FairSpec == Spec /\ WF_vars(Push) /\ WF_vars(Consume)

-----------------------------------------------------------------------------
(* Properties *)

(* The types of the ring's variables. *)
TypeOK ==
  /\ ring \in Rings
  /\ head \in Slots /\ tail \in Slots /\ c_slot \in Slots
  /\ buffer \in [Slots -> Items]
  /\ running \in BOOLEAN /\ c_final \in BOOLEAN
  /\ drops \in Nat
  /\ p_pc \in {"idle", "check", "write", "publish", "done"}
  /\ c_pc \in {"idle", "read", "release", "done"}
  /\ p_item \in Items /\ c_item \in Items
  /\ pushed \in Seq(Items) /\ output \in Seq(Items)

(* No data race on a slot: while the producer writes one, the consumer is  *)
(* not reading it - although ReplayLogger has by then given it back.       *)
NoRace == ~(p_pc = "write" /\ c_pc = "read" /\ tail = c_slot)

(* The consumer gets what was published, in order, each item once, and     *)
(* never a slot's old content.                                             *)
DeliveredInOrder ==
  /\ Len(output) <= Len(pushed)
  /\ \A i \in 1..Len(output) : output[i] = pushed[i]

(* Published items that the consumer does not have are all still in the    *)
(* ring or in its hands: a full ring holds Capacity - 1 items and nothing  *)
(* is overwritten.                                                         *)
Distance == IF tail >= head THEN tail - head ELSE tail - head + Capacity
InHand == IF ReleaseFirst /\ c_pc = "read" THEN 1 ELSE 0
NothingOverwritten == Len(pushed) = Len(output) + InHand + Distance

(* "Final drain on shutdown", "Drain remaining events before exit": when   *)
(* the consumer ends, every published item has been consumed - on the      *)
(* rings whose producer was joined before (event_dispatcher.cpp:80 and     *)
(* replay_logger.cpp:75, which load the flag with acquire).                *)
FinalDrainComplete == ProducerJoined /\ c_pc = "done" => output = pushed

(* Every item published before the consumer begins its final drain, and on *)
(* the rings whose producer is joined every item, reaches the consumer.    *)
EveryItemDelivered ==
  \A n \in 1..MaxItems :
    Len(pushed) >= n /\ (ProducerJoined \/ ~c_final) ~> Len(output) >= n

(* stop() returns: the consumer thread it joins comes to its end. *)
ConsumerJoins == ~running ~> c_pc = "done"

(* The bounded queue the ring implements: its items are what stands in the *)
(* slots from head to tail, and an item is taken when its slot is given    *)
(* back, although release_first reads the slot only then.                  *)
SlotAt(h, j) == IF h + j - 1 < Capacity THEN h + j - 1 ELSE h + j - 1 - Capacity
Stored == [j \in 1..Distance |-> buffer[SlotAt(head, j)]]
Taken == IF InHand = 1 THEN Append(output, buffer[c_slot]) ELSE output
Abstract == INSTANCE BoundedQueue WITH
  Bound <- Capacity - 1, Elements <- Items, queue <- Stored, taken <- Taken

(* The ring is a bounded queue: every store to head takes the oldest item  *)
(* in one step, every store to tail adds one, a slot that has been given   *)
(* back still holds its item until it has been read, and an item is        *)
(* dropped only when Capacity - 1 others are waiting.                      *)
IsBoundedQueue == Abstract!Spec

=============================================================================
