--------------------------- MODULE SpscRing_proofs ---------------------------
(***************************************************************************)
(* The ring buffer is correct for every capacity, every number of items    *)
(* and both orders of reading and releasing a slot.                        *)
(***************************************************************************)
EXTENDS SpscRing, SequenceTheorems, TLAPS

USE DEF ReleaseFirst, ProducerJoined

DistanceOf(h, t) == IF t >= h THEN t - h ELSE t - h + Capacity

(* Where the threads are, and what they know of each other's index: a      *)
(* producer past its check still finds the next slot free, a consumer past *)
(* its check still finds the ring non-empty, and a consumer reading a slot *)
(* it has released stands right behind head.                               *)
Positions ==
  /\ p_pc \in {"write", "publish"} => NextSlot(tail) # head
  /\ c_pc = "release" => head # tail /\ c_slot = head
  /\ c_pc = "read" /\ ~ReleaseFirst => head # tail /\ c_slot = head
  /\ c_pc = "read" /\ ReleaseFirst => NextSlot(c_slot) = head

(* What the slots hold: the published items the consumer does not have     *)
(* yet, in order, from head on; and the item in the consumer's hands.      *)
Contents ==
  /\ \A j \in 1..Distance :
       buffer[SlotAt(head, j)] = pushed[Len(output) + InHand + j]
  /\ p_pc = "publish" => buffer[tail] = p_item
  /\ c_pc = "read" /\ ReleaseFirst => buffer[c_slot] = pushed[Len(output) + 1]
  /\ c_pc = "release" /\ ~ReleaseFirst => c_item = pushed[Len(output) + 1]

Inv ==
  /\ TypeOK
  /\ Positions
  /\ NothingOverwritten
  /\ Contents
  /\ DeliveredInOrder

-----------------------------------------------------------------------------
(* Arithmetic of the ring: one step of head or tail changes the distance   *)
(* by one, and slots of different distance differ.                         *)
LEMMA NextSlotType ==
  ASSUME NEW s \in Slots
  PROVE  NextSlot(s) \in Slots /\ (Capacity > 1 => NextSlot(s) # s)
  BY CapacityAssumption DEF Slots, NextSlot

LEMMA TailStep ==
  ASSUME NEW h \in Slots, NEW t \in Slots, NextSlot(t) # h
  PROVE  /\ DistanceOf(h, NextSlot(t)) = DistanceOf(h, t) + 1
         /\ SlotAt(h, DistanceOf(h, t) + 1) = t
         /\ DistanceOf(h, t) \in Nat
  BY CapacityAssumption DEF Slots, NextSlot, DistanceOf, SlotAt

LEMMA HeadStep ==
  ASSUME NEW h \in Slots, NEW t \in Slots, h # t
  PROVE  /\ DistanceOf(NextSlot(h), t) = DistanceOf(h, t) - 1
         /\ DistanceOf(h, t) \in Nat \ {0}
         /\ SlotAt(h, 1) = h
         /\ \A j \in 1..(DistanceOf(h, t) - 1) : SlotAt(NextSlot(h), j) = SlotAt(h, j + 1)
  BY CapacityAssumption DEF Slots, NextSlot, DistanceOf, SlotAt

LEMMA OccupiedSlots ==
  ASSUME NEW h \in Slots, NEW t \in Slots, NEW j \in 1..DistanceOf(h, t)
  PROVE  SlotAt(h, j) \in Slots /\ SlotAt(h, j) # t
  BY CapacityAssumption DEF Slots, DistanceOf, SlotAt

LEMMA DistanceType ==
  ASSUME NEW h \in Slots, NEW t \in Slots
  PROVE  DistanceOf(h, t) \in Nat /\ (DistanceOf(h, t) = 0 <=> h = t)
  BY CapacityAssumption DEF Slots, DistanceOf

LEMMA DistanceIs == Distance = DistanceOf(head, tail)
  BY DEF Distance, DistanceOf

-----------------------------------------------------------------------------
LEMMA InitInv == Init => Inv
<1> SUFFICES ASSUME Init PROVE Inv
  OBVIOUS
<1>0. 0 \in Slots
  BY CapacityAssumption DEF Slots
<1>1. TypeOK
  BY <1>0, EmptySeq DEF Init, TypeOK
<1>2. Positions
  BY DEF Init, Positions
<1>3. NothingOverwritten /\ DeliveredInOrder /\ Distance = 0
  BY DEF Init, NothingOverwritten, DeliveredInOrder, Distance, InHand
<1>4. Contents
  BY <1>3 DEF Init, Contents
<1>5. QED
  BY <1>1, <1>2, <1>3, <1>4 DEF Inv

(* The steps that touch neither the slots, nor the indices, nor the        *)
(* history: the threads' decisions.                                        *)
LEMMA ControlStep ==
  ASSUME Inv,
         UNCHANGED <<ring, head, tail, buffer, pushed, output, c_slot>>,
         \/ /\ p_pc' \in {"idle", "check", "done"}
            /\ UNCHANGED <<c_pc, c_item>> /\ p_item' \in Items
         \/ /\ p_pc' = "write" /\ NextSlot(tail) # head
            /\ UNCHANGED <<p_item, c_pc, c_item>>
         \/ /\ c_pc \in {"idle", "done"} /\ c_pc' \in {"idle", "done"}
            /\ UNCHANGED <<p_pc, p_item, c_item>>,
         running' \in BOOLEAN, c_final' \in BOOLEAN, drops' \in Nat
  PROVE  Inv'
<1>1. TypeOK'
  BY DEF Inv, TypeOK
<1>2. Positions'
  BY DEF Inv, Positions
<1>3. InHand' = InHand /\ Distance' = Distance
  BY DEF InHand, Distance
<1>4. NothingOverwritten' /\ DeliveredInOrder'
  BY <1>3 DEF Inv, NothingOverwritten, DeliveredInOrder
<1>5. Contents'
  BY <1>3 DEF Inv, Contents
<1>6. QED
  BY <1>1, <1>2, <1>4, <1>5 DEF Inv

LEMMA WriteStep ==
  ASSUME Inv, PushWrite
  PROVE  Inv'
<1> USE DEF Inv
<1>1. TypeOK'
  BY DEF PushWrite, TypeOK, consumerVars
<1>2. Positions'
  BY DEF PushWrite, Positions, consumerVars
<1>3. InHand' = InHand /\ Distance' = Distance
  BY DEF PushWrite, InHand, Distance, consumerVars
<1>4. NothingOverwritten' /\ DeliveredInOrder'
  BY <1>3 DEF PushWrite, NothingOverwritten, DeliveredInOrder, consumerVars
<1>5. \A s \in Slots : s # tail => buffer'[s] = buffer[s]
  BY DEF PushWrite, TypeOK
<1>6. ASSUME NEW j \in 1..Distance'
      PROVE  buffer'[SlotAt(head', j)] = pushed'[Len(output') + InHand' + j]
  <2>1. SlotAt(head, j) \in Slots /\ SlotAt(head, j) # tail
    BY <1>3, DistanceIs, OccupiedSlots DEF TypeOK
  <2>2. QED
    BY <1>3, <1>5, <2>1 DEF PushWrite, Contents, consumerVars
<1>7. c_pc = "read" /\ ReleaseFirst => c_slot # tail
  BY DEF PushWrite, Positions
<1>8. Contents'
  BY <1>5, <1>6, <1>7 DEF PushWrite, Contents, TypeOK, consumerVars
<1>9. QED
  BY <1>1, <1>2, <1>4, <1>8

LEMMA PublishStep ==
  ASSUME Inv, PushPublish
  PROVE  Inv'
<1> USE DEF Inv
<1>1. /\ NextSlot(tail) # head
      /\ NextSlot(tail) \in Slots
      /\ NextSlot(tail) # tail
  BY CapacityAssumption DEF PushPublish, Positions, TypeOK, NextSlot, Slots
<1>2. /\ pushed' \in Seq(Items)
      /\ Len(pushed') = Len(pushed) + 1
      /\ \A i \in 1..Len(pushed) : pushed'[i] = pushed[i]
      /\ pushed'[Len(pushed) + 1] = p_item
  BY AppendProperties DEF PushPublish, TypeOK
<1>3. TypeOK'
  BY <1>1, <1>2 DEF PushPublish, TypeOK, consumerVars
<1>4. InHand' = InHand /\ InHand \in {0, 1}
  BY DEF PushPublish, InHand, consumerVars
<1>5. /\ Distance' = Distance + 1
      /\ SlotAt(head, Distance + 1) = tail
      /\ Distance \in Nat
  BY <1>1, TailStep, DistanceIs DEF PushPublish, TypeOK, Distance, DistanceOf, consumerVars
<1>6. Len(output) \in Nat /\ Len(pushed) \in Nat
  BY LenProperties DEF TypeOK
<1>7. NothingOverwritten'
  BY <1>2, <1>4, <1>5, <1>6 DEF PushPublish, NothingOverwritten, consumerVars
<1>8. DeliveredInOrder'
  BY <1>2, <1>6 DEF PushPublish, DeliveredInOrder, consumerVars
<1>9. Positions'
  <2>1. head # NextSlot(tail)
    BY <1>1
  <2>2. QED
    BY <2>1 DEF PushPublish, Positions, consumerVars
<1>10. ASSUME NEW j \in 1..Distance'
       PROVE  buffer'[SlotAt(head', j)] = pushed'[Len(output') + InHand' + j]
  <2>1. CASE j = Distance + 1
    BY <2>1, <1>2, <1>4, <1>5, <1>6 DEF PushPublish, Contents, NothingOverwritten, consumerVars
  <2>2. CASE j \in 1..Distance
    <3>1. Len(output) + InHand + j \in 1..Len(pushed)
      BY <2>2, <1>4, <1>5, <1>6 DEF NothingOverwritten
    <3>2. QED
      BY <2>2, <3>1, <1>2, <1>4 DEF PushPublish, Contents, consumerVars
  <2>3. QED
    BY <2>1, <2>2, <1>5
<1>11. InHand = 1 \/ (c_pc = "release" /\ ~ReleaseFirst) => Len(output) + 1 \in 1..Len(pushed)
  <2>1. c_pc = "release" => Distance # 0
    BY DistanceIs, DistanceType DEF Positions, TypeOK
  <2>2. QED
    BY <2>1, <1>4, <1>5, <1>6 DEF NothingOverwritten
<1>12. Contents'
  BY <1>2, <1>10, <1>11 DEF PushPublish, Contents, InHand, consumerVars
<1>13. QED
  BY <1>3, <1>7, <1>8, <1>9, <1>12

LEMMA PopBeginStep ==
  ASSUME Inv, PopBegin
  PROVE  Inv'
<1> USE DEF Inv
<1>1. TypeOK'
  BY DEF PopBegin, TypeOK, producerVars
<1>2. Positions'
  BY RingsAssumption DEF PopBegin, Positions, TypeOK, producerVars
<1>3. InHand' = InHand /\ Distance' = Distance
  BY RingsAssumption DEF PopBegin, TypeOK, InHand, Distance, producerVars
<1>4. NothingOverwritten' /\ DeliveredInOrder'
  BY <1>3 DEF PopBegin, NothingOverwritten, DeliveredInOrder, producerVars
<1>5. Contents'
  BY <1>3, RingsAssumption DEF PopBegin, TypeOK, Contents, producerVars
<1>6. QED
  BY <1>1, <1>2, <1>4, <1>5

(* The item the consumer reads is the next one that was published. *)
LEMMA ReadStep ==
  ASSUME Inv, PopRead
  PROVE  Inv'
<1> USE DEF Inv
<1>1. Len(output) \in Nat /\ Len(pushed) \in Nat /\ Distance \in Nat
  BY LenProperties, DistanceIs, DistanceType DEF TypeOK
<1>2. Distance' = Distance
  BY DEF PopRead, Distance, producerVars
<1>3. CASE ReleaseFirst
  <2>1. InHand = 1 /\ InHand' = 0
    BY <1>3 DEF PopRead, InHand
  <2>2. c_item' = pushed[Len(output) + 1] /\ c_item' \in Items
    BY <1>3 DEF PopRead, Contents, TypeOK
  <2>3. /\ output' \in Seq(Items)
        /\ Len(output') = Len(output) + 1
        /\ \A i \in 1..Len(output) : output'[i] = output[i]
        /\ output'[Len(output) + 1] = c_item'
    <3>1. output' = Append(output, c_item') /\ output \in Seq(Items)
      BY <1>3 DEF PopRead, TypeOK
    <3>2. QED
      BY <3>1, <2>2, AppendProperties
  <2>4. TypeOK'
    BY <1>3, <2>2, <2>3 DEF PopRead, TypeOK, producerVars
  <2>5. Positions'
    BY <1>3 DEF PopRead, Positions, producerVars
  <2>6. NothingOverwritten'
    BY <1>1, <1>2, <2>1, <2>3 DEF PopRead, NothingOverwritten, producerVars
  <2>7. DeliveredInOrder'
    <3>1. Len(output) + 1 <= Len(pushed)
      BY <1>1, <2>1 DEF NothingOverwritten
    <3>2. \A i \in 1..(Len(output) + 1) : output'[i] = pushed[i]
      BY <1>1, <2>2, <2>3 DEF DeliveredInOrder
    <3>3. QED
      BY <3>1, <3>2, <2>3 DEF PopRead, DeliveredInOrder, producerVars
  <2>8. Contents'
    <3>1. \A j : Len(output') + InHand' + j = Len(output) + InHand + j
      BY <1>1, <2>1, <2>3
    <3>2. QED
      BY <3>1, <1>2, <1>3 DEF PopRead, Contents, producerVars
  <2>9. QED
    BY <2>4, <2>5, <2>6, <2>7, <2>8
<1>4. CASE ~ReleaseFirst
  <2>1. InHand = 0 /\ InHand' = 0
    BY <1>4 DEF InHand, PopRead
  <2>2. head # tail /\ c_slot = head /\ Distance \in Nat \ {0} /\ SlotAt(head, 1) = head
    BY <1>4, DistanceIs, HeadStep DEF PopRead, Positions, TypeOK
  <2>3. c_item' = pushed[Len(output) + 1]
    <3>1. buffer[SlotAt(head, 1)] = pushed[Len(output) + InHand + 1]
      BY <2>2 DEF Contents
    <3>2. QED
      BY <3>1, <2>1, <2>2, <1>1 DEF PopRead
  <2>4. TypeOK'
    BY <1>4 DEF PopRead, TypeOK, producerVars
  <2>5. Positions'
    BY <1>4, <2>2 DEF PopRead, Positions, producerVars
  <2>6. NothingOverwritten' /\ DeliveredInOrder'
    BY <1>2, <1>4, <2>1 DEF PopRead, NothingOverwritten, DeliveredInOrder, producerVars
  <2>7. Contents'
    BY <1>2, <1>4, <2>1, <2>3 DEF PopRead, Contents, producerVars
  <2>8. QED
    BY <2>4, <2>5, <2>6, <2>7
<1>5. QED
  BY <1>3, <1>4

LEMMA ReleaseStep ==
  ASSUME Inv, PopRelease
  PROVE  Inv'
<1> USE DEF Inv
<1>1. Len(output) \in Nat /\ Len(pushed) \in Nat
  BY LenProperties DEF TypeOK
<1>2. head # tail /\ c_slot = head
  BY DEF PopRelease, Positions
<1>3. /\ Distance' = Distance - 1
      /\ Distance \in Nat \ {0}
      /\ SlotAt(head, 1) = head
      /\ \A j \in 1..(Distance - 1) : SlotAt(NextSlot(head), j) = SlotAt(head, j + 1)
  BY <1>2, HeadStep, DistanceIs DEF PopRelease, TypeOK, Distance, DistanceOf, producerVars
<1>4. head' \in Slots /\ head' = NextSlot(head)
  BY NextSlotType DEF PopRelease, TypeOK
<1>5. NextSlot(tail) # head'
  BY <1>2, <1>4, CapacityAssumption DEF TypeOK, NextSlot, Slots
<1>6. InHand = 0
  BY DEF PopRelease, InHand
<1>7. buffer[head] = pushed[Len(output) + 1]
  <2>1. buffer[SlotAt(head, 1)] = pushed[Len(output) + InHand + 1]
    BY <1>3 DEF Contents
  <2>2. QED
    BY <2>1, <1>1, <1>3, <1>6
<1>8. \A j \in 1..(Distance - 1) :
        buffer[SlotAt(head', j)] = pushed[Len(output) + 1 + j]
  <2> TAKE j \in 1..(Distance - 1)
  <2>1. j + 1 \in 1..Distance
    BY <1>3
  <2>2. buffer[SlotAt(head, j + 1)] = pushed[Len(output) + InHand + (j + 1)]
    BY <2>1 DEF Contents
  <2>3. Len(output) + InHand + (j + 1) = Len(output) + 1 + j
    BY <1>1, <1>6
  <2>4. QED
    BY <2>2, <2>3, <1>3, <1>4
<1>9. CASE ReleaseFirst
  <2>1. InHand' = 1
    BY <1>9 DEF PopRelease, InHand
  <2>2. TypeOK'
    BY <1>4, <1>9 DEF PopRelease, TypeOK, producerVars
  <2>3. Positions'
    BY <1>2, <1>4, <1>5, <1>9 DEF PopRelease, Positions, producerVars
  <2>4. NothingOverwritten' /\ DeliveredInOrder'
    BY <1>1, <1>3, <1>6, <1>9, <2>1
       DEF PopRelease, NothingOverwritten, DeliveredInOrder, producerVars
  <2>5. Contents'
    BY <1>2, <1>3, <1>7, <1>8, <1>9, <2>1 DEF PopRelease, Contents, producerVars
  <2>6. QED
    BY <2>2, <2>3, <2>4, <2>5
<1>10. CASE ~ReleaseFirst
  <2>1. InHand' = 0
    BY <1>10 DEF InHand, PopRelease
  <2>2. /\ output' \in Seq(Items)
        /\ Len(output') = Len(output) + 1
        /\ \A i \in 1..Len(output) : output'[i] = output[i]
        /\ output'[Len(output) + 1] = c_item
    <3>1. output' = Append(output, c_item) /\ output \in Seq(Items) /\ c_item \in Items
      BY <1>10 DEF PopRelease, TypeOK
    <3>2. QED
      BY <3>1, AppendProperties
  <2>3. TypeOK'
    BY <1>4, <1>10, <2>2 DEF PopRelease, TypeOK, producerVars
  <2>4. Positions'
    BY <1>2, <1>4, <1>5, <1>10 DEF PopRelease, Positions, producerVars
  <2>5. NothingOverwritten'
    BY <1>1, <1>3, <1>6, <2>1, <2>2 DEF PopRelease, NothingOverwritten, producerVars
  <2>6. DeliveredInOrder'
    <3>1. Len(output) + 1 <= Len(pushed)
      BY <1>1, <1>3, <1>6 DEF NothingOverwritten
    <3>2. c_item = pushed[Len(output) + 1]
      BY <1>10 DEF PopRelease, Contents
    <3>3. \A i \in 1..(Len(output) + 1) : output'[i] = pushed[i]
      BY <1>1, <2>2, <3>2 DEF DeliveredInOrder
    <3>4. QED
      BY <3>1, <3>3, <2>2 DEF PopRelease, DeliveredInOrder, producerVars
  <2>7. Contents'
    <3>1. Len(output') + InHand' = Len(output) + 1
      BY <1>1, <2>1, <2>2
    <3>2. QED
      BY <3>1, <1>3, <1>8, <1>10 DEF PopRelease, Contents, producerVars
  <2>8. QED
    BY <2>3, <2>4, <2>5, <2>6, <2>7
<1>11. QED
  BY <1>9, <1>10

-----------------------------------------------------------------------------
LEMMA NextInv == Inv /\ [Next]_vars => Inv'
<1> SUFFICES ASSUME Inv, [Next]_vars PROVE Inv'
  OBVIOUS
<1>1. CASE \E item \in Items : TakeItem(item)
  BY <1>1, ControlStep DEF TakeItem, Inv, TypeOK, consumerVars
<1>2. CASE PushFull
  <2>1. drops' \in Nat
    BY <1>2 DEF PushFull, Inv, TypeOK
  <2>2. QED
    BY <1>2, <2>1, ControlStep DEF PushFull, Inv, TypeOK, consumerVars
<1>3. CASE PushBegin
  BY <1>3, ControlStep DEF PushBegin, Inv, TypeOK, consumerVars
<1>4. CASE PushWrite
  BY <1>4, WriteStep
<1>5. CASE PushPublish
  BY <1>5, PublishStep
<1>6. CASE ProducerExits
  BY <1>6, ControlStep DEF ProducerExits, Inv, TypeOK, consumerVars
<1>7. CASE SeeStop
  BY <1>7, ControlStep DEF SeeStop, Inv, TypeOK, producerVars
<1>8. CASE PopBegin
  BY <1>8, PopBeginStep
<1>9. CASE PopRead
  BY <1>9, ReadStep
<1>10. CASE PopRelease
  BY <1>10, ReleaseStep
<1>11. CASE ConsumerExits
  BY <1>11, ControlStep DEF ConsumerExits, Inv, TypeOK, producerVars
<1>12. CASE Stop
  <2>1. UNCHANGED <<ring, head, tail, buffer, pushed, output, c_slot, p_pc, p_item,
                    c_pc, c_item, c_final, drops>> /\ running' \in BOOLEAN
    BY <1>12 DEF Stop, producerVars, consumerVars
  <2>2. Distance' = Distance /\ InHand' = InHand
    BY <2>1 DEF Distance, InHand
  <2>3. QED
    BY <2>1, <2>2 DEF Inv, TypeOK, Positions, Contents, NothingOverwritten, DeliveredInOrder
<1>13. CASE UNCHANGED vars
  <2>1. Distance' = Distance /\ InHand' = InHand
    BY <1>13 DEF Distance, InHand, vars
  <2>2. QED
    BY <1>13, <2>1
       DEF vars, Inv, TypeOK, Positions, Contents, NothingOverwritten, DeliveredInOrder
<1>14. QED
  BY <1>1, <1>2, <1>3, <1>4, <1>5, <1>6, <1>7, <1>8, <1>9, <1>10, <1>11, <1>12, <1>13
     DEF Next, Produce, Consume, Push, Terminated

(* The inductive invariant holds throughout. *)
THEOREM Invariance == Spec => []Inv
  BY InitInv, NextInv, PTL DEF Spec

(* The indices stay inside the ring, and everything keeps its type. *)
THEOREM TypeCorrect == Spec => []TypeOK
<1>1. Inv => TypeOK
  BY DEF Inv
<1>2. QED
  BY <1>1, Invariance, PTL

(* For every capacity and both consumers, the producer never writes the    *)
(* slot the consumer is reading: the slot ReplayLogger releases early is   *)
(* protected because the producer always leaves one slot empty.            *)
THEOREM RaceFree == Spec => []NoRace
<1>1. Inv => NoRace
  <2> SUFFICES ASSUME Inv, p_pc = "write", c_pc = "read", tail = c_slot PROVE FALSE
    BY DEF NoRace
  <2>1. NextSlot(tail) # head
    BY DEF Inv, Positions
  <2>2. CASE ReleaseFirst
    BY <2>1, <2>2 DEF Inv, Positions
  <2>3. CASE ~ReleaseFirst
    BY <2>3 DEF Inv, Positions
  <2>4. QED
    BY <2>2, <2>3
<1>2. QED
  BY <1>1, Invariance, PTL

(* The consumer obtains the published items, in order, each once. *)
THEOREM Fifo == Spec => []DeliveredInOrder
<1>1. Inv => DeliveredInOrder
  BY DEF Inv
<1>2. QED
  BY <1>1, Invariance, PTL

(* No published item is overwritten before it is consumed. *)
THEOREM NoOverwrite == Spec => []NothingOverwritten
<1>1. Inv => NothingOverwritten
  BY DEF Inv
<1>2. QED
  BY <1>1, Invariance, PTL

-----------------------------------------------------------------------------
(* Shutdown when the producer is joined first: once running is cleared the *)
(* producer is gone, so a ring found empty in the final drain stays empty. *)
Shutdown ==
  ProducerJoined =>
    /\ ~running => p_pc = "done"
    /\ c_final => ~running
    /\ c_pc = "done" => c_final /\ head = tail

LEMMA ShutdownStep ==
  ASSUME TypeOK, Shutdown, [Next]_vars
  PROVE  Shutdown'
<1> USE DEF Shutdown
<1>1. CASE Produce
  BY <1>1 DEF Produce, Push, TakeItem, PushFull, PushBegin, PushWrite, PushPublish,
              ProducerExits, consumerVars
<1>2. CASE Consume
  BY <1>2 DEF Consume, SeeStop, PopBegin, PopRead, PopRelease, ConsumerExits, producerVars
<1>3. CASE Stop
  BY <1>3 DEF Stop, producerVars, consumerVars
<1>4. CASE UNCHANGED vars
  BY <1>4 DEF vars
<1>5. QED
  BY <1>1, <1>2, <1>3, <1>4 DEF Next, Terminated

(* The rings of the dispatcher and the replay log lose nothing at          *)
(* shutdown: Gateway::stop joins T2, their producer, before it stops them. *)
THEOREM FinalDrain == Spec => []FinalDrainComplete
<1>1. Init => Shutdown
  BY DEF Init, Shutdown
<1>2. TypeOK /\ Shutdown /\ [Next]_vars => Shutdown'
  BY ShutdownStep
<1>3. Inv /\ Shutdown => FinalDrainComplete
  <2> SUFFICES ASSUME Inv, Shutdown, ProducerJoined, c_pc = "done" PROVE output = pushed
    BY DEF FinalDrainComplete
  <2>1. Distance = 0 /\ InHand = 0
    BY DEF Shutdown, Distance, InHand, Inv, TypeOK, Slots
  <2>2. output \in Seq(Items) /\ pushed \in Seq(Items)
    BY DEF Inv, TypeOK
  <2>3. Len(output) = Len(pushed)
    BY <2>1, <2>2, LenProperties DEF Inv, NothingOverwritten
  <2>4. QED
    BY <2>2, <2>3, SeqEqual DEF Inv, DeliveredInOrder
<1>4. QED
  BY <1>1, <1>2, <1>3, Invariance, TypeCorrect, PTL DEF Spec

-----------------------------------------------------------------------------
(* The ring implements the bounded queue. *)

StoredOK ==
  /\ Stored \in Seq(Items)
  /\ Len(Stored) = Distance
  /\ Distance \in Nat
  /\ \A j \in 1..Distance : Stored[j] = buffer[SlotAt(head, j)]

LEMMA StoredType == Inv => StoredOK
<1> SUFFICES ASSUME Inv PROVE StoredOK
  OBVIOUS
<1>1. Distance \in Nat
  BY DistanceIs, DistanceType DEF Inv, TypeOK
<1>2. \A j \in 1..Distance : buffer[SlotAt(head, j)] \in Items
  BY DistanceIs, OccupiedSlots DEF Inv, TypeOK
<1>3. QED
  BY <1>1, <1>2 DEF Stored, StoredOK

LEMMA StoredTypeNext == Inv' => StoredOK'
  BY StoredType, PTL

(* Steps that leave the indices, the slots in use and the item in hand     *)
(* alone are stuttering steps of the queue.                                *)
LEMMA Stutters ==
  ASSUME Inv, Inv', UNCHANGED <<head, tail, drops>>,
         \A j \in 1..Distance : buffer'[SlotAt(head, j)] = buffer[SlotAt(head, j)],
         Taken' = Taken
  PROVE  UNCHANGED Abstract!queueVars
<1>1. Distance' = Distance
  BY DEF Distance
<1>2. \A j \in 1..Distance : Stored'[j] = Stored[j]
  BY <1>1, StoredType DEF StoredOK, Stored
<1>3. Stored' = Stored
  BY <1>1, <1>2 DEF Stored
<1>4. QED
  BY <1>3 DEF Abstract!queueVars

LEMMA FullMeans ==
  ASSUME Inv, NextSlot(tail) = head
  PROVE  Len(Stored) = Capacity - 1
<1>1. Distance = Capacity - 1
  BY CapacityAssumption DEF Inv, TypeOK, Slots, NextSlot, Distance
<1>2. QED
  BY <1>1, StoredType DEF StoredOK

LEMMA WriteStutters ==
  ASSUME Inv, Inv', PushWrite
  PROVE  UNCHANGED Abstract!queueVars
<1>1. \A s \in Slots : s # tail => buffer'[s] = buffer[s]
  BY DEF PushWrite, Inv, TypeOK
<1>2. \A j \in 1..Distance : buffer'[SlotAt(head, j)] = buffer[SlotAt(head, j)]
  BY <1>1, DistanceIs, OccupiedSlots DEF Inv, TypeOK
<1>3. InHand = 1 => c_slot # tail /\ c_slot \in Slots
  BY DEF PushWrite, Inv, TypeOK, Positions, InHand
<1>4. InHand' = InHand
  BY DEF PushWrite, InHand, consumerVars
<1>5. Taken' = Taken
  BY <1>1, <1>3, <1>4 DEF Taken, PushWrite, consumerVars
<1>6. QED
  BY <1>2, <1>5, Stutters DEF PushWrite, consumerVars

LEMMA PublishPuts ==
  ASSUME Inv, Inv', PushPublish
  PROVE  Abstract!Put(p_item) /\ p_item \in Items
<1>1. NextSlot(tail) # head /\ buffer[tail] = p_item /\ p_item \in Items
  BY DEF PushPublish, Inv, Positions, Contents, TypeOK
<1>2. /\ Distance' = Distance + 1
      /\ SlotAt(head, Distance + 1) = tail
      /\ Distance \in Nat
  BY <1>1, TailStep, DistanceIs
     DEF PushPublish, Inv, TypeOK, Distance, DistanceOf, consumerVars
<1>3. Distance < Capacity - 1
  BY <1>1, CapacityAssumption DEF Inv, TypeOK, Slots, NextSlot, Distance
<1>4. /\ Append(Stored, p_item) \in Seq(Items)
      /\ Len(Append(Stored, p_item)) = Distance + 1
      /\ \A j \in 1..Distance : Append(Stored, p_item)[j] = Stored[j]
      /\ Append(Stored, p_item)[Distance + 1] = p_item
  BY <1>1, StoredType, AppendProperties DEF StoredOK
<1>5. /\ Stored' \in Seq(Items) /\ Len(Stored') = Distance + 1
      /\ \A j \in 1..(Distance + 1) : Stored'[j] = buffer[SlotAt(head, j)]
  BY <1>2, StoredTypeNext DEF StoredOK, PushPublish, consumerVars
<1>6. \A j \in 1..(Distance + 1) : Stored'[j] = Append(Stored, p_item)[j]
  BY <1>1, <1>2, <1>4, <1>5, StoredType DEF StoredOK
<1>7. Stored' = Append(Stored, p_item)
  BY <1>4, <1>5, <1>6, SeqEqual
<1>8. Taken' = Taken /\ drops' = drops
  BY DEF PushPublish, Taken, InHand, consumerVars
<1>9. QED
  BY <1>1, <1>3, <1>7, <1>8, StoredType DEF StoredOK, Abstract!Put

LEMMA ReadStutters ==
  ASSUME Inv, Inv', PopRead
  PROVE  UNCHANGED Abstract!queueVars
<1>1. Taken' = Taken
  <2>1. CASE ReleaseFirst
    BY <2>1 DEF PopRead, Taken, InHand, producerVars
  <2>2. CASE ~ReleaseFirst
    BY <2>2 DEF PopRead, Taken, InHand, producerVars
  <2>3. QED
    BY <2>1, <2>2
<1>2. QED
  BY <1>1, Stutters DEF PopRead, producerVars

LEMMA ReleaseTakes ==
  ASSUME Inv, Inv', PopRelease
  PROVE  Abstract!Take
<1>1. head # tail /\ c_slot = head
  BY DEF PopRelease, Inv, Positions
<1>2. /\ Distance' = Distance - 1
      /\ Distance \in Nat \ {0}
      /\ SlotAt(head, 1) = head
      /\ \A j \in 1..(Distance - 1) : SlotAt(head', j) = SlotAt(head, j + 1)
  BY <1>1, HeadStep, DistanceIs
     DEF PopRelease, Inv, TypeOK, Distance, DistanceOf, producerVars
<1>3. /\ Tail(Stored) \in Seq(Items)
      /\ Len(Tail(Stored)) = Distance - 1
      /\ \A j \in 1..(Distance - 1) : Tail(Stored)[j] = Stored[j + 1]
      /\ Stored # <<>>
      /\ Head(Stored) = buffer[head]
  BY <1>2, StoredType, HeadTailProperties DEF StoredOK
<1>4. /\ Stored' \in Seq(Items) /\ Len(Stored') = Distance - 1
      /\ \A j \in 1..(Distance - 1) : Stored'[j] = buffer[SlotAt(head', j)]
  BY <1>2, StoredTypeNext DEF StoredOK, PopRelease, producerVars
<1>5. \A j \in 1..(Distance - 1) : Stored'[j] = Tail(Stored)[j]
  BY <1>2, <1>3, <1>4, StoredType DEF StoredOK
<1>6. Stored' = Tail(Stored)
  BY <1>3, <1>4, <1>5, SeqEqual
<1>7. Taken' = Append(Taken, buffer[head])
  <2>1. CASE ReleaseFirst
    BY <2>1, <1>1 DEF PopRelease, Taken, InHand, producerVars
  <2>2. CASE ~ReleaseFirst
    <3>1. Len(output) \in Nat /\ InHand = 0
      BY <2>2, LenProperties DEF Inv, TypeOK, InHand
    <3>2. c_item = pushed[Len(output) + 1]
      BY <2>2 DEF PopRelease, Inv, Contents
    <3>3. buffer[SlotAt(head, 1)] = pushed[Len(output) + InHand + 1]
      BY <1>2 DEF Inv, Contents
    <3>4. c_item = buffer[head]
      BY <3>1, <3>2, <3>3, <1>2
    <3>5. QED
      BY <2>2, <3>4 DEF PopRelease, Taken, InHand
  <2>3. QED
    BY <2>1, <2>2
<1>8. QED
  BY <1>3, <1>6, <1>7 DEF Abstract!Take, PopRelease, producerVars

LEMMA StepImplements == Inv /\ Inv' /\ [Next]_vars => [Abstract!Next]_Abstract!queueVars
<1> SUFFICES ASSUME Inv, Inv', [Next]_vars
             PROVE  Abstract!Next \/ UNCHANGED Abstract!queueVars
  OBVIOUS
<1>1. CASE \/ \E item \in Items : TakeItem(item)
           \/ PushBegin \/ ProducerExits
  <2>1. Taken' = Taken
    BY <1>1 DEF TakeItem, PushBegin, ProducerExits, consumerVars, Taken, InHand
  <2>2. QED
    BY <1>1, <2>1, Stutters DEF TakeItem, PushBegin, ProducerExits, consumerVars
<1>2. CASE PushFull
  <2>1. Len(Stored) = Capacity - 1
    BY <1>2, FullMeans DEF PushFull
  <2>2. Stored' = Stored /\ Taken' = Taken
    BY <1>2 DEF PushFull, Stored, Distance, Taken, InHand, consumerVars
  <2>3. Abstract!Drop
    BY <1>2, <2>1, <2>2 DEF PushFull, Abstract!Drop
  <2>4. p_item \in Items
    BY DEF Inv, TypeOK
  <2>5. QED
    BY <2>3, <2>4 DEF Abstract!Next, Abstract!Offer
<1>3. CASE PushWrite
  BY <1>3, WriteStutters
<1>4. CASE PushPublish
  BY <1>4, PublishPuts DEF Abstract!Next, Abstract!Offer
<1>5. CASE SeeStop \/ PopBegin \/ ConsumerExits
  <2>1. Taken' = Taken
    BY <1>5, RingsAssumption
       DEF SeeStop, PopBegin, ConsumerExits, producerVars, Taken, InHand, Inv, TypeOK
  <2>2. QED
    BY <1>5, <2>1, Stutters DEF SeeStop, PopBegin, ConsumerExits, producerVars
<1>6. CASE PopRead
  BY <1>6, ReadStutters
<1>7. CASE PopRelease
  BY <1>7, ReleaseTakes DEF Abstract!Next
<1>8. CASE Stop \/ UNCHANGED vars
  <2>1. Taken' = Taken
    BY <1>8 DEF Stop, vars, consumerVars, producerVars, Taken, InHand
  <2>2. QED
    BY <1>8, <2>1, Stutters DEF Stop, vars, consumerVars, producerVars
<1>9. QED
  BY <1>1, <1>2, <1>3, <1>4, <1>5, <1>6, <1>7, <1>8
     DEF Next, Produce, Consume, Push, Terminated

(* For every capacity, every number of items and every kind of ring, the   *)
(* threads that share a ring see a bounded first-in first-out queue.       *)
THEOREM Refinement == Spec => IsBoundedQueue
<1>1. Init => Abstract!Init
  BY CapacityAssumption
     DEF Init, Abstract!Init, Stored, Taken, Distance, InHand, Slots
<1>2. QED
  BY <1>1, StepImplements, Invariance, PTL DEF Spec, IsBoundedQueue, Abstract!Spec

=============================================================================
