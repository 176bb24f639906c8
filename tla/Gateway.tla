------------------------------- MODULE Gateway -------------------------------
(***************************************************************************)
(* The exchange process: main (src/src/exchange_main.cpp) and the four     *)
(* threads of the gateway (src/src/gateway/gateway.cpp,                    *)
(* event_dispatcher.cpp, replay_logger.cpp) around three rings.            *)
(*                                                                         *)
(*   T1 receiver_loop -> inbound -> T2 exchange_loop -> outbound -> T3     *)
(*                                                   -> replay   -> T4     *)
(*                                                                         *)
(* A ring is a BoundedQueue, which is what SpscRing implements; its Put,   *)
(* Drop and Take are single steps here.  Orders are numbered as T1 accepts *)
(* them and events as T2 produces them, so that a sequence of numbers      *)
(* tells order, loss and duplication.  What ExchangeManager computes is    *)
(* its own module; here process() yields at least one event (BOOK).        *)
(***************************************************************************)
EXTENDS Integers, Sequences

CONSTANTS
  InboundBound, OutboundBound, ReplayBound,  \* capacity - 1 of each ring
  Instruments,    \* kInstrumentCount: the snapshots of one snapshot_all()
  Traffic,        \* the sequences of messages that clients may send
  MaxOrders,      \* bound: the orders among them
  EventCount,     \* the number of events process() yields for each order
  MaxExpiries     \* bound: expiries of the snapshot interval

Kinds == {"order", "malformed", "unknown_symbol"}

ASSUME BoundsAssumption ==
  /\ {InboundBound, OutboundBound, ReplayBound, MaxOrders, MaxExpiries} \subseteq Nat
  /\ Instruments \in Nat
  /\ EventCount \in [1..MaxOrders -> Nat \ {0}]
  /\ Traffic \subseteq Seq(Kinds)
  /\ \A messages \in Traffic : Len(messages) <= MaxOrders

VARIABLES
  main,        \* where the main thread is in start(), main() or stop()
  g_shutdown,  \* the flag the signal handler sets
  running,     \* Gateway::running_
  d_running,   \* EventDispatcher::running_
  r_running,   \* ReplayLogger::running_
  traffic,     \* the kinds of the messages still to be sent
  wire,        \* the kinds of the messages waiting in the PULL socket
  t1,          \* the receiver thread
  t2, t2_last, \* the exchange thread; t2_last: in its final drain
  emit,        \* what T2 still has to hand over: <<ring, event>> pairs
  t3, t3_last, \* the publisher thread
  t4, t4_last, \* the replay log's writer thread
  due,         \* has the snapshot interval expired?
  expiries,    \* how often it has expired
  inbound, processed, inbound_drops,     \* the inbound ring
  outbound, published, outbound_drops,   \* the dispatcher's ring
  replay, logged, replay_drops,          \* the replay log's ring
  received,    \* history: orders T1 accepted
  produced     \* history: events T2 produced

inboundVars == <<inbound, processed, inbound_drops>>
outboundVars == <<outbound, published, outbound_drops>>
replayVars == <<replay, logged, replay_drops>>
queueVars == <<inboundVars, outboundVars, replayVars>>
flagVars == <<g_shutdown, running, d_running, r_running>>
clientVars == <<traffic, wire>>
t1Vars == <<t1, received>>
t2Vars == <<t2, t2_last, emit, due, expiries, produced>>
t3Vars == <<t3, t3_last>>
t4Vars == <<t4, t4_last>>
vars == <<main, flagVars, clientVars, t1Vars, t2Vars, t3Vars, t4Vars, queueVars>>

Inbound == INSTANCE BoundedQueue WITH
  Bound <- InboundBound, Elements <- Nat,
  queue <- inbound, taken <- processed, drops <- inbound_drops
Outbound == INSTANCE BoundedQueue WITH
  Bound <- OutboundBound, Elements <- Nat,
  queue <- outbound, taken <- published, drops <- outbound_drops
Replay == INSTANCE BoundedQueue WITH
  Bound <- ReplayBound, Elements <- Nat,
  queue <- replay, taken <- logged, drops <- replay_drops

Init ==
  /\ main = "bind_pull"
  /\ g_shutdown = FALSE /\ running = FALSE /\ d_running = FALSE /\ r_running = FALSE
  /\ traffic \in Traffic /\ wire = <<>>
  /\ t1 = "off" /\ t2 = "off" /\ t3 = "off" /\ t4 = "off"
  /\ t2_last = FALSE /\ t3_last = FALSE /\ t4_last = FALSE
  /\ emit = <<>> /\ due = FALSE /\ expiries = 0
  /\ Inbound!Init /\ Outbound!Init /\ Replay!Init
  /\ received = 0 /\ produced = 0

(* An exception that leaves start() leaves main() too, and ends the process. *)
Alive == main # "failed"

-----------------------------------------------------------------------------
(* The main thread. *)

MainMoves(from, to) == main = from /\ main' = to
OthersStay == UNCHANGED <<clientVars, t1Vars, t2Vars, t3Vars, t4Vars, queueVars>>

(* Gateway::start() and EventDispatcher::start(): either bind may fail. *)
BindPull ==
  /\ MainMoves("bind_pull", "start_replay") \/ MainMoves("bind_pull", "failed")
  /\ UNCHANGED flagVars /\ OthersStay

StartReplay ==
  /\ MainMoves("start_replay", "start_dispatcher")
  /\ r_running' = TRUE
  /\ t4' = "loop"
  /\ UNCHANGED <<g_shutdown, running, d_running, clientVars, t1Vars, t2Vars, t3Vars,
                 t4_last, queueVars>>

StartDispatcher ==
  /\ \/ /\ MainMoves("start_dispatcher", "start_t2")
        /\ d_running' = TRUE
        /\ t3' = "loop"
     \/ /\ MainMoves("start_dispatcher", "failed")
        /\ UNCHANGED <<d_running, t3>>
  /\ UNCHANGED <<g_shutdown, running, r_running, clientVars, t1Vars, t2Vars, t3_last,
                 t4Vars, queueVars>>

(* running_ is set first, then T2 is started, then T1. *)
StartT2 ==
  /\ MainMoves("start_t2", "start_t1")
  /\ running' = TRUE
  /\ t2' = "loop"
  /\ UNCHANGED <<g_shutdown, d_running, r_running, clientVars, t1Vars, t2_last, emit,
                 due, expiries, produced, t3Vars, t4Vars, queueVars>>

StartT1 ==
  /\ MainMoves("start_t1", "serve")
  /\ t1' = "loop"
  /\ UNCHANGED <<flagVars, clientVars, received, t2Vars, t3Vars, t4Vars, queueVars>>

(* SIGINT or SIGTERM, at any time. *)
Signal ==
  /\ Alive
  /\ g_shutdown' = TRUE
  /\ UNCHANGED <<main, running, d_running, r_running>> /\ OthersStay

(* main() sees the flag and calls stop(), which clears running_. *)
StopBegins ==
  /\ MainMoves("serve", "join_t1")
  /\ g_shutdown
  /\ running' = FALSE
  /\ UNCHANGED <<g_shutdown, d_running, r_running>> /\ OthersStay

JoinT1 ==
  /\ MainMoves("join_t1", "join_t2")
  /\ t1 = "done"
  /\ UNCHANGED flagVars /\ OthersStay

(* A fault: the dispatcher is told to stop without waiting for T2. *)
JoinT2_NoWait ==
  /\ MainMoves("join_t2", "join_t3")
  /\ d_running' = FALSE
  /\ UNCHANGED <<g_shutdown, running, r_running>> /\ OthersStay

(* T2 is joined, then dispatcher_.stop() clears its flag. *)
JoinT2 ==
  /\ MainMoves("join_t2", "join_t3")
  /\ t2 = "done"
  /\ d_running' = FALSE
  /\ UNCHANGED <<g_shutdown, running, r_running>> /\ OthersStay

(* T3 is joined, then replay_.stop() clears its flag. *)
JoinT3 ==
  /\ MainMoves("join_t3", "join_t4")
  /\ t3 = "done"
  /\ r_running' = FALSE
  /\ UNCHANGED <<g_shutdown, running, d_running>> /\ OthersStay

(* T4 is joined; the stop() of the destructors finds the flags cleared. *)
JoinT4 ==
  /\ MainMoves("join_t4", "stopped")
  /\ t4 = "done"
  /\ UNCHANGED flagVars /\ OthersStay

Main ==
  \/ BindPull \/ StartReplay \/ StartDispatcher \/ StartT2 \/ StartT1
  \/ StopBegins \/ JoinT1 \/ JoinT2 \/ JoinT3 \/ JoinT4

-----------------------------------------------------------------------------
(* The clients, and time. *)

Arrive ==
  /\ Alive /\ main # "bind_pull"
  /\ traffic # <<>>
  /\ traffic' = Tail(traffic)
  /\ wire' = Append(wire, Head(traffic))
  /\ UNCHANGED <<main, flagVars, t1Vars, t2Vars, t3Vars, t4Vars, queueVars>>

IntervalExpires ==
  /\ Alive /\ t2 # "off"
  /\ ~due
  /\ expiries < MaxExpiries
  /\ expiries' = expiries + 1
  /\ due' = TRUE
  /\ UNCHANGED <<main, flagVars, clientVars, t1Vars, t2, t2_last, emit, produced,
                 t3Vars, t4Vars, queueVars>>

-----------------------------------------------------------------------------
(* T1, receiver_loop *)

T1Stays == UNCHANGED <<main, flagVars, traffic, t2Vars, t3Vars, t4Vars, outboundVars, replayVars>>

T1Test ==
  /\ Alive /\ t1 = "loop"
  /\ t1' = IF running THEN "receive" ELSE "done"
  /\ UNCHANGED <<wire, received, inboundVars>> /\ T1Stays

(* deserialize_order fails, or has_symbol does: the message is skipped     *)
(* without an answer.                                                      *)
deserialize_order(kind) == kind # "malformed"
has_symbol(kind) == kind # "unknown_symbol"

T1Receive ==
  /\ Alive /\ t1 = "receive"
  /\ \/ /\ wire = <<>>
        /\ t1' = "loop"
        /\ UNCHANGED <<wire, received>>
     \/ /\ wire # <<>>
        /\ wire' = Tail(wire)
        /\ IF deserialize_order(Head(wire)) /\ has_symbol(Head(wire))
           THEN t1' = "push" /\ received' = received + 1
           ELSE t1' = "loop" /\ UNCHANGED received
  /\ UNCHANGED inboundVars /\ T1Stays

T1Push ==
  /\ Alive /\ t1 = "push"
  /\ Inbound!Offer(received)
  /\ t1' = "loop"
  /\ UNCHANGED <<wire, received>> /\ T1Stays

T1 == T1Test \/ T1Receive \/ T1Push

-----------------------------------------------------------------------------
(* T2, exchange_loop *)

T2Stays == UNCHANGED <<main, flagVars, clientVars, t1Vars, t3Vars, t4Vars>>

(* A fault: the final drain is left out. *)
T2Test_NoDrain ==
  /\ Alive /\ t2 = "loop"
  /\ t2' = IF running THEN "drain" ELSE "done"
  /\ UNCHANGED <<t2_last, emit, due, expiries, produced, queueVars>> /\ T2Stays

T2Test ==
  /\ Alive /\ t2 = "loop"
  /\ t2' = "drain"
  /\ t2_last' = ~running
  /\ UNCHANGED <<emit, due, expiries, produced, queueVars>> /\ T2Stays

Numbers(n) == [i \in 1..n |-> produced + i]
To(ring, events) == [i \in 1..Len(events) |-> <<ring, events[i]>>]

(* A fault: events are published before they are logged. *)
T2Process_PublishFirst ==
  /\ Alive /\ t2 = "drain"
  /\ Inbound!Take
  /\ LET events == Numbers(EventCount[Head(inbound)])
     IN  /\ produced' = produced + Len(events)
         /\ emit' = To("outbound", events) \o To("replay", events)
  /\ t2' = "emit"
  /\ UNCHANGED <<t2_last, due, expiries, outboundVars, replayVars>> /\ T2Stays

(* A pop and process(): first all events go to the log, then all to the    *)
(* dispatcher.                                                             *)
T2Process ==
  /\ Alive /\ t2 = "drain"
  /\ Inbound!Take
  /\ LET events == Numbers(EventCount[Head(inbound)])
     IN  /\ produced' = produced + Len(events)
         /\ emit' = To("replay", events) \o To("outbound", events)
  /\ t2' = "emit"
  /\ UNCHANGED <<t2_last, due, expiries, outboundVars, replayVars>> /\ T2Stays

(* A fault: the final drain goes on for ever. *)
T2Drained_NoExit ==
  /\ Alive /\ t2 = "drain"
  /\ inbound = <<>>
  /\ t2' = "timer"
  /\ UNCHANGED <<t2_last, emit, due, expiries, produced, queueVars>> /\ T2Stays

T2Drained ==
  /\ Alive /\ t2 = "drain"
  /\ inbound = <<>>
  /\ t2' = IF t2_last THEN "done" ELSE "timer"
  /\ UNCHANGED <<t2_last, emit, due, expiries, produced, queueVars>> /\ T2Stays

(* A fault: an event goes to the dispatcher only, when the log is full. *)
T2Emit_SkipsFullLog ==
  /\ Alive /\ t2 \in {"emit", "snapshots"}
  /\ emit # <<>>
  /\ LET to == Head(emit)
     IN  IF to[1] = "replay"
         THEN (Replay!Put(to[2]) \/ (Len(replay) = ReplayBound /\ UNCHANGED replayVars))
                /\ UNCHANGED outboundVars
         ELSE Outbound!Offer(to[2]) /\ UNCHANGED replayVars
  /\ emit' = Tail(emit)
  /\ UNCHANGED <<t2, t2_last, due, expiries, produced, inboundVars>> /\ T2Stays

(* ReplayLogger::log and EventDispatcher::enqueue, one event at a time. *)
T2Emit ==
  /\ Alive /\ t2 \in {"emit", "snapshots"}
  /\ emit # <<>>
  /\ LET to == Head(emit)
     IN  IF to[1] = "replay" THEN Replay!Offer(to[2]) /\ UNCHANGED outboundVars
                             ELSE Outbound!Offer(to[2]) /\ UNCHANGED replayVars
  /\ emit' = Tail(emit)
  /\ UNCHANGED <<t2, t2_last, due, expiries, produced, inboundVars>> /\ T2Stays

(* Back to the inner loop, or from the snapshots to the outer one, which   *)
(* sets the next deadline.                                                 *)
T2Emitted ==
  /\ Alive /\ emit = <<>>
  /\ \/ t2 = "emit" /\ t2' = "drain" /\ UNCHANGED due
     \/ t2 = "snapshots" /\ t2' = "loop" /\ due' = FALSE
  /\ UNCHANGED <<t2_last, emit, expiries, produced, queueVars>> /\ T2Stays

(* A fault: the deadline is looked at only when orders have come. *)
T2Timer_AfterOrders ==
  /\ Alive /\ t2 = "timer"
  /\ t2' = "loop"
  /\ UNCHANGED <<t2_last, emit, due, expiries, produced, queueVars>> /\ T2Stays

(* snapshot_all(): each snapshot goes to the log and to the dispatcher.    *)
T2Timer ==
  /\ Alive /\ t2 = "timer"
  /\ \/ /\ due
        /\ produced' = produced + Instruments
        /\ emit' = [i \in 1..(2 * Instruments) |->
                      <<IF i % 2 = 1 THEN "replay" ELSE "outbound",
                        produced + (i + 1) \div 2>>]
        /\ t2' = "snapshots"
     \/ /\ ~due
        /\ t2' = "loop"
        /\ UNCHANGED <<produced, emit>>
  /\ UNCHANGED <<t2_last, due, expiries, queueVars>> /\ T2Stays

T2 == T2Test \/ T2Process \/ T2Drained \/ T2Emit \/ T2Emitted \/ T2Timer

-----------------------------------------------------------------------------
(* T3, publisher_loop, and T4, writer_loop: as long as their flag is set,  *)
(* and once more until the ring is empty.                                  *)

T3Stays ==
  UNCHANGED <<main, flagVars, clientVars, t1Vars, t2Vars, t4Vars, inboundVars, replayVars>>
T4Stays ==
  UNCHANGED <<main, flagVars, clientVars, t1Vars, t2Vars, t3Vars, inboundVars, outboundVars>>

T3SeesStop ==
  /\ Alive /\ t3 = "loop"
  /\ ~d_running /\ ~t3_last
  /\ t3_last' = TRUE
  /\ UNCHANGED <<t3, outboundVars>> /\ T3Stays
T3Publish ==
  /\ Alive /\ t3 = "loop"
  /\ Outbound!Take
  /\ UNCHANGED t3Vars /\ T3Stays
T3Exit ==
  /\ Alive /\ t3 = "loop"
  /\ t3_last /\ outbound = <<>>
  /\ t3' = "done"
  /\ UNCHANGED <<t3_last, outboundVars>> /\ T3Stays
T3 == T3SeesStop \/ T3Publish \/ T3Exit

T4SeesStop ==
  /\ Alive /\ t4 = "loop"
  /\ ~r_running /\ ~t4_last
  /\ t4_last' = TRUE
  /\ UNCHANGED <<t4, replayVars>> /\ T4Stays
T4Write ==
  /\ Alive /\ t4 = "loop"
  /\ Replay!Take
  /\ UNCHANGED t4Vars /\ T4Stays
T4Exit ==
  /\ Alive /\ t4 = "loop"
  /\ t4_last /\ replay = <<>>
  /\ t4' = "done"
  /\ UNCHANGED <<t4_last, replayVars>> /\ T4Stays
T4 == T4SeesStop \/ T4Write \/ T4Exit

-----------------------------------------------------------------------------
Ended == main \in {"stopped", "failed"} /\ UNCHANGED vars

Next ==
  \/ Main \/ T1 \/ T2 \/ T3 \/ T4
  \/ Signal \/ IntervalExpires \/ Arrive
  \/ Ended
Spec == Init /\ [][Next]_vars

(* Every thread runs again and again.  Messages, signals and the interval  *)
(* need not come.                                                          *)
FairSpec ==
  Spec /\ WF_vars(Main) /\ WF_vars(T1) /\ WF_vars(T2) /\ WF_vars(T3) /\ WF_vars(T4)

-----------------------------------------------------------------------------
(* Properties *)

Emits == {"replay", "outbound"} \X Nat

(* The types of the gateway's variables. *)
TypeOK ==
  /\ main \in {"bind_pull", "start_replay", "start_dispatcher", "start_t2", "start_t1",
               "serve", "join_t1", "join_t2", "join_t3", "join_t4", "stopped", "failed"}
  /\ {g_shutdown, running, d_running, r_running, t2_last, t3_last, t4_last, due} \subseteq BOOLEAN
  /\ traffic \in Seq(Kinds) /\ wire \in Seq(Kinds)
  /\ t1 \in {"off", "loop", "receive", "push", "done"}
  /\ t2 \in {"off", "loop", "drain", "emit", "timer", "snapshots", "done"}
  /\ t3 \in {"off", "loop", "done"} /\ t4 \in {"off", "loop", "done"}
  /\ emit \in Seq(Emits)
  /\ {expiries, received, produced,
      inbound_drops, outbound_drops, replay_drops} \subseteq Nat
  /\ {inbound, processed, outbound, published, replay, logged} \subseteq Seq(Nat)

(* No event and no order disappears without being counted: what was handed *)
(* to a ring is what came out, what waits in it and what its drop counter  *)
(* has, and of the events numbered 1 to produced exactly the ones that     *)
(* were not handed to a ring yet are still in the hands of T2.             *)
HandedTo(ring) ==
  IF ring = "replay" THEN Len(logged) + Len(replay) + replay_drops
                     ELSE Len(published) + Len(outbound) + outbound_drops
InHandFor(ring) == {emit[i][2] : i \in {j \in 1..Len(emit) : emit[j][1] = ring}}
EverythingCounted ==
  /\ received = Len(processed) + Len(inbound) + inbound_drops
                  + (IF t1 = "push" THEN 1 ELSE 0)
  /\ \A ring \in {"replay", "outbound"} :
       /\ HandedTo(ring) <= produced
       /\ InHandFor(ring) = (HandedTo(ring) + 1)..produced

(* Subscribers and the replay log get events in the order in which the     *)
(* exchange produced them and none twice, orders are processed in the      *)
(* order of arrival, and what a subscriber has was offered to the log      *)
(* before: an event still in the hands of T2, for the log or for the       *)
(* dispatcher, is younger than every event that was published.             *)
Increasing(seq) == \A i, j \in 1..Len(seq) : i < j => seq[i] < seq[j]
InOrder ==
  /\ Increasing(processed \o inbound)
  /\ Increasing(published \o outbound) /\ Increasing(logged \o replay)
  /\ \A i, j \in 1..Len(emit) : i < j /\ emit[i][1] = emit[j][1] => emit[i][2] < emit[j][2]
  /\ \A i \in 1..Len(published \o outbound), j \in 1..Len(emit) :
       (published \o outbound)[i] < emit[j][2]

(* stop() ends the threads in an order in which no one is left without a   *)
(* consumer: when T3 or T4 has ended, T2 has, and their ring is empty.     *)
ConsumersEndLast ==
  /\ t3 = "done" => t2 = "done" /\ outbound = <<>> /\ emit = <<>>
  /\ t4 = "done" => t2 = "done" /\ replay = <<>> /\ emit = <<>>

(* What is left of "Final drain" (gateway.cpp): after stop() at most one   *)
(* order is left in the inbound ring, the one T1 had in hand when the flag *)
(* was cleared.                                                            *)
AtMostOneStranded == t1 = "done" /\ t2 = "done" => Len(inbound) <= 1

(* gateway.cpp: "Final drain - process any orders that arrived before the  *)
(* flag flipped": after stop() no order is left in the ring.               *)
InboundDrained == main = "stopped" => inbound = <<>>

(* Every order that is in the inbound ring while the gateway is running is *)
(* processed, also when stop() comes before T2 gets to it.                 *)
OrdersProcessed ==
  \A n \in 1..MaxOrders :
    running /\ Len(processed) + Len(inbound) >= n ~> Len(processed) >= n

(* A signal ends the process: none of the joins of stop() waits for ever,  *)
(* whenever the signal comes.                                              *)
ShutdownCompletes == g_shutdown ~> main \in {"stopped", "failed"}

(* A snapshot that is due is taken, unless the gateway stops: the inner    *)
(* loop of exchange_loop ends when the orders that keep it busy do.        *)
SnapshotsComeOut == due ~> ~due \/ ~running

=============================================================================
