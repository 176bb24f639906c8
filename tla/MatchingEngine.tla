--------------------------- MODULE MatchingEngine ---------------------------
(***************************************************************************)
(* The matching engine (src/src/engine/matching_engine.cpp) as a state     *)
(* machine of small steps.  submit() is sequential, but a fill triggers    *)
(* stops, a triggered stop is a new order that fills in turn, and so on:   *)
(* the C++ call stack of match_limit / match_market activations is the     *)
(* variable stack.  A frame holds the order an activation is matching and, *)
(* while it is inside evaluate_stop_triggers, the rest of the local vector *)
(* `working` and the local last_price it judges it by.                     *)
(*                                                                         *)
(* Left out: sequence_, timestamps, status and config_, which no decision  *)
(* of the engine depends on (an order in id_map_ always has the status     *)
(* Resting: process_new_order sets it and only orders about to leave the   *)
(* book get another), and the assert on unknown order types.               *)
(***************************************************************************)
EXTENDS OrderBook, SequencesExt

CONSTANTS
  Ids,          \* order ids the clients use
  Prices,       \* prices the clients use, and 0
  NewOrders,    \* orders the clients submit, without their id
  Amendments,   \* the new_price / new_quantity pairs of modify events
  QtyMod,       \* 2^width of Quantity
  MaxOrders,    \* bound: orders submitted in a behaviour
  Discipline    \* which rules the clients keep: see CleanIn and ModifyRequeue

OrderTypes == {"Limit", "Market", "Stop", "StopLimit", "Iceberg"}
StopTypes == {"Stop", "StopLimit"}

Templates == [side : Sides, type : OrderTypes, price : Prices,
              stop_price : Prices, quantity : Nat, peak_qty : Nat]
Orders == [id : Ids, side : Sides, type : OrderTypes, price : Prices,
           stop_price : Prices, quantity : Nat, peak_qty : Nat, reserve_qty : Nat]

ASSUME PricesAssumption == Prices \subseteq Int /\ 0 \in Prices
ASSUME QtyModAssumption == QtyMod \in Nat \ {0}
ASSUME NewOrdersAssumption == NewOrders \subseteq Templates
ASSUME AmendmentsAssumption ==
  Amendments \subseteq [new_price : Prices, new_quantity : Nat]
ASSUME MaxOrdersAssumption == MaxOrders \in Nat
ASSUME DisciplineAssumption == Discipline \subseteq {"ids", "requeues"}

VARIABLES
  book,           \* book_
  pending_stops,  \* pending_stops_
  stack,          \* the activations of the matching loop, the newest first
  result,         \* the MatchResult of the submit in progress, or of the last
  ledger,         \* history: what became of the quantity of every order
  stop_arrivals,  \* history: the stops not yet triggered, in arrival order
  accepted        \* history: the number of orders submitted, at most MaxOrders

vars == <<book, pending_stops, stack, result, ledger, stop_arrivals,
          accepted>>

Idle == stack = <<>>
Top == stack[1]

EmptyResult == [trades |-> <<>>, reports |-> <<>>, rejections |-> <<>>]

Rejected(id, reason) == [order_id |-> id, reason |-> reason]
Report(order) == [order_id |-> order.id, remaining_qty |-> order.quantity]

WithId(template, id) ==
  [id |-> id, side |-> template.side, type |-> template.type,
   price |-> template.price, stop_price |-> template.stop_price,
   quantity |-> template.quantity, peak_qty |-> template.peak_qty,
   reserve_qty |-> 0]

NoEntry == [orig |-> 0, filled |-> 0, gone |-> 0]

Init ==
  /\ book = EmptyBook
  /\ pending_stops = <<>>
  /\ stack = <<>>
  /\ result = EmptyResult
  /\ ledger = [id \in Ids |-> NoEntry]
  /\ stop_arrivals = <<>>
  /\ accepted = 0

-----------------------------------------------------------------------------
(* Orders as the matching loop meets them. *)

(* The trigger condition shared by process_new_order (which also asks for  *)
(* a trade to have happened) and evaluate_stop_triggers.                   *)
IsTriggered(stop, price) ==
  IF stop.side = Buy THEN price >= stop.stop_price ELSE price <= stop.stop_price

(* process_triggered_stop *)
Converted(stop) ==
  IF stop.type = "Stop" THEN [stop EXCEPT !.type = "Market", !.price = 0]
                        ELSE [stop EXCEPT !.type = "Limit"]

(* The iceberg branch of process_new_order: only the peak is matched, and  *)
(* the unsigned subtraction wraps when the peak exceeds the quantity.      *)
SplitIceberg(order) ==
  [order EXCEPT !.reserve_qty = (order.quantity - order.peak_qty) % QtyMod,
                !.quantity = order.peak_qty]

Activation(order) == [order |-> order, working |-> <<>>, last_price |-> 0]

(* process_new_order up to its matching loop: the activation it pushes. *)
Enter(order) ==
  Activation(CASE order.type \in StopTypes -> Converted(order)
               [] order.type = "Iceberg"   -> SplitIceberg(order)
               [] OTHER                    -> order)

(* A stop order waits unless the last trade has already triggered it. *)
Waits(b, order) ==
  /\ order.type \in StopTypes
  /\ ~(b.last_trade_price # 0 /\ IsTriggered(order, b.last_trade_price))

-----------------------------------------------------------------------------
(* submit(): one action per event type.  The single caller waits for the   *)
(* result, so an event is taken only when no activation is left.           *)

(* The rules a client can keep.  The engine checks neither.                *)
(*   ids       an order entering the engine does not use the id of a live  *)
(*             order, nor one of which a level still holds a dead entry;   *)
(*   requeues  a modify event does not queue an order again at a price     *)
(*             whose level still holds a dead entry of it.                 *)
HasEntry(b, side, price, id) ==
  /\ HasLevel(b, side, price)
  /\ \E i \in 1..Len(b.levels[side][price].queue) :
       b.levels[side][price].queue[i] = id

CleanIn(b, id) ==
  /\ ~has_order(b, id)
  /\ \A i \in 1..Len(pending_stops) : pending_stops[i].id # id
  /\ \A side \in Sides : \A p \in DOMAIN b.levels[side] :
       ~HasEntry(b, side, p, id)

(* process_new_order on a book b *)
process_new_order(b, order) ==
  /\ accepted < MaxOrders
  /\ accepted' = accepted + 1
  /\ "ids" \in Discipline => CleanIn(b, order.id)
  /\ book' = b
  /\ result' = EmptyResult
  /\ \/ /\ Waits(b, order)
        /\ pending_stops' = Append(pending_stops, order)
        /\ stop_arrivals' = Append(stop_arrivals, order.id)
        /\ UNCHANGED stack
     \/ /\ ~Waits(b, order)
        /\ stack' = <<Enter(order)>>
        /\ UNCHANGED <<pending_stops, stop_arrivals>>

Opened(entries, order) ==
  [entries EXCEPT ![order.id] = [NoEntry EXCEPT !.orig = order.quantity]]
Withdrawn(entries, order) ==
  [entries EXCEPT ![order.id].gone = @ + order.quantity + order.reserve_qty]

SubmitNew(order) ==
  /\ Idle
  /\ process_new_order(book, order)
  /\ ledger' = Opened(ledger, order)

(* Answers that change nothing but the result. *)
Reject(id, reason) ==
  /\ result' = [EmptyResult EXCEPT !.rejections = <<Rejected(id, reason)>>]
  /\ UNCHANGED <<book, pending_stops, stack, ledger, stop_arrivals, accepted>>

(* process_cancel: the first pending stop with the id, else the book. *)
IsFirstPending(i, id) ==
  /\ i \in 1..Len(pending_stops)
  /\ pending_stops[i].id = id
  /\ \A j \in 1..(i - 1) : pending_stops[j].id # id

IsPending(id) == \E i \in 1..Len(pending_stops) : pending_stops[i].id = id

CancelPending(id) ==
  /\ Idle
  /\ \E i \in 1..Len(pending_stops) :
       /\ IsFirstPending(i, id)
       /\ pending_stops' = RemoveAt(pending_stops, i)
       /\ stop_arrivals' = RemoveFirst(stop_arrivals, id)
       /\ result' = [EmptyResult EXCEPT !.reports = <<Report(pending_stops[i])>>]
       /\ ledger' = Withdrawn(ledger, pending_stops[i])
  /\ UNCHANGED <<book, stack, accepted>>

CancelResting(id) ==
  /\ Idle
  /\ ~IsPending(id)
  /\ has_order(book, id)
  /\ book' = cancel_order(book, id)
  /\ result' = [EmptyResult EXCEPT !.reports = <<Report(book.id_map[id])>>]
  /\ ledger' = Withdrawn(ledger, book.id_map[id])
  /\ UNCHANGED <<pending_stops, stack, stop_arrivals, accepted>>

CancelUnknown(id) ==
  /\ Idle
  /\ ~IsPending(id)
  /\ ~has_order(book, id)
  /\ Reject(id, "OrderNotFound")

(* process_modify: a field equal to 0 means "leave it". *)
Amended(order, m) ==
  [order EXCEPT
     !.price = IF m.new_price # 0 THEN m.new_price ELSE order.price,
     !.quantity = IF m.new_quantity # 0 THEN m.new_quantity ELSE order.quantity]

LosesPriority(order, m) ==
  \/ m.new_price # 0 /\ m.new_price # order.price
  \/ m.new_quantity # 0 /\ m.new_quantity > order.quantity

Resized(entries, id, delta) == [entries EXCEPT ![id].orig = @ + delta]

(* Cancelled and reinserted without being matched. *)
ModifyRequeue(id, m) ==
  /\ Idle
  /\ has_order(book, id)
  /\ LET order == book.id_map[id]
         moved == Amended(order, m)
         left  == cancel_order(book, id)
     IN  /\ LosesPriority(order, m)
         /\ "requeues" \in Discipline => ~HasEntry(left, order.side, moved.price, id)
         /\ book' = insert_order(left, moved)
         /\ ledger' = Resized(ledger, id, moved.quantity - order.quantity)
  /\ result' = EmptyResult
  /\ UNCHANGED <<pending_stops, stack, stop_arrivals, accepted>>

(* The quantity shrinks in place, or nothing changes. *)
ModifyInPlace(id, m) ==
  /\ Idle
  /\ has_order(book, id)
  /\ LET order == book.id_map[id]
         moved == Amended(order, m)
         delta == order.quantity - moved.quantity
     IN  /\ ~LosesPriority(order, m)
         /\ book' = reduce_level_volume(update_order(book, moved),
                                        order.side, order.price, delta)
         /\ ledger' = Resized(ledger, id, -delta)
  /\ result' = EmptyResult
  /\ UNCHANGED <<pending_stops, stack, stop_arrivals, accepted>>

ModifyUnknown(id) ==
  /\ Idle
  /\ ~has_order(book, id)
  /\ Reject(id, "OrderNotFound")

(* process_replace does not look at the pending stops. *)
ReplaceOrder(old, order) ==
  /\ Idle
  /\ has_order(book, old)
  /\ process_new_order(cancel_order(book, old), order)
  /\ ledger' = Opened(Withdrawn(ledger, book.id_map[old]), order)

ReplaceUnknown(old) ==
  /\ Idle
  /\ ~has_order(book, old)
  /\ Reject(old, "OrderNotFound")

-----------------------------------------------------------------------------
(* The matching loop: match_limit and match_market. *)

(* A fault: an order at the limit price is not matched. *)
Crosses_Strictly(order, price) ==
  \/ order.type = "Market"
  \/ IF order.side = Buy THEN price < order.price ELSE price > order.price

(* A limit-priced order stops at its price, a market order never does. *)
Crosses(order, price) ==
  \/ order.type = "Market"
  \/ IF order.side = Buy THEN price <= order.price ELSE price >= order.price

Matching == ~Idle /\ Top.working = <<>>

(* front() drains the level as a side effect. *)
FrontDrained(b, side, price) ==
  SetLevel(b, side, price, drain_cancelled(b.levels[side][price]))
FrontId(b, side, price) == drain_cancelled(b.levels[side][price]).queue[1]

(* A fault: the reserve is not charged for the new peak. *)
replenish_iceberg_FreePeak(b, passive, filled_qty) ==
  LET level == pop_front(b.levels[passive.side][passive.price], filled_qty)
      peak  == IF passive.peak_qty <= passive.reserve_qty
               THEN passive.peak_qty ELSE passive.reserve_qty
  IN  update_order(
        SetLevel(b, passive.side, passive.price, push_back(level, passive.id, peak)),
        [passive EXCEPT !.quantity = peak])

(* A fault: the old queue entry is not popped. *)
replenish_iceberg_NoPop(b, passive, filled_qty) ==
  LET level == reduce_front_volume(b.levels[passive.side][passive.price], filled_qty)
      peak  == IF passive.peak_qty <= passive.reserve_qty
               THEN passive.peak_qty ELSE passive.reserve_qty
  IN  update_order(
        SetLevel(b, passive.side, passive.price, push_back(level, passive.id, peak)),
        [passive EXCEPT !.reserve_qty = passive.reserve_qty - peak, !.quantity = peak])

(* A fault: the order shows its new peak at the front of the queue. *)
replenish_iceberg_KeepsPlace(b, passive, filled_qty) ==
  LET level == reduce_front_volume(b.levels[passive.side][passive.price], filled_qty)
      peak  == IF passive.peak_qty <= passive.reserve_qty
               THEN passive.peak_qty ELSE passive.reserve_qty
  IN  update_order(
        SetLevel(b, passive.side, passive.price, level),
        [passive EXCEPT !.reserve_qty = passive.reserve_qty - peak, !.quantity = peak])

(* replenish_iceberg: back of the queue with a new peak from the reserve. *)
replenish_iceberg(b, passive, filled_qty) ==
  LET new_peak == IF passive.peak_qty <= passive.reserve_qty
                  THEN passive.peak_qty ELSE passive.reserve_qty
      level    == pop_front(b.levels[passive.side][passive.price], filled_qty)
  IN  update_order(
        SetLevel(b, passive.side, passive.price,
                 push_back(level, passive.id, new_peak)),
        [passive EXCEPT !.reserve_qty = passive.reserve_qty - new_peak,
                        !.quantity = new_peak])

(* The part of execute_fill that changes the book; passive has already     *)
(* given up fill_qty.                                                      *)
AfterFill(b, passive, fill_qty) ==
  CASE passive.quantity = 0 /\ is_iceberg(passive) /\ passive.reserve_qty > 0 ->
         IF HasLevel(b, passive.side, passive.price)
         THEN replenish_iceberg(b, passive, fill_qty)
         ELSE update_order(b, passive)
    [] passive.quantity = 0 /\ ~(is_iceberg(passive) /\ passive.reserve_qty > 0) ->
         cancel_order(update_order(b, passive), passive.id)
    [] OTHER ->
         update_order(reduce_level_volume(b, passive.side, passive.price, fill_qty),
                      passive)

(* evaluate_stop_triggers up to its loop: the swap and the captured price. *)
StartsEvaluation(price) == pending_stops # <<>> /\ price # 0

Lesser(m, n) == IF m <= n THEN m ELSE n

(* One iteration of the loop: execute_fill against the front of the best   *)
(* opposite level.  A front id that id_map_ does not know makes the C++    *)
(* assertion fail (undefined behaviour without assertions): no step here.  *)
Fill ==
  /\ Matching
  /\ Top.order.quantity > 0
  /\ \E price \in DOMAIN book.levels[Opposite(Top.order.side)] :
       LET side      == Opposite(Top.order.side)
           aggressor == Top.order
           drained   == FrontDrained(book, side, price)
           id        == FrontId(book, side, price)
           standing  == book.id_map[id]
           fill_qty  == Lesser(aggressor.quantity, standing.quantity)
           passive   == [standing EXCEPT !.quantity = standing.quantity - fill_qty]
           resting   == AfterFill(drained, passive, fill_qty)
           left      == [aggressor EXCEPT !.quantity = aggressor.quantity - fill_qty]
           trade     == [aggressor_id |-> aggressor.id, passive_id |-> id,
                         price |-> standing.price, quantity |-> fill_qty,
                         aggressor_side |-> aggressor.side]
       IN  /\ IsBest(book, side, price)
           /\ Crosses(aggressor, price)
           /\ has_order(book, id)
           /\ book' = [resting EXCEPT !.last_trade_price = standing.price]
           /\ result' = [result EXCEPT !.trades = Append(result.trades, trade)]
           /\ ledger' = [ledger EXCEPT ![aggressor.id].filled = @ + fill_qty,
                                       ![id].filled = @ + fill_qty]
           /\ \/ /\ StartsEvaluation(standing.price)
                 /\ stack' = [stack EXCEPT ![1] =
                                [order |-> left, working |-> pending_stops,
                                 last_price |-> standing.price]]
                 /\ pending_stops' = <<>>
              \/ /\ ~StartsEvaluation(standing.price)
                 /\ stack' = [stack EXCEPT ![1] = Activation(left)]
                 /\ UNCHANGED pending_stops
  /\ UNCHANGED <<stop_arrivals, accepted>>

(* One iteration of the loop of evaluate_stop_triggers, judged by the      *)
(* price captured before the loop: the next stop becomes a new activation, *)
(* or returns to the pending stops.                                        *)
Evaluating == ~Idle /\ Top.working # <<>>
Advanced == [stack EXCEPT ![1].working = Tail(Top.working)]

(* A fault: a triggered stop also stays pending. *)
TriggerStop_StaysPending ==
  /\ Evaluating
  /\ IsTriggered(Head(Top.working), Top.last_price)
  /\ stack' = <<Enter(Head(Top.working))>> \o Advanced
  /\ stop_arrivals' = RemoveFirst(stop_arrivals, Head(Top.working).id)
  /\ pending_stops' = Append(pending_stops, Head(Top.working))
  /\ UNCHANGED <<book, result, ledger, accepted>>

TriggerStop ==
  /\ Evaluating
  /\ IsTriggered(Head(Top.working), Top.last_price)
  /\ stack' = <<Enter(Head(Top.working))>> \o Advanced
  /\ stop_arrivals' = RemoveFirst(stop_arrivals, Head(Top.working).id)
  /\ UNCHANGED <<book, pending_stops, result, ledger, accepted>>

(* A fault: stops that are kept return in reverse order. *)
KeepStop_Reversed ==
  /\ Evaluating
  /\ ~IsTriggered(Head(Top.working), Top.last_price)
  /\ stack' = Advanced
  /\ pending_stops' = <<Head(Top.working)>> \o pending_stops
  /\ UNCHANGED <<book, result, ledger, stop_arrivals, accepted>>

(* A fault: without the swap a kept stop is met again by the same loop. *)
KeepStop_SameVector ==
  /\ Evaluating
  /\ ~IsTriggered(Head(Top.working), Top.last_price)
  /\ stack' = [stack EXCEPT ![1].working = Append(Tail(@), Head(@))]
  /\ UNCHANGED <<book, pending_stops, result, ledger, stop_arrivals, accepted>>

KeepStop ==
  /\ Evaluating
  /\ ~IsTriggered(Head(Top.working), Top.last_price)
  /\ stack' = Advanced
  /\ pending_stops' = Append(pending_stops, Head(Top.working))
  /\ UNCHANGED <<book, result, ledger, stop_arrivals, accepted>>

(* The loop has ended: the order is filled, or nothing crosses it. *)
LoopEnded ==
  /\ Matching
  /\ \/ Top.order.quantity = 0
     \/ \A p \in DOMAIN book.levels[Opposite(Top.order.side)] : ~Crosses(Top.order, p)

(* A fault: the last unit of a remainder is dropped. *)
Rests_OffByOne(order) == order.type = "Limit" /\ order.quantity > 1

(* What process_new_order does after the loop: insert the remainder,       *)
(* reject it if it is a market order (match_market), or nothing.           *)
Rests(order) ==
  \/ order.type = "Limit" /\ order.quantity > 0
  \/ order.type = "Iceberg" /\ (order.quantity > 0 \/ order.reserve_qty > 0)
Exhausted(order) == order.type = "Market" /\ order.quantity > 0

FinishResting ==
  /\ LoopEnded
  /\ Rests(Top.order)
  /\ book' = insert_order(book, Top.order)
  /\ stack' = Tail(stack)
  /\ UNCHANGED <<pending_stops, result, ledger, stop_arrivals, accepted>>

FinishExhausted ==
  /\ LoopEnded
  /\ Exhausted(Top.order)
  /\ result' = [result EXCEPT !.rejections =
                  Append(result.rejections, Rejected(Top.order.id, "MarketExhausted"))]
  /\ ledger' = Withdrawn(ledger, Top.order)
  /\ stack' = Tail(stack)
  /\ UNCHANGED <<book, pending_stops, stop_arrivals, accepted>>

FinishFilled ==
  /\ LoopEnded
  /\ ~Rests(Top.order) /\ ~Exhausted(Top.order)
  /\ stack' = Tail(stack)
  /\ UNCHANGED <<book, pending_stops, result, ledger, stop_arrivals, accepted>>

-----------------------------------------------------------------------------
Submit ==
  \/ \E id \in Ids, t \in NewOrders : SubmitNew(WithId(t, id))
  \/ \E id \in Ids : CancelPending(id) \/ CancelResting(id) \/ CancelUnknown(id)

(* The events only the engine's own interface offers, not the gateway. *)
Amend ==
  \/ \E id \in Ids, m \in Amendments :
       ModifyRequeue(id, m) \/ ModifyInPlace(id, m) \/ ModifyUnknown(id)
  \/ \E old, id \in Ids, t \in NewOrders : ReplaceOrder(old, WithId(t, id))
  \/ \E old \in Ids : ReplaceUnknown(old)

Step ==
  \/ Fill
  \/ TriggerStop \/ KeepStop
  \/ FinishResting \/ FinishExhausted \/ FinishFilled

(* The events that reach the engine through the gateway. *)
GatewayNext == Submit \/ Step
GatewaySpec == Init /\ [][GatewayNext]_vars

(* The whole interface of the engine. *)
Next == Submit \/ Amend \/ Step
Spec == Init /\ [][Next]_vars

-----------------------------------------------------------------------------
(* Properties *)

Levels == [queue : Seq(Ids), cancelled : SUBSET Ids, total_volume : Nat]
IsMap(map, Keys, Values) ==
  DOMAIN map \subseteq Keys /\ map \in [DOMAIN map -> Values]
IsBook(b) ==
  /\ b = [levels |-> b.levels, id_map |-> b.id_map,
          last_trade_price |-> b.last_trade_price]
  /\ b.levels = [side \in Sides |-> b.levels[side]]
  /\ \A side \in Sides : IsMap(b.levels[side], Prices, Levels)
  /\ IsMap(b.id_map, Ids, Orders)
  /\ b.last_trade_price \in Prices
Frames == [order : Orders, working : Seq(Orders), last_price : Prices]
Trades == [aggressor_id : Ids, passive_id : Ids, price : Prices, quantity : Nat,
           aggressor_side : Sides]
Reports == [order_id : Ids, remaining_qty : Nat]
Rejections == [order_id : Ids, reason : {"OrderNotFound", "MarketExhausted"}]
Results == [trades : Seq(Trades), reports : Seq(Reports), rejections : Seq(Rejections)]

(* Type correctness of the engine's state: quantities stay natural numbers *)
(* (no unsigned subtraction of execute_fill, replenish_iceberg or the      *)
(* level volumes goes below zero), ids stay ids.                           *)
TypeOK ==
  /\ IsBook(book)
  /\ pending_stops \in Seq(Orders)
  /\ stack \in Seq(Frames)
  /\ result \in Results
  /\ ledger \in [Ids -> [orig : Int, filled : Nat, gone : Nat]]
  /\ stop_arrivals \in Seq(Ids)
  /\ accepted \in Nat

(* docs/testing.md "ID map consistency", and what the assertion of         *)
(* match_limit relies on: in every level, an id is queued at most once, it *)
(* is dead exactly when it is marked cancelled, and the live ones are      *)
(* exactly the orders id_map_ places at that level.                        *)
LevelConsistent(b, side, price) ==
  LET level == b.levels[side][price]
      Queued == {level.queue[i] : i \in 1..Len(level.queue)}
  IN  /\ \A i, j \in 1..Len(level.queue) : level.queue[i] = level.queue[j] => i = j
      /\ level.cancelled \subseteq Queued
      /\ Queued \ level.cancelled # {}
      /\ \A id \in Queued \ level.cancelled :
           /\ has_order(b, id)
           /\ b.id_map[id].side = side
           /\ b.id_map[id].price = price
      /\ \A id \in level.cancelled :
           has_order(b, id) => b.id_map[id].side # side \/ b.id_map[id].price # price

IdsConsistent(b) ==
  \A id \in DOMAIN b.id_map :
    /\ b.id_map[id].id = id
    /\ HasEntry(b, b.id_map[id].side, b.id_map[id].price, id)

BookConsistent ==
  /\ \A side \in Sides : \A p \in DOMAIN book.levels[side] :
       LevelConsistent(book, side, p)
  /\ IdsConsistent(book)

(* docs/testing.md "Stop list exclusivity", extended to the orders in      *)
(* flight: an id is at one place only - the book, the pending stops, a     *)
(* `working` vector or an activation - and once there.  <<0, i>> is the    *)
(* i-th pending stop, <<f, 0>> the order of the activation stack[f] and    *)
(* <<f, i>> the i-th stop of its `working` vector.                         *)
Places ==
  ({0} \X (1..Len(pending_stops)))
    \cup UNION {{f} \X (0..Len(stack[f].working)) : f \in 1..Len(stack)}
PlacedOrder(place) ==
  LET f == place[1]
      i == place[2]
  IN  IF f = 0 THEN pending_stops[i]
      ELSE IF i = 0 THEN stack[f].order ELSE stack[f].working[i]
PlacedId(place) == PlacedOrder(place).id
Exclusive ==
  /\ \A p, q \in Places : PlacedId(p) = PlacedId(q) => p = q
  /\ \A p \in Places : ~has_order(book, PlacedId(p))

(* The nested evaluations neither lose a stop, nor run one twice, nor      *)
(* change the order in which stops of equal standing are triggered: what   *)
(* is pending, followed by the rest of every `working` vector from the     *)
(* innermost evaluation outwards, is the stops not yet triggered in the    *)
(* order of their arrival.                                                 *)
WaitingPlaces == {p \in Places : p[1] = 0 \/ p[2] > 0}
IsBefore(p, q) == p[1] < q[1] \/ (p[1] = q[1] /\ p[2] < q[2])
StopsInArrivalOrder ==
  /\ {stop_arrivals[k] : k \in 1..Len(stop_arrivals)} = {PlacedId(p) : p \in WaitingPlaces}
  /\ \A p, q \in WaitingPlaces : \A k, l \in 1..Len(stop_arrivals) :
       stop_arrivals[k] = PlacedId(p) /\ stop_arrivals[l] = PlacedId(q) =>
         (k < l <=> IsBefore(p, q))

(* No quantity appears or disappears: what an order asked for is what it   *)
(* traded, plus what was cancelled or exhausted, plus what is still open   *)
(* in the book (the hidden reserve included), pending, or in flight - and  *)
(* an order that is nowhere any more has nothing open.                     *)
OpenOrders ==
  {PlacedOrder(p) : p \in Places} \cup {book.id_map[id] : id \in DOMAIN book.id_map}
OpenIs(id, qty) ==
  LET open == {order \in OpenOrders : order.id = id}
  IN  /\ \A order \in open : order.quantity + order.reserve_qty = qty
      /\ open = {} => qty = 0
QuantityConserved ==
  \A id \in Ids : OpenIs(id, ledger[id].orig - ledger[id].filled - ledger[id].gone)

(* docs/testing.md "No crossed book": every bid is below every ask. *)
NoCrossedBook ==
  \A bid \in DOMAIN book.levels[Buy], ask \in DOMAIN book.levels[Sell] : bid < ask

(* docs/testing.md "Volume consistency": the stored volume of a level is   *)
(* the sum of the visible quantities of its orders.                        *)
RestingIds(level) ==
  {level.queue[i] : i \in 1..Len(level.queue)} \ level.cancelled
LiveVolume(level) ==
  SumFunction([id \in RestingIds(level) |-> visible_qty(book.id_map[id])])
VolumeConsistent ==
  Idle => \A side \in Sides : \A p \in DOMAIN book.levels[side] :
            book.levels[side][p].total_volume = LiveVolume(book.levels[side][p])

(* What is left of it: a level never reports less than its orders show.    *)
VolumeCoversOrders ==
  \A side \in Sides : \A p \in DOMAIN book.levels[side] :
    book.levels[side][p].total_volume >= LiveVolume(book.levels[side][p])

(* docs/engine-design.md "After every trade execution, the engine          *)
(* evaluates all pending stops against the new last trade price": when     *)
(* submit returns, no pending stop is triggered by the last trade.         *)
NoMissedStop ==
  Idle /\ book.last_trade_price # 0 =>
    \A i \in 1..Len(pending_stops) :
      ~IsTriggered(pending_stops[i], book.last_trade_price)

(* match_limit: assert(passive != nullptr). *)
FrontIsKnown ==
  Matching /\ Top.order.quantity > 0 =>
    \A p \in DOMAIN book.levels[Opposite(Top.order.side)] :
      IsBest(book, Opposite(Top.order.side), p) /\ Crosses(Top.order, p) =>
        has_order(book, FrontId(book, Opposite(Top.order.side), p))

(* submit() returns: every step of an engine call lowers, in lexicographic *)
(* order, the number of stops not yet triggered, the quantity still to be  *)
(* matched by the activations, the number of activations, the number of    *)
(* resting orders with nothing shown (an iceberg that has spent its peak   *)
(* as aggressor) and the length of the `working` vectors.  So a cascade of *)
(* stops ends, although each trade evaluates all pending stops again.      *)
Remaining ==
  <<Len(stop_arrivals),
    SumFunction([f \in 1..Len(stack) |-> stack[f].order.quantity]),
    Len(stack),
    Cardinality({id \in DOMAIN book.id_map : book.id_map[id].quantity = 0}),
    SumFunction([f \in 1..Len(stack) |-> Len(stack[f].working)])>>
Precedes(m, n) ==
  \E k \in DOMAIN m : m[k] < n[k] /\ \A j \in 1..(k - 1) : m[j] = n[j]
EveryStepProgresses == [][~Idle => Precedes(Remaining', Remaining)]_vars

(* The abstract book the engine implements: dead queue entries are not     *)
(* there, and what is open of an iceberg is its shown quantity and its     *)
(* reserve.                                                                *)
PlaceIn(b, id) ==
  IF has_order(b, id) THEN <<b.id_map[id].side, b.id_map[id].price>> ELSE <<>>
QueuedBefore(level, x, y) ==
  \E i, j \in 1..Len(level.queue) : i < j /\ level.queue[i] = x /\ level.queue[j] = y
IsAhead(b, x, y) ==
  /\ has_order(b, x) /\ has_order(b, y)
  /\ PlaceIn(b, x) = PlaceIn(b, y)
  /\ QueuedBefore(b.levels[b.id_map[x].side][b.id_map[x].price], x, y)
LotIn(b, id) ==
  IF has_order(b, id)
  THEN [shown  |-> b.id_map[id].quantity, hidden |-> b.id_map[id].reserve_qty,
        peak   |-> b.id_map[id].peak_qty]
  ELSE [shown |-> 0, hidden |-> 0, peak |-> 0]

AbstractBook == INSTANCE PriceTimeBook WITH
  at    <- [id \in Ids |-> PlaceIn(book, id)],
  ahead <- {pair \in Ids \X Ids : IsAhead(book, pair[1], pair[2])},
  lots  <- [id \in Ids |-> LotIn(book, id)],
  tape  <- result.trades

(* Price-time priority: every step of the engine is, on the resting        *)
(* orders, a step the abstract book allows - every reported trade is with  *)
(* the oldest order at the best price and takes from it what is reported,  *)
(* however queue entries were cancelled, moved and replenished before, and *)
(* within a call nothing else moves or takes a resting order.  A new price,*)
(* a larger quantity and a new peak cost an order its place (execute_fill, *)
(* replenish_iceberg, process_modify); a partial fill and a smaller        *)
(* quantity do not.                                                        *)
PriceTimePriority == AbstractBook!Spec

=============================================================================
