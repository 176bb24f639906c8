-------------------------- MODULE ExchangeManager --------------------------
(***************************************************************************)
(* The exchange as its clients see it                                      *)
(* (src/src/gateway/exchange_manager.cpp): a message from the inbound ring *)
(* becomes an engine event, and the MatchResult becomes the events that    *)
(* are published and logged.  The manager has one engine per symbol and a  *)
(* message touches the engine of its symbol only, so the module follows    *)
(* one of them; a message for another symbol does nothing here.            *)
(*                                                                         *)
(* Left out: timestamps and client_id, which are copied.  Events have the  *)
(* name of their ZMQ topic as kind.                                        *)
(***************************************************************************)
EXTENDS MatchingEngine

VARIABLES
  msg,   \* the OrderMessage in process, or the last one
  out,   \* the events of the last call, <<>> as long as a call is running
  view,  \* history: the open quantities a subscriber works out from events
  mute   \* history: the ids whose last new order was not answered

exchangeVars == <<vars, msg, out, view, mute>>

NoMessage == [action |-> "None"]
NewOrder(order) == [action |-> "NewOrder", order |-> order]
CancelOrder(id) == [action |-> "CancelOrder", order_id |-> id]

(* process() has been called and has not returned. *)
Calling == msg # NoMessage /\ out = <<>>

ManagerInit ==
  /\ Init
  /\ msg = NoMessage
  /\ out = <<>>
  /\ view = [id \in Ids |-> 0]
  /\ mute = {}

-----------------------------------------------------------------------------
(* Events. *)

(* book.best_bid().value_or(0) and book.best_ask().value_or(0) *)
BestOrZero(b, side) ==
  IF DOMAIN b.levels[side] = {} THEN 0
  ELSE CHOOSE p \in DOMAIN b.levels[side] : IsBest(b, side, p)

Spread(b) ==
  IF \E side \in Sides : DOMAIN b.levels[side] = {} THEN 0
  ELSE BestOrZero(b, Sell) - BestOrZero(b, Buy)

RejectedEvent(rejection) ==
  [kind |-> "REJECTED", order_id |-> rejection.order_id, reason |-> rejection.reason]
CanceledEvent(report) ==
  [kind |-> "CANCELED", order_id |-> report.order_id,
   remaining_qty |-> report.remaining_qty]

(* A fault: a trade names the aggressor as the buyer. *)
TradeEvent_AggressorBuys(trade) ==
  [kind |-> "TRADE", price |-> trade.price, quantity |-> trade.quantity,
   buy_order_id |-> trade.aggressor_id, sell_order_id |-> trade.passive_id]

TradeEvent(trade) ==
  [kind |-> "TRADE", price |-> trade.price, quantity |-> trade.quantity,
   buy_order_id  |-> IF trade.aggressor_side = Buy THEN trade.aggressor_id
                                                   ELSE trade.passive_id,
   sell_order_id |-> IF trade.aggressor_side = Buy THEN trade.passive_id
                                                   ELSE trade.aggressor_id]
AcceptedEvent(order) ==
  [kind |-> "ACCEPTED", order_id |-> order.id, price |-> order.price,
   quantity |-> order.quantity, side |-> order.side, type |-> order.type]
BookEvent(b) ==
  [kind |-> "BOOK", best_bid |-> BestOrZero(b, Buy), best_ask |-> BestOrZero(b, Sell),
   spread |-> Spread(b),
   bid_levels |-> Cardinality(DOMAIN b.levels[Buy]),
   ask_levels |-> Cardinality(DOMAIN b.levels[Sell])]

Each(Event(_), seq) == [i \in 1..Len(seq) |-> Event(seq[i])]

(* A fault: next to a rejection nothing else is reported. *)
translate_result_RejectionOnly(m, res, b) ==
  IF res.rejections # <<>>
  THEN Each(RejectedEvent, res.rejections) \o <<BookEvent(b)>>
  ELSE Each(CanceledEvent, res.reports) \o Each(TradeEvent, res.trades)
         \o (IF m.action = "NewOrder" THEN <<AcceptedEvent(m.order)>> ELSE <<>>)
         \o <<BookEvent(b)>>

(* Any rejection in the result, whoever's it is, suppresses the ACCEPTED   *)
(* of the message.                                                         *)
translate_result(m, res, b) ==
  Each(RejectedEvent, res.rejections) \o Each(CanceledEvent, res.reports)
    \o Each(TradeEvent, res.trades)
    \o (IF m.action = "NewOrder" /\ res.rejections = <<>>
        THEN <<AcceptedEvent(m.order)>> ELSE <<>>)
    \o <<BookEvent(b)>>

(* The depth of a side; the order of the prices is that of the map. *)
Depth(b, side) == [p \in DOMAIN b.levels[side] |-> b.levels[side][p].total_volume]
snapshot(b) ==
  [kind |-> "SNAPSHOT", last_trade_price |-> b.last_trade_price,
   best_bid |-> BestOrZero(b, Buy), best_ask |-> BestOrZero(b, Sell),
   bids |-> Depth(b, Buy), asks |-> Depth(b, Sell)]

-----------------------------------------------------------------------------
(* What a subscriber can work out: an accepted order opens its quantity, a *)
(* trade takes its quantity off both orders, a cancellation takes off what *)
(* it reports, and a rejected order has nothing open.                      *)
Change(e, id) ==
  CASE e.kind = "ACCEPTED" /\ e.order_id = id -> e.quantity
    [] e.kind = "CANCELED" /\ e.order_id = id -> -e.remaining_qty
    [] e.kind = "TRADE" /\ id \in {e.buy_order_id, e.sell_order_id} -> -e.quantity
    [] OTHER -> 0
Names(events, kind, id) ==
  \E i \in 1..Len(events) : events[i].kind = kind /\ events[i].order_id = id
Viewed(seen, events) ==
  [id \in Ids |->
     IF Names(events, "REJECTED", id) THEN 0
     ELSE (IF Names(events, "ACCEPTED", id) THEN 0 ELSE seen[id])
            + SumFunction([i \in 1..Len(events) |-> Change(events[i], id)])]

(* The ids a subscriber cannot account for: their last new order was       *)
(* neither accepted nor rejected.                                          *)
Muted(ids, m, events) ==
  LET answered == {id \in Ids : \E kind \in {"ACCEPTED", "REJECTED"} : Names(events, kind, id)}
  IN  (IF m.action = "NewOrder" THEN ids \cup {m.order.id} ELSE ids) \ answered

-----------------------------------------------------------------------------
(* process(): the call, the steps of the engine, and the translation. *)
Process(m, Event) ==
  /\ ~Calling
  /\ Event
  /\ msg' = m
  /\ out' = <<>>
  /\ UNCHANGED <<view, mute>>

ProcessNew(order) == Process(NewOrder(order), SubmitNew(order))
ProcessCancel(id) ==
  Process(CancelOrder(id), CancelPending(id) \/ CancelResting(id) \/ CancelUnknown(id))

EngineStep == Step /\ UNCHANGED <<msg, out, view, mute>>

Translate ==
  /\ Calling
  /\ Idle
  /\ LET events == translate_result(msg, result, book)
     IN  /\ out' = events
         /\ view' = Viewed(view, events)
         /\ mute' = Muted(mute, msg, events)
  /\ UNCHANGED <<vars, msg>>

(* snapshot_all(), between two calls of process() on the same thread. *)
TakeSnapshot ==
  /\ ~Calling
  /\ out' = <<snapshot(book)>>
  /\ msg' = NoMessage
  /\ UNCHANGED <<vars, view, mute>>

ManagerNext ==
  \/ \E id \in Ids, t \in NewOrders : ProcessNew(WithId(t, id))
  \/ \E id \in Ids : ProcessCancel(id)
  \/ EngineStep
  \/ Translate
  \/ TakeSnapshot

ManagerSpec == ManagerInit /\ [][ManagerNext]_exchangeVars

-----------------------------------------------------------------------------
(* Properties *)

(* The event stream is complete: between two calls, the quantity that a    *)
(* subscriber of ACCEPTED, TRADE, CANCELED and REJECTED takes to be open   *)
(* is the quantity the engine has open, resting or pending, for every      *)
(* order that was answered - whichever of its trades it was aggressor,     *)
(* passive or triggered in, and although its trades are published before   *)
(* its acceptance.                                                         *)
StreamAccounts == ~Calling => \A id \in Ids \ mute : OpenIs(id, view[id])

(* A trade is between the two sides: the order published as buyer is never *)
(* one that rests or waits as a seller, nor the other way round, whoever   *)
(* was the aggressor and also when a stop was.                             *)
IsOn(id, side) ==
  \/ has_order(book, id) /\ book.id_map[id].side = side
  \/ \E i \in 1..Len(pending_stops) :
       pending_stops[i].id = id /\ pending_stops[i].side = side
TradesNameTheSides ==
  \A i \in 1..Len(out) : out[i].kind = "TRADE" =>
    /\ ~IsOn(out[i].buy_order_id, Sell)
    /\ ~IsOn(out[i].sell_order_id, Buy)

(* A snapshot shows every price at which an order rests and no other, with *)
(* at least the quantity a subscriber of the events takes to be open there:*)
(* cancelled and filled orders leave no level behind.                      *)
RestingAt(side, price) ==
  {id \in DOMAIN book.id_map : /\ book.id_map[id].side = side
                               /\ book.id_map[id].price = price}
DepthIsOpen(side, depth) ==
  /\ \A p \in DOMAIN depth : RestingAt(side, p) # {}
  /\ \A p \in Prices : RestingAt(side, p) # {} =>
       /\ p \in DOMAIN depth
       /\ depth[p] >= SumFunctionOnSet(view, RestingAt(side, p) \ mute)
SnapshotShowsOpen ==
  \A i \in 1..Len(out) : out[i].kind = "SNAPSHOT" =>
    DepthIsOpen(Buy, out[i].bids) /\ DepthIsOpen(Sell, out[i].asks)

(* No order disappears: every new order is named by an event of its own    *)
(* call, in an ACCEPTED, in a REJECTED or, when the rejection of a stop    *)
(* that it triggered suppresses its ACCEPTED, in the trade that triggered  *)
(* the stop.  README.md promises more, an ACCEPTED for "Every valid new    *)
(* order"; the orders without one are those in mute.                       *)
EveryOrderHeard ==
  out # <<>> /\ msg.action = "NewOrder" =>
    \/ \E kind \in {"ACCEPTED", "REJECTED"} : Names(out, kind, msg.order.id)
    \/ /\ msg.order.id \in mute
       /\ \E i \in 1..Len(out) :
            /\ out[i].kind = "TRADE"
            /\ msg.order.id \in {out[i].buy_order_id, out[i].sell_order_id}

=============================================================================
