------------------------------ MODULE OrderBook ------------------------------
(***************************************************************************)
(* The limit order book (src/src/book/order_book.cpp) as a value and the   *)
(* functions that change it.  A book is a record:                          *)
(*   levels[side]      bids_ / asks_: a map from price to PriceLevel,      *)
(*   id_map            id_map_: a map from order id to Order,              *)
(*   last_trade_price  the price of the last execution, 0 before the first.*)
(* The order of the std::maps is kept by IsBest: the first element of      *)
(* bids_ (std::greater) is its highest price, of asks_ its lowest.         *)
(***************************************************************************)
EXTENDS PriceLevel, Functions

Buy == "Buy"
Sell == "Sell"
Sides == {Buy, Sell}
Opposite(side) == IF side = Buy THEN Sell ELSE Buy

(* insert_or_assign and erase on a map. *)
Put(map, key, value) ==
  [k \in DOMAIN map \cup {key} |-> IF k = key THEN value ELSE map[k]]
Erase(map, key) == Restrict(map, DOMAIN map \ {key})

EmptyMap == [k \in {} |-> 0]
EmptyBook == [levels |-> [side \in Sides |-> EmptyMap],
              id_map |-> EmptyMap,
              last_trade_price |-> 0]

(* Order::is_iceberg and Order::visible_qty: any order with a peak counts  *)
(* as an iceberg, whatever its type, and shows its whole peak.             *)
is_iceberg(order) == order.peak_qty > 0
visible_qty(order) == IF is_iceberg(order) THEN order.peak_qty ELSE order.quantity

has_order(book, id) == id \in DOMAIN book.id_map

HasLevel(book, side, price) == price \in DOMAIN book.levels[side]
SetLevel(book, side, price, level) ==
  [book EXCEPT !.levels = [book.levels EXCEPT ![side] = Put(book.levels[side], price, level)]]
EraseLevel(book, side, price) ==
  [book EXCEPT !.levels = [book.levels EXCEPT ![side] = Erase(book.levels[side], price)]]

(* best_bid_level / best_ask_level: price is the first key of the map. *)
IsBest(book, side, price) ==
  /\ price \in DOMAIN book.levels[side]
  /\ \A p \in DOMAIN book.levels[side] :
       IF side = Buy THEN p <= price ELSE p >= price

insert_order(book, order) ==
  LET side  == order.side
      level == IF HasLevel(book, side, order.price)
               THEN book.levels[side][order.price]
               ELSE EmptyLevel
      entry == push_back(level, order.id, visible_qty(order))
  IN  [SetLevel(book, side, order.price, entry)
         EXCEPT !.id_map = Put(book.id_map, order.id, order)]

(* A fault: a level that has become empty is kept. *)
LeaveLevel_KeepsEmpty(book, order) ==
  SetLevel(book, order.side, order.price,
           drain_cancelled(remove(book.levels[order.side][order.price],
                                  order.id, visible_qty(order))))

(* The level an order leaves: marked, drained by empty(), erased if empty. *)
LeaveLevel(book, order) ==
  LET marked == drain_cancelled(remove(book.levels[order.side][order.price],
                                       order.id, visible_qty(order)))
  IN  IF marked.queue = <<>>
      THEN EraseLevel(book, order.side, order.price)
      ELSE SetLevel(book, order.side, order.price, marked)

(* The caller has checked has_order(book, id). *)
cancel_order(book, id) ==
  LET order == book.id_map[id]
      left  == IF HasLevel(book, order.side, order.price)
               THEN LeaveLevel(book, order)
               ELSE book
  IN  [left EXCEPT !.id_map = Erase(book.id_map, id)]

(* Stores an order changed in place through find_order_mut. *)
update_order(book, order) ==
  [book EXCEPT !.id_map = Put(book.id_map, order.id, order)]

reduce_level_volume(book, side, price, delta) ==
  IF HasLevel(book, side, price)
  THEN SetLevel(book, side, price,
                reduce_front_volume(book.levels[side][price], delta))
  ELSE book

=============================================================================
