---------------------------- MODULE PriceTimeBook ----------------------------
(***************************************************************************)
(* What a client may rely on: a book that serves resting orders by price,  *)
(* then by time, and never trades more of an order than it shows.  Orders  *)
(* leave at once - there is no lazy deletion, no id map and no volume      *)
(* here - and every trade is with the order that was first at the best     *)
(* price.  Time priority is lost in three ways only                        *)
(* (docs/engine-design.md "Priority loss"): a new price, a larger quantity *)
(* and a new peak of an iceberg.  MatchingEngine is shown to implement     *)
(* this.                                                                   *)
(***************************************************************************)
EXTENDS Integers, Sequences

CONSTANTS Ids, Prices

VARIABLES
  at,     \* at[id]: the side and price where an order rests, or Nowhere
  ahead,  \* <<x, y>>: at the place of both, x is served before y
  lots,   \* lots[id]: what is open of a resting order, or NoLot
  tape    \* the trades of the call in progress, or of the last one

bookVars == <<at, ahead, lots, tape>>
Nowhere == <<>>
BookPlaces == {"Buy", "Sell"} \X Prices

(* The quantity a trade can take, the reserve behind it, and how much of   *)
(* the reserve is shown at a time.                                         *)
Lot(shown, hidden, peak) == [shown |-> shown, hidden |-> hidden, peak |-> peak]
NoLot == Lot(0, 0, 0)

Init ==
  /\ at = [id \in Ids |-> Nowhere]
  /\ ahead = {}
  /\ lots = [id \in Ids |-> NoLot]
  /\ tape = <<>>

RestingAt(place) == {id \in Ids : at[id] = place}
PairsWithout(id) == {pair \in ahead : id \notin {pair[1], pair[2]}}

(* Behind all others that rest at the place. *)
Queues(id, place, lot) ==
  /\ at' = [at EXCEPT ![id] = place]
  /\ ahead' = PairsWithout(id) \cup {<<x, id>> : x \in RestingAt(place) \ {id}}
  /\ lots' = [lots EXCEPT ![id] = lot]
Stays(id, lot) ==
  /\ lots' = [lots EXCEPT ![id] = lot]
  /\ UNCHANGED <<at, ahead>>
Leaves(id) ==
  /\ at' = [at EXCEPT ![id] = Nowhere]
  /\ ahead' = PairsWithout(id)
  /\ lots' = [lots EXCEPT ![id] = NoLot]

(* An order with open quantity comes to rest. *)
Place(id, place, lot) ==
  /\ at[id] = Nowhere
  /\ lot.shown + lot.hidden > 0
  /\ Queues(id, place, lot)

(* A resting order is withdrawn from anywhere in its queue. *)
Withdraw(id) == at[id] # Nowhere /\ Leaves(id)

(* A resting order shows less, and that alone never costs its place in the *)
(* queue.                                                                  *)
Shrink(id, qty) ==
  /\ at[id] # Nowhere
  /\ 0 < qty /\ qty < lots[id].shown
  /\ Stays(id, Lot(qty, lots[id].hidden, lots[id].peak))

(* A resting order changes price or grows, and queues again at the back. *)
Requeue(id, place, qty) ==
  /\ at[id] # Nowhere
  /\ place[1] = at[id][1]
  /\ place # at[id] \/ qty > lots[id].shown
  /\ qty > 0 \/ qty = lots[id].shown
  /\ Queues(id, place, Lot(qty, lots[id].hidden, lots[id].peak))

Oldest(id) == \A x \in Ids : <<x, id>> \notin ahead
BestPriced(id) ==
  \A x \in Ids : at[x] # Nowhere /\ at[x][1] = at[id][1] =>
    IF at[id][1] = "Buy" THEN at[x][2] <= at[id][2] ELSE at[x][2] >= at[id][2]

(* The next peak: all of the reserve when less than a peak is left. *)
NewPeak(lot) == IF lot.peak <= lot.hidden THEN lot.peak ELSE lot.hidden

(* A trade: the oldest order at the best price of the other side gives qty *)
(* at its own price, and is still first as long as it shows something.     *)
(* When all it showed is traded it leaves or, with a reserve, shows a new  *)
(* peak at the back.  An iceberg that came to rest with nothing shown does *)
(* so in a trade of 0.                                                     *)
Trade(trade) ==
  LET id  == trade.passive_id
      qty == trade.quantity
      lot == lots[id]
  IN  /\ at[id] # Nowhere
      /\ at[id][1] # trade.aggressor_side
      /\ at[id][2] = trade.price
      /\ Oldest(id) /\ BestPriced(id)
      /\ qty \in 0..lot.shown
      /\ qty > 0 \/ lot.shown = 0
      /\ \/ /\ qty < lot.shown
            /\ Stays(id, Lot(lot.shown - qty, lot.hidden, lot.peak))
         \/ /\ qty = lot.shown /\ lot.hidden = 0
            /\ Leaves(id)
         \/ /\ qty = lot.shown /\ lot.hidden > 0
            /\ Queues(id, at[id], Lot(NewPeak(lot), lot.hidden - NewPeak(lot), lot.peak))
      /\ tape' = Append(tape, trade)

(* An event of a client, which starts a new tape.  What it asks for may    *)
(* leave the resting orders alone.                                         *)
ClientEvent ==
  /\ tape' = <<>>
  /\ \/ \E id \in Ids : Withdraw(id) \/ Shrink(id, lots'[id].shown)
     \/ \E id \in Ids, place \in BookPlaces : Requeue(id, place, lots'[id].shown)
     \/ UNCHANGED <<at, ahead, lots>>

(* In the course of a call an order comes to rest, or there is a trade. *)
ComesToRest ==
  /\ tape' = tape
  /\ \E id \in Ids, place \in BookPlaces : Place(id, place, lots'[id])
Trades == Len(tape') > 0 /\ Trade(tape'[Len(tape')])

Next == ClientEvent \/ ComesToRest \/ Trades

Spec == Init /\ [][Next]_bookVars
=============================================================================
