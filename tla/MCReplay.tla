------------------------------ MODULE MCReplay ------------------------------
(***************************************************************************)
(* Inputs for the run of Replay.                                           *)
(***************************************************************************)
EXTENDS Replay

IdSymmetry == Permutations(Ids)

Template(type, side, price, stop, qty, peak) ==
  [type |-> type, side |-> side, price |-> price, stop_price |-> stop,
   quantity |-> qty, peak_qty |-> peak]

(* Two orders that share a level, an iceberg on it, a taker that fills one *)
(* and a half of them, and a stop on the price they trade at.              *)
ReplayOrders ==
  {Template("Limit", Buy, 1, 0, 1, 0), Template("Iceberg", Buy, 1, 0, 3, 2),
   Template("Limit", Sell, 1, 0, 3, 0), Template("Stop", Sell, 0, 1, 1, 0)}
ReplayAmendments == {[new_price |-> 2, new_quantity |-> 0]}

(* A blank line, and a line that does not parse (REPLACE is not known). *)
SkippedLines == {<<>>, <<[event_type |-> ""], [event_type |-> "REPLACE"]>>}

=============================================================================
