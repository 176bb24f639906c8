-------------------------- MODULE MCMatchingEngine --------------------------
(***************************************************************************)
(* Inputs for the runs of MatchingEngine: small sets of orders chosen so   *)
(* that books have several orders per level, several levels per side, and  *)
(* trades that trigger stops.                                              *)
(***************************************************************************)
EXTENDS MatchingEngine

IdSymmetry == Permutations(Ids)

Template(type, side, price, stop, qty, peak) ==
  [type |-> type, side |-> side, price |-> price, stop_price |-> stop,
   quantity |-> qty, peak_qty |-> peak]

Limit(side, price, qty) == Template("Limit", side, price, 0, qty, 0)
Market(side, qty) == Template("Market", side, 0, 0, qty, 0)
StopMarket(side, stop, qty) == Template("Stop", side, 0, stop, qty, 0)
StopLimit(side, price, stop, qty) == Template("StopLimit", side, price, stop, qty, 0)
Iceberg(side, price, qty, peak) == Template("Iceberg", side, price, 0, qty, peak)
Modify(new_price, new_qty) == [new_price |-> new_price, new_quantity |-> new_qty]

(* Every way a resting order can change its place in a queue: two plain    *)
(* orders and an iceberg on one side, amended and replaced, a taker, and a *)
(* stop that takes as well, kept at a trade at 2 and triggered at 1.       *)
QueueOrders ==
  {Limit(Buy, 1, 2), Limit(Buy, 2, 1), Iceberg(Buy, 1, 3, 1), Market(Sell, 2),
   StopMarket(Sell, 1, 1)}
QueueAmendments == {Modify(1, 0), Modify(0, 3), Modify(0, 1)}

(* Limit and stop orders, no market orders of the clients' own. *)
StopOrders ==
  {Limit(Buy, 1, 1), Limit(Sell, 1, 1), Limit(Sell, 2, 2),
   StopMarket(Buy, 1, 1), StopLimit(Buy, 2, 2, 1), StopLimit(Sell, 1, 1, 1)}

(* Icebergs on both sides of the same price: they meet as aggressors.      *)
CrossingIcebergs ==
  {Iceberg(Buy, 1, 3, 1), Iceberg(Sell, 1, 3, 2), Limit(Buy, 1, 1), Limit(Sell, 1, 2)}

(* Two orders at one price, and one that takes both. *)
TwoAndTaker == {Limit(Buy, 1, 1), Limit(Sell, 1, 2)}
GrowQuantity == {Modify(0, 2)}

(* Limit orders and nothing else. *)
OnlyLimits == {Limit(Buy, 1, 1), Limit(Buy, 1, 2), Limit(Sell, 1, 1)}

=============================================================================
