------------------------- MODULE MCExchangeManager -------------------------
(***************************************************************************)
(* Inputs for the run of ExchangeManager.                                  *)
(***************************************************************************)
EXTENDS ExchangeManager

IdSymmetry == Permutations(Ids)

Template(type, side, price, stop, qty) ==
  [type |-> type, side |-> side, price |-> price, stop_price |-> stop,
   quantity |-> qty, peak_qty |-> 0]

(* Two prices, both sides crossing, partial fills and sweeps, a market     *)
(* order that can find too little, and stops of both kinds and both sides  *)
(* around prices that trade: a triggered stop trades, moves the price and  *)
(* triggers others, fills, rests, does both, or is rejected.               *)
ExchangeOrders ==
  {Template("Limit", Buy, 1, 0, 1), Template("Limit", Buy, 2, 0, 2),
   Template("Limit", Sell, 1, 0, 1), Template("Limit", Sell, 2, 0, 2),
   Template("Market", Sell, 0, 0, 3), Template("Stop", Buy, 0, 1, 1),
   Template("StopLimit", Buy, 2, 2, 1), Template("StopLimit", Sell, 1, 1, 1)}

=============================================================================
