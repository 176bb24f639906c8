------------------------------ MODULE MCGateway ------------------------------
(***************************************************************************)
(* The gateway with rings of two and three slots: each of them fills up    *)
(* and drops; two orders can wait, so that more than one could be left.    *)
(***************************************************************************)
EXTENDS Gateway

(* An order that trades, and orders that only change the book. *)
OneTrade == <<1, 1, 2>>

(* Three orders, and orders among messages that are not for the exchange.  *)
Mixed == {<<"order", "order", "order">>,
          <<"malformed", "order", "unknown_symbol">>}
=============================================================================
