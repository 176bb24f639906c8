----------------------------- MODULE MCSpscRing -----------------------------
(***************************************************************************)
(* The ring with four slots: it fills up, drops, and wraps around.         *)
(***************************************************************************)
EXTENDS SpscRing

(* SpscQueue, EventDispatcher and, up to its last drain, Logger;           *)
(* ReplayLogger; Gateway inbound.                                          *)
AllRings == {[release_first |-> FALSE, joined |-> TRUE],
             [release_first |-> TRUE, joined |-> TRUE],
             [release_first |-> FALSE, joined |-> FALSE]}
=============================================================================
