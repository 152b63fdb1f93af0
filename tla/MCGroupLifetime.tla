--------------------------- MODULE MCGroupLifetime ---------------------------
(* A tick is 4 h: the re-mint timer fires after 5 of them (20 h), tokens   *)
(* expire after 6 (24 h), renewal comes every 3 (12 h) and sets a window   *)
(* of 6 or 12 (1 or 2 days).                                               *)
EXTENDS GroupLifetime
NoNeedles == [t \in Tunnels |-> {}]
=============================================================================
