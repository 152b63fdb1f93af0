--------------------------- MODULE MCTokenLifetime ---------------------------
(* A tick is 4 h: the re-mint timer fires after 5 of them (20 h), tokens   *)
(* expire after 6 (24 h).                                                  *)
EXTENDS TokenLifetime
NoNeedles == [t \in Tunnels |-> {}]
=============================================================================
