------------------------------ MODULE MCAppFiles ------------------------------
(* A tick of the clock is 12 h: a cache is stale after more than 2.        *)
EXTENDS AppFiles
=============================================================================
