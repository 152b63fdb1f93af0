----------------------------- MODULE MCKeepAlive -----------------------------
(* KeepAlive with the constants of the code: 2 s doubling to 60 s, a       *)
(* threshold of 3, and outages of up to 25 sleeps, far past the six it     *)
(* takes to reach the cap.                                                 *)
EXTENDS KeepAlive
=============================================================================
