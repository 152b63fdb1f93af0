---------------------------- MODULE MCHostEngine ----------------------------
EXTENDS HostEngine, TLC
NoNeedles == [t \in Tunnels |-> {}]
ThreadSymmetry == Permutations(Threads)
=============================================================================
