---------------------------- MODULE MCHostSession ----------------------------
EXTENDS HostSession
NoNeedles == [t \in Tunnels |-> {}]
\* A Tunnel ID such as "api-4041.brs" contains a needle of is_missing_tunnel_error.
MissingInId == [t \in Tunnels |-> {"missing"}]
ThreadSymmetry == Permutations(Threads)
=============================================================================
