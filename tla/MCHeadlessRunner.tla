--------------------------- MODULE MCHeadlessRunner ---------------------------
EXTENDS HeadlessRunner
NoNeedles == [t \in Tunnels |-> {}]
FirstTunnel == <<CHOOSE t \in Tunnels : TRUE>>
=============================================================================
