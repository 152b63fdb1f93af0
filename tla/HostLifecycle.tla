---------------------------- MODULE HostLifecycle ----------------------------
(***************************************************************************)
(* What the host engine promises of each tunnel, without threads, channels *)
(* or tokens: a tunnel is hosted from a Host until a Stop or an error the  *)
(* policy does not retry; a session that drops is retried and never given  *)
(* up from the hosting state itself; nothing but a Host brings a tunnel    *)
(* that is stopped or failed back, and a Host of a tunnel that is hosted   *)
(* changes nothing.                                                        *)
(***************************************************************************)
CONSTANT Tunnels

VARIABLE phase

Phases == {"none", "connecting", "hosting", "reconnecting", "failed"}

TypeOK == phase \in [Tunnels -> Phases]

Init == phase = [t \in Tunnels |-> "none"]

Becomes(t, from, to) == /\ phase[t] \in from
                        /\ phase' = [phase EXCEPT ![t] = to]

Host(t) == Becomes(t, {"none", "failed"}, "connecting")
Retry(t) == Becomes(t, {"connecting"}, "reconnecting")
Up(t) == Becomes(t, {"connecting", "reconnecting"}, "hosting")
Lost(t) == Becomes(t, {"hosting"}, "reconnecting")
GiveUp(t) == Becomes(t, {"connecting", "reconnecting"}, "failed")
Stop(t) == Becomes(t, Phases, "none")

Next == \E t \in Tunnels : \/ Host(t) \/ Retry(t) \/ Up(t)
                           \/ Lost(t) \/ GiveUp(t) \/ Stop(t)

Spec == Init /\ [][Next]_phase

=============================================================================
