------------------------------ MODULE KeepAlive ------------------------------
(***************************************************************************)
(* The keep-alive policy driven by every sequence of connection outcomes,  *)
(* the public-URL probes that host_group does not feed it yet included.    *)
(* The guards are the driver's: a session ends only while one is up, a     *)
(* connect attempt completes only while none is, and nothing is fed any    *)
(* more once the policy has answered Relogin or Fail, on which host_group  *)
(* returns.                                                                *)
(*                                                                         *)
(* up, bumps and downs are history: they are computed from the outcomes    *)
(* alone and say what the policy ought to have concluded from them.        *)
(***************************************************************************)
EXTENDS KeepAlivePolicy

CONSTANT MaxBumps    \* bound: sleeps between two successes

VARIABLES policy,    \* KeepAliveState
          action,    \* what next() returned last
          up,        \* a relay session is up
          bumps,     \* sleeps ordered since the last success
          downs      \* Down probes in a row while the session was up

vars == <<policy, action, up, bumps, downs>>

TypeOK ==
    /\ policy \in PolicyState
    /\ action \in Action
    /\ up \in BOOLEAN
    /\ bumps \in Nat
    /\ downs \in Nat

Init == /\ policy = New
        /\ action = Await
        /\ up = FALSE
        /\ bumps = 0
        /\ downs = 0

\* One call of next() by a driver that has not returned.
Feed(e) == /\ action.kind \notin {"Relogin", "Fail"}
           /\ policy' = Advance(policy, e).state
           /\ action' = Advance(policy, e).action

Connect == /\ ~up
           /\ Feed("Connected")
           /\ up' = TRUE
           /\ bumps' = 0
           /\ downs' = 0

SessionEnds(e) == /\ up
                  /\ bumps < MaxBumps
                  /\ Feed(e)
                  /\ up' = FALSE
                  /\ bumps' = bumps + 1
                  /\ downs' = 0

AttemptFails(f) == /\ ~up
                   /\ bumps < MaxBumps
                   /\ Feed(f)
                   /\ bumps' = IF f = "Transient" THEN bumps + 1 ELSE bumps
                   /\ downs' = 0
                   /\ UNCHANGED up

\* The driver answers Reconnect by dropping the session.
Probe(o) == /\ Feed(o)
            /\ up' = (up /\ action'.kind # "Reconnect")
            /\ downs' = IF up /\ o = "Down" THEN downs + 1 ELSE 0
            /\ UNCHANGED bumps

Next == \/ Connect
        \/ \E e \in SessionEnd : SessionEnds(e)
        \/ \E f \in ConnFailure : AttemptFails(f)
        \/ \E o \in ProbeOutcome : Probe(o)

Spec == Init /\ [][Next]_vars

-----------------------------------------------------------------------------
(* The watchdog reconnects exactly when a full streak of Down probes hit   *)
(* one and the same session: a ServiceDown or Healthy answer, the end of   *)
(* the session, or a probe outside any session starts the count again      *)
(* (on_probe and the end_session calls of next()).                         *)
WatchdogExact ==
    /\ downs <= ProbeDownThreshold
    /\ action.kind = "Reconnect" <=> downs = ProbeDownThreshold

\* The base backoff after n sleeps, if it had no cap: BackoffStart * 2 ^ n.
Uncapped[n \in Nat] == IF n = 0 THEN BackoffStart ELSE 2 * Uncapped[n - 1]

\* The delay of the sleep after n sleeps, with no success between them.
Spacing(n) == IF Uncapped[n] <= BackoffMax THEN Uncapped[n] ELSE BackoffMax

(* The backoff doubles with every sleep since the last success, whatever   *)
(* mixture of drops, re-mints and failed attempts ordered the sleeps, is   *)
(* capped, and no probe changes it (bump() and the reset in Connected).    *)
BackoffIsExponential == policy.backoff = Spacing(bumps)

(* No outcome that is tried again after goes without its sleep, and no     *)
(* other outcome orders one: a drop, a due re-mint and a transient failure *)
(* are each answered by a sleep, of the base backoff doubled for every     *)
(* sleep since the last success, and leave no session up (the Sleep arms   *)
(* of next() and what bump() returns).                                     *)
RetriesAreSpaced ==
    [][IF bumps' > bumps
         THEN action' = Sleep(Spacing(bumps)) /\ ~up'
         ELSE action'.kind # "Sleep"]_vars

=============================================================================
