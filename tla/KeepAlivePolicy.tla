--------------------------- MODULE KeepAlivePolicy ---------------------------
(***************************************************************************)
(* The keep-alive policy of the host engine (src/host/keepalive.rs): which *)
(* state it keeps between connection outcomes and which action it returns  *)
(* for each of them.  The policy is pure in the code, so it is a module of *)
(* operators here: KeepAlive.tla drives it with arbitrary outcomes, and    *)
(* HostGroup.tla with the outcomes of a real connection.                   *)
(*                                                                         *)
(* Durations are natural numbers.  In the code a unit is a second,         *)
(* BackoffStart is 2 and BackoffMax is 60.                                 *)
(***************************************************************************)
EXTENDS Integers

CONSTANTS BackoffStart,         \* RECONNECT_BACKOFF_START
          BackoffMax,           \* RECONNECT_BACKOFF_MAX
          ProbeDownThreshold    \* PROBE_DOWN_THRESHOLD

ASSUME PolicyConstants ==
    /\ BackoffStart \in Nat \ {0}
    /\ BackoffMax \in Nat
    /\ BackoffStart <= BackoffMax
    /\ ProbeDownThreshold \in Nat \ {0}

ConnFailure == {"Auth", "Fatal", "Transient"}
ProbeOutcome == {"Healthy", "Down", "ServiceDown"}

\* Connection outcomes; a failure and a probe outcome stand for themselves
\* (ConnectFailed(f) is f, Probe(o) is o).
SessionEnd == {"RelayDropped", "RemintDue"}
ConnEvent == {"Connected"} \cup SessionEnd \cup ConnFailure \cup ProbeOutcome

Await == [kind |-> "Await", delay |-> 0]
Relogin == [kind |-> "Relogin", delay |-> 0]
Fail == [kind |-> "Fail", delay |-> 0]
Reconnect == [kind |-> "Reconnect", delay |-> 0]
Sleep(d) == [kind |-> "Sleep", delay |-> d]
Action == {Await, Relogin, Fail, Reconnect} \cup {Sleep(d) : d \in BackoffStart .. BackoffMax}

PolicyState == [backoff : BackoffStart .. BackoffMax,
                first_attempt : BOOLEAN,
                connected : BOOLEAN,
                down_streak : 0 .. ProbeDownThreshold - 1]

New == [backoff |-> BackoffStart, first_attempt |-> TRUE,
        connected |-> FALSE, down_streak |-> 0]

\* Mutant of Doubled: the cap is forgotten.
DoubledUncapped(d) == 2 * d

Doubled(d) == IF 2 * d <= BackoffMax THEN 2 * d ELSE BackoffMax

EndSession(p) == [p EXCEPT !.connected = FALSE, !.down_streak = 0]

\* Mutant of Bump: the delay is returned, and not doubled for the next time.
BumpIdle(p) == p

\* The state bump() leaves behind; the delay it returns is the old p.backoff.
Bump(p) == [p EXCEPT !.backoff = Doubled(p.backoff)]

\* Mutant of OnProbe: another answer does not interrupt the streak.
OnProbeUninterrupted(p, outcome) ==
    IF ~p.connected \/ outcome # "Down"
      THEN [state |-> p, action |-> Await]
      ELSE IF p.down_streak + 1 >= ProbeDownThreshold
             THEN [state |-> EndSession(p), action |-> Reconnect]
             ELSE [state |-> [p EXCEPT !.down_streak = @ + 1], action |-> Await]

OnProbe(p, outcome) ==
    IF ~p.connected \/ outcome # "Down"
      THEN [state |-> [p EXCEPT !.down_streak = 0], action |-> Await]
      ELSE IF p.down_streak + 1 >= ProbeDownThreshold
             THEN [state |-> EndSession(p), action |-> Reconnect]
             ELSE [state |-> [p EXCEPT !.down_streak = @ + 1], action |-> Await]

\* Mutant of Retry: the next attempt follows at once.
RetryAtOnce(p) == [state |-> EndSession(p), action |-> Reconnect]

\* The answer to an outcome the driver tries again after.
Retry(p) == [state |-> Bump(EndSession(p)), action |-> Sleep(p.backoff)]

\* KeepAliveState::next: the state after event e and the action it returns.
Advance(p, e) ==
    CASE e = "Connected" ->
           [state |-> [backoff |-> BackoffStart, first_attempt |-> FALSE,
                       connected |-> TRUE, down_streak |-> 0],
            action |-> Await]
      [] e \in SessionEnd ->
           Retry(p)
      [] e = "Auth" ->
           [state |-> EndSession(p), action |-> Relogin]
      [] e = "Fatal" ->
           [state |-> [EndSession(p) EXCEPT !.first_attempt = FALSE], action |-> Fail]
      [] e = "Transient" ->
           [state |-> [Retry(p).state EXCEPT !.first_attempt = FALSE],
            action |-> Retry(p).action]
      [] OTHER -> OnProbe(p, e)

\* Phase::Initial or Phase::Reconnect, as the HostState it is shown as.
Phase(p) == IF p.first_attempt THEN "Connecting" ELSE "Reconnecting"

=============================================================================
