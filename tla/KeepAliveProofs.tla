--------------------------- MODULE KeepAliveProofs ---------------------------
(***************************************************************************)
(* Proofs about the keep-alive policy, for every base backoff, cap and     *)
(* probe threshold.                                                        *)
(***************************************************************************)
EXTENDS KeepAlive, HostGroupProofs

\* What the policy knows agrees with what happened: it believes a session up
\* exactly while one is, and counts exactly its Down probes.
Agreement ==
    /\ policy.connected <=> up
    /\ up => /\ policy.down_streak = downs
             /\ action.kind # "Sleep"
    /\ ~up => /\ policy.down_streak = 0
              /\ downs \in {0, ProbeDownThreshold}
    /\ action.kind = "Reconnect" <=> downs = ProbeDownThreshold
    /\ action.kind = "Sleep" => /\ bumps > 0
                                /\ policy.backoff = Doubled(action.delay)

Inv == TypeOK /\ Agreement

LEMMA InitInv == Init => Inv
<1> SUFFICES ASSUME Init PROVE Inv
  OBVIOUS
<1>1. New \in PolicyState
  BY PolicyConstants DEF New, PolicyState
<1>2. TypeOK
  BY <1>1 DEF Init, TypeOK, Action
<1>3. Agreement
  BY PolicyConstants DEF Init, Agreement, New, Await
<1> QED  BY <1>2, <1>3 DEF Inv

LEMMA FeedType ==
    ASSUME TypeOK, NEW e \in ConnEvent, Feed(e)
    PROVE  policy' \in PolicyState /\ action' \in Action
BY AdvanceType DEF TypeOK, Feed

LEMMA NextType == TypeOK /\ [Next]_vars => TypeOK'
<1> SUFFICES ASSUME TypeOK, [Next]_vars PROVE TypeOK'
  OBVIOUS
<1>1. CASE Connect
  <2>1. policy' \in PolicyState /\ action' \in Action
    BY <1>1, FeedType DEF Connect, ConnEvent
  <2> QED  BY <1>1, <2>1 DEF Connect, TypeOK
<1>2. ASSUME NEW e \in SessionEnd, SessionEnds(e) PROVE TypeOK'
  <2>1. policy' \in PolicyState /\ action' \in Action
    BY <1>2, FeedType DEF SessionEnds, ConnEvent
  <2>2. bumps' \in Nat /\ downs' \in Nat
    BY <1>2 DEF SessionEnds, TypeOK
  <2>3. up' \in BOOLEAN
    BY <1>2, Zenon DEF SessionEnds
  <2> QED  BY <2>1, <2>2, <2>3 DEF TypeOK
<1>3. ASSUME NEW f \in ConnFailure, AttemptFails(f) PROVE TypeOK'
  <2>1. policy' \in PolicyState /\ action' \in Action
    BY <1>3, FeedType DEF AttemptFails, ConnEvent
  <2> QED  BY <1>3, <2>1 DEF AttemptFails, TypeOK
<1>4. ASSUME NEW o \in ProbeOutcome, Probe(o) PROVE TypeOK'
  <2>1. policy' \in PolicyState /\ action' \in Action
    BY <1>4, FeedType DEF Probe, ConnEvent
  <2> QED  BY <1>4, <2>1 DEF Probe, TypeOK
<1>5. CASE UNCHANGED vars
  BY <1>5 DEF vars, TypeOK
<1> QED  BY <1>1, <1>2, <1>3, <1>4, <1>5 DEF Next

LEMMA NextAgreement == Inv /\ [Next]_vars => Agreement'
<1> SUFFICES ASSUME TypeOK, Agreement, [Next]_vars PROVE Agreement'
  BY DEF Inv
<1> USE PolicyConstants
<1>1. CASE Connect
  <2>1. /\ policy' = [backoff |-> BackoffStart, first_attempt |-> FALSE,
                     connected |-> TRUE, down_streak |-> 0]
        /\ action' = Await
    BY <1>1 DEF Connect, Feed, Advance, Retry, SessionEnd
  <2> QED  BY <1>1, <2>1 DEF Connect, Agreement, Await
<1>2. ASSUME NEW e \in SessionEnd, SessionEnds(e) PROVE Agreement'
  <2>1. policy' = Bump(EndSession(policy)) /\ action' = Sleep(policy.backoff)
    BY <1>2 DEF SessionEnds, Feed, Advance, Retry, SessionEnd
  <2>2. /\ policy'.connected = FALSE
        /\ policy'.down_streak = 0
        /\ policy'.backoff = Doubled(policy.backoff)
    BY <2>1 DEF TypeOK, Bump, EndSession, PolicyState
  <2>3. action'.kind = "Sleep" /\ action'.delay = policy.backoff
    BY <2>1 DEF Sleep
  <2> QED  BY <1>2, <2>2, <2>3 DEF SessionEnds, TypeOK, Agreement
<1>3. ASSUME NEW f \in ConnFailure, AttemptFails(f) PROVE Agreement'
  <2>1. CASE f = "Auth"
    <3>1. policy' = EndSession(policy) /\ action' = Relogin
      BY <1>3, <2>1 DEF AttemptFails, Feed, Advance, Retry, SessionEnd
    <3> QED
      BY <1>3, <2>1, <3>1 DEF AttemptFails, TypeOK, Agreement, EndSession, Relogin, PolicyState
  <2>2. CASE f = "Fatal"
    <3>1. policy' = [EndSession(policy) EXCEPT !.first_attempt = FALSE] /\ action' = Fail
      BY <1>3, <2>2 DEF AttemptFails, Feed, Advance, Retry, SessionEnd
    <3> QED
      BY <1>3, <2>2, <3>1 DEF AttemptFails, TypeOK, Agreement, EndSession, Fail, PolicyState
  <2>3. CASE f = "Transient"
    <3>1. /\ policy' = [Bump(EndSession(policy)) EXCEPT !.first_attempt = FALSE]
          /\ action' = Sleep(policy.backoff)
      BY <1>3, <2>3 DEF AttemptFails, Feed, Advance, Retry, SessionEnd
    <3> QED
      BY <1>3, <2>3, <3>1
         DEF AttemptFails, TypeOK, Agreement, Bump, EndSession, Sleep, PolicyState
  <2> QED  BY <1>3, <2>1, <2>2, <2>3 DEF ConnFailure
<1>4. ASSUME NEW o \in ProbeOutcome, Probe(o) PROVE Agreement'
  <2>1. policy' = OnProbe(policy, o).state /\ action' = OnProbe(policy, o).action
    BY <1>4 DEF Probe, Feed, Advance, Retry, ProbeOutcome, SessionEnd
  <2>2. CASE ~up \/ o # "Down"
    <3>1. policy' = [policy EXCEPT !.down_streak = 0] /\ action' = Await
      BY <2>1, <2>2 DEF OnProbe, Agreement
    <3> QED
      BY <1>4, <2>2, <3>1 DEF Probe, TypeOK, Agreement, Await, PolicyState
  <2>3. CASE up /\ o = "Down" /\ policy.down_streak + 1 >= ProbeDownThreshold
    <3>1. policy' = EndSession(policy) /\ action' = Reconnect
      BY <2>1, <2>3 DEF OnProbe, Agreement
    <3>2. policy' = EndSession(policy) /\ action'.kind = "Reconnect"
      BY <3>1 DEF Reconnect
    <3>3. /\ policy'.connected = FALSE
          /\ policy'.down_streak = 0
      BY <3>2, EndSessionType DEF TypeOK
    <3>4. ~up'
      BY <1>4, <3>2 DEF Probe
    <3>5. downs' = ProbeDownThreshold
      BY <1>4, <2>3 DEF Probe, TypeOK, Agreement, PolicyState
    <3> QED  BY <3>2, <3>3, <3>4, <3>5 DEF Agreement
  <2>4. CASE up /\ o = "Down" /\ ~(policy.down_streak + 1 >= ProbeDownThreshold)
    <3>1. policy' = [policy EXCEPT !.down_streak = @ + 1] /\ action' = Await
      BY <2>1, <2>4 DEF OnProbe, Agreement
    <3>2. /\ policy'.connected = policy.connected
          /\ policy'.down_streak = policy.down_streak + 1
          /\ action'.kind = "Await"
      BY <3>1 DEF TypeOK, PolicyState, Await
    <3>3. downs \in Nat /\ downs = policy.down_streak /\ downs' = downs + 1
      BY <1>4, <2>4 DEF Probe, TypeOK, Agreement
    <3>5. up'
      BY <1>4, <2>4, <3>2 DEF Probe
    <3>4. downs' # ProbeDownThreshold
      BY <2>4, <3>3, <3>2
    <3> QED  BY <2>4, <3>2, <3>3, <3>4, <3>5 DEF Agreement
  <2> QED  BY <2>2, <2>3, <2>4
<1>5. CASE UNCHANGED vars
  BY <1>5 DEF vars, Agreement
<1> QED  BY <1>1, <1>2, <1>3, <1>4, <1>5 DEF Next

LEMMA InvHolds == Spec => []Inv
BY InitInv, NextType, NextAgreement, PTL DEF Spec, Inv

(* The policy keeps its type for every choice of the constants: the        *)
(* backoff stays between base and cap, the streak below the threshold.     *)
THEOREM TypeCorrect == Spec => []TypeOK
<1>1. Inv => TypeOK  BY DEF Inv
<1> QED  BY <1>1, InvHolds, PTL

(* The watchdog orders a reconnect exactly on a full streak of Down probes *)
(* of one session.                                                         *)
THEOREM WatchdogIsExact == Spec => []WatchdogExact
<1>1. Inv => WatchdogExact
  BY PolicyConstants DEF Inv, TypeOK, Agreement, WatchdogExact, PolicyState
<1> QED  BY <1>1, InvHolds, PTL

-----------------------------------------------------------------------------
(* The backoff.  A recursive function is the choice of a solution of its   *)
(* equation; one exists because every finite part of it can be extended.   *)

Doubles(f, n) == \A i \in 0 .. n :
    f[i] = IF i = 0 THEN BackoffStart ELSE 2 * f[i - 1]

LEMMA DoublesTo ==
    ASSUME NEW n \in Nat
    PROVE  \E f \in [0 .. n -> Nat] : Doubles(f, n)
<1> DEFINE P == {k \in Nat : \E f \in [0 .. k -> Nat] : Doubles(f, k)}
<1>1. 0 \in P
  <2> DEFINE f == [i \in 0 .. 0 |-> BackoffStart]
  <2>1. f \in [0 .. 0 -> Nat] /\ Doubles(f, 0)
    BY PolicyConstants DEF Doubles
  <2> QED  BY <2>1
<1>2. ASSUME NEW k \in Nat, k \in P PROVE k + 1 \in P
  <2>1. PICK f \in [0 .. k -> Nat] : Doubles(f, k)
    BY <1>2
  <2> DEFINE g == [i \in 0 .. k + 1 |-> IF i = k + 1 THEN 2 * f[k] ELSE f[i]]
  <2>2. g \in [0 .. k + 1 -> Nat]
    BY <2>1
  <2>3. Doubles(g, k + 1)
    <3> SUFFICES ASSUME NEW i \in 0 .. k + 1
                 PROVE  g[i] = IF i = 0 THEN BackoffStart ELSE 2 * g[i - 1]
      BY DEF Doubles
    <3>1. CASE i = k + 1
      <4>1. i # 0 /\ i - 1 = k /\ k \in 0 .. k + 1 /\ k # k + 1
        BY <3>1
      <4>2. g[i] = 2 * f[k] /\ g[k] = f[k]
        BY <3>1, <4>1
      <4> QED  BY <4>1, <4>2
    <3>2. CASE i # k + 1
      <4>1. i \in 0 .. k /\ (i # 0 => i - 1 \in 0 .. k + 1 /\ i - 1 # k + 1)
        BY <3>2
      <4>2. g[i] = f[i] /\ (i # 0 => g[i - 1] = f[i - 1])
        BY <4>1
      <4> QED  BY <2>1, <4>1, <4>2 DEF Doubles
    <3> QED  BY <3>1, <3>2
  <2>4. k + 1 \in Nat
    OBVIOUS
  <2> HIDE DEF g
  <2> QED  BY <2>2, <2>3, <2>4
<1> HIDE DEF P
<1>3. n \in P
  BY <1>1, <1>2, SetInduction
<1> QED  BY <1>3 DEF P

LEMMA DoublesOnce ==
    ASSUME NEW n \in Nat, NEW m \in Nat, n <= m,
           NEW f \in [0 .. n -> Nat], Doubles(f, n),
           NEW g \in [0 .. m -> Nat], Doubles(g, m)
    PROVE  \A i \in 0 .. n : f[i] = g[i]
<1> DEFINE P == {i \in Nat : i <= n => f[i] = g[i]}
<1>1. 0 \in P
  BY DEF Doubles
<1>2. ASSUME NEW i \in Nat, i \in P PROVE i + 1 \in P
  <2> SUFFICES ASSUME i + 1 <= n PROVE f[i + 1] = g[i + 1]
    OBVIOUS
  <2>1. /\ i + 1 \in 0 .. n /\ i + 1 \in 0 .. m
        /\ i + 1 # 0 /\ (i + 1) - 1 = i
    OBVIOUS
  <2>2. f[i] = g[i]
    BY <1>2
  <2>3. f[i + 1] = 2 * f[i] /\ g[i + 1] = 2 * g[i]
    BY <2>1 DEF Doubles
  <2> QED  BY <2>2, <2>3
<1> HIDE DEF P
<1>3. Nat \subseteq P
  BY <1>1, <1>2, SetInduction
<1> QED  BY <1>3 DEF P

LEMMA UncappedValues ==
    /\ Uncapped[0] = BackoffStart
    /\ \A n \in Nat : Uncapped[n] \in Nat /\ Uncapped[n + 1] = 2 * Uncapped[n]
<1> DEFINE Solves(f) == f = [n \in Nat |-> IF n = 0 THEN BackoffStart ELSE 2 * f[n - 1]]
           Part(n) == CHOOSE f \in [0 .. n -> Nat] : Doubles(f, n)
           whole == [n \in Nat |-> Part(n)[n]]
<1>1. \A n \in Nat : Part(n) \in [0 .. n -> Nat] /\ Doubles(Part(n), n)
  BY DoublesTo
<1> HIDE DEF Part
<1>2. \A n \in Nat : whole[n] \in Nat
  BY <1>1
<1>3. ASSUME NEW n \in Nat, n # 0 PROVE whole[n] = 2 * whole[n - 1]
  <2>1. n - 1 \in Nat /\ n - 1 <= n /\ n - 1 \in 0 .. n - 1 /\ n \in 0 .. n
    BY <1>3
  <2>2. Part(n - 1)[n - 1] = Part(n)[n - 1]
    <3>1. /\ Part(n - 1) \in [0 .. n - 1 -> Nat] /\ Doubles(Part(n - 1), n - 1)
          /\ Part(n) \in [0 .. n -> Nat] /\ Doubles(Part(n), n)
      BY <1>1, <2>1
    <3> QED  BY <2>1, <3>1, DoublesOnce
  <2>3. Part(n)[n] = 2 * Part(n)[n - 1]
    BY <1>1, <1>3, <2>1 DEF Doubles
  <2> QED  BY <2>1, <2>2, <2>3
<1>4. whole[0] = BackoffStart
  BY <1>1 DEF Doubles
<1>5. Solves(whole)
  BY <1>3, <1>4
<1> HIDE DEF whole
<1>6. Uncapped = CHOOSE f : Solves(f)
  BY DEF Uncapped
<1>7. Solves(Uncapped)
  <2> HIDE DEF Solves
  <2> QED  BY <1>5, <1>6
<1>8. Uncapped[0] = BackoffStart /\ \A n \in Nat : Uncapped[n + 1] = 2 * Uncapped[n]
  <2>1. \A n \in Nat : Uncapped[n] = IF n = 0 THEN BackoffStart ELSE 2 * Uncapped[n - 1]
    BY <1>7
  <2>2. \A n \in Nat : n + 1 \in Nat /\ n + 1 # 0 /\ (n + 1) - 1 = n
    OBVIOUS
  <2> HIDE DEF Solves
  <2> QED  BY <2>1, <2>2
<1> HIDE DEF Solves
<1> DEFINE P == {n \in Nat : Uncapped[n] \in Nat}
<1>9. 0 \in P /\ \A n \in Nat : n \in P => n + 1 \in P
  BY <1>8, PolicyConstants
<1> HIDE DEF P
<1>10. Nat \subseteq P
  BY <1>9, SetInduction
<1> QED  BY <1>8, <1>10 DEF P

LEMMA NextBackoff ==
    ASSUME TypeOK, policy.backoff = Spacing(bumps), [Next]_vars
    PROVE  policy'.backoff = Spacing(bumps')
<1> USE PolicyConstants
<1>1. Doubled(policy.backoff) = Spacing(bumps + 1)
  <2>1. Uncapped[bumps] \in Nat /\ Uncapped[bumps + 1] = 2 * Uncapped[bumps]
    BY UncappedValues DEF TypeOK
  <2> QED  BY <2>1 DEF Doubled, Spacing
<1>2. CASE Connect
  <2>1. policy'.backoff = BackoffStart /\ bumps' = 0
    BY <1>2 DEF Connect, Feed, Advance, Retry, SessionEnd
  <2> QED  BY <2>1, UncappedValues DEF Spacing
<1>3. ASSUME NEW e \in SessionEnd, SessionEnds(e) PROVE policy'.backoff = Spacing(bumps')
  <2>1. policy' = Bump(EndSession(policy)) /\ bumps' = bumps + 1
    BY <1>3 DEF SessionEnds, Feed, Advance, Retry, SessionEnd
  <2>2. policy'.backoff = Doubled(policy.backoff)
    BY <2>1 DEF TypeOK, Bump, EndSession, PolicyState
  <2> QED  BY <1>1, <2>1, <2>2
<1>4. ASSUME NEW f \in ConnFailure, AttemptFails(f) PROVE policy'.backoff = Spacing(bumps')
  <2>1. CASE f = "Auth"
    <3>1. policy' = EndSession(policy) /\ bumps' = bumps
      BY <1>4, <2>1 DEF AttemptFails, Feed, Advance, Retry, SessionEnd
    <3> QED  BY <3>1 DEF TypeOK, EndSession, PolicyState
  <2>2. CASE f = "Fatal"
    <3>1. policy' = [EndSession(policy) EXCEPT !.first_attempt = FALSE] /\ bumps' = bumps
      BY <1>4, <2>2 DEF AttemptFails, Feed, Advance, Retry, SessionEnd
    <3> QED  BY <3>1 DEF TypeOK, EndSession, PolicyState
  <2>3. CASE f = "Transient"
    <3>1. /\ policy' = [Bump(EndSession(policy)) EXCEPT !.first_attempt = FALSE]
          /\ bumps' = bumps + 1
      BY <1>4, <2>3 DEF AttemptFails, Feed, Advance, Retry, SessionEnd
    <3>2. policy'.backoff = Doubled(policy.backoff)
      BY <3>1 DEF TypeOK, Bump, EndSession, PolicyState
    <3> QED  BY <1>1, <3>1, <3>2
  <2> QED  BY <2>1, <2>2, <2>3 DEF ConnFailure
<1>5. ASSUME NEW o \in ProbeOutcome, Probe(o) PROVE policy'.backoff = Spacing(bumps')
  <2>1. policy' = OnProbe(policy, o).state /\ bumps' = bumps
    BY <1>5 DEF Probe, Feed, Advance, Retry, ProbeOutcome, SessionEnd
  <2>2. OnProbe(policy, o).state.backoff = policy.backoff
    BY DEF TypeOK, OnProbe, EndSession, PolicyState
  <2> QED  BY <2>1, <2>2
<1>6. CASE UNCHANGED vars
  BY <1>6 DEF vars
<1> QED  BY <1>2, <1>3, <1>4, <1>5, <1>6 DEF Next

(* The backoff is the base one doubled with every sleep since the last     *)
(* success, up to the cap, for every base and cap and any number of        *)
(* sleeps: bump() loses no doubling and nothing but a success undoes one.  *)
THEOREM BackoffDoubles == Spec => []BackoffIsExponential
<1>1. Init => policy.backoff = Spacing(bumps)
  BY UncappedValues, PolicyConstants DEF Init, New, Spacing
<1>2. /\ TypeOK /\ policy.backoff = Spacing(bumps) /\ [Next]_vars
      => (policy.backoff = Spacing(bumps))'
  BY NextBackoff
<1>3. policy.backoff = Spacing(bumps) => BackoffIsExponential
  BY DEF BackoffIsExponential
<1> QED  BY <1>1, <1>2, <1>3, TypeCorrect, PTL DEF Spec

(* A drop, a due re-mint and a transient failure are answered by a sleep   *)
(* as long as the outage so far asks for, and nothing else is.             *)
LEMMA StepSpacing ==
    ASSUME TypeOK, policy.backoff = Spacing(bumps), Next
    PROVE  IF bumps' > bumps
             THEN action' = Sleep(Spacing(bumps)) /\ ~up'
             ELSE action'.kind # "Sleep"
<1> USE DEF TypeOK, Feed, Advance, Retry, SessionEnd
<1>1. CASE Connect
  <2>1. action' = Await /\ bumps' = 0
    BY <1>1 DEF Connect
  <2> QED  BY <2>1 DEF Await
<1>2. ASSUME NEW e \in SessionEnd, SessionEnds(e)
      PROVE  bumps' > bumps /\ action' = Sleep(Spacing(bumps)) /\ ~up'
  <2>1. action' = Sleep(policy.backoff) /\ bumps' = bumps + 1
    BY <1>2 DEF SessionEnds
  <2>2. ~up'
    BY <1>2, Zenon DEF SessionEnds
  <2> QED  BY <2>1, <2>2
<1>3. ASSUME NEW f \in ConnFailure, AttemptFails(f), f = "Transient"
      PROVE  bumps' > bumps /\ action' = Sleep(Spacing(bumps)) /\ ~up'
  <2>1. action' = Sleep(policy.backoff) /\ bumps' = bumps + 1
    BY <1>3 DEF AttemptFails
  <2>2. ~up'
    BY <1>3, Zenon DEF AttemptFails
  <2> QED  BY <2>1, <2>2
<1>4. ASSUME NEW f \in ConnFailure, AttemptFails(f), f # "Transient"
      PROVE  ~(bumps' > bumps) /\ action'.kind # "Sleep"
  BY <1>4 DEF AttemptFails, ConnFailure, Relogin, Fail
<1>5. ASSUME NEW o \in ProbeOutcome, Probe(o)
      PROVE  ~(bumps' > bumps) /\ action'.kind # "Sleep"
  BY <1>5 DEF Probe, ProbeOutcome, OnProbe, Await, Reconnect
<1> QED  BY <1>1, <1>2, <1>3, <1>4, <1>5 DEF Next

(* Every outcome that is tried again after is answered by a sleep of the   *)
(* base backoff doubled for every sleep since the last success, up to the  *)
(* cap, and no other outcome by a sleep.                                   *)
THEOREM RetrySpacing == Spec => RetriesAreSpaced
<1>1. BackoffIsExponential => policy.backoff = Spacing(bumps)
  BY DEF BackoffIsExponential
<1>2. /\ TypeOK /\ policy.backoff = Spacing(bumps) /\ [Next]_vars
      => [IF bumps' > bumps
            THEN action' = Sleep(Spacing(bumps)) /\ ~up'
            ELSE action'.kind # "Sleep"]_vars
  BY StepSpacing
<1> QED  BY <1>1, <1>2, TypeCorrect, BackoffDoubles, PTL DEF Spec, RetriesAreSpaced

=============================================================================
