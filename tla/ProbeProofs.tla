----------------------------- MODULE ProbeProofs -----------------------------
(***************************************************************************)
(* Proofs about the health probe, for every set of ports, every interval   *)
(* the user may set, whatever the services and the Public URLs answer and  *)
(* whatever the host engine reports meanwhile.                             *)
(***************************************************************************)
EXTENDS Probe, SequenceTheorems, WellFoundedInduction, TLAPS

\* What the sleep after a cycle owes to what the cycle has found: a target in
\* trouble has spoiled all_operational, and only a cycle without trouble is
\* followed by a long sleep.  Nothing is left to probe outside a cycle.
CycleInv ==
    /\ pc # "probe" => todo = {}
    /\ pc = "probe" /\ troubled # {} => ~allOk
    /\ pc = "sleep" => steps > 0
    /\ pc = "sleep" /\ troubled # {} => steps <= FastInterval

ProbeInv == ProbeTypeOK /\ CycleInv

-----------------------------------------------------------------------------
(* The badges. *)

\* A nonempty set of positions of a sequence has a last one.
LEMMA LastPosition ==
    ASSUME NEW n \in Nat, NEW S, S \subseteq 1 .. n, S # {}
    PROVE  (CHOOSE i \in S : \A k \in S : k <= i) \in S
<1> DEFINE fromEnd == {n - i : i \in S}
<1>1. fromEnd \subseteq Nat /\ fromEnd # {}
  <2>1. \A i \in S : n - i \in Nat
    OBVIOUS
  <2> QED  BY <2>1
<1>2. PICK x \in fromEnd : \A y \in fromEnd : ~(<<y, x>> \in OpToRel(<, Nat))
  <2> HIDE DEF fromEnd
  <2> QED  BY <1>1, NatLessThanWellFounded, WFMin
<1>3. ASSUME NEW y \in fromEnd PROVE x <= y
  <2>1. x \in Nat /\ y \in Nat
    BY <1>1
  <2>2. y < x => <<y, x>> \in OpToRel(<, Nat)
    BY <2>1 DEF OpToRel
  <2>3. ~(y < x)
    BY <1>2, <2>2
  <2> HIDE DEF fromEnd
  <2> QED  BY <2>1, <2>3
<1>4. PICK i \in S : x = n - i
  OBVIOUS
<1>5. ASSUME NEW k \in S PROVE k <= i
  <2>1. n - k \in fromEnd
    BY DEF fromEnd
  <2>2. n - i <= n - k
    <3> HIDE DEF fromEnd
    <3> QED  BY <1>3, <1>4, <2>1
  <2>3. i \in 1 .. n /\ k \in 1 .. n
    BY ONLY S \subseteq 1 .. n, i \in S, k \in S
  <2> HIDE DEF fromEnd
  <2> QED  BY <2>2, <2>3
<1> HIDE DEF fromEnd
<1> QED  BY <1>5

\* Taking the results keeps the type of the badges.
LEMMA BadgesType ==
    ASSUME results \in Seq([port : Ports, status : Status]),
           NEW before \in [Ports -> {"none", "ok", "warn", "down"}]
    PROVE  Badges(before) \in [Ports -> {"none", "ok", "warn", "down"}]
<1> DEFINE about(p) == {i \in DOMAIN results : results[i].port = p}
           last(p) == CHOOSE i \in about(p) : \A k \in about(p) : k <= i
<1>1. ASSUME NEW p \in Ports, about(p) # {}
      PROVE  BadgeOf(results[last(p)].status) \in {"none", "ok", "warn", "down"}
  <2>1. Len(results) \in Nat /\ about(p) \subseteq 1 .. Len(results)
    OBVIOUS
  <2>2. last(p) \in about(p)
    <3> HIDE DEF about
    <3> QED  BY <1>1, <2>1, LastPosition
  <2>3. last(p) \in 1 .. Len(results)
    <3> HIDE DEF last, about
    <3> QED  BY <2>1, <2>2
  <2>4. results[last(p)] \in [port : Ports, status : Status]
    <3> HIDE DEF last, about
    <3> QED  BY <2>3, ElementOfSeq
  <2> HIDE DEF last, about
  <2> QED  BY <2>4 DEF BadgeOf, Status
<1>2. Badges(before) = [p \in Ports |-> IF about(p) = {} THEN before[p]
                                        ELSE BadgeOf(results[last(p)].status)]
  BY DEF Badges
<1> HIDE DEF last, about
<1> QED  BY <1>1, <1>2

-----------------------------------------------------------------------------
(* Type correctness. *)

LEMMA InitProbeInv == Init => ProbeInv
<1> SUFFICES ASSUME Init PROVE ProbeInv
  OBVIOUS
<1>1. cmds \in Seq(Command) /\ results \in Seq([port : Ports, status : Status])
  BY DEF Init
<1>2. ProbeTypeOK
  <2>1. httpAge \in 0 .. HttpInterval /\ steps \in Nat
    BY ProbeConstants DEF Init
  <2>2. httpDue \in BOOLEAN /\ allOk \in BOOLEAN
    BY Zenon DEF Init
  <2>3. httpCache \in [Ports -> Answer \cup {"none"}]
    BY DEF Init, NoAnswers
  <2> QED  BY <1>1, <2>1, <2>2, <2>3 DEF Init, ProbeTypeOK
<1>3. CycleInv
  BY DEF Init, CycleInv
<1> QED  BY <1>2, <1>3 DEF ProbeInv

\* A step of the user interface or of the services touches the channels and
\* the badges, and nothing the thread owns.
Outside == UNCHANGED threadVars

LEMMA SetTargetsType ==
    ASSUME NEW h PROVE [op |-> "SetTargets", ports |-> HostingTargets(h)] \in Command
BY DEF HostingTargets, Command

LEMMA OutsideType ==
    ASSUME ProbeTypeOK, User \/ PumpEvent \/ PumpResults \/ World
    PROVE  ProbeTypeOK' /\ Outside
<1> USE DEF ProbeTypeOK
<1>1. ASSUME UNCHANGED threadVars,
             listening' \in SUBSET Ports,
             host' \in [Ports -> {"none", "host", "hosting"}],
             badge' \in [Ports -> {"none", "ok", "warn", "down"}],
             cmds' \in Seq(Command),
             results' \in Seq([port : Ports, status : Status])
      PROVE  ProbeTypeOK' /\ Outside
  BY <1>1 DEF threadVars, Outside
<1>2. <<>> \in Seq([port : Ports, status : Status])
  OBVIOUS
<1>3. ASSUME NEW p \in Ports, OnStop(p) PROVE ProbeTypeOK' /\ Outside
  BY <1>1, <1>3 DEF OnStop, uiVars
<1>4. CASE SetInterval
  <2>1. PICK secs \in Intervals : cmds' = Append(cmds, [op |-> "SetInterval", secs |-> secs])
    BY <1>4 DEF SetInterval
  <2>2. [op |-> "SetInterval", secs |-> secs] \in Command
    BY DEF Command
  <2>3. cmds' \in Seq(Command)
    BY <2>1, <2>2
  <2> QED  BY <1>1, <1>4, <2>3 DEF SetInterval, uiVars
<1>5. ASSUME NEW p \in Ports, NEW s \in {"none", "host", "hosting"}, PumpHostEvent(p, s)
      PROVE  ProbeTypeOK' /\ Outside
  <2> DEFINE before == IF s = "none" THEN [badge EXCEPT ![p] = "none"] ELSE badge
  <2>1. before \in [Ports -> {"none", "ok", "warn", "down"}]
    OBVIOUS
  <2>2. badge' \in [Ports -> {"none", "ok", "warn", "down"}]
    <3>1. badge' = Badges(before)
      BY <1>5 DEF PumpHostEvent
    <3> HIDE DEF before
    <3> QED  BY <2>1, <3>1, BadgesType
  <2>3. cmds' \in Seq(Command)
    BY <1>5, SetTargetsType DEF PumpHostEvent
  <2>4. host' \in [Ports -> {"none", "host", "hosting"}]
    BY <1>5 DEF PumpHostEvent
  <2> QED  BY <1>1, <1>2, <1>5, <2>2, <2>3, <2>4 DEF PumpHostEvent
<1>6. CASE PumpLoad
  <2>1. badge' \in [Ports -> {"none", "ok", "warn", "down"}]
    BY <1>6, BadgesType DEF PumpLoad
  <2>2. cmds' \in Seq(Command)
    BY <1>6, SetTargetsType DEF PumpLoad
  <2> QED  BY <1>1, <1>2, <1>6, <2>1, <2>2 DEF PumpLoad
<1>7. CASE PumpResults
  <2>1. badge' \in [Ports -> {"none", "ok", "warn", "down"}]
    BY <1>7, BadgesType DEF PumpResults
  <2> QED  BY <1>1, <1>2, <1>7, <2>1 DEF PumpResults
<1>8. CASE World
  BY <1>1, <1>8 DEF World, Listens, uiVars
<1> QED
  BY <1>3, <1>4, <1>5, <1>6, <1>7, <1>8 DEF User, PumpEvent

\* The command at the head of the channel is obeyed within the types.
LEMMA ObeyType ==
    ASSUME ProbeTypeOK, cmds # <<>>
    PROVE  /\ Head(cmds) \in Command
           /\ Tail(cmds) \in Seq(Command)
           /\ Head(cmds).op = "SetTargets" => Head(cmds).ports \in SUBSET Ports
           /\ Head(cmds).op = "SetInterval" => Head(cmds).secs \in Intervals
           /\ Head(cmds).op \in {"SetTargets", "SetInterval"}
<1>1. Head(cmds) \in Command /\ Tail(cmds) \in Seq(Command)
  BY HeadTailProperties DEF ProbeTypeOK
<1> QED  BY <1>1 DEF Command

LEMMA NoAnswersType == NoAnswers \in [Ports -> Answer \cup {"none"}]
BY DEF NoAnswers

LEMMA OlderType ==
    ASSUME ProbeTypeOK PROVE Older \in 0 .. HttpInterval
BY ProbeConstants DEF ProbeTypeOK, Older

LEMMA ThreadType ==
    ASSUME ProbeInv, Thread
    PROVE  ProbeTypeOK'
<1> USE DEF ProbeInv
<1>1. ASSUME UNCHANGED <<listening, uiVars>>,
             cmds' \in Seq(Command),
             results' \in Seq([port : Ports, status : Status]),
             pc' \in {"drain", "probe", "sleep"},
             targets' \in SUBSET Ports,
             interval' \in Intervals,
             httpCache' \in [Ports -> Answer \cup {"none"}],
             httpAge' \in 0 .. HttpInterval,
             httpDue' \in BOOLEAN,
             todo' \in SUBSET targets',
             allOk' \in BOOLEAN,
             steps' \in Nat,
             troubled' \in SUBSET Ports
      PROVE  ProbeTypeOK'
  BY <1>1 DEF ProbeTypeOK, uiVars
<1>2. CASE TakeCommand
  <2>1. todo' = {}
    BY <1>2 DEF TakeCommand, CycleInv
  <2>2. /\ targets' \in SUBSET Ports
        /\ interval' \in Intervals
        /\ httpCache' \in [Ports -> Answer \cup {"none"}]
        /\ httpAge' \in 0 .. HttpInterval
    BY <1>2, ObeyType, NoAnswersType, ProbeConstants DEF TakeCommand, Obey, ProbeTypeOK
  <2>3. cmds' \in Seq(Command)
    BY <1>2, ObeyType DEF TakeCommand
  <2>4. httpDue' \in BOOLEAN /\ allOk' \in BOOLEAN
    BY <1>2 DEF TakeCommand, ProbeTypeOK
  <2>5. /\ results' \in Seq([port : Ports, status : Status])
        /\ pc' \in {"drain", "probe", "sleep"}
        /\ steps' \in Nat
        /\ troubled' \in SUBSET Ports
        /\ UNCHANGED <<listening, uiVars>>
    BY <1>2 DEF TakeCommand, ProbeTypeOK
  <2> QED  BY <1>1, <2>1, <2>2, <2>3, <2>4, <2>5
<1>3. CASE StartCycle
  <2>1. httpAge' \in 0 .. HttpInterval
    BY <1>3, ProbeConstants DEF StartCycle, ProbeTypeOK
  <2>2. httpDue' \in BOOLEAN /\ allOk' \in BOOLEAN
    <3>1. httpDue' = (httpAge >= HttpInterval) /\ allOk' = TRUE
      BY <1>3 DEF StartCycle
    <3>2. (httpAge >= HttpInterval) \in BOOLEAN
      OBVIOUS
    <3> QED  BY ONLY <3>1, <3>2, Zenon
  <2> QED  BY <1>1, <1>3, <2>1, <2>2 DEF StartCycle, ProbeTypeOK
<1>4. ASSUME NEW p \in Ports, ProbeTarget(p) PROVE ProbeTypeOK'
  <2>1. PICK answer \in IF httpDue THEN Answer ELSE {httpCache[p]} :
               LET status == Combine(p \in listening, answer)
               IN  /\ httpCache' = [httpCache EXCEPT ![p] = answer]
                   /\ results' = Append(results, [port |-> p, status |-> status])
                   /\ allOk' = (allOk /\ status = "Operational")
                   /\ Finds(p, status)
    BY <1>4 DEF ProbeTarget
  <2>2. answer \in Answer \cup {"none"}
    BY <2>1 DEF ProbeTypeOK
  <2>3. Combine(p \in listening, answer) \in Status
    BY DEF Combine, Status
  <2>4. httpCache' \in [Ports -> Answer \cup {"none"}]
    BY <2>1, <2>2 DEF ProbeTypeOK
  <2>5. results' \in Seq([port : Ports, status : Status])
    BY <2>1, <2>3 DEF ProbeTypeOK
  <2>6. allOk' \in BOOLEAN
    BY <2>1, Zenon
  <2>7. httpDue' \in BOOLEAN
    BY <1>4 DEF ProbeTarget, ProbeTypeOK
  <2>8. /\ pc' \in {"drain", "probe", "sleep"}
        /\ steps' \in Nat
        /\ todo' \in SUBSET targets'
        /\ httpAge' \in 0 .. HttpInterval
        /\ targets' \in SUBSET Ports
        /\ interval' \in Intervals
        /\ cmds' \in Seq(Command)
        /\ UNCHANGED <<listening, uiVars>>
    BY <1>4 DEF ProbeTarget, ProbeTypeOK
  <2>9. troubled' \in SUBSET Ports
    BY <2>1 DEF Finds, ProbeTypeOK
  <2> QED  BY <1>1, <2>4, <2>5, <2>6, <2>7, <2>8, <2>9
<1>5. CASE EndCycle
  <2>1. steps' \in Nat
    BY <1>5, ProbeConstants DEF EndCycle, ProbeTypeOK
  <2> QED  BY <1>1, <1>5, <2>1 DEF EndCycle, ProbeTypeOK
<1>6. CASE SleepStep
  <2>1. steps \in Nat /\ steps > 0 /\ todo = {}
    BY <1>6 DEF SleepStep, CycleInv, ProbeTypeOK
  <2>2. steps' \in Nat
    BY <1>6, <2>1, ObeyType DEF SleepStep
  <2>3. /\ targets' \in SUBSET Ports
        /\ interval' \in Intervals
        /\ httpCache' \in [Ports -> Answer \cup {"none"}]
        /\ httpAge' \in 0 .. HttpInterval
    <3>1. CASE cmds = <<>>
      BY <1>6, <3>1, OlderType DEF SleepStep, ProbeTypeOK
    <3>2. CASE cmds # <<>> /\ Head(cmds).op = "SetTargets"
      BY <1>6, <3>2, ObeyType, NoAnswersType, ProbeConstants DEF SleepStep, Obey, ProbeTypeOK
    <3>3. CASE cmds # <<>> /\ Head(cmds).op # "SetTargets"
      BY <1>6, <3>3, ObeyType, OlderType DEF SleepStep, ProbeTypeOK
    <3> QED  BY <3>1, <3>2, <3>3
  <2>4. cmds' \in Seq(Command)
    BY <1>6, ObeyType DEF SleepStep, ProbeTypeOK
  <2>5. httpDue' \in BOOLEAN /\ allOk' \in BOOLEAN
    BY <1>6 DEF SleepStep, ProbeTypeOK
  <2>6. /\ results' \in Seq([port : Ports, status : Status])
        /\ pc' \in {"drain", "probe", "sleep"}
        /\ todo' = {}
        /\ troubled' \in SUBSET Ports
        /\ UNCHANGED <<listening, uiVars>>
    BY <1>6, <2>1 DEF SleepStep, ProbeTypeOK
  <2> QED  BY <1>1, <2>2, <2>3, <2>4, <2>5, <2>6
<1> QED  BY <1>2, <1>3, <1>4, <1>5, <1>6 DEF Thread

LEMMA NextProbeType == ProbeInv /\ [Next]_vars => ProbeTypeOK'
<1>1. ASSUME ProbeInv, UNCHANGED vars PROVE ProbeTypeOK'
  BY <1>1 DEF ProbeInv, ProbeTypeOK, vars, uiVars, threadVars
<1> QED  BY <1>1, OutsideType, ThreadType DEF Next, ProbeInv

-----------------------------------------------------------------------------
(* Trouble shortens the sleep. *)

LEMMA OutsideCycle == CycleInv /\ (Outside \/ UNCHANGED vars) => CycleInv'
BY DEF Outside, CycleInv, vars, threadVars

\* A target that is found in trouble spoils all_operational.
LEMMA TargetSpoils ==
    ASSUME NEW p \in Ports, ProbeTarget(p), troubled # {} => ~allOk
    PROVE  troubled' # {} => ~allOk'
<1>1. PICK status : /\ allOk' = (allOk /\ status = "Operational")
                    /\ Finds(p, status)
  BY DEF ProbeTarget
<1>2. CASE status = "Operational"
  <2>1. troubled' = troubled
    BY <1>1, <1>2 DEF Finds
  <2>2. allOk' => allOk
    BY <1>1, Zenon
  <2> QED  BY <2>1, <2>2
<1>3. CASE status # "Operational"
  <2>1. ~allOk'
    BY <1>1, <1>3, Zenon
  <2> QED  BY <2>1
<1> QED  BY <1>2, <1>3

LEMMA ThreadCycle ==
    ASSUME ProbeInv, Thread
    PROVE  CycleInv'
<1> USE DEF ProbeInv
<1>1. CASE TakeCommand
  BY <1>1 DEF TakeCommand, CycleInv
<1>2. CASE StartCycle
  BY <1>2 DEF StartCycle, CycleInv
<1>3. ASSUME NEW p \in Ports, ProbeTarget(p) PROVE CycleInv'
  <2>1. pc = "probe" /\ pc' = "probe"
    BY <1>3 DEF ProbeTarget
  <2>2. troubled' # {} => ~allOk'
    BY <1>3, <2>1, TargetSpoils DEF CycleInv
  <2> QED  BY <2>1, <2>2 DEF CycleInv
<1>4. CASE EndCycle
  <2>1. /\ pc = "probe" /\ todo' = {} /\ pc' = "sleep"
        /\ troubled' = troubled
        /\ steps' = IF allOk THEN interval ELSE FastInterval
    BY <1>4 DEF EndCycle
  <2>2. steps' > 0
    BY <2>1, ProbeConstants DEF ProbeTypeOK
  <2>3. troubled' # {} => steps' <= FastInterval
    BY <2>1, ProbeConstants DEF CycleInv
  <2> QED  BY <2>1, <2>2, <2>3 DEF CycleInv
<1>5. CASE SleepStep
  <2>1. /\ pc = "sleep" /\ todo' = {}
        /\ steps \in Nat /\ steps > 0
        /\ pc' = IF steps' = 0 THEN "drain" ELSE "sleep"
        /\ troubled' = IF steps' = 0 THEN {} ELSE troubled
    BY <1>5 DEF SleepStep, CycleInv, ProbeTypeOK
  <2>2. CASE steps' = 0
    BY <2>1, <2>2 DEF CycleInv
  <2>3. CASE steps' # 0
    <3>1. steps' = steps - 1
      BY <1>5, <2>3, ObeyType DEF SleepStep
    <3>2. steps' > 0
      BY <2>1, <2>3, <3>1
    <3>3. troubled' # {} => steps' <= FastInterval
      BY <2>1, <3>1, ProbeConstants DEF CycleInv
    <3> QED  BY <2>1, <2>3, <3>2, <3>3 DEF CycleInv
  <2> QED  BY <2>2, <2>3
<1> QED  BY <1>1, <1>2, <1>3, <1>4, <1>5 DEF Thread

LEMMA NextCycle == ProbeInv /\ [Next]_vars => CycleInv'
<1>1. ASSUME ProbeInv, User \/ PumpEvent \/ PumpResults \/ World PROVE CycleInv'
  BY <1>1, OutsideType, OutsideCycle DEF ProbeInv
<1> QED  BY <1>1, ThreadCycle, OutsideCycle DEF Next, ProbeInv

LEMMA ProbeInvHolds == Spec => []ProbeInv
<1>1. ProbeInv /\ [Next]_vars => ProbeInv'
  BY NextProbeType, NextCycle DEF ProbeInv
<1> QED  BY InitProbeInv, <1>1, PTL DEF Spec

(* The probe keeps its types: in particular the sleep never counts below   *)
(* zero, a cycle never probes what is not its target, and every badge is   *)
(* one of the four.                                                        *)
THEOREM ProbeTypeCorrect == Spec => []ProbeTypeOK
<1>1. ProbeInv => ProbeTypeOK
  BY DEF ProbeInv
<1> QED  BY <1>1, ProbeInvHolds, PTL

(* A cycle that found a target in trouble, its local port down or its      *)
(* Public URL answered by the gateway, is followed by the next one within  *)
(* the fast interval, however many targets there are and in whatever order *)
(* they are probed, and whatever interval the user sets, before the cycle  *)
(* or during the sleep.                                                    *)
THEOREM TroubleRechecked == Spec => []TroubleIsRecheckedSoon
<1>1. ProbeInv => TroubleIsRecheckedSoon
  BY DEF ProbeInv, CycleInv, TroubleIsRecheckedSoon
<1> QED  BY <1>1, ProbeInvHolds, PTL

=============================================================================
