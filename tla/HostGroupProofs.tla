--------------------------- MODULE HostGroupProofs ---------------------------
(***************************************************************************)
(* Lemmas about the operators of the keep-alive policy and about the task  *)
(* of a hosted group that runs it: what a call of next(), and each stretch *)
(* of the code between two awaits, makes of a well-typed state, for every  *)
(* policy constant, every set of tunnels and whatever their IDs contain.   *)
(* The proofs about the policy, the engine and the tokens cite them.       *)
(***************************************************************************)
EXTENDS HostGroup, SequenceTheorems, WellFoundedInduction, TLAPS

\* Ending a session and doubling the backoff keep the type of the state.
LEMMA EndSessionType ==
    ASSUME NEW p \in PolicyState
    PROVE  /\ EndSession(p) \in PolicyState
           /\ EndSession(p).backoff = p.backoff
           /\ EndSession(p).connected = FALSE
           /\ EndSession(p).down_streak = 0
<1>1. 0 \in 0 .. ProbeDownThreshold - 1
  BY PolicyConstants
<1>2. EndSession(p) \in PolicyState
  BY <1>1, Zenon DEF PolicyState, EndSession
<1>3. /\ EndSession(p).backoff = p.backoff
      /\ EndSession(p).connected = FALSE
      /\ EndSession(p).down_streak = 0
  BY DEF PolicyState, EndSession
<1> QED  BY <1>2, <1>3

\* next() is total: whatever the outcome, the state keeps its type and the
\* answer is one of the actions.
LEMMA AdvanceType ==
    ASSUME NEW p \in PolicyState, NEW e \in ConnEvent
    PROVE  /\ Advance(p, e).state \in PolicyState
           /\ Advance(p, e).action \in Action
<1>1. /\ Doubled(p.backoff) \in BackoffStart .. BackoffMax
      /\ p.backoff \in BackoffStart .. BackoffMax
  BY PolicyConstants DEF PolicyState, Doubled
<1>2. BackoffStart \in BackoffStart .. BackoffMax /\ 0 \in 0 .. ProbeDownThreshold - 1
  BY PolicyConstants
<1>3. CASE e = "Connected"
  BY <1>2, <1>3 DEF Advance, Retry, PolicyState, Action, SessionEnd
<1>4. CASE e \in SessionEnd
  BY <1>1, <1>2, <1>4 DEF Advance, Retry, PolicyState, Action, SessionEnd, Bump, EndSession
<1>5. CASE e \in ConnFailure
  <2>1. CASE e = "Auth"
    BY <1>2, <2>1 DEF Advance, Retry, PolicyState, Action, SessionEnd, EndSession
  <2>2. CASE e = "Fatal"
    BY <1>2, <2>2 DEF Advance, Retry, PolicyState, Action, SessionEnd, EndSession
  <2>3. CASE e = "Transient"
    BY <1>1, <1>2, <2>3 DEF Advance, Retry, PolicyState, Action, SessionEnd, Bump, EndSession
  <2> QED  BY <1>5, <2>1, <2>2, <2>3 DEF ConnFailure
<1>6. CASE e \in ProbeOutcome
  <2>1. Advance(p, e) = OnProbe(p, e)
    BY <1>6 DEF Advance, Retry, ProbeOutcome, SessionEnd
  <2>2. p.down_streak + 1 < ProbeDownThreshold
          => p.down_streak + 1 \in 0 .. ProbeDownThreshold - 1
    BY PolicyConstants DEF PolicyState
  <2> QED
    <3>1. CASE ~p.connected \/ e # "Down"
      BY <1>2, <2>1, <3>1 DEF OnProbe, PolicyState, Action
    <3>2. CASE p.connected /\ e = "Down" /\ p.down_streak + 1 >= ProbeDownThreshold
      <4>1. Advance(p, e) = [state |-> EndSession(p), action |-> Reconnect]
        BY <2>1, <3>2 DEF OnProbe
      <4>2. EndSession(p) \in PolicyState
        BY EndSessionType
      <4>3. Reconnect \in Action
        BY DEF Action
      <4> QED  BY <4>1, <4>2, <4>3
    <3>3. CASE p.connected /\ e = "Down" /\ ~(p.down_streak + 1 >= ProbeDownThreshold)
      <4>1. p.down_streak + 1 \in 0 .. ProbeDownThreshold - 1
        BY <2>2, <3>3, PolicyConstants DEF PolicyState
      <4>2. Advance(p, e) = [state |-> [p EXCEPT !.down_streak = @ + 1], action |-> Await]
        BY <2>1, <3>3 DEF OnProbe
      <4> QED  BY <4>1, <4>2 DEF PolicyState, Action
    <3> QED  BY <3>1, <3>2, <3>3
<1> QED  BY <1>3, <1>4, <1>5, <1>6 DEF ConnEvent

-----------------------------------------------------------------------------
(* The task. *)

\* A result is well typed, its task is not that of a finished thread, and a
\* task that holds a session has left the first-attempt phase.
GoodResult(r) == /\ r.task \in Task
                 /\ r.task.pc # "finished"
                 /\ r.task.pc = "holding" => Phase(r.task.policy) = "Reconnecting"
                 /\ r.sent \in Seq(SentEvent)

LEMMA NewType == New \in PolicyState
BY PolicyConstants DEF New, PolicyState

LEMMA NoTaskType == /\ NoTask \in Task
                    /\ NoTask.pc = "finished"
                    /\ Gone \in Task
                    /\ Gone.pc = "returned"
BY NewType DEF NoTask, Gone, Task, Point, AwaitPoint

LEMMA NewTaskType ==
    ASSUME NEW ports \in {"none", "some"}
    PROVE  /\ NewTask(ports) \in Task
           /\ NewTask(ports).pc = "starting"
           /\ NewTask(ports).policy = New
BY NewType DEF NewTask, NoTask, Task, Point, AwaitPoint

LEMMA SentType ==
    ASSUME NEW kind \in EventKind
    PROVE  Sent(kind) \in SentEvent
BY DEF Sent, SentEvent

LEMMA SentErrorType ==
    ASSUME NEW msg \in SUBSET Needle
    PROVE  SentError(msg) \in SentEvent
BY DEF SentError, SentEvent, EventKind

LEMMA MessageTypes ==
    ASSUME NEW c \in Cause
    PROVE  /\ SdkMessage(c) \in SUBSET Needle
           /\ \A t \in Tunnels : /\ CliMessage(t, c) \in SUBSET Needle
                                 /\ MintMessage(t, c) \in SUBSET Needle
<1>1. CauseNeedles(c) \in SUBSET Needle
  BY DEF Cause, CauseNeedles, Needle
<1>2. \A t \in Tunnels : IdNeedles[t] \in SUBSET Needle
  BY ErrorConstants
<1>3. \A t \in Tunnels : CliMessage(t, c) \in SUBSET Needle
  BY <1>1, <1>2 DEF CliMessage
<1>4. {"auth"} \in SUBSET Needle
  BY DEF Needle
<1> QED  BY <1>1, <1>3, <1>4 DEF SdkMessage, MintMessage

LEMMA PhaseType ==
    ASSUME NEW p
    PROVE  Phase(p) \in {"Connecting", "Reconnecting"}
BY DEF Phase

\* Short sequences of well-typed events.
LEMMA SeqTypes ==
    /\ <<>> \in Seq(SentEvent)
    /\ \A x \in SentEvent : <<x>> \in Seq(SentEvent)
    /\ \A x, y \in SentEvent : <<x, y>> \in Seq(SentEvent)
OBVIOUS

LEMMA StartFailsGood == GoodResult(StartFails)
<1>1. SentError({}) \in SentEvent
  BY SentErrorType
<1> QED  BY <1>1, SeqTypes, NoTaskType DEF GoodResult, StartFails, Result

\* An attempt shows the phase of the policy and leaves the policy alone.
LEMMA AttemptGood ==
    ASSUME NEW tk \in Task
    PROVE  /\ GoodResult(Attempt(tk))
           /\ Attempt(tk).task.pc \in {"connecting", "minting"}
           /\ Attempt(tk).task.policy = tk.policy
<1>1. Sent(Phase(tk.policy)) \in SentEvent
  BY PhaseType, SentType DEF EventKind
<1>2. Attempt(tk).sent \in Seq(SentEvent)
  BY <1>1, SeqTypes DEF Attempt, Result
<1>3. CASE tk.cached = "some"
  <2>1. Attempt(tk).task = [tk EXCEPT !.pc = "connecting", !.cached = "none", !.tokens = "reused"]
    BY <1>3 DEF Attempt, Result
  <2> QED  BY <1>2, <2>1 DEF GoodResult, Task, Point, AwaitPoint
<1>4. CASE tk.cached # "some"
  <2>1. Attempt(tk).task = [tk EXCEPT !.pc = "minting", !.tokens = "none"]
    BY <1>4 DEF Attempt, Result
  <2> QED  BY <1>2, <2>1 DEF GoodResult, Task, Point, AwaitPoint
<1> QED  BY <1>3, <1>4

LEMMA MintedGood ==
    ASSUME NEW tk \in Task
    PROVE  /\ GoodResult(Minted(tk))
           /\ Minted(tk).task.pc = "connecting"
           /\ Minted(tk).task.policy = tk.policy
BY SeqTypes DEF Minted, Result, GoodResult, Task, Point, AwaitPoint

LEMMA UpGood ==
    ASSUME NEW tk \in Task
    PROVE  /\ GoodResult(Up(tk))
           /\ Up(tk).task.pc = "holding"
<1>1. Advance(tk.policy, "Connected").state \in PolicyState
  BY AdvanceType DEF Task, ConnEvent
<1>2. Sent("Hosting") \in SentEvent
  BY SentType DEF EventKind
<1>3. Up(tk).sent \in Seq(SentEvent)
  BY <1>2, SeqTypes DEF Up, Result
<1>4. Up(tk).task = [tk EXCEPT !.pc = "holding",
                              !.policy = Advance(tk.policy, "Connected").state,
                              !.cached = "some", !.tokens = "none"]
  BY DEF Up, Result
<1>5. Advance(tk.policy, "Connected").state.first_attempt = FALSE
  BY DEF Advance, Retry, SessionEnd
<1>6. /\ Up(tk).task \in Task
      /\ Up(tk).task.pc = "holding"
      /\ Up(tk).task.policy = Advance(tk.policy, "Connected").state
  BY <1>1, <1>4 DEF Task, Point, AwaitPoint
<1> QED  BY <1>3, <1>5, <1>6 DEF GoodResult, Phase

\* With ports to forward the task goes on connecting, without it is up.
LEMMA RelayConnectedGood ==
    ASSUME NEW tk \in Task
    PROVE  /\ GoodResult(RelayConnected(tk))
           /\ \/ RelayConnected(tk).task.pc = "holding"
              \/ /\ RelayConnected(tk).task.pc = "forwarding"
                 /\ RelayConnected(tk).task.policy = tk.policy
<1>1. CASE tk.ports = "some"
  <2>1. RelayConnected(tk) = Result([tk EXCEPT !.pc = "forwarding"], <<>>)
    BY <1>1 DEF RelayConnected
  <2> QED  BY <2>1, SeqTypes DEF Result, GoodResult, Task, Point, AwaitPoint
<1>2. CASE tk.ports # "some"
  BY <1>2, UpGood DEF RelayConnected
<1> QED  BY <1>1, <1>2

\* A failed attempt ends the task or puts it to sleep as a reconnect.
LEMMA FailedGood ==
    ASSUME NEW tk \in Task, NEW msg \in SUBSET Needle
    PROVE  /\ GoodResult(Failed(tk, msg))
           /\ \/ Failed(tk, msg).task.pc = "returned"
              \/ /\ Failed(tk, msg).task.pc = "backoff"
                 /\ Phase(Failed(tk, msg).task.policy) = "Reconnecting"
<1> DEFINE answer == Advance(tk.policy, Classify(msg))
<1>1. Classify(msg) \in ConnFailure
  BY DEF Classify, ConnFailure
<1>2. answer.state \in PolicyState
  BY <1>1, AdvanceType DEF Task, ConnEvent
<1>3. SentError(msg) \in SentEvent /\ Sent("ReloginRequired") \in SentEvent
  BY SentErrorType, SentType DEF EventKind
<1>4. CASE answer.action.kind = "Relogin"
  <2>1. Failed(tk, msg) = Result(Gone, <<Sent("ReloginRequired"), SentError(msg)>>)
    BY <1>4 DEF Failed
  <2>2. <<Sent("ReloginRequired"), SentError(msg)>> \in Seq(SentEvent)
    BY <1>3, SeqTypes
  <2> QED  BY <2>1, <2>2, NoTaskType DEF GoodResult, Result
<1>5. CASE answer.action.kind = "Fail"
  <2>1. Failed(tk, msg) = Result(Gone, <<SentError(msg)>>)
    BY <1>5 DEF Failed
  <2>2. <<SentError(msg)>> \in Seq(SentEvent)
    BY <1>3, SeqTypes
  <2> QED  BY <2>1, <2>2, NoTaskType DEF GoodResult, Result
<1>6. CASE answer.action.kind \notin {"Relogin", "Fail"}
  <2>1. Failed(tk, msg) = Result([tk EXCEPT !.pc = "backoff", !.policy = answer.state,
                                            !.tokens = "none"], <<>>)
    BY <1>6 DEF Failed
  <2>2. Classify(msg) = "Transient"
    BY <1>1, <1>6 DEF ConnFailure, Advance, Retry, SessionEnd, Relogin, Fail
  <2>3. answer.state = [Bump(EndSession(tk.policy)) EXCEPT !.first_attempt = FALSE]
    BY <2>2 DEF Advance, Retry, SessionEnd
  <2>4. Bump(EndSession(tk.policy)) = [EndSession(tk.policy) EXCEPT
                                         !.backoff = Doubled(EndSession(tk.policy).backoff)]
    BY DEF Bump
  <2>5. answer.state.first_attempt = FALSE
    BY <2>3, <2>4, EndSessionType DEF Task, PolicyState
  <2>6. Phase(answer.state) = "Reconnecting"
    BY <2>5 DEF Phase
  <2>7. /\ Failed(tk, msg).task = [tk EXCEPT !.pc = "backoff", !.policy = answer.state,
                                            !.tokens = "none"]
        /\ Failed(tk, msg).sent = <<>>
    BY <2>1 DEF Result
  <2> HIDE DEF answer
  <2>8. /\ Failed(tk, msg).task \in Task
        /\ Failed(tk, msg).task.pc = "backoff"
        /\ Failed(tk, msg).task.policy = answer.state
    BY <1>2, <2>7 DEF Task, Point, AwaitPoint
  <2> QED  BY <2>6, <2>7, <2>8, SeqTypes DEF GoodResult
<1> HIDE DEF answer
<1> QED  BY <1>4, <1>5, <1>6

\* The end of a session puts the task to sleep and keeps the phase.
LEMMA SessionOverGood ==
    ASSUME NEW tk \in Task, NEW e \in SessionEnd
    PROVE  /\ GoodResult(SessionOver(tk, e))
           /\ SessionOver(tk, e).task.pc = "backoff"
           /\ Phase(SessionOver(tk, e).task.policy) = Phase(tk.policy)
<1> DEFINE after == Advance(tk.policy, e).state
<1>1. after \in PolicyState
  BY AdvanceType DEF Task, ConnEvent
<1>2. after = Bump(EndSession(tk.policy))
  BY DEF Advance, Retry, SessionEnd
<1>3. after.first_attempt = tk.policy.first_attempt
  BY <1>2 DEF Bump, EndSession, Task, PolicyState
<1>4. SessionOver(tk, e).task =
        [tk EXCEPT !.pc = "backoff", !.policy = after,
                   !.cached = IF e = "RemintDue" THEN "none" ELSE @]
  BY DEF SessionOver, Result
<1>5. SessionOver(tk, e).sent = <<>>
  BY DEF SessionOver, Result
<1> HIDE DEF after
<1>6. Phase(after) = Phase(tk.policy)
  BY <1>3 DEF Phase
<1> QED  BY <1>1, <1>4, <1>5, <1>6, SeqTypes DEF GoodResult, Task, Point, AwaitPoint

-----------------------------------------------------------------------------
(* Induction on the naturals, for a set rather than for an operator. *)

LEMMA SetInduction ==
    ASSUME NEW P, 0 \in P, \A i \in Nat : i \in P => i + 1 \in P
    PROVE  Nat \subseteq P
<1> DEFINE T == Nat \ P
<1> SUFFICES ASSUME T # {} PROVE FALSE
  OBVIOUS
<1>1. PICK x \in T : \A y \in T : ~(<<y, x>> \in OpToRel(<, Nat))
  BY NatLessThanWellFounded, WFMin
<1>2. x \in Nat /\ x # 0 /\ x - 1 \in Nat
  OBVIOUS
<1>3. <<x - 1, x>> \in OpToRel(<, Nat)
  BY <1>2 DEF OpToRel
<1>4. x - 1 \in P
  BY <1>1, <1>2, <1>3
<1>5. (x - 1) + 1 = x
  BY <1>2
<1>6. x \in P
  BY <1>2, <1>4, <1>5
<1> QED  BY <1>6

=============================================================================
