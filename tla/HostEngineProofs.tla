--------------------------- MODULE HostEngineProofs ---------------------------
(***************************************************************************)
(* Proofs about the host engine and its two clients, the headless runner   *)
(* and the session of the window, for any number of tunnels and threads,   *)
(* for channels of any bound, and, but for OnlyTheGoneArePruned, whatever  *)
(* the Tunnel IDs contain.                                                 *)
(***************************************************************************)
EXTENDS HeadlessRunner, HostSession, HostGroupProofs, FiniteSetTheorems

-----------------------------------------------------------------------------
(* Types of what is sent. *)

LEMMA TaggedType ==
    ASSUME NEW t \in Tunnels, NEW sent \in Seq(SentEvent)
    PROVE  Tagged(t, sent) \in Seq(Event)
<1>1. DOMAIN sent = 1 .. Len(sent) /\ Len(sent) \in Nat
  BY LenProperties
<1>2. \A i \in 1 .. Len(sent) :
         [tunnel |-> t, kind |-> sent[i].kind, msg |-> sent[i].msg] \in Event
  <2> SUFFICES ASSUME NEW i \in 1 .. Len(sent)
               PROVE  [tunnel |-> t, kind |-> sent[i].kind, msg |-> sent[i].msg] \in Event
    OBVIOUS
  <2>1. sent[i] \in SentEvent
    BY ElementOfSeq
  <2> QED  BY <2>1 DEF SentEvent, Event
<1>3. Tagged(t, sent) \in [1 .. Len(sent) -> Event]
  BY <1>1, <1>2 DEF Tagged
<1> QED  BY <1>1, <1>3, SeqDef

LEMMA EmitType ==
    ASSUME events \in Seq(Event), NEW t \in Tunnels, NEW sent \in Seq(SentEvent), Emit(t, sent)
    PROVE  events' \in Seq(Event)
BY TaggedType, ConcatProperties DEF Emit

-----------------------------------------------------------------------------
(* The invariant.  A handle in the map is that of a thread of its own      *)
(* tunnel that nobody has cancelled; the command thread fetches ports only *)
(* for a tunnel it found not to be live; a running thread has a tunnel; a  *)
(* task that holds a session is past its first attempt.                    *)

HandlesMatch == \A t \in Tunnels : groups[t] # None =>
                    /\ tunnel[groups[t]] = t
                    /\ groups[t] \notin cancelled
FetchesForTheDead == fetching # None => ~Live(fetching)
HoldingHasBeenUp == \A th \in Threads :
                        At(th, "holding") => Phase(task[th].policy) = "Reconnecting"
RunningHaveTunnel == \A th \in Threads : ~Finished(th) => tunnel[th] \in Tunnels

EngineInv == /\ EngineTypeOK
             /\ HandlesMatch
             /\ FetchesForTheDead
             /\ RunningHaveTunnel
             /\ HoldingHasBeenUp
             /\ StraysAreCancelled

LEMMA InitEngineInv == EngineInit => EngineInv
<1> SUFFICES ASSUME EngineInit PROVE EngineInv
  OBVIOUS
<1>1. EngineTypeOK
  BY NoTaskType DEF EngineInit, EngineTypeOK
<1>2. \A th \in Threads : Finished(th)
  BY NoTaskType DEF EngineInit, Finished
<1>3. HandlesMatch /\ FetchesForTheDead
  BY DEF EngineInit, HandlesMatch, FetchesForTheDead
<1>4. RunningHaveTunnel /\ StraysAreCancelled
  BY <1>2 DEF RunningHaveTunnel, StraysAreCancelled, Stray
<1>5. HoldingHasBeenUp
  BY NoTaskType DEF EngineInit, HoldingHasBeenUp, At
<1> QED  BY <1>1, <1>3, <1>4, <1>5 DEF EngineInv

-----------------------------------------------------------------------------
(* The phase of a tunnel in HostLifecycle is that of the task its handle   *)
(* points to. *)

TaskPhase(tk) == CASE tk.pc \in {"returned", "finished"} -> "failed"
                   [] tk.pc = "holding" -> "hosting"
                   [] OTHER -> IF Phase(tk.policy) = "Connecting" THEN "connecting"
                                                                  ELSE "reconnecting"

LEMMA PhaseOfTask ==
    ASSUME NEW t \in Tunnels
    PROVE  /\ PhaseOf(t) = IF groups[t] = None THEN "none" ELSE TaskPhase(task[groups[t]])
           /\ PhaseOf(t)' = IF groups'[t] = None THEN "none" ELSE TaskPhase(task'[groups'[t]])
BY DEF PhaseOf, TaskPhase

\* How a resumption moves the phase of a task: never out of the failed phase,
\* out of hosting only to a reconnect, into hosting only from an attempt.
PhaseMoves(from, to) ==
    \/ from = to
    \/ from = "connecting" /\ to \in {"reconnecting", "hosting", "failed"}
    \/ from = "reconnecting" /\ to \in {"hosting", "failed"}
    \/ from = "hosting" /\ to = "reconnecting"

\* A task between a Host and its session or its end.
LEMMA TryingPhase ==
    ASSUME NEW tk, tk.pc \in Point \ {"holding", "returned", "finished"}
    PROVE  /\ TaskPhase(tk) \in {"connecting", "reconnecting"}
           /\ Phase(tk.policy) = "Reconnecting" => TaskPhase(tk) = "reconnecting"
           /\ \A other : other.pc \in Point \ {"holding", "returned", "finished"}
                          /\ other.policy = tk.policy => TaskPhase(other) = TaskPhase(tk)
BY DEF TaskPhase, Phase

LEMMA SettledPhase ==
    ASSUME NEW tk
    PROVE  /\ tk.pc = "holding" => TaskPhase(tk) = "hosting"
           /\ tk.pc \in {"returned", "finished"} => TaskPhase(tk) = "failed"
BY DEF TaskPhase

-----------------------------------------------------------------------------
(* What a thread's step between two awaits does: its task goes on, events  *)
(* are sent, and everything the command thread relies on stays. *)

LEMMA ResumeStep ==
    ASSUME EngineTypeOK, RunningHaveTunnel, NEW th \in Threads, NEW r,
           GoodResult(r), ~Finished(th), Resume(th, r), dropping' \in SUBSET Threads
    PROVE  /\ EngineTypeOK'
           /\ task'[th] = r.task
           /\ \A o \in Threads : Finished(o)' <=> Finished(o)
           /\ \A o \in Threads \ {th} : task'[o] = task[o]
           /\ UNCHANGED <<commandVars, tunnel, cancelled>>
<1>1. task' = [task EXCEPT ![th] = r.task] /\ r.task \in Task /\ r.task.pc # "finished"
  BY DEF Resume, GoodResult
<1>2. tunnel[th] \in Tunnels
  BY DEF RunningHaveTunnel
<1>3. events' \in Seq(Event)
  BY <1>2, EmitType DEF Resume, GoodResult, EngineTypeOK
<1>4. lastPass' \in SUBSET Threads
  BY DEF Resume, EngineTypeOK
<1>5. task' \in [Threads -> Task] /\ task'[th] = r.task
      /\ \A o \in Threads \ {th} : task'[o] = task[o]
  BY <1>1 DEF EngineTypeOK
<1>6. UNCHANGED <<commandVars, tunnel, cancelled>>
  BY DEF Resume
<1>7. EngineTypeOK'
  BY <1>3, <1>4, <1>5, <1>6 DEF EngineTypeOK, commandVars
<1>8. \A o \in Threads : Finished(o)' <=> Finished(o)
  BY <1>1, <1>5 DEF Finished
<1> QED  BY <1>5, <1>6, <1>7, <1>8

\* An awaiting task is not finished, so a resumed thread never was.
LEMMA AtRunning ==
    ASSUME NEW th \in Threads, task[th].pc \in AwaitPoint \cup {"starting", "returned"}
    PROVE  ~Finished(th)
BY DEF AwaitPoint, Finished

\* The steps of a thread that are resumptions, what each resumes with, and how
\* it moves the phase.
LEMMA ThreadResumes ==
    ASSUME EngineTypeOK, RunningHaveTunnel, HoldingHasBeenUp,
           NEW th \in Threads, GroupThread(th)
    PROVE  \/ WindDown(th)
           \/ ThreadExit(th)
           \/ \E r : /\ Resume(th, r) /\ GoodResult(r) /\ ~Finished(th)
                     /\ dropping' \in SUBSET Threads
                     /\ PhaseMoves(TaskPhase(task[th]), TaskPhase(r.task))
<1> DEFINE Resumes(r) == /\ Resume(th, r) /\ GoodResult(r) /\ ~Finished(th)
                         /\ dropping' \in SUBSET Threads
                         /\ PhaseMoves(TaskPhase(task[th]), TaskPhase(r.task))
<1>0. task[th] \in Task /\ dropping \in SUBSET Threads
  BY DEF EngineTypeOK
<1>1. CASE BuildFails(th)
  <2>1. ~Finished(th) /\ TaskPhase(task[th]) \in {"connecting", "reconnecting"}
    BY <1>1, AtRunning, TryingPhase DEF BuildFails, At, Point
  <2>2. TaskPhase(StartFails.task) = "failed"
    BY NoTaskType, SettledPhase DEF StartFails, Result
  <2>3. Resumes(StartFails)
    BY <1>0, <1>1, <2>1, <2>2, StartFailsGood DEF BuildFails, PhaseMoves
  <2> QED  BY <2>3
<1>2. CASE Begin(th)
  <2>1. /\ ~Finished(th)
        /\ task[th].pc \in Point \ {"holding", "returned", "finished"}
    BY <1>2, AtRunning DEF Begin, Point, AwaitPoint
  <2>2. /\ GoodResult(Attempt(task[th]))
        /\ TaskPhase(Attempt(task[th]).task) = TaskPhase(task[th])
    BY <1>0, <2>1, AttemptGood, TryingPhase DEF Point, AwaitPoint
  <2>3. Resumes(Attempt(task[th]))
    BY <1>0, <1>2, <2>1, <2>2 DEF Begin, PhaseMoves
  <2> QED  BY <2>3
<1>3. CASE MintDone(th)
  <2>1. /\ ~Finished(th)
        /\ task[th].pc \in Point \ {"holding", "returned", "finished"}
    BY <1>3, AtRunning DEF MintDone, At, Point, AwaitPoint
  <2>2. /\ GoodResult(Minted(task[th]))
        /\ TaskPhase(Minted(task[th]).task) = TaskPhase(task[th])
    BY <1>0, <2>1, MintedGood, TryingPhase DEF Point, AwaitPoint
  <2>3. Resumes(Minted(task[th]))
    BY <1>0, <1>3, <2>1, <2>2 DEF MintDone, PhaseMoves
  <2> QED  BY <2>3
<1> DEFINE Failure(msg) == Failed(task[th], msg)
<1>4. ASSUME NEW msg \in SUBSET Needle, Resume(th, Failure(msg)), UNCHANGED dropping,
             task[th].pc \in {"minting", "connecting", "forwarding"}
      PROVE  Resumes(Failure(msg))
  <2>1. ~Finished(th) /\ TaskPhase(task[th]) \in {"connecting", "reconnecting"}
    BY <1>4, AtRunning, TryingPhase DEF Point, AwaitPoint
  <2>2. /\ GoodResult(Failure(msg))
        /\ TaskPhase(Failure(msg).task) \in {"reconnecting", "failed"}
    BY <1>0, FailedGood, TryingPhase, SettledPhase DEF Point, AwaitPoint
  <2> QED  BY <1>0, <1>4, <2>1, <2>2 DEF PhaseMoves
<1>5. CASE MintFails(th)
  <2>1. ~Finished(th)
    BY <1>5, AtRunning DEF MintFails, At, AwaitPoint
  <2>2. tunnel[th] \in Tunnels
    BY <2>1 DEF RunningHaveTunnel
  <2>3. PICK c \in Causes : Resume(th, Failure(MintMessage(tunnel[th], c)))
    BY <1>5 DEF MintFails
  <2>4. MintMessage(tunnel[th], c) \in SUBSET Needle
    BY <2>2, MessageTypes, ErrorConstants
  <2>5. Resumes(Failure(MintMessage(tunnel[th], c)))
    BY <1>4, <1>5, <2>3, <2>4 DEF MintFails, At
  <2> QED  BY <2>5
<1>6. CASE ConnectFails(th)
  <2>1. PICK c \in Causes : Resume(th, Failure(SdkMessage(c)))
    BY <1>6 DEF ConnectFails
  <2>2. SdkMessage(c) \in SUBSET Needle
    BY MessageTypes, ErrorConstants
  <2>3. Resumes(Failure(SdkMessage(c)))
    BY <1>4, <1>6, <2>1, <2>2 DEF ConnectFails
  <2> QED  BY <2>3
<1>7. CASE ConnectDone(th)
  <2> DEFINE r == RelayConnected(task[th])
  <2>1. /\ ~Finished(th)
        /\ task[th].pc \in Point \ {"holding", "returned", "finished"}
    BY <1>7, AtRunning DEF ConnectDone, At, Point, AwaitPoint
  <2>2. /\ GoodResult(r)
        /\ TaskPhase(r.task) \in {"hosting", TaskPhase(task[th])}
    BY <1>0, <2>1, RelayConnectedGood, TryingPhase, SettledPhase DEF Point, AwaitPoint
  <2>3. TaskPhase(task[th]) \in {"connecting", "reconnecting"}
    BY <2>1, TryingPhase
  <2>4. Resumes(r)
    BY <1>0, <1>7, <2>1, <2>2, <2>3 DEF ConnectDone, PhaseMoves
  <2> QED  BY <2>4
<1>8. CASE ForwardDone(th)
  <2>1. ~Finished(th) /\ TaskPhase(task[th]) \in {"connecting", "reconnecting"}
    BY <1>8, AtRunning, TryingPhase DEF ForwardDone, At, Point, AwaitPoint
  <2>2. GoodResult(Up(task[th])) /\ TaskPhase(Up(task[th]).task) = "hosting"
    BY <1>0, UpGood, SettledPhase
  <2>3. Resumes(Up(task[th]))
    BY <1>0, <1>8, <2>1, <2>2 DEF ForwardDone, PhaseMoves
  <2> QED  BY <2>3
<1>9. ASSUME NEW e \in SessionEnd, At(th, "holding"), Resume(th, SessionOver(task[th], e)),
             dropping' \in SUBSET Threads
      PROVE  Resumes(SessionOver(task[th], e))
  <2>1. /\ ~Finished(th)
        /\ TaskPhase(task[th]) = "hosting"
        /\ Phase(task[th].policy) = "Reconnecting"
    BY <1>9, AtRunning, SettledPhase DEF At, AwaitPoint, HoldingHasBeenUp
  <2>2. /\ GoodResult(SessionOver(task[th], e))
        /\ TaskPhase(SessionOver(task[th], e).task) = "reconnecting"
    BY <1>0, <2>1, SessionOverGood, TryingPhase DEF Point, AwaitPoint
  <2> QED  BY <1>9, <2>1, <2>2 DEF PhaseMoves
<1>10. CASE SessionEnds(th)
  <2>1. PICK e \in SessionEnd : Resume(th, SessionOver(task[th], e))
    BY <1>10 DEF SessionEnds
  <2>2. Resumes(SessionOver(task[th], e))
    BY <1>0, <1>9, <1>10, <2>1 DEF SessionEnds
  <2> QED  BY <2>2
<1>11. CASE ForcedDrop(th)
  <2>1. dropping' \in SUBSET Threads /\ "RelayDropped" \in SessionEnd
    BY <1>0, <1>11 DEF ForcedDrop, SessionEnd
  <2>2. Resumes(SessionOver(task[th], "RelayDropped"))
    BY <1>9, <1>11, <2>1 DEF ForcedDrop
  <2> QED  BY <2>2
<1> QED
  BY <1>1, <1>2, <1>3, <1>5, <1>6, <1>7, <1>8, <1>10, <1>11 DEF GroupThread

-----------------------------------------------------------------------------
(* The invariant is inductive. *)

\* A resumption only changes a task that runs on.
LEMMA ResumeInv ==
    ASSUME EngineInv, NEW th \in Threads, NEW r,
           GoodResult(r), ~Finished(th), Resume(th, r), dropping' \in SUBSET Threads
    PROVE  EngineInv'
<1>1. /\ EngineTypeOK'
      /\ \A o \in Threads : Finished(o)' <=> Finished(o)
      /\ task'[th] = r.task
      /\ \A o \in Threads \ {th} : task'[o] = task[o]
      /\ UNCHANGED <<fetching, groups, tunnel, cancelled>>
  BY ResumeStep DEF EngineInv, commandVars
<1>2. HandlesMatch'
  BY <1>1 DEF EngineInv, HandlesMatch
<1>3. FetchesForTheDead'
  BY <1>1 DEF EngineInv, EngineTypeOK, FetchesForTheDead, Live
<1>4. RunningHaveTunnel'
  BY <1>1 DEF EngineInv, RunningHaveTunnel
<1>5. StraysAreCancelled'
  BY <1>1 DEF EngineInv, StraysAreCancelled, Stray
<1>6. HoldingHasBeenUp'
  BY <1>1 DEF EngineInv, HoldingHasBeenUp, At, GoodResult
<1> QED  BY <1>1, <1>2, <1>3, <1>4, <1>5, <1>6 DEF EngineInv

LEMMA WindDownInv ==
    ASSUME EngineInv, NEW th \in Threads, WindDown(th)
    PROVE  EngineInv'
<1>1. task' = [task EXCEPT ![th] = Gone] /\ ~Finished(th)
  BY AtRunning DEF WindDown
<1>2. /\ UNCHANGED <<cmds, fetching, groups, tunnel, cancelled, dropping, lastPass, events>>
      /\ task' \in [Threads -> Task]
  BY <1>1, NoTaskType DEF WindDown, EngineInv, EngineTypeOK, commandVars
<1>3. EngineTypeOK'
  BY <1>2 DEF EngineInv, EngineTypeOK
<1>4. \A o \in Threads : Finished(o)' <=> Finished(o)
  BY <1>1, NoTaskType DEF EngineInv, EngineTypeOK, Finished
<1>5. HandlesMatch'
  BY <1>2 DEF EngineInv, HandlesMatch
<1>6. FetchesForTheDead'
  BY <1>2, <1>4 DEF EngineInv, EngineTypeOK, FetchesForTheDead, Live
<1>7. RunningHaveTunnel' /\ StraysAreCancelled'
  BY <1>2, <1>4 DEF EngineInv, RunningHaveTunnel, StraysAreCancelled, Stray
<1>8. HoldingHasBeenUp'
  BY <1>1, NoTaskType DEF EngineInv, EngineTypeOK, HoldingHasBeenUp, At
<1> QED  BY <1>3, <1>5, <1>6, <1>7, <1>8 DEF EngineInv

LEMMA ThreadExitInv ==
    ASSUME EngineInv, NEW th \in Threads, ThreadExit(th)
    PROVE  EngineInv'
<1>1. task' = [task EXCEPT ![th] = NoTask] /\ cancelled' = cancelled \ {th}
  BY DEF ThreadExit
<1>2. /\ UNCHANGED <<cmds, fetching, groups, tunnel, events>>
      /\ task' \in [Threads -> Task]
  BY <1>1, NoTaskType DEF ThreadExit, EngineInv, EngineTypeOK, commandVars
<1>3. EngineTypeOK'
  BY <1>2 DEF EngineInv, EngineTypeOK, ThreadExit
<1>4. /\ Finished(th)'
      /\ \A o \in Threads \ {th} : Finished(o)' <=> Finished(o)
  BY <1>1, NoTaskType DEF EngineInv, EngineTypeOK, Finished
<1>5. HandlesMatch'
  BY <1>1, <1>2 DEF EngineInv, HandlesMatch
<1>6. FetchesForTheDead'
  BY <1>2, <1>4 DEF EngineInv, EngineTypeOK, FetchesForTheDead, Live
<1>7. RunningHaveTunnel'
  BY <1>2, <1>4 DEF EngineInv, RunningHaveTunnel
<1>8. StraysAreCancelled'
  BY <1>1, <1>2, <1>4 DEF EngineInv, StraysAreCancelled, Stray
<1>9. HoldingHasBeenUp'
  BY <1>1, NoTaskType DEF EngineInv, EngineTypeOK, HoldingHasBeenUp, At
<1> QED  BY <1>3, <1>5, <1>6, <1>7, <1>8, <1>9 DEF EngineInv

LEMMA ReceiveType ==
    ASSUME EngineTypeOK, NEW op, NEW t, Receive(op, t)
    PROVE  cmds' \in Seq(Command)
BY HeadTailProperties DEF EngineTypeOK, Receive

\* The steps of the command thread that change no handle and no thread.
LEMMA NoHandleInv ==
    ASSUME EngineInv, EngineTypeOK', FetchesForTheDead',
           UNCHANGED <<groups, tunnel, task, cancelled>>
    PROVE  EngineInv'
BY DEF EngineInv, HandlesMatch, RunningHaveTunnel, HoldingHasBeenUp, StraysAreCancelled,
       Stray, Finished, At

LEMMA FetchFailsEvents ==
    ASSUME EngineTypeOK, NEW t \in Tunnels, FetchFails(t)
    PROVE  events' \in Seq(Event)
<1>1. PICK c \in Causes :
         Emit(t, (IF IsAuthError(CliMessage(t, c)) THEN <<Sent("ReloginRequired")>> ELSE <<>>)
                     \o <<SentError(CliMessage(t, c))>>)
  BY DEF FetchFails
<1> DEFINE msg == CliMessage(t, c)
           first == IF IsAuthError(msg) THEN <<Sent("ReloginRequired")>> ELSE <<>>
<1>2. msg \in SUBSET Needle
  BY MessageTypes, ErrorConstants
<1> HIDE DEF msg
<1>3. first \in Seq(SentEvent)
  BY SeqTypes, SentType DEF EventKind
<1>4. <<SentError(msg)>> \in Seq(SentEvent)
  BY <1>2, SeqTypes, SentErrorType
<1> HIDE DEF first
<1>5. first \o <<SentError(msg)>> \in Seq(SentEvent)
  BY <1>3, <1>4, ConcatProperties
<1>6. Emit(t, first \o <<SentError(msg)>>)
  BY <1>1 DEF first, msg
<1> QED  BY <1>5, <1>6, EmitType DEF EngineTypeOK

LEMMA SpawnInv ==
    ASSUME EngineInv, NEW t \in Tunnels, SpawnGroup(t)
    PROVE  EngineInv'
<1>1. PICK th \in Threads, ports \in {"none", "some"} :
         /\ Unused(th)
         /\ groups' = [groups EXCEPT ![t] = th]
         /\ tunnel' = [tunnel EXCEPT ![th] = t]
         /\ task' = [task EXCEPT ![th] = NewTask(ports)]
         /\ cancelled' = cancelled \ {th}
         /\ dropping' = dropping \ {th}
         /\ lastPass' = lastPass \ {th}
  BY DEF SpawnGroup
<1>2. /\ fetching = t /\ fetching' = None /\ UNCHANGED <<cmds, events>>
  BY DEF SpawnGroup
<1>3. EngineTypeOK'
  BY <1>1, <1>2, NewTaskType DEF EngineInv, EngineTypeOK
<1>4. /\ Finished(th)
      /\ \A u \in Tunnels \ {t} : groups[u] # th
  BY <1>1, <1>2 DEF Unused
<1>5. \A u \in Tunnels : /\ groups'[u] = IF u = t THEN th ELSE groups[u]
  BY <1>1 DEF EngineInv, EngineTypeOK
<1>6. \A o \in Threads : /\ tunnel'[o] = IF o = th THEN t ELSE tunnel[o]
                         /\ task'[o] = IF o = th THEN NewTask(ports) ELSE task[o]
  BY <1>1 DEF EngineInv, EngineTypeOK
<1>7. th # None
  BY EngineConstants
<1>8. HandlesMatch'
  BY <1>1, <1>4, <1>5, <1>6, <1>7 DEF EngineInv, EngineTypeOK, HandlesMatch
<1>9. FetchesForTheDead'
  BY <1>2 DEF FetchesForTheDead
<1>10. RunningHaveTunnel'
  BY <1>6 DEF EngineInv, RunningHaveTunnel, Finished
<1>11. StraysAreCancelled'
  <2> SUFFICES ASSUME NEW o \in Threads, Stray(o)' PROVE o \in cancelled'
    BY DEF StraysAreCancelled
  <2>1. o # th
    BY <1>5, <1>6 DEF Stray
  <2>2. ~Finished(o) /\ tunnel'[o] = tunnel[o] /\ tunnel[o] \in Tunnels
    BY <1>6, <2>1 DEF EngineInv, RunningHaveTunnel, Stray, Finished
  <2>3. CASE tunnel[o] = t
    <3>1. groups[t] # o
      BY <1>2, <2>2, EngineConstants DEF EngineInv, FetchesForTheDead, Live
    <3> QED  BY <1>1, <2>1, <2>2, <2>3, <3>1 DEF EngineInv, StraysAreCancelled, Stray
  <2>4. CASE tunnel[o] # t
    <3>1. groups[tunnel[o]] # o
      BY <1>5, <2>2, <2>4 DEF Stray
    <3> QED  BY <1>1, <2>1, <2>2, <3>1 DEF EngineInv, StraysAreCancelled, Stray
  <2> QED  BY <2>3, <2>4
<1>12. HoldingHasBeenUp'
  BY <1>6, NewTaskType DEF EngineInv, HoldingHasBeenUp, At
<1> QED  BY <1>3, <1>8, <1>9, <1>10, <1>11, <1>12 DEF EngineInv

LEMMA StopInv ==
    ASSUME EngineInv, NEW t \in Tunnels, StopGroup(t)
    PROVE  EngineInv'
<1>1. /\ cancelled' = IF groups[t] # None THEN cancelled \cup {groups[t]} ELSE cancelled
      /\ groups' = [groups EXCEPT ![t] = None]
      /\ fetching = None
      /\ UNCHANGED <<fetching, tunnel, task, dropping, lastPass>>
  BY DEF StopGroup, Receive
<1>2. Sent("Stopped") \in SentEvent
  BY SentType DEF EventKind
<1>3. events' \in Seq(Event)
  BY <1>2, SeqTypes, EmitType DEF StopGroup, EngineInv, EngineTypeOK
<1>4. cmds' \in Seq(Command)
  BY ReceiveType DEF StopGroup, EngineInv
<1>5. EngineTypeOK'
  BY <1>1, <1>3, <1>4 DEF EngineInv, EngineTypeOK
<1>6. HandlesMatch'
  BY <1>1 DEF EngineInv, EngineTypeOK, HandlesMatch
<1>7. FetchesForTheDead'
  BY <1>1 DEF FetchesForTheDead
<1>8. RunningHaveTunnel'
  BY <1>1 DEF EngineInv, RunningHaveTunnel, Finished
<1>9. StraysAreCancelled'
  <2> SUFFICES ASSUME NEW o \in Threads, Stray(o)' PROVE o \in cancelled'
    BY DEF StraysAreCancelled
  <2>1. ~Finished(o) /\ tunnel'[o] = tunnel[o] /\ tunnel[o] \in Tunnels
    BY <1>1 DEF EngineInv, RunningHaveTunnel, Stray, Finished
  <2>2. CASE groups[tunnel[o]] = o
    <3>1. tunnel[o] = t
      BY <1>1, <2>1, <2>2 DEF EngineInv, EngineTypeOK, Stray
    <3> QED  BY <1>1, <2>2, <3>1, EngineConstants
  <2>3. CASE groups[tunnel[o]] # o
    BY <1>1, <2>1, <2>3 DEF EngineInv, StraysAreCancelled, Stray
  <2> QED  BY <2>2, <2>3
<1>10. HoldingHasBeenUp'
  BY <1>1 DEF EngineInv, HoldingHasBeenUp, At
<1> QED  BY <1>5, <1>6, <1>7, <1>8, <1>9, <1>10 DEF EngineInv

LEMMA CommandInv ==
    ASSUME EngineInv, CommandThread
    PROVE  EngineInv'
<1>1. ASSUME NEW t \in Tunnels, HostIgnored(t) PROVE EngineInv'
  <2>1. cmds' \in Seq(Command)
    BY <1>1, ReceiveType DEF HostIgnored, EngineInv
  <2>2. UNCHANGED <<fetching, groups, tunnel, task, cancelled, dropping, lastPass, events>>
    BY <1>1 DEF HostIgnored, threadVars
  <2>3. EngineTypeOK' /\ FetchesForTheDead'
    BY <2>1, <2>2 DEF EngineInv, EngineTypeOK, FetchesForTheDead, Live, Finished
  <2> QED  BY <2>2, <2>3, NoHandleInv
<1>2. ASSUME NEW t \in Tunnels, HostBegins(t) PROVE EngineInv'
  <2>1. cmds' \in Seq(Command)
    BY <1>2, ReceiveType DEF HostBegins, EngineInv
  <2>2. /\ UNCHANGED <<groups, tunnel, task, cancelled, dropping, lastPass, events>>
        /\ fetching' = t /\ ~Live(t)
    BY <1>2 DEF HostBegins, threadVars
  <2>3. EngineTypeOK' /\ FetchesForTheDead'
    BY <2>1, <2>2 DEF EngineInv, EngineTypeOK, FetchesForTheDead, Live, Finished
  <2> QED  BY <2>2, <2>3, NoHandleInv
<1>3. ASSUME NEW t \in Tunnels, FetchFails(t) PROVE EngineInv'
  <2>1. events' \in Seq(Event)
    BY <1>3, FetchFailsEvents DEF EngineInv
  <2>2. /\ UNCHANGED <<cmds, groups, tunnel, task, cancelled, dropping, lastPass>>
        /\ fetching' = None
    BY <1>3 DEF FetchFails, threadVars
  <2>3. EngineTypeOK' /\ FetchesForTheDead'
    BY <2>1, <2>2 DEF EngineInv, EngineTypeOK, FetchesForTheDead
  <2> QED  BY <2>2, <2>3, NoHandleInv
<1>4. ASSUME NEW t \in Tunnels, DropRelay(t) PROVE EngineInv'
  <2>1. cmds' \in Seq(Command)
    BY <1>4, ReceiveType DEF DropRelay, EngineInv
  <2>2. UNCHANGED <<fetching, groups, tunnel, task, cancelled, lastPass, events>>
    BY <1>4 DEF DropRelay
  <2>3. dropping' \in SUBSET Threads
    BY <1>4 DEF DropRelay, Live, EngineInv, EngineTypeOK
  <2>4. EngineTypeOK' /\ FetchesForTheDead'
    BY <2>1, <2>2, <2>3 DEF EngineInv, EngineTypeOK, FetchesForTheDead, Live, Finished
  <2> QED  BY <2>2, <2>4, NoHandleInv
<1> QED  BY <1>1, <1>2, <1>3, <1>4, SpawnInv, StopInv DEF CommandThread

LEMMA UserInv ==
    ASSUME EngineInv, UserCommand \/ UserDrain
    PROVE  EngineInv'
<1>1. CASE UserCommand
  <2>1. PICK op \in UserOps, t \in Tunnels : Send(op, t)
    BY <1>1 DEF UserCommand
  <2>2. [op |-> op, tunnel |-> t] \in Command
    BY EngineConstants DEF Command
  <2>3. cmds' \in Seq(Command)
    BY <2>1, <2>2, AppendProperties DEF Send, EngineInv, EngineTypeOK
  <2>4. UNCHANGED <<fetching, groups, tunnel, task, cancelled, dropping, lastPass, events>>
    BY <1>1 DEF UserCommand, threadVars
  <2>5. EngineTypeOK' /\ FetchesForTheDead'
    BY <2>3, <2>4 DEF EngineInv, EngineTypeOK, FetchesForTheDead, Live, Finished
  <2> QED  BY <2>4, <2>5, NoHandleInv
<1>2. CASE UserDrain
  <2>1. events' \in Seq(Event)
    BY <1>2, HeadTailProperties DEF UserDrain, Drain, EngineInv, EngineTypeOK
  <2>2. UNCHANGED <<cmds, fetching, groups, tunnel, task, cancelled, dropping, lastPass>>
    BY <1>2 DEF UserDrain, commandVars, threadVars
  <2>3. EngineTypeOK' /\ FetchesForTheDead'
    BY <2>1, <2>2 DEF EngineInv, EngineTypeOK, FetchesForTheDead, Live, Finished
  <2> QED  BY <2>2, <2>3, NoHandleInv
<1> QED  BY <1>1, <1>2

LEMMA NextEngineInv == EngineInv /\ [Next]_engineVars => EngineInv'
<1> SUFFICES ASSUME EngineInv, [Next]_engineVars PROVE EngineInv'
  OBVIOUS
<1>1. ASSUME NEW th \in Threads, GroupThread(th) PROVE EngineInv'
  BY <1>1, ThreadResumes, ResumeInv, WindDownInv, ThreadExitInv DEF EngineInv
<1>2. CASE UNCHANGED engineVars
  <2>1. UNCHANGED <<cmds, fetching, groups, tunnel, task, cancelled, dropping, lastPass, events>>
    BY <1>2 DEF engineVars
  <2>2. EngineTypeOK' /\ FetchesForTheDead'
    BY <2>1 DEF EngineInv, EngineTypeOK, FetchesForTheDead, Live, Finished
  <2> QED  BY <2>1, <2>2, NoHandleInv
<1> QED  BY <1>1, <1>2, CommandInv, UserInv DEF Next, EngineStep

LEMMA EngineInvHolds == Spec => []EngineInv
BY InitEngineInv, NextEngineInv, PTL DEF Spec

(* Every part of the engine keeps its type: in particular no message, no   *)
(* policy state and no event outside those of the code ever arises.        *)
THEOREM EngineTypeCorrect == Spec => []EngineTypeOK
<1>1. EngineInv => EngineTypeOK  BY DEF EngineInv
<1> QED  BY <1>1, EngineInvHolds, PTL

(* A thread the engine has lost the handle of was cancelled: repeated Host *)
(* and Stop commands never leave two tasks of a tunnel that both go on.    *)
THEOREM StraysWereCancelled == Spec => []StraysAreCancelled
<1>1. EngineInv => StraysAreCancelled  BY DEF EngineInv
<1> QED  BY <1>1, EngineInvHolds, PTL

-----------------------------------------------------------------------------
(* The engine implements HostLifecycle. *)

phases == [t \in Tunnels |-> PhaseOf(t)]

LEMMA PhaseOfType ==
    ASSUME NEW t \in Tunnels
    PROVE  PhaseOf(t) \in Lifecycle!Phases
<1>1. \A tk : TaskPhase(tk) \in Lifecycle!Phases
  BY DEF TaskPhase, Lifecycle!Phases
<1> QED  BY <1>1, PhaseOfTask DEF Lifecycle!Phases

\* If only the phase of t changes, and as the specification allows, that is a
\* step of the abstract specification or stutters.
LEMMA AbstractStep ==
    ASSUME NEW t \in Tunnels,
           \A u \in Tunnels \ {t} : PhaseOf(u)' = PhaseOf(u),
           \/ PhaseMoves(PhaseOf(t), PhaseOf(t)')
           \/ PhaseOf(t) \in {"none", "failed"} /\ PhaseOf(t)' = "connecting"
           \/ PhaseOf(t)' = "none"
    PROVE  [Lifecycle!Next]_phases
<1>1. phases[t] = PhaseOf(t) /\ phases' = [phases EXCEPT ![t] = PhaseOf(t)']
  BY DEF phases
<1>2. phases[t] \in Lifecycle!Phases
  BY <1>1, PhaseOfType
<1>3. CASE PhaseOf(t) = PhaseOf(t)'
  BY <1>1, <1>3 DEF phases
<1>4. ASSUME NEW from \in SUBSET Lifecycle!Phases, NEW to,
             PhaseOf(t) \in from, PhaseOf(t)' = to
      PROVE  Lifecycle!Becomes(t, from, to)
  BY <1>1, <1>4 DEF Lifecycle!Becomes, phases
<1>5. CASE PhaseOf(t) \in {"none", "failed"} /\ PhaseOf(t)' = "connecting"
  BY <1>4, <1>5 DEF Lifecycle!Next, Lifecycle!Host, Lifecycle!Phases
<1>6. CASE PhaseOf(t) = "connecting" /\ PhaseOf(t)' = "reconnecting"
  BY <1>4, <1>6 DEF Lifecycle!Next, Lifecycle!Retry, Lifecycle!Phases
<1>7. CASE PhaseOf(t) \in {"connecting", "reconnecting"} /\ PhaseOf(t)' = "hosting"
  BY <1>4, <1>7 DEF Lifecycle!Next, Lifecycle!Up, Lifecycle!Phases
<1>8. CASE PhaseOf(t) = "hosting" /\ PhaseOf(t)' = "reconnecting"
  BY <1>4, <1>8 DEF Lifecycle!Next, Lifecycle!Lost, Lifecycle!Phases
<1>9. CASE PhaseOf(t) \in {"connecting", "reconnecting"} /\ PhaseOf(t)' = "failed"
  BY <1>4, <1>9 DEF Lifecycle!Next, Lifecycle!GiveUp, Lifecycle!Phases
<1>10. CASE PhaseOf(t)' = "none"
  BY <1>2, <1>1, <1>4, <1>10 DEF Lifecycle!Next, Lifecycle!Stop
<1> QED
  BY <1>3, <1>5, <1>6, <1>7, <1>8, <1>9, <1>10 DEF PhaseMoves

\* If no handle and no phase of a task a handle points to changes, none does.
LEMMA SamePhases ==
    ASSUME UNCHANGED groups,
           \A t \in Tunnels : groups[t] # None =>
               TaskPhase(task'[groups[t]]) = TaskPhase(task[groups[t]])
    PROVE  [Lifecycle!Next]_phases
<1>1. \A t \in Tunnels : PhaseOf(t)' = PhaseOf(t)
  BY PhaseOfTask
<1> QED  BY <1>1 DEF phases

LEMMA ThreadSimulates ==
    ASSUME EngineInv, NEW th \in Threads, GroupThread(th)
    PROVE  [Lifecycle!Next]_phases
<1>1. CASE WindDown(th)
  <2>1. UNCHANGED groups /\ \A o \in Threads \ {th} : task'[o] = task[o]
    BY <1>1 DEF WindDown, commandVars, EngineInv, EngineTypeOK
  <2>2. \A t \in Tunnels : groups[t] # th
    BY <1>1, EngineConstants DEF WindDown, EngineInv, HandlesMatch
  <2> QED  BY <2>1, <2>2, SamePhases DEF EngineInv, EngineTypeOK
<1>2. CASE ThreadExit(th)
  <2>1. UNCHANGED groups /\ \A o \in Threads \ {th} : task'[o] = task[o]
    BY <1>2 DEF ThreadExit, commandVars, EngineInv, EngineTypeOK
  <2>2. task'[th] = NoTask
    BY <1>2 DEF ThreadExit, EngineInv, EngineTypeOK
  <2>3. TaskPhase(task'[th]) = "failed" /\ TaskPhase(task[th]) = "failed"
    BY <1>2, <2>2, NoTaskType, SettledPhase DEF ThreadExit, At
  <2> QED  BY <2>1, <2>3, SamePhases DEF EngineInv, EngineTypeOK
<1>3. ASSUME NEW r, Resume(th, r), GoodResult(r), ~Finished(th), dropping' \in SUBSET Threads,
             PhaseMoves(TaskPhase(task[th]), TaskPhase(r.task))
      PROVE  [Lifecycle!Next]_phases
  <2>1. /\ UNCHANGED groups
        /\ task'[th] = r.task
        /\ \A o \in Threads \ {th} : task'[o] = task[o]
    BY <1>3, ResumeStep DEF EngineInv, commandVars
  <2>2. CASE \A t \in Tunnels : groups[t] # th
    BY <2>1, <2>2, SamePhases DEF EngineInv, EngineTypeOK
  <2>3. ASSUME NEW t \in Tunnels, groups[t] = th PROVE [Lifecycle!Next]_phases
    <3>1. \A u \in Tunnels \ {t} : groups[u] # th
      BY <2>3, EngineConstants DEF EngineInv, HandlesMatch
    <3>2. \A u \in Tunnels \ {t} : PhaseOf(u)' = PhaseOf(u)
      BY <2>1, <3>1, PhaseOfTask DEF EngineInv, EngineTypeOK
    <3>3. PhaseMoves(PhaseOf(t), PhaseOf(t)')
      BY <1>3, <2>1, <2>3, PhaseOfTask, EngineConstants
    <3> QED  BY <3>2, <3>3, AbstractStep
  <2> QED  BY <2>2, <2>3
<1> QED  BY <1>1, <1>2, <1>3, ThreadResumes DEF EngineInv

LEMMA CommandSimulates ==
    ASSUME EngineInv, CommandThread
    PROVE  [Lifecycle!Next]_phases
<1>1. ASSUME UNCHANGED <<groups, task>> PROVE [Lifecycle!Next]_phases
  BY <1>1, SamePhases
<1>2. ASSUME NEW t \in Tunnels, SpawnGroup(t) PROVE [Lifecycle!Next]_phases
  <2>1. PICK th \in Threads, ports \in {"none", "some"} :
           /\ Unused(th)
           /\ groups' = [groups EXCEPT ![t] = th]
           /\ task' = [task EXCEPT ![th] = NewTask(ports)]
    BY <1>2 DEF SpawnGroup
  <2>2. fetching = t /\ ~Live(t)
    BY <1>2, EngineConstants DEF SpawnGroup, EngineInv, FetchesForTheDead
  <2>3. \A u \in Tunnels \ {t} : groups[u] # th
    BY <2>1, <2>2 DEF Unused
  <2>4. \A u \in Tunnels \ {t} : PhaseOf(u)' = PhaseOf(u)
    BY <2>1, <2>3, PhaseOfTask DEF EngineInv, EngineTypeOK
  <2>5. PhaseOf(t) \in {"none", "failed"}
    BY <2>2, PhaseOfTask, SettledPhase DEF Live, Finished
  <2>6. groups'[t] = th /\ task'[th] = NewTask(ports) /\ th # None
    BY <2>1, EngineConstants DEF EngineInv, EngineTypeOK
  <2>7. TaskPhase(NewTask(ports)) = "connecting"
    BY <2>1, NewTaskType DEF TaskPhase, Phase, New
  <2>8. PhaseOf(t)' = "connecting"
    BY <2>6, <2>7, PhaseOfTask
  <2> QED  BY <2>4, <2>5, <2>8, AbstractStep
<1>3. ASSUME NEW t \in Tunnels, StopGroup(t) PROVE [Lifecycle!Next]_phases
  <2>1. groups' = [groups EXCEPT ![t] = None] /\ UNCHANGED task
    BY <1>3 DEF StopGroup
  <2>2. \A u \in Tunnels \ {t} : PhaseOf(u)' = PhaseOf(u)
    BY <2>1, PhaseOfTask DEF EngineInv, EngineTypeOK
  <2>3. PhaseOf(t)' = "none"
    BY <2>1, PhaseOfTask DEF EngineInv, EngineTypeOK
  <2> QED  BY <2>2, <2>3, AbstractStep
<1>4. ASSUME NEW t \in Tunnels,
             HostIgnored(t) \/ HostBegins(t) \/ FetchFails(t) \/ DropRelay(t)
      PROVE  UNCHANGED <<groups, task>>
  BY <1>4 DEF HostIgnored, HostBegins, FetchFails, DropRelay, threadVars
<1> QED  BY <1>1, <1>2, <1>3, <1>4 DEF CommandThread

LEMMA NextSimulates == EngineInv /\ [Next]_engineVars => [Lifecycle!Next]_phases
<1> SUFFICES ASSUME EngineInv, [Next]_engineVars PROVE [Lifecycle!Next]_phases
  OBVIOUS
<1>1. ASSUME UNCHANGED <<groups, task>> PROVE [Lifecycle!Next]_phases
  BY <1>1, SamePhases
<1>2. CASE UserCommand \/ UserDrain
  BY <1>1, <1>2 DEF UserCommand, UserDrain, commandVars, threadVars
<1>3. CASE UNCHANGED engineVars
  BY <1>1, <1>3 DEF engineVars
<1> QED  BY <1>2, <1>3, ThreadSimulates, CommandSimulates DEF Next, EngineStep

LEMMA InitSimulates == EngineInit => Lifecycle!Init
BY DEF EngineInit, Lifecycle!Init, PhaseOf

(* The host engine implements HostLifecycle for any number of tunnels and  *)
(* threads: no order of commands, thread steps and failures brings a       *)
(* stopped group back, restarts a live one or gives up a session that is   *)
(* up.                                                                     *)
THEOREM EngineImplementsLifecycle == Spec => ImplementsLifecycle
<1>1. EngineInv /\ [Next]_engineVars => [Lifecycle!Next]_[t \in Tunnels |-> PhaseOf(t)]
  BY NextSimulates DEF phases
<1> QED  BY <1>1, InitSimulates, EngineInvHolds, PTL DEF Spec, ImplementsLifecycle, Lifecycle!Spec

-----------------------------------------------------------------------------
(* Which attempts reuse tokens. *)

\* A success left the policy like this.
FreshPolicy(p) == p.backoff = BackoffStart /\ Phase(p) = "Reconnecting"

\* One sleep after it the backoff is doubled once.
OneSleep(p) == p.backoff = Doubled(BackoffStart) /\ Phase(p) = "Reconnecting"

\* A task has tokens in its cache from the moment its session is up to the
\* next attempt, which takes them out; only one sleep lies in between.
ReuseOf(t) ==
    /\ t.cached = "some" => t.pc \in {"holding", "backoff"}
    /\ t.pc = "holding" => FreshPolicy(t.policy) /\ t.tokens # "reused"
    /\ t.cached = "some" /\ t.pc = "backoff" => OneSleep(t.policy)
    /\ t.tokens = "reused" => t.pc \in {"connecting", "forwarding"} /\ OneSleep(t.policy)

LEMMA ReuseStart ==
    /\ ReuseOf(NoTask) /\ ReuseOf(Gone) /\ ReuseOf(StartFails.task)
    /\ \A ports \in {"none", "some"} : ReuseOf(NewTask(ports))
BY DEF ReuseOf, NoTask, Gone, StartFails, Result, NewTask

LEMMA ReuseAttempt ==
    ASSUME NEW t \in Task, ReuseOf(t), t.pc \in {"starting", "backoff"}
    PROVE  ReuseOf(Attempt(t).task)
<1>1. CASE t.cached = "some"
  <2>1. Attempt(t).task = [t EXCEPT !.pc = "connecting", !.cached = "none", !.tokens = "reused"]
    BY <1>1 DEF Attempt, Result
  <2> QED  BY <1>1, <2>1 DEF ReuseOf, Task
<1>2. CASE t.cached # "some"
  <2>1. Attempt(t).task = [t EXCEPT !.pc = "minting", !.tokens = "none"]
    BY <1>2 DEF Attempt, Result
  <2> QED  BY <1>2, <2>1 DEF ReuseOf, Task
<1> QED  BY <1>1, <1>2

LEMMA ReuseMinted ==
    ASSUME NEW t \in Task, ReuseOf(t), t.pc = "minting"
    PROVE  ReuseOf(Minted(t).task)
BY DEF ReuseOf, Minted, Result, Task

\* A session that came up has the backoff reset.
LEMMA ReuseUp ==
    ASSUME NEW t \in Task
    PROVE  ReuseOf(Up(t).task)
<1> DEFINE after == Advance(t.policy, "Connected").state
<1>1. after.backoff = BackoffStart /\ after.first_attempt = FALSE
  BY DEF Advance, Retry, SessionEnd
<1>2. Up(t).task = [t EXCEPT !.pc = "holding", !.policy = after,
                             !.cached = "some", !.tokens = "none"]
  BY DEF Up, Result
<1> HIDE DEF after
<1>3. /\ Up(t).task.pc = "holding" /\ Up(t).task.tokens = "none"
      /\ Up(t).task.policy = after
  BY <1>2 DEF Task
<1> QED  BY <1>1, <1>3 DEF ReuseOf, FreshPolicy, Phase

LEMMA ReuseRelayConnected ==
    ASSUME NEW t \in Task, ReuseOf(t), t.pc = "connecting"
    PROVE  ReuseOf(RelayConnected(t).task)
<1>1. CASE t.ports = "some"
  <2>1. RelayConnected(t).task = [t EXCEPT !.pc = "forwarding"]
    BY <1>1 DEF RelayConnected, Result
  <2> QED  BY <2>1 DEF ReuseOf, Task
<1>2. CASE t.ports # "some"
  BY <1>2, ReuseUp DEF RelayConnected
<1> QED  BY <1>1, <1>2

\* A failed attempt had taken the tokens out of the cache, and drops them.
LEMMA ReuseFailed ==
    ASSUME NEW t \in Task, ReuseOf(t), NEW msg,
           t.pc \in {"minting", "connecting", "forwarding"}
    PROVE  ReuseOf(Failed(t, msg).task)
<1> DEFINE answer == Advance(t.policy, Classify(msg))
<1>1. CASE answer.action.kind \in {"Relogin", "Fail"}
  <2>1. Failed(t, msg).task = Gone
    BY <1>1 DEF Failed, Result
  <2> QED  BY <2>1, ReuseStart
<1>2. CASE answer.action.kind \notin {"Relogin", "Fail"}
  <2>1. Failed(t, msg).task = [t EXCEPT !.pc = "backoff", !.policy = answer.state,
                                        !.tokens = "none"]
    BY <1>2 DEF Failed, Result
  <2> HIDE DEF answer
  <2>2. /\ Failed(t, msg).task.pc = "backoff" /\ Failed(t, msg).task.tokens = "none"
        /\ Failed(t, msg).task.cached = t.cached
    BY <2>1 DEF Task
  <2> QED  BY <2>2 DEF ReuseOf
<1> QED  BY <1>1, <1>2

\* The end of a session orders the first sleep.
LEMMA ReuseSessionOver ==
    ASSUME NEW t \in Task, ReuseOf(t), t.pc = "holding", NEW e \in SessionEnd
    PROVE  ReuseOf(SessionOver(t, e).task)
<1> DEFINE after == Advance(t.policy, e).state
<1>1. after = Bump(EndSession(t.policy))
  BY DEF Advance, Retry, SessionEnd
<1>2. /\ after.backoff = Doubled(t.policy.backoff)
      /\ after.first_attempt = t.policy.first_attempt
  BY <1>1 DEF Bump, EndSession, Task, PolicyState
<1>3. OneSleep(after)
  BY <1>2 DEF ReuseOf, FreshPolicy, OneSleep, Phase
<1>4. SessionOver(t, e).task =
        [t EXCEPT !.pc = "backoff", !.policy = after,
                  !.cached = IF e = "RemintDue" THEN "none" ELSE @]
  BY DEF SessionOver, Result
<1> HIDE DEF after
<1>5. /\ SessionOver(t, e).task.pc = "backoff"
      /\ SessionOver(t, e).task.policy = after
      /\ SessionOver(t, e).task.tokens = t.tokens
  BY <1>4 DEF Task
<1> QED  BY <1>3, <1>5 DEF ReuseOf

\* A step changes the task of one thread at most.
LEMMA ReuseStep ==
    ASSUME EngineInv, \A th \in Threads : ReuseOf(task[th]), [Next]_engineVars
    PROVE  \A th \in Threads : ReuseOf(task'[th])
<1>0. task \in [Threads -> Task]
  BY DEF EngineInv, EngineTypeOK
<1>1. ASSUME task' = task PROVE \A th \in Threads : ReuseOf(task'[th])
  BY <1>1
<1>2. ASSUME NEW th \in Threads, NEW t, ReuseOf(t), task' = [task EXCEPT ![th] = t]
      PROVE  \A o \in Threads : ReuseOf(task'[o])
  BY <1>0, <1>2
<1>3. ASSUME NEW th \in Threads, GroupThread(th)
      PROVE  \A o \in Threads : ReuseOf(task'[o])
  <2>1. task[th] \in Task /\ ReuseOf(task[th])
    BY <1>0
  <2>2. ASSUME NEW r, Resume(th, r), ReuseOf(r.task)
        PROVE  \A o \in Threads : ReuseOf(task'[o])
    BY <1>2, <2>2 DEF Resume
  <2>3. CASE BuildFails(th)
    BY <2>2, <2>3, ReuseStart DEF BuildFails
  <2>4. CASE Begin(th)
    BY <2>1, <2>2, <2>4, ReuseAttempt DEF Begin
  <2>5. CASE MintDone(th)
    BY <2>1, <2>2, <2>5, ReuseMinted DEF MintDone, At
  <2>6. CASE MintFails(th) \/ ConnectFails(th)
    <3>1. PICK msg : Resume(th, Failed(task[th], msg))
      BY <2>6 DEF MintFails, ConnectFails
    <3>2. task[th].pc \in {"minting", "connecting", "forwarding"}
      BY <2>6 DEF MintFails, ConnectFails, At
    <3>3. ReuseOf(Failed(task[th], msg).task)
      BY <2>1, <3>2, ReuseFailed
    <3> QED  BY <2>2, <3>1, <3>3
  <2>7. CASE ConnectDone(th)
    BY <2>1, <2>2, <2>7, ReuseRelayConnected DEF ConnectDone, At
  <2>8. CASE ForwardDone(th)
    BY <2>1, <2>2, <2>8, ReuseUp DEF ForwardDone
  <2>9. CASE SessionEnds(th) \/ ForcedDrop(th)
    <3>1. PICK e \in SessionEnd : Resume(th, SessionOver(task[th], e))
      BY <2>9 DEF SessionEnds, ForcedDrop, SessionEnd
    <3>2. task[th].pc = "holding"
      BY <2>9 DEF SessionEnds, ForcedDrop, At
    <3>3. ReuseOf(SessionOver(task[th], e).task)
      BY <2>1, <3>2, ReuseSessionOver
    <3> QED  BY <2>2, <3>1, <3>3
  <2>10. CASE WindDown(th) \/ ThreadExit(th)
    BY <1>2, <2>10, ReuseStart DEF WindDown, ThreadExit
  <2> QED  BY <1>3, <2>3, <2>4, <2>5, <2>6, <2>7, <2>8, <2>9, <2>10 DEF GroupThread
<1>4. ASSUME NEW t \in Tunnels, SpawnGroup(t)
      PROVE  \A o \in Threads : ReuseOf(task'[o])
  <2>1. PICK th \in Threads, ports \in {"none", "some"} : task' = [task EXCEPT ![th] = NewTask(ports)]
    BY <1>4 DEF SpawnGroup
  <2> QED  BY <1>2, <2>1, ReuseStart
<1>5. ASSUME NEW t \in Tunnels, \/ HostIgnored(t) \/ HostBegins(t) \/ FetchFails(t)
                                \/ StopGroup(t) \/ DropRelay(t)
      PROVE  task' = task
  BY <1>5 DEF HostIgnored, HostBegins, FetchFails, StopGroup, DropRelay, threadVars
<1>6. ASSUME UserCommand \/ UserDrain \/ UNCHANGED engineVars
      PROVE  task' = task
  BY <1>6 DEF UserCommand, UserDrain, engineVars, threadVars
<1> QED  BY <1>1, <1>3, <1>4, <1>5, <1>6 DEF Next, EngineStep, CommandThread

(* An attempt that reuses the cached tokens is the first after a session   *)
(* that was up, for any number of tunnels and threads: one sleep lies in   *)
(* between, whatever ended the session (`cached` in host_group).           *)
THEOREM TokensAreReusedOnce == Spec => []ReuseFollowsSuccess
<1> DEFINE Reuse == \A th \in Threads : ReuseOf(task[th])
<1>1. EngineInit => Reuse
  BY ReuseStart DEF EngineInit
<1>2. EngineInv /\ Reuse /\ [Next]_engineVars => Reuse'
  BY ReuseStep
<1>3. Reuse => ReuseFollowsSuccess
  BY DEF ReuseOf, OneSleep, ReuseFollowsSuccess
<1> HIDE DEF Reuse
<1> QED  BY <1>1, <1>2, <1>3, EngineInvHolds, PTL DEF Spec


-----------------------------------------------------------------------------
(* The headless runner.  It adds to the commands of the engine, drains its *)
(* events, and takes it down with the process. *)

LEMMA EachType ==
    ASSUME NEW op \in Op
    PROVE  /\ Each(op) \in Seq(Command)
           /\ Len(Each(op)) = Len(Ids)
           /\ Len(Ids) \in Nat /\ DOMAIN Ids = 1 .. Len(Ids)
           /\ \A i \in 1 .. Len(Ids) : Each(op)[i] = [op |-> op, tunnel |-> Ids[i]]
<1>1. Ids \in Seq(Tunnels) /\ Len(Ids) \in Nat /\ DOMAIN Ids = 1 .. Len(Ids)
  BY RunnerConstants, LenProperties
<1>2. \A i \in 1 .. Len(Ids) : [op |-> op, tunnel |-> Ids[i]] \in Command
  BY <1>1, ElementOfSeq DEF Command
<1>3. Each(op) = [i \in 1 .. Len(Ids) |-> [op |-> op, tunnel |-> Ids[i]]]
  BY <1>1 DEF Each
<1>4. Each(op) \in [1 .. Len(Ids) -> Command]
  BY <1>2, <1>3
<1>5. Each(op) \in Seq(Command) /\ Len(Each(op)) = Len(Ids)
  BY <1>1, <1>4, SeqDef, LenProperties
<1> QED  BY <1>1, <1>3, <1>5

RunnerTypes == runner \in RunnerPoint /\ lines \in Seq(Ctl)

RunnerInv == /\ EngineInv
             /\ RunnerTypes
             /\ QuitStopsIds

\* What a line hands to the engine.
LEMMA LineTypes ==
    ASSUME lines \in Seq(Ctl), NEW op, NextLine(op)
    PROVE  /\ lines' \in Seq(Ctl)
           /\ op \in UserOps => <<Head(lines)>> \in Seq(Command)
<1>1. lines' \in Seq(Ctl) /\ Head(lines) \in Ctl /\ Head(lines).op = op
  BY HeadTailProperties DEF NextLine
<1>2. ASSUME op \in UserOps PROVE Head(lines) \in Command
  BY <1>1, <1>2, EngineConstants DEF Ctl, Command, Op
<1> QED  BY <1>1, <1>2

\* Steps that only send commands.
LEMMA SendingInv ==
    ASSUME EngineInv, NEW batch \in Seq(Command), SendAll(batch),
           UNCHANGED <<fetching, groups, threadVars, events>>
    PROVE  EngineInv'
<1>1. cmds' \in Seq(Command)
  BY ConcatProperties DEF SendAll, EngineInv, EngineTypeOK
<1>2. UNCHANGED <<fetching, groups, tunnel, task, cancelled, dropping, lastPass, events>>
  BY DEF threadVars
<1>3. EngineTypeOK' /\ FetchesForTheDead'
  BY <1>1, <1>2 DEF EngineInv, EngineTypeOK, FetchesForTheDead, Live, Finished
<1> QED  BY <1>2, <1>3, NoHandleInv

\* The order behind QuitStopsIds, for one tunnel.
StopBehind(t) == ToBeHosted(t) => StoppedLast(t)

LEMMA ReceivedTail ==
    ASSUME EngineTypeOK, NEW op, NEW u, Receive(op, u)
    PROVE  /\ Len(cmds) \in Nat \ {0} /\ DOMAIN cmds = 1 .. Len(cmds)
           /\ cmds[1] = [op |-> op, tunnel |-> u]
           /\ Len(cmds') = Len(cmds) - 1 /\ DOMAIN cmds' = 1 .. Len(cmds) - 1
           /\ \A i \in 1 .. Len(cmds) - 1 : cmds'[i] = cmds[i + 1]
<1>1. cmds \in Seq(Command) /\ cmds # <<>> /\ cmds' = Tail(cmds)
  BY DEF EngineTypeOK, Receive
<1>2. Len(cmds) \in Nat \ {0} /\ DOMAIN cmds = 1 .. Len(cmds)
  BY <1>1, LenProperties, EmptySeq
<1>5. cmds[1] = [op |-> op, tunnel |-> u]
  BY <1>1, <1>2 DEF Receive
<1>3. cmds' \in Seq(Command) /\ Len(cmds') = Len(cmds) - 1
  BY <1>1, HeadTailProperties
<1>4. \A i \in 1 .. Len(cmds) - 1 : cmds'[i] = cmds[i + 1]
  BY <1>1, <1>3, HeadTailProperties
<1> QED  BY <1>2, <1>3, <1>4, <1>5, LenProperties

\* A Stop behind every Host stays there when another command is received, and
\* when a Host is left behind.
LEMMA StopStaysLast ==
    ASSUME EngineTypeOK, NEW op, NEW u, NEW t, Receive(op, u), StoppedLast(t),
           \/ [op |-> op, tunnel |-> u] # [op |-> "Stop", tunnel |-> t]
           \/ \E j \in DOMAIN cmds' : cmds'[j] = [op |-> "Host", tunnel |-> t]
    PROVE  StoppedLast(t)'
<1>1. PICK i \in DOMAIN cmds :
         /\ cmds[i] = [op |-> "Stop", tunnel |-> t]
         /\ \A j \in DOMAIN cmds : cmds[j] = [op |-> "Host", tunnel |-> t] => j < i
  BY DEF StoppedLast
<1>2. /\ Len(cmds) \in Nat /\ DOMAIN cmds = 1 .. Len(cmds)
      /\ cmds[1] = [op |-> op, tunnel |-> u]
      /\ DOMAIN cmds' = 1 .. Len(cmds) - 1
      /\ \A k \in 1 .. Len(cmds) - 1 : cmds'[k] = cmds[k + 1]
  BY ReceivedTail
<1>3. i # 1
  <2>1. CASE [op |-> op, tunnel |-> u] # [op |-> "Stop", tunnel |-> t]
    BY <1>1, <1>2, <2>1
  <2>2. ASSUME NEW j \in DOMAIN cmds', cmds'[j] = [op |-> "Host", tunnel |-> t]
        PROVE  i # 1
    BY <1>1, <1>2, <2>2
  <2> QED  BY <2>1, <2>2
<1>4. i - 1 \in DOMAIN cmds' /\ cmds'[i - 1] = [op |-> "Stop", tunnel |-> t]
  BY <1>1, <1>2, <1>3
<1>5. ASSUME NEW j \in DOMAIN cmds', cmds'[j] = [op |-> "Host", tunnel |-> t]
      PROVE  j < i - 1
  <2>1. j + 1 \in DOMAIN cmds /\ cmds[j + 1] = [op |-> "Host", tunnel |-> t]
    BY <1>2, <1>5
  <2>2. j + 1 < i
    BY <1>1, <2>1
  <2> QED  BY <1>2, <2>2
<1> QED  BY <1>4, <1>5 DEF StoppedLast

\* A tunnel on its way to a thread was on its way before the command went.
LEMMA HostedBefore ==
    ASSUME EngineTypeOK, NEW op, NEW u, NEW t, Receive(op, u),
           \E j \in DOMAIN cmds' : cmds'[j] = [op |-> "Host", tunnel |-> t]
    PROVE  ToBeHosted(t)
<1>1. PICK j \in DOMAIN cmds' : cmds'[j] = [op |-> "Host", tunnel |-> t]
  OBVIOUS
<1>2. /\ Len(cmds) \in Nat /\ DOMAIN cmds = 1 .. Len(cmds)
      /\ DOMAIN cmds' = 1 .. Len(cmds) - 1
      /\ \A i \in 1 .. Len(cmds) - 1 : cmds'[i] = cmds[i + 1]
  BY ReceivedTail
<1>3. j + 1 \in DOMAIN cmds /\ cmds[j + 1] = [op |-> "Host", tunnel |-> t]
  BY <1>1, <1>2
<1> QED  BY <1>3 DEF ToBeHosted

\* Steps that leave the commands alone and give no tunnel a handle it was not
\* to get.
LEMMA SameCommands ==
    ASSUME NEW t, StopBehind(t), UNCHANGED cmds,
           (groups[t] # None)' => groups[t] # None \/ fetching = t,
           (fetching = t)' => fetching = t
    PROVE  StopBehind(t)'
BY DEF StopBehind, ToBeHosted, StoppedLast

LEMMA EngineKeepsStop ==
    ASSUME EngineTypeOK, NEW t \in Tunnels, StopBehind(t), EngineStep
    PROVE  StopBehind(t)'
<1>1. ASSUME NEW th \in Threads, GroupThread(th) PROVE StopBehind(t)'
  <2>1. UNCHANGED <<cmds, fetching, groups>>
    BY <1>1 DEF GroupThread, BuildFails, Begin, MintDone, MintFails, ConnectDone, ForwardDone,
                ConnectFails, SessionEnds, ForcedDrop, WindDown, ThreadExit, Resume, commandVars
  <2> QED  BY <2>1, SameCommands
<1>2. ASSUME NEW u \in Tunnels, FetchFails(u) PROVE StopBehind(t)'
  <2>1. UNCHANGED <<cmds, groups>> /\ fetching' = None
    BY <1>2 DEF FetchFails
  <2> QED  BY <2>1, EngineConstants, SameCommands
<1>3. ASSUME NEW u \in Tunnels, SpawnGroup(u) PROVE StopBehind(t)'
  <2>1. /\ UNCHANGED cmds
        /\ fetching = u /\ fetching' = None
        /\ \E th \in Threads : groups' = [groups EXCEPT ![u] = th]
    BY <1>3 DEF SpawnGroup
  <2>2. (groups[t] # None)' => groups[t] # None \/ fetching = t
    BY <2>1 DEF EngineTypeOK
  <2> QED  BY <2>1, <2>2, EngineConstants, SameCommands
<1>4. ASSUME NEW u \in Tunnels, HostIgnored(u) \/ DropRelay(u) PROVE StopBehind(t)'
  <2>1. PICK op \in {"Host", "DropRelay"} : Receive(op, u)
    BY <1>4 DEF HostIgnored, DropRelay
  <2>2. UNCHANGED <<fetching, groups>>
    BY <1>4 DEF HostIgnored, DropRelay
  <2>3. ToBeHosted(t)' => ToBeHosted(t)
    BY <2>1, <2>2, HostedBefore DEF ToBeHosted
  <2>4. [op |-> op, tunnel |-> u] # [op |-> "Stop", tunnel |-> t]
    OBVIOUS
  <2> QED  BY <2>1, <2>3, <2>4, StopStaysLast DEF StopBehind
<1>5. ASSUME NEW u \in Tunnels, HostBegins(u) PROVE StopBehind(t)'
  <2>1. Receive("Host", u) /\ fetching' = u /\ UNCHANGED groups
    BY <1>5 DEF HostBegins
  <2>5. 1 \in DOMAIN cmds /\ cmds[1] = [op |-> "Host", tunnel |-> u]
    BY <2>1, ReceivedTail
  <2>2. u = t => ToBeHosted(t)
    BY <2>5 DEF ToBeHosted
  <2>3. ToBeHosted(t)' => ToBeHosted(t)
    BY <2>1, <2>2, HostedBefore DEF ToBeHosted
  <2>4. [op |-> "Host", tunnel |-> u] # [op |-> "Stop", tunnel |-> t]
    OBVIOUS
  <2> QED  BY <2>1, <2>3, <2>4, StopStaysLast DEF StopBehind
<1>6. ASSUME NEW u \in Tunnels, StopGroup(u) PROVE StopBehind(t)'
  <2>1. /\ Receive("Stop", u)
        /\ fetching = None /\ fetching' = None
        /\ groups' = [groups EXCEPT ![u] = None]
    BY <1>6 DEF StopGroup, Receive
  <2>2. groups'[t] = IF t = u THEN None ELSE groups[t]
    BY <2>1 DEF EngineTypeOK
  <2>3. SUFFICES ASSUME ToBeHosted(t)' PROVE StoppedLast(t)'
    BY DEF StopBehind
  <2>4. CASE \E j \in DOMAIN cmds' : cmds'[j] = [op |-> "Host", tunnel |-> t]
    BY <2>1, <2>4, HostedBefore, StopStaysLast DEF StopBehind
  <2>5. CASE groups'[t] # None
    <3>1. t # u /\ ToBeHosted(t)
      BY <2>2, <2>5 DEF ToBeHosted
    <3> QED  BY <2>1, <3>1, StopStaysLast DEF StopBehind
  <2> QED  BY <2>1, <2>3, <2>4, <2>5, EngineConstants DEF ToBeHosted
<1> QED  BY <1>1, <1>2, <1>3, <1>4, <1>5, <1>6 DEF EngineStep, CommandThread

\* The Stops of a quit come behind every command sent before them.
LEMMA QuitPutsStopsLast ==
    ASSUME EngineTypeOK, Quit
    PROVE  QuitStopsIds'
<1> DEFINE stops == Each("Stop")
<1>1. cmds \in Seq(Command) /\ cmds' = cmds \o stops
  BY DEF EngineTypeOK, Quit, StopAll, SendAll
<1>2. /\ stops \in Seq(Command) /\ Len(stops) = Len(Ids)
      /\ Len(Ids) \in Nat /\ DOMAIN Ids = 1 .. Len(Ids)
      /\ \A i \in 1 .. Len(Ids) : stops[i] = [op |-> "Stop", tunnel |-> Ids[i]]
  BY EachType DEF Op
<1> HIDE DEF stops
<1>7. Len(cmds) \in Nat
  BY <1>1, LenProperties
<1>9. cmds \in Seq(Command) /\ stops \in Seq(Command)
  BY <1>1, <1>2
<1>8. /\ cmds \o stops \in Seq(Command)
      /\ Len(cmds \o stops) = Len(cmds) + Len(stops)
      /\ \A k \in 1 .. Len(cmds) + Len(stops) :
            (cmds \o stops)[k] = IF k <= Len(cmds) THEN cmds[k] ELSE stops[k - Len(cmds)]
  BY ONLY <1>9, ConcatProperties, Zenon
<1>3. cmds' \in Seq(Command) /\ Len(cmds') = Len(cmds) + Len(Ids)
  BY <1>1, <1>2, <1>8
<1>4. DOMAIN cmds' = 1 .. Len(cmds) + Len(Ids)
  BY <1>3, LenProperties
<1>5. \A k \in 1 .. Len(cmds) + Len(Ids) :
         k > Len(cmds) => cmds'[k] = [op |-> "Stop", tunnel |-> Ids[k - Len(cmds)]]
  <2> SUFFICES ASSUME NEW k \in 1 .. Len(cmds) + Len(Ids), k > Len(cmds)
               PROVE  cmds'[k] = [op |-> "Stop", tunnel |-> Ids[k - Len(cmds)]]
    OBVIOUS
  <2>1. k - Len(cmds) \in 1 .. Len(Ids)
    BY <1>2, <1>7
  <2>2. cmds'[k] = stops[k - Len(cmds)]
    <3>1. k \in 1 .. Len(cmds) + Len(stops) /\ ~(k <= Len(cmds))
      BY <1>2, <1>7
    <3>2. (cmds \o stops)[k] = stops[k - Len(cmds)]
      BY <1>8, <3>1
    <3> QED  BY <1>1, <3>2
  <2> QED  BY <1>2, <2>1, <2>2
<1>6. ASSUME NEW i \in DOMAIN Ids PROVE StoppedLast(Ids[i])'
  <2>1. Len(cmds) + i \in DOMAIN cmds'
    BY <1>2, <1>7, <1>4
  <2>2. cmds'[Len(cmds) + i] = [op |-> "Stop", tunnel |-> Ids[i]]
    <3>1. Len(cmds) + i > Len(cmds) /\ (Len(cmds) + i) - Len(cmds) = i
      BY <1>2, <1>7
    <3> QED  BY <1>4, <1>5, <2>1, <3>1
  <2>3. ASSUME NEW j \in DOMAIN cmds', cmds'[j] = [op |-> "Host", tunnel |-> Ids[i]]
        PROVE  j < Len(cmds) + i
    <3>1. ~(j > Len(cmds))
      BY <1>4, <1>5, <2>3
    <3> QED  BY <1>2, <1>4, <1>7, <3>1
  <2> QED  BY <2>1, <2>2, <2>3 DEF StoppedLast
<1> QED  BY <1>6 DEF QuitStopsIds

LEMMA InitRunnerInv == RunnerInit => RunnerInv
<1> SUFFICES ASSUME RunnerInit PROVE RunnerInv
  OBVIOUS
<1>1. EngineInv
  BY InitEngineInv DEF RunnerInit
<1>2. RunnerTypes /\ QuitStopsIds
  BY DEF RunnerInit, RunnerTypes, RunnerPoint, QuitStopsIds
<1> QED  BY <1>1, <1>2 DEF RunnerInv

LEMMA ExitInv ==
    ASSUME RunnerInv, Exit
    PROVE  RunnerInv'
<1>1. EngineInit'
  BY DEF Exit, EngineInit
<1>2. (EngineInit => EngineInv)'
  BY InitEngineInv, PTL
<1>3. RunnerTypes' /\ QuitStopsIds'
  BY DEF Exit, MainAt, RunnerTypes, RunnerPoint, QuitStopsIds
<1> QED  BY <1>1, <1>2, <1>3 DEF RunnerInv

LEMMA QuitKept ==
    ASSUME QuitStopsIds, UNCHANGED <<cmds, fetching, groups>>,
           runner' \in {"asleep", "leaving"} => runner \in {"asleep", "leaving"}
    PROVE  QuitStopsIds'
<1>1. \A t : (ToBeHosted(t) <=> ToBeHosted(t)') /\ (StoppedLast(t) <=> StoppedLast(t)')
  BY DEF ToBeHosted, StoppedLast
<1> QED  BY <1>1 DEF QuitStopsIds

LEMMA EngineKeepsQuit ==
    ASSUME EngineTypeOK, QuitStopsIds, EngineStep, UNCHANGED runner
    PROVE  QuitStopsIds'
<1> SUFFICES ASSUME runner \in {"asleep", "leaving"}, NEW i \in DOMAIN Ids
             PROVE  StopBehind(Ids[i])'
  BY DEF QuitStopsIds, StopBehind
<1>1. Ids[i] \in Tunnels
  BY RunnerConstants, LenProperties, ElementOfSeq
<1>2. StopBehind(Ids[i])
  BY DEF QuitStopsIds, StopBehind
<1> QED  BY <1>1, <1>2, EngineKeepsStop

LEMMA MainThreadInv ==
    ASSUME RunnerInv, MainThread
    PROVE  RunnerInv'
<1>1. CASE HostIds
  <2>1. SendAll(Each("Host")) /\ UNCHANGED <<fetching, groups, threadVars, events>>
    BY <1>1 DEF HostIds
  <2>2. EngineInv'
    BY <2>1, EachType, SendingInv DEF RunnerInv, Op
  <2>3. RunnerTypes' /\ QuitStopsIds'
    BY <1>1 DEF HostIds, MainAt, RunnerInv, RunnerTypes, RunnerPoint, QuitStopsIds
  <2> QED  BY <2>2, <2>3 DEF RunnerInv
<1>2. CASE PrintEvent
  <2>1. UserDrain /\ UNCHANGED <<runner, lines>>
    BY <1>2 DEF PrintEvent, UserDrain, runnerVars
  <2>2. EngineInv'
    BY <2>1, UserInv DEF RunnerInv
  <2>3. QuitStopsIds'
    BY <2>1, QuitKept DEF UserDrain, commandVars, RunnerInv
  <2> QED  BY <2>1, <2>2, <2>3 DEF RunnerInv, RunnerTypes
<1>3. CASE ServeCommand
  <2>1. PICK op \in UserOps : NextLine(op)
    BY <1>3 DEF ServeCommand
  <2>2. lines' \in Seq(Ctl) /\ <<Head(lines)>> \in Seq(Command)
    BY <2>1, LineTypes DEF RunnerInv, RunnerTypes
  <2>3. /\ SendAll(<<Head(lines)>>) /\ runner' = "running"
        /\ UNCHANGED <<fetching, groups, threadVars, events>>
    BY <1>3, <2>1 DEF ServeCommand, NextLine
  <2>4. EngineInv'
    BY <2>2, <2>3, SendingInv DEF RunnerInv
  <2>5. RunnerTypes' /\ QuitStopsIds'
    BY <2>2, <2>3 DEF RunnerTypes, RunnerPoint, QuitStopsIds
  <2> QED  BY <2>4, <2>5 DEF RunnerInv
<1>4. CASE ServeStopAll \/ Quit
  <2>1. PICK op \in {"StopAll", "Quit"} : NextLine(op)
    BY <1>4 DEF ServeStopAll, Quit
  <2>2. lines' \in Seq(Ctl)
    BY <2>1, LineTypes DEF RunnerInv, RunnerTypes
  <2>3. /\ SendAll(Each("Stop")) /\ runner' \in {"running", "asleep"}
        /\ UNCHANGED <<fetching, groups, threadVars, events>>
    BY <1>4, <2>1 DEF ServeStopAll, Quit, StopAll, NextLine
  <2>4. EngineInv'
    BY <2>3, EachType, SendingInv DEF RunnerInv, Op
  <2>5. RunnerTypes'
    BY <2>2, <2>3 DEF RunnerTypes, RunnerPoint
  <2>6. CASE ServeStopAll
    BY <2>4, <2>5, <2>6 DEF RunnerInv, ServeStopAll, QuitStopsIds
  <2>7. CASE Quit
    BY <2>4, <2>5, <2>7, QuitPutsStopsLast DEF RunnerInv, EngineInv
  <2> QED  BY <1>4, <2>6, <2>7
<1>5. CASE WakeUp
  <2>1. UNCHANGED engineVars /\ runner = "asleep" /\ runner' = "leaving" /\ UNCHANGED lines
    BY <1>5 DEF WakeUp, MainAt
  <2>2. EngineInv'
    BY <2>1, NextEngineInv DEF RunnerInv
  <2>3. QuitStopsIds'
    BY <2>1, QuitKept DEF RunnerInv, engineVars
  <2> QED  BY <2>1, <2>2, <2>3 DEF RunnerInv, RunnerTypes, RunnerPoint
<1> QED  BY <1>1, <1>2, <1>3, <1>4, <1>5, ExitInv DEF MainThread, ServeLine

LEMMA NextRunnerInv == RunnerInv /\ [RunnerNext]_allVars => RunnerInv'
<1> SUFFICES ASSUME RunnerInv, [RunnerNext]_allVars PROVE RunnerInv'
  OBVIOUS
<1>1. CASE ReadLine
  <2>1. UNCHANGED engineVars /\ UNCHANGED runner /\ lines' \in Seq(Ctl)
    BY <1>1, AppendProperties DEF ReadLine, RunnerInv, RunnerTypes
  <2>2. EngineInv'
    BY <2>1, NextEngineInv DEF RunnerInv
  <2>3. QuitStopsIds'
    BY <2>1, QuitKept DEF RunnerInv, engineVars
  <2> QED  BY <2>1, <2>2, <2>3 DEF RunnerInv, RunnerTypes
<1>2. CASE EngineStep /\ UNCHANGED runnerVars
  <2>1. EngineInv'
    BY <1>2, NextEngineInv DEF RunnerInv, Next
  <2>2. QuitStopsIds'
    BY <1>2, EngineKeepsQuit DEF RunnerInv, EngineInv, runnerVars
  <2> QED  BY <1>2, <2>1, <2>2 DEF RunnerInv, RunnerTypes, runnerVars
<1>3. CASE UNCHANGED allVars
  <2>1. UNCHANGED engineVars /\ UNCHANGED <<runner, lines>>
    BY <1>3 DEF allVars, runnerVars
  <2>2. EngineInv'
    BY <2>1, NextEngineInv DEF RunnerInv
  <2>3. QuitStopsIds'
    BY <2>1, QuitKept DEF RunnerInv, engineVars
  <2> QED  BY <2>1, <2>2, <2>3 DEF RunnerInv, RunnerTypes
<1> QED  BY <1>1, <1>2, <1>3, MainThreadInv DEF RunnerNext

LEMMA RunnerInvHolds == RunnerSpec => []RunnerInv
BY InitRunnerInv, NextRunnerInv, PTL DEF RunnerSpec

(* The runner sends the engine only commands that it has, and takes only   *)
(* lines of its own kinds, under whatever is typed. *)
THEOREM RunnerTypeCorrect == RunnerSpec => []RunnerTypeOK
<1>1. RunnerInv => RunnerTypeOK  BY DEF RunnerInv, EngineInv, RunnerTypes, RunnerTypeOK
<1> QED  BY <1>1, RunnerInvHolds, PTL

(* After a quit every tunnel of the runner that has or will have a thread  *)
(* has a Stop behind its last Host, with any number of lines, commands and *)
(* tunnels waiting. *)
THEOREM QuitLeavesNoneBehind == RunnerSpec => []QuitStopsIds
<1>1. RunnerInv => QuitStopsIds  BY DEF RunnerInv
<1> QED  BY <1>1, RunnerInvHolds, PTL

-----------------------------------------------------------------------------
(* What FoldLeft computes.  It folds a function over sets of positions,    *)
(* which is the choice of a solution of a recursive equation: a solution   *)
(* exists because every finite part of one can be extended by a position.  *)

LEMMA MaxOfPositions ==
    ASSUME NEW n \in Nat, NEW s \in SUBSET (1 .. n), s # {}
    PROVE  Max(s) \in s /\ \A i \in s : i <= Max(s)
<1> DEFINE P == {k \in Nat : \A r \in SUBSET (1 .. k) :
                    r # {} => \E m \in r : \A i \in r : m >= i}
<1>1. 0 \in P
  <2>1. 1 .. 0 = {}
    OBVIOUS
  <2> QED  BY <2>1
<1>2. ASSUME NEW k \in Nat, k \in P PROVE k + 1 \in P
  <2> SUFFICES ASSUME NEW r \in SUBSET (1 .. k + 1), r # {}
               PROVE  \E m \in r : \A i \in r : m >= i
    OBVIOUS
  <2>1. CASE k + 1 \in r
    <3>1. \A i \in r : k + 1 >= i
      OBVIOUS
    <3> QED  BY <2>1, <3>1
  <2>2. CASE k + 1 \notin r
    <3>1. r \in SUBSET (1 .. k)
      BY <2>2
    <3> QED  BY <1>2, <3>1
  <2> QED  BY <2>1, <2>2
<1> HIDE DEF P
<1>3. n \in P
  BY <1>1, <1>2, SetInduction
<1>4. \E m \in s : \A i \in s : m >= i
  BY <1>3 DEF P
<1>5. Max(s) \in s /\ \A i \in s : Max(s) >= i
  BY <1>4, Zenon DEF Max
<1>6. \A i \in s : i \in Int
  OBVIOUS
<1> QED  BY <1>5, <1>6

LEMMA MaxUpTo ==
    ASSUME NEW n \in Nat, NEW s \in SUBSET (1 .. n + 1), n + 1 \in s
    PROVE  Max(s) = n + 1 /\ s \ {Max(s)} = s \cap (1 .. n)
<1>1. Max(s) \in s /\ n + 1 <= Max(s)
  <2>1. s # {} /\ n + 1 \in Nat
    OBVIOUS
  <2> QED  BY <2>1, MaxOfPositions
<1>2. Max(s) = n + 1
  <2>1. Max(s) \in 1 .. n + 1
    BY <1>1
  <2> QED  BY <1>1, <2>1
<1>3. \A x \in s : x \in 1 .. n + 1 /\ (x # n + 1 <=> x \in 1 .. n)
  OBVIOUS
<1> QED  BY <1>2, <1>3

\* f is the fold of a step over positions 1 to n, on every set of them.
StepsOf(D, n) == [D \X (1 .. n) -> D]
FoldsOf(D, n) == [SUBSET (1 .. n) -> D]
FoldsBy(f, step, base, n) ==
    \A s \in SUBSET (1 .. n) :
       f[s] = IF s = {} THEN base ELSE step[<<f[s \ {Max(s)}], Max(s)>>]

LEMMA FoldSolution ==
    ASSUME NEW D, NEW n \in Nat, NEW base \in D, NEW step \in StepsOf(D, n)
    PROVE  \E f \in FoldsOf(D, n) : FoldsBy(f, step, base, n)
<1> DEFINE P == {k \in Nat : k <= n => \E f \in FoldsOf(D, k) : FoldsBy(f, step, base, k)}
<1>1. 0 \in P
  <2>1. 1 .. 0 = {}
    OBVIOUS
  <2>2. [s \in SUBSET (1 .. 0) |-> base] \in FoldsOf(D, 0)
    BY DEF FoldsOf
  <2>3. FoldsBy([s \in SUBSET (1 .. 0) |-> base], step, base, 0)
    BY <2>1 DEF FoldsBy
  <2> QED  BY <2>2, <2>3
<1>2. ASSUME NEW k \in Nat, k \in P PROVE k + 1 \in P
  <2> SUFFICES ASSUME k + 1 <= n
               PROVE  \E f \in FoldsOf(D, k + 1) : FoldsBy(f, step, base, k + 1)
    <3>1. k + 1 \in Nat
      OBVIOUS
    <3> QED  BY <3>1, Zenon
  <2>1. PICK f \in FoldsOf(D, k) : FoldsBy(f, step, base, k)
    <3>1. k <= n
      OBVIOUS
    <3> QED  BY <1>2, <3>1, Zenon
  <2> DEFINE h == [s \in SUBSET (1 .. k + 1) |->
                      IF k + 1 \in s THEN step[<<f[s \cap (1 .. k)], k + 1>>] ELSE f[s]]
  <2>2. \A s \in SUBSET (1 .. k + 1) : s \cap (1 .. k) \in SUBSET (1 .. k)
    OBVIOUS
  <2>3. \A s \in SUBSET (1 .. k + 1) : k + 1 \notin s => s \in SUBSET (1 .. k)
    OBVIOUS
  <2>4. k + 1 \in 1 .. n
    OBVIOUS
  <2>5. h \in FoldsOf(D, k + 1)
    BY <2>1, <2>2, <2>3, <2>4 DEF FoldsOf, StepsOf
  <2>6. ASSUME NEW s \in SUBSET (1 .. k) PROVE h[s] = f[s]
    <3>1. k + 1 \notin s /\ s \in SUBSET (1 .. k + 1)
      OBVIOUS
    <3> QED  BY <3>1
  <2>7. ASSUME NEW s \in SUBSET (1 .. k + 1)
        PROVE  h[s] = IF s = {} THEN base ELSE step[<<h[s \ {Max(s)}], Max(s)>>]
    <3>1. CASE k + 1 \in s
      <4>1. Max(s) = k + 1 /\ s \ {Max(s)} = s \cap (1 .. k)
        BY <3>1, MaxUpTo
      <4>2. h[s \cap (1 .. k)] = f[s \cap (1 .. k)]
        BY <2>2, <2>6
      <4>3. h[s] = step[<<f[s \cap (1 .. k)], k + 1>>]
        BY <3>1
      <4> HIDE DEF h
      <4> QED  BY <3>1, <4>1, <4>2, <4>3
    <3>2. CASE k + 1 \notin s
      <4>1. s \in SUBSET (1 .. k) /\ s \ {Max(s)} \in SUBSET (1 .. k)
        BY <2>3, <3>2
      <4>2. h[s] = f[s] /\ h[s \ {Max(s)}] = f[s \ {Max(s)}]
        BY <2>6, <4>1
      <4>3. f[s] = IF s = {} THEN base ELSE step[<<f[s \ {Max(s)}], Max(s)>>]
        BY <2>1, <4>1 DEF FoldsBy
      <4> HIDE DEF h
      <4> QED  BY <4>2, <4>3
    <3> QED  BY <3>1, <3>2
  <2> HIDE DEF h
  <2> QED  BY <2>5, <2>7 DEF FoldsBy
<1> HIDE DEF P
<1>3. n \in P
  BY <1>1, <1>2, SetInduction
<1>4. n <= n => \E f \in FoldsOf(D, n) : FoldsBy(f, step, base, n)
  <2> QED  BY <1>3, Zenon DEF P
<1>5. n <= n
  OBVIOUS
<1> QED  BY <1>4, <1>5, Zenon

LEMMA UpTo ==
    ASSUME NEW n \in Nat, NEW i \in 1 .. n
    PROVE  /\ 1 .. i \in SUBSET (1 .. n) /\ 1 .. i # {}
           /\ Max(1 .. i) = i
           /\ (1 .. i) \ {i} = 1 .. i - 1
<1>1. i - 1 \in Nat /\ (i - 1) + 1 = i
  OBVIOUS
<1>2. i \in 1 .. i /\ 1 .. i \in SUBSET (1 .. n)
  OBVIOUS
<1>3. Max(1 .. i) = i
  BY <1>1, <1>2, MaxUpTo
<1> QED  BY <1>2, <1>3

\* What holds at the start and is kept by every position holds at the end.
LEMMA FoldStays ==
    ASSUME NEW D, NEW n \in Nat, NEW f, f[{}] \in D,
           \A i \in 1 .. n : f[1 .. i - 1] \in D => f[1 .. i] \in D
    PROVE  \A i \in 0 .. n : f[1 .. i] \in D
<1> DEFINE P == {i \in Nat : i <= n => f[1 .. i] \in D}
<1>1. 0 \in P
  <2>1. 1 .. 0 = {}
    OBVIOUS
  <2> QED  BY <2>1
<1>2. ASSUME NEW i \in Nat, i \in P PROVE i + 1 \in P
  <2> SUFFICES ASSUME i + 1 <= n PROVE f[1 .. i + 1] \in D
    OBVIOUS
  <2>1. i + 1 \in 1 .. n /\ (i + 1) - 1 = i /\ f[1 .. i] \in D
    BY <1>2
  <2> QED  BY <2>1
<1> HIDE DEF P
<1>3. Nat \subseteq P
  BY <1>1, <1>2, SetInduction
<1> QED  BY <1>3 DEF P

-----------------------------------------------------------------------------
(* The pump drains its channels with FoldLeft. *)

\* What every preflight keeps, the drain of the preflights keeps.
LEMMA PreflightsFold ==
    ASSUME NEW D, NEW start \in D, NEW s, NEW n \in Nat, DOMAIN s = 1 .. n,
           \A ui \in D, i \in 1 .. n : TakePreflight(ui, s[i]) \in D
    PROVE  FoldLeft(TakePreflight, start, s) \in D
<1> DEFINE Solves(f) == f = [r \in SUBSET DOMAIN s |->
                                IF r = {} THEN start
                                ELSE TakePreflight(f[r \ {Max(r)}], s[Max(r)])]
           iter == CHOOSE f : Solves(f)
<1>1. PICK step \in StepsOf(D, n) :
         \A ui \in D, i \in 1 .. n : step[<<ui, i>>] = TakePreflight(ui, s[i])
  <2> DEFINE step == [p \in D \X (1 .. n) |-> TakePreflight(p[1], s[p[2]])]
  <2>1. step \in StepsOf(D, n)
    BY DEF StepsOf
  <2>2. \A ui \in D, i \in 1 .. n : step[<<ui, i>>] = TakePreflight(ui, s[i])
    OBVIOUS
  <2> HIDE DEF step
  <2> QED  BY <2>1, <2>2
<1>2. PICK f \in FoldsOf(D, n) : FoldsBy(f, step, start, n)
  BY FoldSolution
<1>3. ASSUME NEW r \in SUBSET (1 .. n), r # {}
      PROVE  f[r] = TakePreflight(f[r \ {Max(r)}], s[Max(r)])
  <2>1. f[r \ {Max(r)}] \in D /\ Max(r) \in 1 .. n
    BY <1>3, MaxOfPositions DEF FoldsOf
  <2> QED  BY <1>1, <1>2, <1>3, <2>1 DEF FoldsBy
<1>4. Solves(f)
  BY <1>2, <1>3 DEF FoldsOf, FoldsBy
<1>5. Solves(iter)
  <2> HIDE DEF Solves
  <2> QED  BY <1>4
<1>6. FoldLeft(TakePreflight, start, s) = iter[1 .. n]
  BY DEF FoldLeft, MapThenFoldSet
<1> HIDE DEF iter
<1>7. iter[{}] = start
  BY <1>5
<1>8. ASSUME NEW i \in 1 .. n PROVE iter[1 .. i] = TakePreflight(iter[1 .. i - 1], s[i])
  <2>1. /\ 1 .. i \in SUBSET (1 .. n) /\ 1 .. i # {}
        /\ Max(1 .. i) = i
        /\ (1 .. i) \ {i} = 1 .. i - 1
    BY UpTo
  <2>2. \A r \in SUBSET (1 .. n) : r # {} => iter[r] = TakePreflight(iter[r \ {Max(r)}], s[Max(r)])
    BY <1>5
  <2> HIDE DEF Solves
  <2> QED  BY <2>1, <2>2
<1>9. \A i \in 0 .. n : iter[1 .. i] \in D
  <2>1. \A i \in 1 .. n : iter[1 .. i - 1] \in D => iter[1 .. i] \in D
    BY <1>8
  <2> HIDE DEF Solves
  <2> QED  BY <1>7, <2>1, FoldStays
<1>10. n \in 0 .. n
  OBVIOUS
<1> QED  BY <1>6, <1>9, <1>10

\* And that of the loads.
LEMMA LoadsFold ==
    ASSUME NEW D, NEW start \in D, NEW s, NEW n \in Nat, DOMAIN s = 1 .. n,
           \A ui \in D, i \in 1 .. n : TakeLoad(ui, s[i]) \in D
    PROVE  FoldLeft(TakeLoad, start, s) \in D
<1> DEFINE Solves(f) == f = [r \in SUBSET DOMAIN s |->
                                IF r = {} THEN start
                                ELSE TakeLoad(f[r \ {Max(r)}], s[Max(r)])]
           iter == CHOOSE f : Solves(f)
<1>1. PICK step \in StepsOf(D, n) :
         \A ui \in D, i \in 1 .. n : step[<<ui, i>>] = TakeLoad(ui, s[i])
  <2> DEFINE step == [p \in D \X (1 .. n) |-> TakeLoad(p[1], s[p[2]])]
  <2>1. step \in StepsOf(D, n)
    BY DEF StepsOf
  <2>2. \A ui \in D, i \in 1 .. n : step[<<ui, i>>] = TakeLoad(ui, s[i])
    OBVIOUS
  <2> HIDE DEF step
  <2> QED  BY <2>1, <2>2
<1>2. PICK f \in FoldsOf(D, n) : FoldsBy(f, step, start, n)
  BY FoldSolution
<1>3. ASSUME NEW r \in SUBSET (1 .. n), r # {}
      PROVE  f[r] = TakeLoad(f[r \ {Max(r)}], s[Max(r)])
  <2>1. f[r \ {Max(r)}] \in D /\ Max(r) \in 1 .. n
    BY <1>3, MaxOfPositions DEF FoldsOf
  <2> QED  BY <1>1, <1>2, <1>3, <2>1 DEF FoldsBy
<1>4. Solves(f)
  BY <1>2, <1>3 DEF FoldsOf, FoldsBy
<1>5. Solves(iter)
  <2> HIDE DEF Solves
  <2> QED  BY <1>4
<1>6. FoldLeft(TakeLoad, start, s) = iter[1 .. n]
  BY DEF FoldLeft, MapThenFoldSet
<1> HIDE DEF iter
<1>7. iter[{}] = start
  BY <1>5
<1>8. ASSUME NEW i \in 1 .. n PROVE iter[1 .. i] = TakeLoad(iter[1 .. i - 1], s[i])
  <2>1. /\ 1 .. i \in SUBSET (1 .. n) /\ 1 .. i # {}
        /\ Max(1 .. i) = i
        /\ (1 .. i) \ {i} = 1 .. i - 1
    BY UpTo
  <2>2. \A r \in SUBSET (1 .. n) : r # {} => iter[r] = TakeLoad(iter[r \ {Max(r)}], s[Max(r)])
    BY <1>5
  <2> HIDE DEF Solves
  <2> QED  BY <2>1, <2>2
<1>9. \A i \in 0 .. n : iter[1 .. i] \in D
  <2>1. \A i \in 1 .. n : iter[1 .. i - 1] \in D => iter[1 .. i] \in D
    BY <1>8
  <2> HIDE DEF Solves
  <2> QED  BY <1>7, <2>1, FoldStays
<1>10. n \in 0 .. n
  OBVIOUS
<1> QED  BY <1>6, <1>9, <1>10

\* The states that the drain of the n events of s goes through.
StatesOf(D, n) == [0 .. n -> D]
DrainsBy(at, start, s, n) ==
    /\ at[0] = start
    /\ \A i \in 1 .. n : at[i] = TakeEvent(at[i - 1], s[i])
    /\ at[n] = FoldLeft(TakeEvent, start, s)

LEMMA EventsTrace ==
    ASSUME NEW D, NEW start \in D, NEW s, NEW n \in Nat, DOMAIN s = 1 .. n,
           \A ui \in D, i \in 1 .. n : TakeEvent(ui, s[i]) \in D
    PROVE  \E at \in StatesOf(D, n) : DrainsBy(at, start, s, n)
<1> DEFINE Solves(f) == f = [r \in SUBSET DOMAIN s |->
                                IF r = {} THEN start
                                ELSE TakeEvent(f[r \ {Max(r)}], s[Max(r)])]
           iter == CHOOSE f : Solves(f)
<1>1. PICK step \in StepsOf(D, n) :
         \A ui \in D, i \in 1 .. n : step[<<ui, i>>] = TakeEvent(ui, s[i])
  <2> DEFINE step == [p \in D \X (1 .. n) |-> TakeEvent(p[1], s[p[2]])]
  <2>1. step \in StepsOf(D, n)
    BY DEF StepsOf
  <2>2. \A ui \in D, i \in 1 .. n : step[<<ui, i>>] = TakeEvent(ui, s[i])
    OBVIOUS
  <2> HIDE DEF step
  <2> QED  BY <2>1, <2>2
<1>2. PICK f \in FoldsOf(D, n) : FoldsBy(f, step, start, n)
  BY FoldSolution
<1>3. ASSUME NEW r \in SUBSET (1 .. n), r # {}
      PROVE  f[r] = TakeEvent(f[r \ {Max(r)}], s[Max(r)])
  <2>1. f[r \ {Max(r)}] \in D /\ Max(r) \in 1 .. n
    BY <1>3, MaxOfPositions DEF FoldsOf
  <2> QED  BY <1>1, <1>2, <1>3, <2>1 DEF FoldsBy
<1>4. Solves(f)
  BY <1>2, <1>3 DEF FoldsOf, FoldsBy
<1>5. Solves(iter)
  <2> HIDE DEF Solves
  <2> QED  BY <1>4
<1>6. FoldLeft(TakeEvent, start, s) = iter[1 .. n]
  BY DEF FoldLeft, MapThenFoldSet
<1> HIDE DEF iter
<1>7. iter[{}] = start
  BY <1>5
<1>8. ASSUME NEW i \in 1 .. n PROVE iter[1 .. i] = TakeEvent(iter[1 .. i - 1], s[i])
  <2>1. /\ 1 .. i \in SUBSET (1 .. n) /\ 1 .. i # {}
        /\ Max(1 .. i) = i
        /\ (1 .. i) \ {i} = 1 .. i - 1
    BY UpTo
  <2>2. \A r \in SUBSET (1 .. n) : r # {} => iter[r] = TakeEvent(iter[r \ {Max(r)}], s[Max(r)])
    BY <1>5
  <2> HIDE DEF Solves
  <2> QED  BY <2>1, <2>2
<1>9. \A i \in 0 .. n : iter[1 .. i] \in D
  <2>1. \A i \in 1 .. n : iter[1 .. i - 1] \in D => iter[1 .. i] \in D
    BY <1>8
  <2> HIDE DEF Solves
  <2> QED  BY <1>7, <2>1, FoldStays
<1> DEFINE at == [i \in 0 .. n |-> iter[1 .. i]]
<1>10. at \in [0 .. n -> D]
  BY <1>9
<1>11. at[0] = start
  <2>1. 1 .. 0 = {}
    OBVIOUS
  <2> QED  BY <1>7, <2>1
<1>12. \A i \in 1 .. n : at[i] = TakeEvent(at[i - 1], s[i])
  <2>1. \A i \in 1 .. n : i \in 0 .. n /\ i - 1 \in 0 .. n
    OBVIOUS
  <2> QED  BY <1>8, <2>1
<1>13. at[n] = FoldLeft(TakeEvent, start, s)
  BY <1>6
<1> HIDE DEF at
<1> QED  BY <1>10, <1>11, <1>12, <1>13 DEF StatesOf, DrainsBy

LEMMA EventsFold ==
    ASSUME NEW D, NEW start \in D, NEW s, NEW n \in Nat, DOMAIN s = 1 .. n,
           \A ui \in D, i \in 1 .. n : TakeEvent(ui, s[i]) \in D
    PROVE  FoldLeft(TakeEvent, start, s) \in D
<1>1. PICK at \in StatesOf(D, n) : DrainsBy(at, start, s, n)
  BY EventsTrace
<1>2. n \in 0 .. n
  OBVIOUS
<1> QED  BY <1>1, <1>2 DEF StatesOf, DrainsBy

Ui == [shown : [Tunnels -> {"none", "host", "hosting"}],
       rows : [Tunnels -> RowState],
       autoHost : SUBSET Tunnels,
       appState : {"checking", "ready", "cli-missing", "relogin"},
       resumeDue : BOOLEAN,
       started : Nat,
       loadOk : BOOLEAN]

LEMMA TakePreflightType ==
    ASSUME NEW ui \in Ui, NEW pf \in Preflight
    PROVE  /\ TakePreflight(ui, pf) \in Ui
           /\ TakePreflight(ui, pf).shown = ui.shown
           /\ TakePreflight(ui, pf).rows = ui.rows
           /\ TakePreflight(ui, pf).autoHost = ui.autoHost
           /\ TakePreflight(ui, pf).loadOk = ui.loadOk
<1>1. AppStateOf(pf) \in {"checking", "ready", "cli-missing", "relogin"}
  BY DEF AppStateOf, Preflight
<1>2. (ui.resumeDue \/ pf = "Ok") \in BOOLEAN
  OBVIOUS
<1>3. (IF pf = "Ok" THEN ui.started + 1 ELSE ui.started) \in Nat
  BY DEF Ui
<1> QED  BY <1>1, <1>2, <1>3 DEF TakePreflight, Ui

LEMMA TakeLoadType ==
    ASSUME NEW ui \in Ui, NEW load \in Load
    PROVE  /\ TakeLoad(ui, load) \in Ui
           /\ TakeLoad(ui, load).shown = ui.shown
           /\ TakeLoad(ui, load).autoHost = ui.autoHost
           /\ load.ok => TakeLoad(ui, load).rows = load.rows
           /\ ~load.ok => /\ TakeLoad(ui, load).rows = ui.rows
                          /\ TakeLoad(ui, load).loadOk = ui.loadOk
BY DEF TakeLoad, Load, Ui

LEMMA TakeEventType ==
    ASSUME NEW ui \in Ui, NEW ev \in Event
    PROVE  /\ TakeEvent(ui, ev) \in Ui
           /\ TakeEvent(ui, ev).rows = ui.rows
           /\ TakeEvent(ui, ev).loadOk = ui.loadOk
           /\ TakeEvent(ui, ev).resumeDue = ui.resumeDue
           /\ TakeEvent(ui, ev).autoHost \in
                 {ui.autoHost, ui.autoHost \ {ev.tunnel}}
           /\ TakeEvent(ui, ev).autoHost # ui.autoHost => IsMissingTunnelError(ev.msg)
           /\ TakeEvent(ui, ev).shown =
                 IF ev.kind = "ReloginRequired" THEN ui.shown
                 ELSE [ui.shown EXCEPT ![ev.tunnel] = ShownAs(ev.kind)]
<1>1. ShownAs(ev.kind) \in {"none", "host", "hosting"} \/ ev.kind = "ReloginRequired"
  BY DEF ShownAs, Event, EventKind
<1>2. ev.tunnel \in Tunnels
  BY DEF Event
<1>3. CASE ev.kind = "ReloginRequired"
  BY <1>3 DEF TakeEvent, Ui
<1>4. CASE ev.kind # "ReloginRequired"
  <2>1. /\ TakeEvent(ui, ev) =
             [ui EXCEPT !.shown[ev.tunnel] = ShownAs(ev.kind),
                        !.appState = IF IsAuthError(ev.msg) THEN "relogin" ELSE @,
                        !.autoHost = IF IsMissingTunnelError(ev.msg) THEN @ \ {ev.tunnel} ELSE @]
    BY <1>4 DEF TakeEvent
  <2>2. [ui.shown EXCEPT ![ev.tunnel] = ShownAs(ev.kind)] \in [Tunnels -> {"none", "host", "hosting"}]
    BY <1>1, <1>2, <1>4 DEF Ui
  <2> DEFINE sh == [ui.shown EXCEPT ![ev.tunnel] = ShownAs(ev.kind)]
             app == IF IsAuthError(ev.msg) THEN "relogin" ELSE ui.appState
             auto == IF IsMissingTunnelError(ev.msg) THEN ui.autoHost \ {ev.tunnel}
                                                     ELSE ui.autoHost
  <2>3. TakeEvent(ui, ev) = [ui EXCEPT !.shown = sh, !.appState = app, !.autoHost = auto]
    BY <2>1
  <2>4. /\ sh \in [Tunnels -> {"none", "host", "hosting"}]
        /\ app \in {"checking", "ready", "cli-missing", "relogin"}
        /\ auto \in SUBSET Tunnels
        /\ auto \in {ui.autoHost, ui.autoHost \ {ev.tunnel}}
        /\ auto # ui.autoHost => IsMissingTunnelError(ev.msg)
    BY <2>2 DEF Ui
  <2> HIDE DEF sh, app, auto
  <2>5. /\ TakeEvent(ui, ev) \in Ui
        /\ TakeEvent(ui, ev).rows = ui.rows
        /\ TakeEvent(ui, ev).loadOk = ui.loadOk
        /\ TakeEvent(ui, ev).resumeDue = ui.resumeDue
        /\ TakeEvent(ui, ev).autoHost = auto
        /\ TakeEvent(ui, ev).shown = sh
    BY <2>3, <2>4 DEF Ui
  <2> QED  BY <1>4, <2>4, <2>5 DEF sh
<1> QED  BY <1>3, <1>4

SessionTypes ==
    /\ shown \in [Tunnels -> {"none", "host", "hosting"}]
    /\ rows \in [Tunnels -> RowState]
    /\ autoHost \in SUBSET Tunnels
    /\ appState \in {"checking", "ready", "cli-missing", "relogin"}
    /\ resumeDue \in BOOLEAN
    /\ checking \in Nat
    /\ preflights \in Seq(Preflight)
    /\ operating \in Nat
    /\ loading \in Nat
    /\ listed \in [SUBSET Tunnels -> Nat]
    /\ loads \in Seq(Load)
    /\ installing \in {"no", "running"} \cup InstallOutcome
    /\ service \in [Tunnels -> RowState]
    /\ wanted \in SUBSET Tunnels
    /\ disturbed \in SUBSET Tunnels
    /\ lacked \in SUBSET Tunnels

\* Why the pump may take t out of the auto-host set, and where its rows are from.
SaidMissing(t) == \E i \in DOMAIN events : /\ events[i].tunnel = t
                                           /\ IsMissingTunnelError(events[i].msg)
Loaded(rws) == \E i \in DOMAIN loads : loads[i].ok /\ loads[i].rows = rws

\* Event i of evs sets what is shown of t, the last of the first n that does, or
\* none of them does and s0 stays.
Sets(evs, i, t) == evs[i].tunnel = t /\ evs[i].kind # "ReloginRequired"
Shows(evs, n, t, s0, s) ==
    \/ \E i \in 1 .. n : /\ Sets(evs, i, t) /\ s = ShownAs(evs[i].kind)
                         /\ \A j \in i + 1 .. n : ~Sets(evs, j, t)
    \/ (\A j \in 1 .. n : ~Sets(evs, j, t)) /\ s = s0

\* What the toggle of t shows once the events are drained.
WillShow(t, s) == Shows(events, Len(events), t, shown[t], s)

LEMMA ShowsNext ==
    ASSUME NEW evs, NEW n \in Nat, NEW t, NEW s0, NEW s, NEW new, Shows(evs, n, t, s0, s),
           Sets(evs, n + 1, t) => new = ShownAs(evs[n + 1].kind),
           ~Sets(evs, n + 1, t) => new = s
    PROVE  Shows(evs, n + 1, t, s0, new)
<1>1. /\ \A j \in 1 .. n + 1 : j \in 1 .. n \/ j = n + 1
      /\ \A j \in 1 .. n : j \in 1 .. n + 1
      /\ \A i \in 1 .. n : \A j \in i + 1 .. n + 1 : j \in i + 1 .. n \/ j = n + 1
      /\ n + 1 \in 1 .. n + 1 /\ \A j \in n + 1 + 1 .. n + 1 : FALSE
  OBVIOUS
<1>2. CASE Sets(evs, n + 1, t)
  BY <1>1, <1>2 DEF Shows
<1>3. CASE ~Sets(evs, n + 1, t)
  <2>1. CASE (\A j \in 1 .. n : ~Sets(evs, j, t)) /\ s = s0
    BY <1>1, <1>3, <2>1 DEF Shows
  <2>2. CASE \E i \in 1 .. n : /\ Sets(evs, i, t) /\ s = ShownAs(evs[i].kind)
                               /\ \A j \in i + 1 .. n : ~Sets(evs, j, t)
    BY <1>1, <1>3, <2>2 DEF Shows
  <2> QED  BY <2>1, <2>2 DEF Shows
<1> QED  BY <1>2, <1>3

\* The drain shows what the last event says.
LEMMA DrainShows ==
    ASSUME events \in Seq(Event), NEW start \in Ui, start.shown = shown, NEW t \in Tunnels
    PROVE  WillShow(t, FoldLeft(TakeEvent, start, events).shown[t])
<1>1. /\ DOMAIN events = 1 .. Len(events) /\ Len(events) \in Nat
      /\ \A i \in 1 .. Len(events) : events[i] \in Event
  BY LenProperties, ElementOfSeq
<1>2. PICK n \in Nat : n = Len(events)
  BY <1>1
<1>3. \A ui \in Ui, i \in 1 .. n : TakeEvent(ui, events[i]) \in Ui
  BY <1>1, <1>2, TakeEventType
<1>4. PICK at \in StatesOf(Ui, n) : DrainsBy(at, start, events, n)
  BY <1>1, <1>2, <1>3, EventsTrace
<1> DEFINE P == {k \in Nat : k <= n => Shows(events, k, t, shown[t], at[k].shown[t])}
<1>5. 0 \in P
  <2>1. 1 .. 0 = {}
    OBVIOUS
  <2> QED  BY <1>4, <2>1 DEF DrainsBy, Shows
<1>6. ASSUME NEW k \in Nat, k \in P PROVE k + 1 \in P
  <2> SUFFICES ASSUME k + 1 <= n
               PROVE  Shows(events, k + 1, t, shown[t], at[k + 1].shown[t])
    OBVIOUS
  <2>1. Shows(events, k, t, shown[t], at[k].shown[t])
    BY <1>6
  <2>2. k + 1 \in 1 .. n /\ k \in 0 .. n /\ (k + 1) - 1 = k
    OBVIOUS
  <2>3. at[k] \in Ui /\ events[k + 1] \in Event /\ at[k + 1] = TakeEvent(at[k], events[k + 1])
    BY <1>1, <1>2, <1>4, <2>2 DEF StatesOf, DrainsBy
  <2>4. PICK ui \in Ui, ev \in Event : ui = at[k] /\ ev = events[k + 1]
    BY <2>3
  <2>5. /\ at[k + 1].shown = TakeEvent(ui, ev).shown
        /\ Sets(events, k + 1, t) <=> ev.tunnel = t /\ ev.kind # "ReloginRequired"
    BY <2>3, <2>4 DEF Sets
  <2>6. /\ Sets(events, k + 1, t) => at[k + 1].shown[t] = ShownAs(events[k + 1].kind)
        /\ ~Sets(events, k + 1, t) => at[k + 1].shown[t] = at[k].shown[t]
    <3>1. CASE ev.kind = "ReloginRequired"
      <4>1. TakeEvent(ui, ev).shown = ui.shown
        BY <3>1, TakeEventType
      <4> QED  BY <2>4, <2>5, <3>1, <4>1
    <3>2. CASE ev.kind # "ReloginRequired"
      <4>1. TakeEvent(ui, ev).shown = [ui.shown EXCEPT ![ev.tunnel] = ShownAs(ev.kind)]
        BY <3>2, TakeEventType
      <4>2. ui.shown \in [Tunnels -> {"none", "host", "hosting"}]
        BY DEF Ui
      <4>3. TakeEvent(ui, ev).shown[t] = IF t = ev.tunnel THEN ShownAs(ev.kind) ELSE ui.shown[t]
        BY <4>1, <4>2
      <4> QED  BY <2>4, <2>5, <3>2, <4>3
    <3> QED  BY <3>1, <3>2
  <2> QED  BY <2>1, <2>6, ShowsNext
<1> HIDE DEF P
<1>7. n \in P
  BY <1>5, <1>6, SetInduction
<1>8. Shows(events, n, t, shown[t], at[n].shown[t])
  BY <1>7 DEF P
<1> QED  BY <1>2, <1>4, <1>8 DEF WillShow, DrainsBy

LEMMA DrainedUi ==
    ASSUME SessionTypes, events \in Seq(Event), NEW pfs \in Seq(Preflight)
    PROVE  /\ Drained(pfs) \in Ui
           /\ Drained(pfs).autoHost \subseteq autoHost
           /\ \A t \in autoHost \ Drained(pfs).autoHost : SaidMissing(t)
           /\ Drained(pfs).loadOk => Loaded(Drained(pfs).rows)
           /\ \A t \in Tunnels : WillShow(t, Drained(pfs).shown[t])
<1> DEFINE start == [shown |-> shown, rows |-> rows, autoHost |-> autoHost,
                     appState |-> appState, resumeDue |-> resumeDue,
                     started |-> 0, loadOk |-> FALSE]
           checked == FoldLeft(TakePreflight, start, pfs)
           loaded == FoldLeft(TakeLoad, checked, loads)
           D1 == {v \in Ui : v.autoHost = autoHost /\ v.shown = shown /\ ~v.loadOk}
           D2 == {v \in Ui : v.autoHost = autoHost /\ v.shown = shown /\ (v.loadOk => Loaded(v.rows))}
           D3 == {v \in Ui : /\ v.autoHost \subseteq autoHost
                             /\ \A t \in autoHost \ v.autoHost : SaidMissing(t)
                             /\ v.loadOk => Loaded(v.rows)}
<1>1. /\ DOMAIN pfs = 1 .. Len(pfs) /\ Len(pfs) \in Nat
      /\ DOMAIN loads = 1 .. Len(loads) /\ Len(loads) \in Nat
      /\ DOMAIN events = 1 .. Len(events) /\ Len(events) \in Nat
  BY LenProperties DEF SessionTypes
<1>2. /\ \A i \in 1 .. Len(pfs) : pfs[i] \in Preflight
      /\ \A i \in 1 .. Len(loads) : loads[i] \in Load
      /\ \A i \in 1 .. Len(events) : events[i] \in Event
  BY ElementOfSeq DEF SessionTypes
<1>3. start \in D1
  BY DEF SessionTypes, Ui
<1>4. checked \in D1
  <2>1. ASSUME NEW ui \in D1, NEW i \in 1 .. Len(pfs) PROVE TakePreflight(ui, pfs[i]) \in D1
    <3>1. pfs[i] \in Preflight /\ ui \in Ui
      BY <1>2
    <3> QED  BY <3>1, TakePreflightType
  <2> HIDE DEF D1, start
  <2> QED  BY <1>1, <1>3, <2>1, PreflightsFold
<1>5. loaded \in D2
  <2>1. checked \in D2
    <3> HIDE DEF checked
    <3> QED  BY <1>4
  <2>2. ASSUME NEW ui \in D2, NEW i \in 1 .. Len(loads) PROVE TakeLoad(ui, loads[i]) \in D2
    <3>1. loads[i] \in Load /\ i \in DOMAIN loads
      BY <1>1, <1>2
    <3>2. CASE loads[i].ok
      <4>1. Loaded(TakeLoad(ui, loads[i]).rows)
        BY <3>1, <3>2, TakeLoadType DEF Loaded
      <4> QED  BY <3>1, <4>1, TakeLoadType
    <3>3. CASE ~loads[i].ok
      BY <3>1, <3>3, TakeLoadType
    <3> QED  BY <3>2, <3>3
  <2> HIDE DEF D2, checked
  <2> QED  BY <1>1, <2>1, <2>2, LoadsFold
<1>6. FoldLeft(TakeEvent, loaded, events) \in D3
  <2>1. loaded \in D3
    <3> HIDE DEF loaded
    <3> QED  BY <1>5
  <2>2. ASSUME NEW ui \in D3, NEW i \in 1 .. Len(events) PROVE TakeEvent(ui, events[i]) \in D3
    <3>1. events[i] \in Event /\ i \in DOMAIN events
      BY <1>1, <1>2
    <3> DEFINE new == TakeEvent(ui, events[i])
    <3>2. /\ new \in Ui /\ new.rows = ui.rows /\ new.loadOk = ui.loadOk
          /\ new.autoHost \in {ui.autoHost, ui.autoHost \ {events[i].tunnel}}
          /\ new.autoHost # ui.autoHost => IsMissingTunnelError(events[i].msg)
      BY <3>1, TakeEventType
    <3> HIDE DEF new
    <3>3. new.autoHost # ui.autoHost => SaidMissing(events[i].tunnel)
      BY <3>1, <3>2 DEF SaidMissing
    <3>4. new \in D3
      BY <3>2, <3>3
    <3> QED  BY <3>4 DEF new
  <2> HIDE DEF D3, loaded
  <2> QED  BY <1>1, <2>1, <2>2, EventsFold
<1>7. Drained(pfs) = FoldLeft(TakeEvent, loaded, events)
  BY DEF Drained
<1>8. loaded \in Ui /\ loaded.shown = shown
  <2> HIDE DEF loaded
  <2> QED  BY <1>5
<1> HIDE DEF loaded
<1> QED  BY <1>6, <1>7, <1>8, DrainShows

LEMMA AutoResumeType ==
    ASSUME NEW ui \in Ui
    PROVE  /\ AutoResume(ui).ui \in Ui
           /\ AutoResume(ui).host \subseteq ui.autoHost
           /\ AutoResume(ui).ui.autoHost \subseteq ui.autoHost
           /\ \A t \in ui.autoHost \ AutoResume(ui).ui.autoHost :
                 ui.loadOk /\ ui.rows[t] = "absent"
           /\ \A t \in Tunnels \ AutoResume(ui).host : AutoResume(ui).ui.shown[t] = ui.shown[t]
<1>1. CASE ~(ui.loadOk /\ ui.resumeDue)
  <2>1. AutoResume(ui) = [ui |-> ui, host |-> {}]
    BY <1>1 DEF AutoResume
  <2> QED  BY <2>1
<1>2. CASE ui.loadOk /\ ui.resumeDue
  <2> DEFINE known == {t \in ui.autoHost : ui.rows[t] = "ported"}
             sh == [t \in Tunnels |-> IF t \in known THEN "host" ELSE ui.shown[t]]
             auto == {t \in ui.autoHost : ui.rows[t] # "absent"}
             new == [ui EXCEPT !.resumeDue = FALSE, !.shown = sh, !.autoHost = auto]
  <2>1. AutoResume(ui) = [ui |-> new, host |-> known]
    BY <1>2 DEF AutoResume
  <2>2. sh \in [Tunnels -> {"none", "host", "hosting"}] /\ auto \subseteq Tunnels
    BY DEF Ui
  <2>3. \A t \in Tunnels \ known : sh[t] = ui.shown[t]
    OBVIOUS
  <2> HIDE DEF sh
  <2>4. new \in Ui /\ new.autoHost = auto /\ new.shown = sh
    BY <2>2 DEF Ui
  <2> HIDE DEF new
  <2> QED  BY <1>2, <2>1, <2>3, <2>4
<1> QED  BY <1>1, <1>2

LEMMA SetToSeqType ==
    ASSUME NEW S, IsFiniteSet(S)
    PROVE  /\ Cardinality(S) \in Nat
           /\ SetToSeq(S) \in [1 .. Cardinality(S) -> S]
           /\ \A x \in S : \E i \in 1 .. Cardinality(S) : SetToSeq(S)[i] = x
<1>1. Cardinality(S) \in Nat /\ ExistsBijection(1 .. Cardinality(S), S)
  BY FS_CardinalityType
<1>2. \E f \in [1 .. Cardinality(S) -> S] : IsInjective(f)
  BY <1>1, Zenon DEF ExistsBijection, Bijection, Injection
<1>3. SetToSeq(S) \in [1 .. Cardinality(S) -> S] /\ IsInjective(SetToSeq(S))
  BY <1>2, Zenon DEF SetToSeq
<1> DEFINE q == SetToSeq(S)
<1>4. q \in Injection(1 .. Cardinality(S), S)
  BY <1>3, Zenon DEF Injection
<1>5. IsFiniteSet(1 .. Cardinality(S)) /\ Cardinality(1 .. Cardinality(S)) = Cardinality(S)
  <2>1. 0 + 1 = 1 /\ Cardinality(S) - 1 + 1 = Cardinality(S)
    BY <1>1
  <2> QED  BY <1>1, FS_Interval
<1> HIDE DEF q
<1>6. q \in Surjection(1 .. Cardinality(S), S)
  BY <1>4, <1>5, FS_Injection
<1>7. \A x \in S : \E i \in 1 .. Cardinality(S) : q[i] = x
  BY <1>6, Zenon DEF Surjection
<1> QED  BY <1>1, <1>3, <1>7 DEF q

-----------------------------------------------------------------------------
(* The invariant of the session. *)

WantedInv == /\ autoHost \subseteq wanted
             /\ \A t \in Tunnels \ wanted : StopBehind(t)

\* Whatever an answer under way says is absent was so while it was under way.
EventsTrue == \A i \in DOMAIN events :
    IsMissingTunnelError(events[i].msg \ IdNeedles[events[i].tunnel])
        => events[i].tunnel \in lacked

LoadsTrue == \A i \in DOMAIN loads : loads[i].ok =>
    \A t \in Tunnels : loads[i].rows[t] = "absent" => t \in lacked

ListsTrue == /\ Absent \subseteq lacked
             /\ \A S \in SUBSET Tunnels : listed[S] > 0 => Tunnels \ S \subseteq lacked

AnswersTrue == EventsTrue /\ LoadsTrue /\ ListsTrue

SessionInv == EngineInv /\ SessionTypes /\ WantedInv /\ AnswersTrue

\* Commands put behind the others leave a Stop the last unless they host.
LEMMA BatchKeepsStop ==
    ASSUME cmds \in Seq(Command), NEW batch \in Seq(Command), cmds' = cmds \o batch,
           UNCHANGED <<fetching, groups>>,
           NEW t, StopBehind(t),
           \A i \in 1 .. Len(batch) : batch[i] # [op |-> "Host", tunnel |-> t]
    PROVE  StopBehind(t)'
<1>1. /\ cmds \o batch \in Seq(Command)
      /\ Len(cmds \o batch) = Len(cmds) + Len(batch)
      /\ \A k \in 1 .. Len(cmds) + Len(batch) :
            (cmds \o batch)[k] = IF k <= Len(cmds) THEN cmds[k] ELSE batch[k - Len(cmds)]
  BY ONLY cmds \in Seq(Command), batch \in Seq(Command), ConcatProperties, Zenon
<1>2. /\ Len(cmds) \in Nat /\ DOMAIN cmds = 1 .. Len(cmds)
      /\ Len(batch) \in Nat
      /\ DOMAIN cmds' = 1 .. Len(cmds) + Len(batch)
  BY <1>1, LenProperties
<1>3. \A k \in DOMAIN cmds : k \in DOMAIN cmds' /\ cmds'[k] = cmds[k]
  BY <1>1, <1>2
<1>4. ASSUME NEW k \in DOMAIN cmds', cmds'[k] = [op |-> "Host", tunnel |-> t]
      PROVE  k \in DOMAIN cmds /\ cmds[k] = [op |-> "Host", tunnel |-> t]
  <2>1. k <= Len(cmds)
    <3> SUFFICES ASSUME k > Len(cmds) PROVE FALSE
      BY <1>2
    <3>1. k - Len(cmds) \in 1 .. Len(batch) /\ ~(k <= Len(cmds))
      BY <1>2
    <3>2. cmds'[k] = batch[k - Len(cmds)]
      BY <1>1, <1>2, <3>1
    <3> QED  BY <1>4, <3>1, <3>2
  <2> QED  BY <1>2, <1>3, <1>4, <2>1
<1>5. ToBeHosted(t)' => ToBeHosted(t)
  BY <1>4 DEF ToBeHosted
<1>6. StoppedLast(t) => StoppedLast(t)'
  BY <1>3, <1>4 DEF StoppedLast
<1> QED  BY <1>5, <1>6 DEF StopBehind

LEMMA SendBatch ==
    ASSUME EngineTypeOK, NEW op \in Op, NEW t \in Tunnels, Send(op, t)
    PROVE  /\ <<[op |-> op, tunnel |-> t]>> \in Seq(Command)
           /\ Len(<<[op |-> op, tunnel |-> t]>>) = 1
           /\ cmds' = cmds \o <<[op |-> op, tunnel |-> t]>>
<1>1. [op |-> op, tunnel |-> t] \in Command
  BY DEF Command
<1> DEFINE c == [op |-> op, tunnel |-> t]
<1> HIDE DEF c
<1>2. c \in Command /\ cmds \in Seq(Command) /\ cmds' = Append(cmds, c)
  BY <1>1 DEF c, EngineTypeOK, Send
<1>3. cmds' = cmds \o <<c>>
  BY <1>2, AppendIsConcat
<1>4. <<c>> \in Seq(Command) /\ Len(<<c>>) = 1
  BY <1>2, SeqTypes
<1> QED  BY <1>3, <1>4 DEF c

\* A Stop that is sent is the last command.
LEMMA StopSentLast ==
    ASSUME EngineTypeOK, NEW t \in Tunnels, Send("Stop", t)
    PROVE  StoppedLast(t)'
<1> DEFINE c == [op |-> "Stop", tunnel |-> t]
<1>1. c \in Command
  BY DEF Command, Op
<1>2. c # [op |-> "Host", tunnel |-> t]
  OBVIOUS
<1>3. cmds \in Seq(Command) /\ cmds' = Append(cmds, c)
  BY DEF Send, EngineTypeOK
<1> HIDE DEF c
<1>4. /\ Len(cmds) \in Nat
      /\ Len(cmds') = Len(cmds) + 1 /\ cmds'[Len(cmds) + 1] = c
      /\ cmds' \in Seq(Command)
  BY <1>1, <1>3, AppendProperties, LenProperties
<1>5. DOMAIN cmds' = 1 .. Len(cmds) + 1
  BY <1>4, LenProperties
<1>6. \A j \in DOMAIN cmds' : j # Len(cmds) + 1 => j < Len(cmds) + 1
  BY <1>4, <1>5
<1>7. Len(cmds) + 1 \in DOMAIN cmds'
  BY <1>4, <1>5
<1> QED  BY <1>2, <1>4, <1>6, <1>7 DEF StoppedLast, c

\* The engine appends what it reports.
LEMMA EngineAppends ==
    ASSUME EngineInv, EngineStep
    PROVE  \A i \in DOMAIN events : i \in DOMAIN events' /\ events'[i] = events[i]
<1> DEFINE Kept == \A i \in DOMAIN events : i \in DOMAIN events' /\ events'[i] = events[i]
<1>1. ASSUME NEW t \in Tunnels, NEW sent \in Seq(SentEvent), Emit(t, sent) PROVE Kept
  <2>1. events \in Seq(Event) /\ Tagged(t, sent) \in Seq(Event)
    BY TaggedType DEF EngineInv, EngineTypeOK
  <2>2. events' = events \o Tagged(t, sent)
    BY <1>1 DEF Emit
  <2> DEFINE tail == Tagged(t, sent)
  <2> HIDE DEF tail
  <2>3. /\ events \o tail \in Seq(Event)
        /\ Len(events \o tail) = Len(events) + Len(tail)
        /\ \A k \in 1 .. Len(events) + Len(tail) :
              (events \o tail)[k] = IF k <= Len(events) THEN events[k] ELSE tail[k - Len(events)]
    <3>1. events \in Seq(Event) /\ tail \in Seq(Event)
      BY <2>1 DEF tail
    <3> QED  BY ONLY <3>1, ConcatProperties, Zenon
  <2>4. /\ Len(events) \in Nat /\ DOMAIN events = 1 .. Len(events) /\ Len(tail) \in Nat
        /\ DOMAIN events' = 1 .. Len(events) + Len(tail)
    BY <2>1, <2>2, <2>3, LenProperties DEF tail
  <2>5. events' = events \o tail
    BY <2>2 DEF tail
  <2> QED  BY <2>3, <2>4, <2>5
<1>2. UNCHANGED events => Kept
  OBVIOUS
<1> HIDE DEF Kept
<1>3. ASSUME NEW th \in Threads, GroupThread(th) PROVE Kept
  <2>1. CASE WindDown(th) \/ ThreadExit(th)
    BY <1>2, <2>1 DEF WindDown, ThreadExit
  <2>2. ASSUME NEW r, Resume(th, r), GoodResult(r), ~Finished(th) PROVE Kept
    <3>1. tunnel[th] \in Tunnels
      BY <2>2 DEF EngineInv, RunningHaveTunnel
    <3> QED  BY <1>1, <2>2, <3>1 DEF Resume, GoodResult
  <2> QED  BY <1>3, <2>1, <2>2, ThreadResumes DEF EngineInv
<1>4. ASSUME NEW t \in Tunnels, FetchFails(t) PROVE Kept
  <2>1. PICK c \in Causes :
           Emit(t, (IF IsAuthError(CliMessage(t, c)) THEN <<Sent("ReloginRequired")>> ELSE <<>>)
                       \o <<SentError(CliMessage(t, c))>>)
    BY <1>4 DEF FetchFails
  <2> DEFINE msg == CliMessage(t, c)
             first == IF IsAuthError(msg) THEN <<Sent("ReloginRequired")>> ELSE <<>>
  <2>2. msg \in SUBSET Needle
    BY MessageTypes, ErrorConstants
  <2> HIDE DEF msg
  <2>3. first \in Seq(SentEvent)
    BY SeqTypes, SentType DEF EventKind
  <2>4. <<SentError(msg)>> \in Seq(SentEvent)
    BY <2>2, SeqTypes, SentErrorType
  <2> HIDE DEF first
  <2>5. first \o <<SentError(msg)>> \in Seq(SentEvent)
    BY <2>3, <2>4, ConcatProperties
  <2>6. Emit(t, first \o <<SentError(msg)>>)
    BY <2>1 DEF first, msg
  <2> QED  BY <1>1, <2>5, <2>6
<1>5. ASSUME NEW t \in Tunnels, StopGroup(t) PROVE Kept
  <2>1. Emit(t, <<Sent("Stopped")>>)
    BY <1>5 DEF StopGroup
  <2>2. <<Sent("Stopped")>> \in Seq(SentEvent)
    BY SeqTypes, SentType DEF EventKind
  <2> QED  BY <1>1, <2>1, <2>2
<1>6. ASSUME NEW t \in Tunnels, HostIgnored(t) \/ HostBegins(t) \/ SpawnGroup(t) \/ DropRelay(t)
      PROVE  Kept
  BY <1>2, <1>6 DEF HostIgnored, HostBegins, SpawnGroup, DropRelay
<1>7. Kept
  BY <1>3, <1>4, <1>5, <1>6 DEF EngineStep, CommandThread
<1> QED  BY <1>7 DEF Kept

\* Steps that leave the engine alone but for the commands it is sent and the
\* events that are drained.
LEMMA ClientKeepsEngine ==
    ASSUME EngineInv, cmds' \in Seq(Command), events' \in Seq(Event),
           UNCHANGED <<fetching, groups, threadVars>>
    PROVE  EngineInv'
<1>1. UNCHANGED <<fetching, groups, tunnel, task, cancelled, dropping, lastPass>>
  BY DEF threadVars
<1>2. EngineTypeOK' /\ FetchesForTheDead'
  BY <1>1 DEF EngineInv, EngineTypeOK, FetchesForTheDead, Live, Finished
<1> QED  BY <1>1, <1>2, NoHandleInv

\* The channels and the service, as far as the invariant asks.
LEMMA SameTruths ==
    ASSUME AnswersTrue, UNCHANGED <<events, loads, listed, service, lacked>>
    PROVE  AnswersTrue'
BY DEF AnswersTrue, EventsTrue, LoadsTrue, ListsTrue, Absent

\* A load of the channel speaks for a time when it was under way.
LEMMA LoadArrives ==
    ASSUME SessionInv, NEW load \in Load, loads' = Append(loads, load), UNCHANGED lacked,
           load.ok => \A t \in Tunnels : load.rows[t] = "absent" => t \in lacked
    PROVE  loads' \in Seq(Load) /\ LoadsTrue'
<1>1. loads \in Seq(Load) /\ LoadsTrue
  BY DEF SessionInv, SessionTypes, AnswersTrue
<1>2. /\ loads' \in Seq(Load) /\ Len(loads) \in Nat
      /\ DOMAIN loads' = 1 .. Len(loads) + 1 /\ DOMAIN loads = 1 .. Len(loads)
      /\ \A i \in 1 .. Len(loads) : loads'[i] = loads[i]
      /\ loads'[Len(loads) + 1] = load
  BY <1>1, AppendProperties, LenProperties
<1>3. \A i \in DOMAIN loads' : i \in DOMAIN loads \/ i = Len(loads) + 1
  BY <1>2
<1> QED  BY <1>1, <1>2, <1>3 DEF LoadsTrue

LEMMA FailureArrives ==
    ASSUME SessionInv, NEW msg \in SUBSET Needle, loads' = Append(loads, FailedLoad(msg)),
           UNCHANGED lacked
    PROVE  loads' \in Seq(Load) /\ LoadsTrue'
<1> DEFINE rws == [t \in Tunnels |-> "absent"]
<1>1. rws \in [Tunnels -> RowState]
  BY DEF RowState
<1>2. FailedLoad(msg) = [ok |-> FALSE, msg |-> msg, rows |-> rws]
  BY DEF FailedLoad
<1> HIDE DEF rws
<1>3. FailedLoad(msg) \in Load /\ ~FailedLoad(msg).ok
  BY <1>1, <1>2 DEF Load
<1> HIDE DEF FailedLoad
<1> QED  BY <1>3, LoadArrives

\* What the service lacks is remembered as long as an answer is under way.
LEMMA ChangeKeepsTruths ==
    ASSUME SessionInv, NEW t \in Tunnels, NEW q \in Services, ServiceBecomes(t, q),
           UNCHANGED <<events, loads, listed>>
    PROVE  AnswersTrue' /\ service' \in [Tunnels -> RowState] /\ lacked' \in SUBSET Tunnels
<1>1. /\ service \in [Tunnels -> RowState] /\ lacked \in SUBSET Tunnels
      /\ loads \in Seq(Load) /\ events \in Seq(Event)
      /\ listed \in [SUBSET Tunnels -> Nat]
      /\ EventsTrue /\ LoadsTrue /\ ListsTrue
  BY DEF SessionInv, SessionTypes, AnswersTrue, EngineInv, EngineTypeOK
<1>2. /\ service' = [service EXCEPT ![t] = q]
      /\ lacked' = Absent' \cup (IF UnderWay THEN lacked ELSE {})
  BY DEF ServiceBecomes
<1>3. service' \in [Tunnels -> RowState]
  BY <1>1, <1>2, SessionConstants
<1>4. Absent' \subseteq lacked' /\ lacked' \in SUBSET Tunnels
  BY <1>1, <1>2 DEF Absent
<1>5. CASE UnderWay
  <2>1. lacked \subseteq lacked'
    BY <1>2, <1>5
  <2> QED  BY <1>1, <1>3, <1>4, <2>1 DEF AnswersTrue, EventsTrue, LoadsTrue, ListsTrue
<1>6. CASE ~UnderWay
  <2>1. /\ events = <<>> /\ loads = <<>>
        /\ \A S \in SUBSET Tunnels : ~(listed[S] > 0)
    BY <1>6 DEF UnderWay
  <2>2. DOMAIN events = {} /\ DOMAIN loads = {}
    BY <2>1
  <2>3. EventsTrue' /\ LoadsTrue'
    BY <2>2 DEF EventsTrue, LoadsTrue
  <2>4. ListsTrue'
    BY <1>4, <2>1 DEF ListsTrue
  <2> QED  BY <1>3, <1>4, <2>3, <2>4 DEF AnswersTrue
<1> QED  BY <1>5, <1>6

LEMMA UserKeepsSession ==
    ASSUME SessionInv, NEW t \in Tunnels, OnHost(t) \/ OnStop(t)
    PROVE  SessionInv'
<1>1. EngineTypeOK /\ cmds \in Seq(Command) /\ events \in Seq(Event) /\ SessionTypes
  BY DEF SessionInv, EngineInv, EngineTypeOK
<1>2. /\ UNCHANGED <<fetching, groups, threadVars, events, jobVars>>
      /\ UNCHANGED <<rows, appState, resumeDue, disturbed, lacked>>
  BY DEF OnHost, OnStop
<1>3. PICK op \in {"Host", "Stop"} : Send(op, t) /\ (OnStop(t) => op = "Stop")
  BY DEF OnHost, OnStop
<1> DEFINE batch == <<[op |-> op, tunnel |-> t]>>
<1>4. op \in Op
  BY DEF Op
<1>5. batch \in Seq(Command) /\ Len(batch) = 1 /\ cmds' = cmds \o batch
  BY <1>1, <1>3, <1>4, SendBatch
<1>6. batch[1] = [op |-> op, tunnel |-> t]
  OBVIOUS
<1> HIDE DEF batch
<1>7. EngineInv'
  <2>1. cmds' \in Seq(Command)
    BY <1>1, <1>5, ConcatProperties
  <2> QED  BY <1>1, <1>2, <2>1, ClientKeepsEngine DEF SessionInv
<1>8. \A u \in Tunnels : StopBehind(u) /\ (u = t => op = "Stop") => StopBehind(u)'
  <2> SUFFICES ASSUME NEW u \in Tunnels, StopBehind(u), u = t => op = "Stop"
               PROVE  StopBehind(u)'
    OBVIOUS
  <2>1. batch[1] # [op |-> "Host", tunnel |-> u]
    BY <1>6
  <2>2. \A i \in 1 .. Len(batch) : batch[i] # [op |-> "Host", tunnel |-> u]
    BY <1>5, <2>1
  <2>3. UNCHANGED <<fetching, groups>>
    BY <1>2
  <2> QED  BY <1>1, <1>5, <2>2, <2>3, BatchKeepsStop
<1>9. SessionTypes' /\ WantedInv'
  <2>1. CASE OnHost(t)
    <3>1. /\ autoHost' = autoHost \cup {t} /\ wanted' = wanted \cup {t}
          /\ shown' = [shown EXCEPT ![t] = "host"]
      BY <2>1 DEF OnHost
    <3>2. SessionTypes'
      BY <1>1, <1>2, <3>1 DEF SessionTypes, jobVars
    <3>3. \A u \in Tunnels \ wanted' : u # t /\ StopBehind(u)
      BY <3>1 DEF SessionInv, WantedInv
    <3>4. WantedInv'
      BY <1>8, <3>1, <3>3 DEF SessionInv, WantedInv
    <3> QED  BY <3>2, <3>4
  <2>2. CASE OnStop(t)
    <3>1. /\ autoHost' = autoHost \ {t} /\ wanted' = wanted \ {t}
          /\ shown' = [shown EXCEPT ![t] = "none"]
          /\ Send("Stop", t)
      BY <2>2 DEF OnStop
    <3>2. SessionTypes'
      BY <1>1, <1>2, <3>1 DEF SessionTypes, jobVars
    <3>3. op = "Stop"
      BY <1>3, <2>2
    <3>4. StoppedLast(t)'
      BY <1>1, <3>1, StopSentLast
    <3>5. \A u \in Tunnels \ wanted' : u # t => StopBehind(u)
      BY <3>1 DEF SessionInv, WantedInv
    <3>6. \A u \in Tunnels \ wanted' : StopBehind(u)'
      <4> SUFFICES ASSUME NEW u \in Tunnels \ wanted' PROVE StopBehind(u)'
        OBVIOUS
      <4>1. CASE u = t
        BY <3>4, <4>1 DEF StopBehind
      <4>2. CASE u # t
        BY <1>8, <3>5, <4>2
      <4> QED  BY <4>1, <4>2
    <3>7. WantedInv'
      BY <3>1, <3>6 DEF SessionInv, WantedInv
    <3> QED  BY <3>2, <3>7
  <2> QED  BY <2>1, <2>2
<1>10. AnswersTrue'
  BY <1>2, SameTruths DEF SessionInv, jobVars
<1> QED  BY <1>7, <1>9, <1>10 DEF SessionInv

LEMMA EngineKeepsSession ==
    ASSUME SessionInv, Engine
    PROVE  SessionInv'
<1>1. /\ EngineStep /\ Truthful
      /\ UNCHANGED <<uiVars, jobVars, wanted, lacked>>
      /\ disturbed' \subseteq Tunnels
  BY DEF Engine
<1>2. EngineInv'
  BY <1>1, NextEngineInv DEF SessionInv, Next
<1>3. SessionTypes'
  BY <1>1 DEF SessionInv, SessionTypes, uiVars, jobVars
<1>4. WantedInv'
  <2>1. ASSUME NEW t \in Tunnels \ wanted' PROVE StopBehind(t)'
    <3>1. t \in Tunnels \ wanted /\ StopBehind(t)
      BY <1>1, <2>1 DEF SessionInv, WantedInv
    <3> QED  BY <1>1, <3>1, EngineKeepsStop DEF SessionInv, EngineInv
  <2> QED  BY <1>1, <2>1 DEF SessionInv, WantedInv, uiVars
<1>5. EventsTrue'
  <2> SUFFICES ASSUME NEW i \in DOMAIN events',
                      IsMissingTunnelError(events'[i].msg \ IdNeedles[events'[i].tunnel])
               PROVE  events'[i].tunnel \in lacked
    BY <1>1 DEF EventsTrue
  <2>1. CASE i \in DOMAIN events
    <3>1. events'[i] = events[i]
      BY <1>1, <2>1, EngineAppends DEF SessionInv
    <3> QED  BY <2>1, <3>1 DEF SessionInv, AnswersTrue, EventsTrue
  <2>2. CASE i \notin DOMAIN events
    <3>1. service[events'[i].tunnel] = "absent"
      BY <1>1, <2>2 DEF Truthful
    <3>2. events' \in Seq(Event)
      BY <1>2 DEF EngineInv, EngineTypeOK
    <3>3. events'[i] \in Event
      BY <3>2, LenProperties, ElementOfSeq
    <3>4. events'[i].tunnel \in Absent
      BY <3>1, <3>3 DEF Event, Absent
    <3> QED  BY <3>4 DEF SessionInv, AnswersTrue, ListsTrue
  <2> QED  BY <2>1, <2>2
<1>6. LoadsTrue' /\ ListsTrue'
  BY <1>1 DEF SessionInv, AnswersTrue, LoadsTrue, ListsTrue, Absent, jobVars
<1> QED  BY <1>2, <1>3, <1>4, <1>5, <1>6 DEF SessionInv, AnswersTrue

LEMMA BackgroundLeaves ==
    Background => UNCHANGED <<engineVars, uiVars, historyVars>>
BY DEF Background, OnRefresh, OnOperation, OnSignIn, OnInstallCli, InstallCli, PreflightDone,
       OperationWorks, OperationFails, List, LoadDone, ServiceChanges

\* The buttons and the threads that neither hear of the service nor change it.
LEMMA QuietJobs ==
    ASSUME SessionInv,
           OnRefresh \/ OnOperation \/ OnSignIn \/ OnInstallCli \/ InstallCli \/ PreflightDone
    PROVE  SessionTypes' /\ AnswersTrue'
<1>1. SessionTypes /\ UNCHANGED <<uiVars, historyVars, events, listed, loads, service, lacked>>
  BY DEF SessionInv, OnRefresh, OnOperation, OnSignIn, OnInstallCli, InstallCli, PreflightDone,
         engineVars
<1>2. AnswersTrue'
  BY <1>1, SameTruths DEF SessionInv
<1>3. /\ checking' \in Nat /\ operating' \in Nat /\ loading' \in Nat
      /\ installing' \in {"no", "running"} \cup InstallOutcome
      /\ preflights' \in Seq(Preflight)
  <2>1. CASE PreflightDone
    <3>1. PICK pf \in Preflights : preflights' = Append(preflights, pf)
      BY <2>1 DEF PreflightDone
    <3>2. pf \in Preflight
      BY SessionConstants
    <3> QED  BY <1>1, <2>1, <3>1, <3>2, AppendProperties DEF PreflightDone, SessionTypes
  <2>2. CASE OnRefresh \/ OnOperation \/ OnSignIn
    BY <1>1, <2>2 DEF OnRefresh, OnOperation, OnSignIn, SessionTypes
  <2>3. CASE OnInstallCli \/ InstallCli
    BY <1>1, <2>3 DEF OnInstallCli, InstallCli, SessionTypes
  <2> QED  BY <2>1, <2>2, <2>3
<1> QED  BY <1>1, <1>2, <1>3 DEF SessionTypes, uiVars, historyVars

LEMMA FailureMessages ==
    \A t \in Tunnels, c \in {"network", "signin"} :
        CauseNeedles(c) \in SUBSET Needle /\ CliMessage(t, c) \in SUBSET Needle
<1>1. \A c \in {"network", "signin"} : CauseNeedles(c) \in SUBSET Needle
  BY DEF CauseNeedles, Needle
<1>2. \A t \in Tunnels : IdNeedles[t] \in SUBSET Needle
  BY ErrorConstants
<1> HIDE DEF CauseNeedles
<1> QED  BY <1>1, <1>2 DEF CliMessage

LEMMA OperationKeepsSession ==
    ASSUME SessionInv, OperationWorks \/ OperationFails
    PROVE  SessionTypes' /\ AnswersTrue'
<1>1. SessionTypes /\ AnswersTrue
  BY DEF SessionInv
<1>2. CASE OperationWorks
  <2>1. PICK t \in Tunnels, q \in Services : ServiceBecomes(t, q)
    BY <1>2 DEF OperationWorks
  <2>2. UNCHANGED <<events, loads, listed>>
    BY <1>2 DEF OperationWorks, engineVars
  <2>3. AnswersTrue' /\ service' \in [Tunnels -> RowState] /\ lacked' \in SUBSET Tunnels
    BY <2>1, <2>2, ChangeKeepsTruths
  <2> QED  BY <1>1, <1>2, <2>2, <2>3 DEF OperationWorks, SessionTypes, uiVars, historyVars
<1>3. CASE OperationFails
  <2>1. PICK t \in Tunnels, c \in {"network", "signin"} :
           loads' = Append(loads, FailedLoad(CliMessage(t, c)))
    BY <1>3 DEF OperationFails
  <2>2. PICK msg \in SUBSET Needle : loads' = Append(loads, FailedLoad(msg))
    BY <2>1, FailureMessages
  <2>3. UNCHANGED <<events, listed, service, lacked>>
    BY <1>3 DEF OperationFails, engineVars
  <2>4. loads' \in Seq(Load) /\ LoadsTrue'
    BY <2>2, <2>3, FailureArrives
  <2>5. AnswersTrue'
    BY <1>1, <2>3, <2>4 DEF AnswersTrue, EventsTrue, ListsTrue, Absent
  <2> QED  BY <1>1, <1>3, <2>4, <2>5 DEF OperationFails, SessionTypes, uiVars, historyVars
<1> QED  BY <1>2, <1>3

LEMMA ListKeepsSession ==
    ASSUME SessionInv, List
    PROVE  SessionTypes' /\ AnswersTrue'
<1>1. /\ SessionTypes /\ EventsTrue /\ LoadsTrue /\ ListsTrue
      /\ listed \in [SUBSET Tunnels -> Nat]
  BY DEF SessionInv, AnswersTrue, SessionTypes
<1>2. /\ loading' = loading - 1 /\ loading > 0
      /\ UNCHANGED <<uiVars, historyVars, checking, preflights, operating, installing>>
      /\ UNCHANGED <<events, service, lacked>>
  BY DEF List, engineVars
<1>3. EventsTrue'
  BY <1>1, <1>2 DEF EventsTrue
<1>4. CASE listed' = [listed EXCEPT ![Tunnels \ Absent] = @ + 1] /\ UNCHANGED loads
  <2>1. Tunnels \ Absent \in SUBSET Tunnels /\ Tunnels \ (Tunnels \ Absent) \subseteq Absent
    OBVIOUS
  <2>2. listed' \in [SUBSET Tunnels -> Nat]
    BY <1>1, <1>4
  <2>3. \A S \in SUBSET Tunnels : listed'[S] > 0 => S = Tunnels \ Absent \/ listed[S] > 0
    BY <1>1, <1>4
  <2>4. ListsTrue'
    <3>1. \A S \in SUBSET Tunnels : listed'[S] > 0 => Tunnels \ S \subseteq lacked
      BY <1>1, <2>1, <2>3 DEF ListsTrue
    <3> QED  BY <1>1, <1>2, <3>1 DEF ListsTrue, Absent
  <2>5. LoadsTrue'
    BY <1>1, <1>2, <1>4 DEF LoadsTrue
  <2>6. SessionTypes'
    BY <1>1, <1>2, <1>4, <2>2 DEF SessionTypes, uiVars, historyVars
  <2> QED  BY <1>3, <2>4, <2>5, <2>6 DEF AnswersTrue
<1>5. CASE /\ \E c \in {"network", "signin"} : loads' = Append(loads, FailedLoad(CauseNeedles(c)))
           /\ UNCHANGED listed
  <2>1. \A c \in {"network", "signin"} : CauseNeedles(c) \in SUBSET Needle
    BY DEF CauseNeedles, Needle
  <2>2. PICK msg \in SUBSET Needle : loads' = Append(loads, FailedLoad(msg))
    BY <1>5, <2>1
  <2>3. loads' \in Seq(Load) /\ LoadsTrue'
    BY <1>2, <2>2, FailureArrives
  <2>4. ListsTrue'
    BY <1>1, <1>2, <1>5 DEF ListsTrue, Absent
  <2>5. SessionTypes'
    BY <1>1, <1>2, <1>5, <2>3 DEF SessionTypes, uiVars, historyVars
  <2> QED  BY <1>3, <2>3, <2>4, <2>5 DEF AnswersTrue
<1> QED  BY <1>4, <1>5 DEF List

LEMMA LoadDoneKeepsSession ==
    ASSUME SessionInv, LoadDone
    PROVE  SessionTypes' /\ AnswersTrue'
<1>1. /\ SessionTypes /\ EventsTrue /\ LoadsTrue /\ ListsTrue
      /\ listed \in [SUBSET Tunnels -> Nat]
  BY DEF SessionInv, AnswersTrue, SessionTypes
<1>2. PICK S \in SUBSET Tunnels :
         /\ listed[S] > 0
         /\ listed' = [listed EXCEPT ![S] = @ - 1]
         /\ \E shows \in SUBSET {t \in S : service[t] = "ported"} :
               loads' = Append(loads, [ok |-> TRUE, msg |-> {}, rows |-> RowsOf(S, shows)])
  BY DEF LoadDone
<1>3. PICK shows \in SUBSET S :
         loads' = Append(loads, [ok |-> TRUE, msg |-> {}, rows |-> RowsOf(S, shows)])
  BY <1>2
<1>4. UNCHANGED <<uiVars, historyVars, checking, preflights, operating, loading, installing,
                  events, service, lacked>>
  BY DEF LoadDone, engineVars
<1> DEFINE rws == RowsOf(S, shows)
<1>5. rws \in [Tunnels -> RowState]
  BY DEF RowsOf, RowState
<1>6. \A t \in Tunnels : rws[t] = "absent" => t \in lacked
  <2>1. \A t \in Tunnels : rws[t] = "absent" => t \in Tunnels \ S
    BY DEF RowsOf
  <2> QED  BY <1>1, <1>2, <2>1 DEF ListsTrue
<1> HIDE DEF rws
<1>7. [ok |-> TRUE, msg |-> {}, rows |-> rws] \in Load
  BY <1>5 DEF Load
<1>8. loads' = Append(loads, [ok |-> TRUE, msg |-> {}, rows |-> rws])
  BY <1>3 DEF rws
<1>9. loads' \in Seq(Load) /\ LoadsTrue'
  BY <1>4, <1>6, <1>7, <1>8, LoadArrives
<1>10. listed' \in [SUBSET Tunnels -> Nat] /\ \A R \in SUBSET Tunnels : listed'[R] > 0 => listed[R] > 0
  BY <1>1, <1>2
<1>11. ListsTrue'
  BY <1>1, <1>4, <1>10 DEF ListsTrue, Absent
<1>12. EventsTrue'
  BY <1>1, <1>4 DEF EventsTrue
<1>13. SessionTypes'
  BY <1>1, <1>4, <1>9, <1>10 DEF SessionTypes, uiVars, historyVars
<1> QED  BY <1>9, <1>11, <1>12, <1>13 DEF AnswersTrue

\* The background threads and the buttons that start them, and the service.
LEMMA BackgroundKeepsSession ==
    ASSUME SessionInv, Background
    PROVE  SessionInv'
<1>1. UNCHANGED <<engineVars, uiVars, historyVars>>
  BY BackgroundLeaves
<1>2. EngineInv'
  BY <1>1, NextEngineInv DEF SessionInv
<1>3. WantedInv'
  <2>1. \A t : StopBehind(t) => StopBehind(t)'
    BY <1>1 DEF engineVars, StopBehind, ToBeHosted, StoppedLast
  <2>2. UNCHANGED <<autoHost, wanted>>
    BY <1>1 DEF uiVars, historyVars
  <2> QED  BY <2>1, <2>2 DEF SessionInv, WantedInv
<1>4. ASSUME NEW t \in Tunnels, ServiceChanges(t) PROVE SessionTypes' /\ AnswersTrue'
  <2>1. PICK q \in Services : ServiceBecomes(t, q)
    BY <1>4 DEF ServiceChanges
  <2>2. UNCHANGED <<uiVars, historyVars, checking, preflights, operating, loading, listed, loads,
                    installing, events>>
    BY <1>4 DEF ServiceChanges, engineVars
  <2>3. AnswersTrue' /\ service' \in [Tunnels -> RowState] /\ lacked' \in SUBSET Tunnels
    BY <2>1, <2>2, ChangeKeepsTruths
  <2> QED  BY <2>2, <2>3 DEF SessionInv, SessionTypes, uiVars, historyVars
<1>5. SessionTypes' /\ AnswersTrue'
  BY <1>4, QuietJobs, OperationKeepsSession, ListKeepsSession, LoadDoneKeepsSession DEF Background
<1> QED  BY <1>2, <1>3, <1>5 DEF SessionInv

LEMMA AfterInstallType ==
    ASSUME SessionTypes, NEW pfs \in AfterInstall
    PROVE  pfs \in Seq(Preflight)
<1>1. preflights \in Seq(Preflight)
  BY DEF SessionTypes
<1>2. \A pf \in Preflights : Append(preflights, pf) \in Seq(Preflight)
  BY <1>1, SessionConstants, AppendProperties
<1> QED  BY <1>1, <1>2 DEF AfterInstall

\* What a tick does to the auto-host set, and to the commands.
LEMMA TickEffect ==
    ASSUME SessionTypes, EngineTypeOK, NEW pfs \in AfterInstall, Tick(pfs)
    PROVE  /\ SessionTypes'
           /\ autoHost' \subseteq autoHost
           /\ \A t \in autoHost \ autoHost' :
                 \/ SaidMissing(t)
                 \/ \E rws : Loaded(rws) /\ rws[t] = "absent"
           /\ \E batch \in Seq(Command) :
                 /\ cmds' = cmds \o batch
                 /\ \A t : \A i \in 1 .. Len(batch) :
                       batch[i] = [op |-> "Host", tunnel |-> t] => t \in autoHost
                 /\ \A t \in Tunnels :
                       \/ WillShow(t, shown'[t])
                       \/ \E i \in 1 .. Len(batch) : batch[i] = [op |-> "Host", tunnel |-> t]
           /\ loads' = <<>> /\ events' = <<>>
           /\ lacked' = Absent \cup (IF \E S \in SUBSET Tunnels : listed[S] > 0 THEN lacked ELSE {})
           /\ UNCHANGED <<fetching, groups, threadVars, checking, listed, service, historyVars>>
<1> DEFINE before == Drained(pfs)
           tick == AutoResume(before)
           ids == SetToSeq(tick.host)
           batch == [i \in DOMAIN ids |-> [op |-> "Host", tunnel |-> ids[i]]]
<1>1. pfs \in Seq(Preflight) /\ events \in Seq(Event)
  BY AfterInstallType DEF EngineTypeOK
<1>2. /\ before \in Ui /\ before.autoHost \subseteq autoHost
      /\ \A t \in autoHost \ before.autoHost : SaidMissing(t)
      /\ before.loadOk => Loaded(before.rows)
      /\ \A t \in Tunnels : WillShow(t, before.shown[t])
  BY <1>1, DrainedUi
<1>3. /\ installing' = IF installing \in InstallOutcome THEN "no" ELSE installing
      /\ preflights' = <<>> /\ loads' = <<>> /\ events' = <<>>
      /\ loading' = loading + tick.ui.started
      /\ shown' = tick.ui.shown /\ rows' = tick.ui.rows /\ autoHost' = tick.ui.autoHost
      /\ appState' = tick.ui.appState /\ resumeDue' = tick.ui.resumeDue
      /\ cmds' = cmds \o batch
      /\ lacked' = Absent \cup (IF \E S \in SUBSET Tunnels : listed[S] > 0 THEN lacked ELSE {})
      /\ UNCHANGED <<fetching, groups, threadVars, checking, operating, listed, service,
                     historyVars>>
  BY DEF Tick
<1> HIDE DEF before
<1>4. /\ tick.ui \in Ui
      /\ tick.host \subseteq before.autoHost
      /\ tick.ui.autoHost \subseteq before.autoHost
      /\ \A t \in before.autoHost \ tick.ui.autoHost :
            before.loadOk /\ before.rows[t] = "absent"
      /\ \A t \in Tunnels \ tick.host : tick.ui.shown[t] = before.shown[t]
  BY <1>2, AutoResumeType
<1> HIDE DEF tick
<1>5. autoHost \in SUBSET Tunnels
  BY DEF SessionTypes
<1>6. /\ Cardinality(tick.host) \in Nat
      /\ ids \in [1 .. Cardinality(tick.host) -> tick.host]
      /\ \A t \in tick.host : \E i \in 1 .. Cardinality(tick.host) : ids[i] = t
  <2>1. IsFiniteSet(tick.host)
    <3>1. tick.host \in SUBSET Tunnels
      BY <1>2, <1>4, <1>5
    <3> QED  BY <3>1, SessionConstants, FS_Subset
  <2> QED  BY <2>1, SetToSeqType
<1> HIDE DEF ids
<1>7. batch \in Seq(Command) /\ DOMAIN batch = 1 .. Cardinality(tick.host)
  <2>1. \A i \in DOMAIN ids : [op |-> "Host", tunnel |-> ids[i]] \in Command
    BY <1>2, <1>4, <1>5, <1>6 DEF Command, Op
  <2>2. batch \in [1 .. Cardinality(tick.host) -> Command]
    BY <1>6, <2>1
  <2> QED  BY <1>6, <2>2, SeqDef
<1>8. \A t : \A i \in 1 .. Len(batch) : batch[i] = [op |-> "Host", tunnel |-> t] => t \in autoHost
  <2> SUFFICES ASSUME NEW i \in 1 .. Len(batch), NEW t,
                      batch[i] = [op |-> "Host", tunnel |-> t]
               PROVE  t \in autoHost
    OBVIOUS
  <2>1. i \in DOMAIN batch
    <3> HIDE DEF batch
    <3> QED  BY <1>7, LenProperties
  <2>2. i \in DOMAIN ids /\ batch[i] = [op |-> "Host", tunnel |-> ids[i]]
    BY <2>1
  <2>3. ids[i] = t
    <3>1. [op |-> "Host", tunnel |-> ids[i]].tunnel = [op |-> "Host", tunnel |-> t].tunnel
      BY <2>2
    <3> QED  BY <3>1
  <2> QED  BY <1>2, <1>4, <1>6, <2>2, <2>3
<1>12. \A t \in Tunnels : \/ WillShow(t, shown'[t])
                         \/ \E i \in 1 .. Len(batch) : batch[i] = [op |-> "Host", tunnel |-> t]
  <2> SUFFICES ASSUME NEW t \in Tunnels, t \in tick.host
               PROVE  \E i \in 1 .. Len(batch) : batch[i] = [op |-> "Host", tunnel |-> t]
    BY <1>2, <1>3, <1>4
  <2>1. PICK i \in 1 .. Cardinality(tick.host) : ids[i] = t
    BY <1>6
  <2>2. batch[i] = [op |-> "Host", tunnel |-> t]
    BY <1>6, <2>1
  <2> HIDE DEF batch
  <2>3. Len(batch) = Cardinality(tick.host)
    BY <1>6, <1>7, LenProperties
  <2> QED  BY <2>2, <2>3
<1> HIDE DEF batch
<1>9. SessionTypes'
  <2>1. loading' \in Nat /\ installing' \in {"no", "running"} \cup InstallOutcome
    BY <1>3, <1>4 DEF SessionTypes, Ui
  <2>2. preflights' \in Seq(Preflight) /\ loads' \in Seq(Load)
    BY <1>3
  <2>3. /\ shown' \in [Tunnels -> {"none", "host", "hosting"}]
        /\ rows' \in [Tunnels -> RowState]
        /\ autoHost' \in SUBSET Tunnels
        /\ appState' \in {"checking", "ready", "cli-missing", "relogin"}
        /\ resumeDue' \in BOOLEAN
    BY <1>3, <1>4 DEF Ui
  <2>4. /\ UNCHANGED <<checking, operating, listed, service, wanted, disturbed>>
        /\ lacked' \in SUBSET Tunnels
    BY <1>3 DEF historyVars, SessionTypes, Absent
  <2> QED  BY <2>1, <2>2, <2>3, <2>4 DEF SessionTypes
<1>10. autoHost' \subseteq autoHost
  BY <1>2, <1>3, <1>4
<1>11. \A t \in autoHost \ autoHost' :
          SaidMissing(t) \/ \E rws : Loaded(rws) /\ rws[t] = "absent"
  BY <1>2, <1>3, <1>4
<1> QED  BY <1>3, <1>7, <1>8, <1>9, <1>10, <1>11, <1>12

LEMMA PumpKeepsSession ==
    ASSUME SessionInv, Pump
    PROVE  SessionInv'
<1>1. PICK pfs \in AfterInstall : Tick(pfs)
  BY DEF Pump
<1>2. SessionTypes /\ EngineTypeOK /\ cmds \in Seq(Command)
  BY DEF SessionInv, EngineInv, EngineTypeOK
<1>3. PICK batch \in Seq(Command) :
         /\ cmds' = cmds \o batch
         /\ \A t : \A i \in 1 .. Len(batch) :
               batch[i] = [op |-> "Host", tunnel |-> t] => t \in autoHost
  BY <1>1, <1>2, TickEffect
<1>4. /\ SessionTypes' /\ autoHost' \subseteq autoHost
      /\ loads' = <<>> /\ events' = <<>>
      /\ lacked' = Absent \cup (IF \E S \in SUBSET Tunnels : listed[S] > 0 THEN lacked ELSE {})
      /\ UNCHANGED <<fetching, groups, threadVars, listed, service, historyVars>>
  BY <1>1, <1>2, TickEffect
<1>5. EngineInv'
  <2>1. cmds' \in Seq(Command) /\ events' \in Seq(Event)
    BY <1>2, <1>3, <1>4, ConcatProperties
  <2> QED  BY <1>4, <2>1, ClientKeepsEngine DEF SessionInv
<1>6. WantedInv'
  <2>1. ASSUME NEW t \in Tunnels \ wanted PROVE StopBehind(t)'
    <3>1. StopBehind(t) /\ t \notin autoHost
      BY <2>1 DEF SessionInv, WantedInv
    <3>2. \A i \in 1 .. Len(batch) : batch[i] # [op |-> "Host", tunnel |-> t]
      BY <1>3, <3>1
    <3>3. UNCHANGED <<fetching, groups>>
      BY <1>4
    <3> QED  BY <1>2, <1>3, <3>1, <3>2, <3>3, BatchKeepsStop
  <2> QED  BY <1>4, <2>1 DEF SessionInv, WantedInv, historyVars
<1>7. EventsTrue' /\ LoadsTrue'
  BY <1>4 DEF EventsTrue, LoadsTrue
<1>8. ListsTrue'
  BY <1>4 DEF SessionInv, AnswersTrue, ListsTrue, Absent
<1> QED  BY <1>4, <1>5, <1>6, <1>7, <1>8 DEF SessionInv, AnswersTrue

LEMMA InitSessionInv == SessionInit => SessionInv
<1> SUFFICES ASSUME SessionInit PROVE SessionInv
  OBVIOUS
<1>1. EngineInv /\ EngineInit
  BY InitEngineInv DEF SessionInit
<1>2. SessionTypes
  <2>1. shown \in [Tunnels -> {"none", "host", "hosting"}] /\ service \in [Tunnels -> RowState]
    BY SessionConstants DEF SessionInit
  <2>2. rows \in [Tunnels -> RowState]
    <3>1. CASE rows = [t \in Tunnels |-> "absent"]
      BY <3>1 DEF RowState
    <3>2. CASE rows = [t \in Tunnels |-> "ported"]
      BY <3>2 DEF RowState
    <3> QED  BY <3>1, <3>2 DEF SessionInit
  <2>3. preflights \in Seq(Preflight) /\ loads \in Seq(Load)
    BY DEF SessionInit
  <2>4. /\ autoHost \in SUBSET Tunnels /\ wanted \in SUBSET Tunnels
        /\ disturbed \in SUBSET Tunnels /\ lacked \in SUBSET Tunnels
    BY DEF SessionInit, Absent
  <2>5. /\ appState \in {"checking", "ready", "cli-missing", "relogin"}
        /\ resumeDue \in BOOLEAN
        /\ checking \in Nat /\ operating \in Nat /\ loading \in Nat
        /\ listed \in [SUBSET Tunnels -> Nat]
        /\ installing \in {"no", "running"} \cup InstallOutcome
    BY DEF SessionInit
  <2> QED  BY <2>1, <2>2, <2>3, <2>4, <2>5 DEF SessionTypes
<1>3. WantedInv
  <2>1. \A t \in Tunnels : ~ToBeHosted(t)
    BY <1>1, EngineConstants DEF EngineInit, ToBeHosted
  <2> QED  BY <2>1 DEF SessionInit, WantedInv, StopBehind
<1>4. AnswersTrue
  <2>1. EventsTrue /\ LoadsTrue
    BY <1>1 DEF SessionInit, EngineInit, EventsTrue, LoadsTrue
  <2>2. ListsTrue
    BY DEF SessionInit, ListsTrue
  <2> QED  BY <2>1, <2>2 DEF AnswersTrue
<1> QED  BY <1>1, <1>2, <1>3, <1>4 DEF SessionInv

LEMMA NextSessionInv == SessionInv /\ [SessionNext]_sessionVars => SessionInv'
<1> SUFFICES ASSUME SessionInv, [SessionNext]_sessionVars PROVE SessionInv'
  OBVIOUS
<1>1. CASE UNCHANGED sessionVars
  <2>1. UNCHANGED <<engineVars, uiVars, jobVars, historyVars, lacked>>
    BY <1>1 DEF sessionVars
  <2>2. EngineInv'
    BY <2>1, NextEngineInv DEF SessionInv
  <2>3. SessionTypes'
    BY <2>1 DEF SessionInv, SessionTypes, uiVars, jobVars, historyVars
  <2>4. \A t : StopBehind(t) => StopBehind(t)'
    BY <2>1 DEF engineVars, StopBehind, ToBeHosted, StoppedLast
  <2>5. WantedInv'
    BY <2>1, <2>4 DEF SessionInv, WantedInv, uiVars, historyVars
  <2>6. AnswersTrue'
    BY <2>1, SameTruths DEF SessionInv, engineVars, jobVars
  <2> QED  BY <2>2, <2>3, <2>5, <2>6 DEF SessionInv
<1>2. CASE SessionNext
  BY <1>2, UserKeepsSession, BackgroundKeepsSession, PumpKeepsSession, EngineKeepsSession
     DEF SessionNext
<1> QED  BY <1>1, <1>2

LEMMA SessionInvHolds == SessionSpec => []SessionInv
BY InitSessionInv, NextSessionInv, PTL DEF SessionSpec

(* The window's state, its channels and the background jobs keep their     *)
(* types, whatever order preflights, loads, events and clicks come in      *)
(* (fn main and on_timer in main.rs).                                      *)
THEOREM SessionTypeCorrect == SessionSpec => []SessionTypeOK
<1>1. SessionInv => SessionTypeOK
  BY DEF SessionInv, SessionTypes, SessionTypeOK, EngineInv
<1> QED  BY <1>1, SessionInvHolds, PTL

(* A tunnel that the engine hosts with no Stop under way is one the user   *)
(* hosted last rather than stopped: neither an auto-resume after a         *)
(* preflight nor a command still in the channel brings it back.            *)
THEOREM StoppedStaysStopped == SessionSpec => []HostedIsWanted
<1>1. SessionInv => HostedIsWanted
  <2> SUFFICES ASSUME SessionInv, NEW t \in Tunnels, PhaseOf(t) # "none",
                      \A i \in DOMAIN cmds : cmds[i] # [op |-> "Stop", tunnel |-> t]
               PROVE  t \in wanted
    BY DEF HostedIsWanted
  <2>1. ToBeHosted(t)
    BY DEF PhaseOf, ToBeHosted
  <2>2. ~StoppedLast(t)
    BY DEF StoppedLast
  <2> QED  BY <2>1, <2>2 DEF SessionInv, WantedInv, StopBehind
<1> QED  BY <1>1, SessionInvHolds, PTL

(* A tunnel that the service has had since before the oldest load or error *)
(* still under way leaves the auto-host set only when the user stops it,   *)
(* for any number of tunnels, overlapping loads, operations, deletions and *)
(* creations, as long as no Tunnel ID reads like the error of a missing    *)
(* tunnel: the pump searches the text of an error for it, and the text     *)
(* names the tunnel.                                                       *)
THEOREM OnlyTheGoneArePruned ==
    ASSUME \A t \in Tunnels : "missing" \notin IdNeedles[t]
    PROVE  SessionSpec => PrunedWasGone
<1> DEFINE Pruned(t) == t \notin wanted' \/ t \in lacked
<1>1. SessionInv /\ [SessionNext]_sessionVars =>
         [\A t \in autoHost \ autoHost' : Pruned(t)]_sessionVars
  <2> SUFFICES ASSUME SessionInv, SessionNext, NEW t \in autoHost \ autoHost'
               PROVE  Pruned(t)
    BY DEF sessionVars
  <2>1. CASE Pump
    <3>1. PICK pfs \in AfterInstall : Tick(pfs)
      BY <2>1 DEF Pump
    <3>2. SessionTypes /\ EngineTypeOK
      BY DEF SessionInv, EngineInv
    <3>3. \/ SaidMissing(t)
          \/ \E rws : Loaded(rws) /\ rws[t] = "absent"
      BY <3>1, <3>2, TickEffect
    <3>4. t \in Tunnels
      BY <3>2 DEF SessionTypes
    <3>5. CASE SaidMissing(t)
      <4>1. PICK i \in DOMAIN events : events[i].tunnel = t /\ "missing" \in events[i].msg
        BY <3>5 DEF SaidMissing, IsMissingTunnelError
      <4>2. "missing" \in events[i].msg \ IdNeedles[events[i].tunnel]
        BY <3>4, <4>1
      <4> QED  BY <4>1, <4>2 DEF SessionInv, AnswersTrue, EventsTrue, IsMissingTunnelError
    <3>6. CASE \E rws : Loaded(rws) /\ rws[t] = "absent"
      BY <3>4, <3>6 DEF SessionInv, AnswersTrue, LoadsTrue, Loaded
    <3> QED  BY <3>3, <3>5, <3>6
  <2>2. ASSUME NEW u \in Tunnels, OnHost(u) PROVE Pruned(t)
    BY <2>2 DEF OnHost
  <2>3. ASSUME NEW u \in Tunnels, OnStop(u) PROVE Pruned(t)
    BY <2>3 DEF OnStop
  <2>4. CASE Background \/ Engine
    <3>1. UNCHANGED autoHost
      BY <2>4, BackgroundLeaves DEF Engine, uiVars
    <3> QED  BY <3>1
  <2> QED  BY <2>1, <2>2, <2>3, <2>4 DEF SessionNext
<1> QED  BY <1>1, SessionInvHolds, PTL DEF SessionSpec, PrunedWasGone

LEMMA SessionSimulates == SessionInv /\ [SessionNext]_sessionVars => [Lifecycle!Next]_phases
<1> SUFFICES ASSUME SessionInv, [SessionNext]_sessionVars PROVE [Lifecycle!Next]_phases
  OBVIOUS
<1>1. EngineInv /\ EngineTypeOK /\ SessionTypes
  BY DEF SessionInv, EngineInv
<1>2. CASE Engine
  BY <1>1, <1>2, ThreadSimulates, CommandSimulates DEF Engine, EngineStep
<1>3. CASE ~Engine
  <2>1. ASSUME Pump PROVE UNCHANGED <<groups, task>>
    BY <1>1, <2>1, TickEffect DEF Pump, threadVars
  <2>2. ASSUME NEW t \in Tunnels, OnHost(t) \/ OnStop(t) PROVE UNCHANGED <<groups, task>>
    BY <2>2 DEF OnHost, OnStop, threadVars
  <2>3. ASSUME Background \/ UNCHANGED sessionVars PROVE UNCHANGED <<groups, task>>
    BY <2>3, BackgroundLeaves DEF sessionVars, engineVars
  <2>4. UNCHANGED <<groups, task>>
    BY <1>3, <2>1, <2>2, <2>3 DEF SessionNext
  <2> QED  BY <2>4, SamePhases
<1> QED  BY <1>2, <1>3

(* Under the window, too, the engine keeps the promise of HostLifecycle,   *)
(* although toggles, auto-resumes and what the service has drive it, and   *)
(* nothing but its commands does: no tick, load or sign-in changes a       *)
(* tunnel's phase by itself.                                               *)
THEOREM SessionImplementsLifecycle == SessionSpec => ImplementsLifecycle
<1>1. SessionInv /\ [SessionNext]_sessionVars
         => [Lifecycle!Next]_[t \in Tunnels |-> PhaseOf(t)]
  BY SessionSimulates DEF phases
<1>2. SessionInit => Lifecycle!Init
  BY InitSimulates DEF SessionInit
<1> QED
  BY <1>1, <1>2, SessionInvHolds, PTL DEF SessionSpec, ImplementsLifecycle, Lifecycle!Spec

-----------------------------------------------------------------------------
(* What the window shows.  A tunnel that is not disturbed has no thread    *)
(* but that of its handle, so the events in the channel are of that one,   *)
(* in its order: what the toggle shows once they are drained is what the   *)
(* engine does, unless a Host or a Stop that is yet to be served has been  *)
(* shown ahead of it.                                                      *)

\* A task at point pc, and a handle, for a toggle that shows s.
FitsPoint(pc, s) == /\ pc \in {"returned", "finished"} => s = "none"
                    /\ pc = "holding" => s = "hosting"
                    /\ pc \in {"minting", "connecting", "forwarding"} => s = "host"
Fits(t, s) == /\ groups[t] = None => s = "none"
              /\ groups[t] # None => FitsPoint(task[groups[t]].pc, s)

\* A Host or Stop of t is yet to be served.
Pending(t) == \/ fetching = t
              \/ \E i \in DOMAIN cmds : cmds[i].tunnel = t /\ cmds[i].op # "DropRelay"

SoleThread(t) == \A th \in Threads : tunnel[th] = t /\ ~Finished(th) => groups[t] = th
FitsOnceShown(t) == ~Pending(t) => \A s : WillShow(t, s) => Fits(t, s)

ShownInv == \A t \in Tunnels \ disturbed : SoleThread(t) /\ FitsOnceShown(t)

\* A step that changes nothing about t but what of its events are drained.
LEMMA ShownKept ==
    ASSUME NEW t, SoleThread(t), FitsOnceShown(t),
           groups'[t] = groups[t],
           groups[t] # None => task'[groups[t]].pc = task[groups[t]].pc,
           \A th \in Threads : tunnel'[th] = t /\ ~Finished(th)' => tunnel[th] = t /\ ~Finished(th),
           Pending(t) => Pending(t)',
           \A s : WillShow(t, s)' => WillShow(t, s)
    PROVE  SoleThread(t)' /\ FitsOnceShown(t)'
<1>1. SoleThread(t)'
  BY DEF SoleThread
<1>2. \A s : Fits(t, s) => Fits(t, s)'
  BY DEF Fits
<1>3. FitsOnceShown(t)'
  BY <1>2 DEF FitsOnceShown
<1> QED  BY <1>1, <1>3

\* Events that are sent behind the others: they say nothing about t, or the
\* last of them is what t will show.
LEMMA SentShows ==
    ASSUME EngineTypeOK, NEW new \in Seq(Event), events' = events \o new,
           UNCHANGED shown, NEW t
    PROVE  /\ (\A i \in 1 .. Len(new) : ~Sets(new, i, t))
                 => \A s : WillShow(t, s)' => WillShow(t, s)
           /\ Len(new) > 0 /\ Sets(new, Len(new), t)
                 => \A s : WillShow(t, s)' => s = ShownAs(new[Len(new)].kind)
<1>1. /\ events \o new \in Seq(Event)
      /\ Len(events \o new) = Len(events) + Len(new)
      /\ \A k \in 1 .. Len(events) + Len(new) :
            (events \o new)[k] = IF k <= Len(events) THEN events[k] ELSE new[k - Len(events)]
  <2>1. events \in Seq(Event)
    BY DEF EngineTypeOK
  <2> QED  BY ONLY <2>1, new \in Seq(Event), ConcatProperties, Zenon
<1>2. PICK n \in Nat, m \in Nat : n = Len(events) /\ m = Len(new)
  BY LenProperties DEF EngineTypeOK
<1>3. /\ Len(events') = n + m
      /\ \A k \in 1 .. n : events'[k] = events[k]
      /\ \A k \in 1 .. m : events'[n + k] = new[k]
  <2>1. \A k \in 1 .. n : k \in 1 .. n + m /\ k <= n
    OBVIOUS
  <2>2. \A k \in 1 .. m : n + k \in 1 .. n + m /\ ~(n + k <= n) /\ (n + k) - n = k
    OBVIOUS
  <2> QED  BY <1>1, <1>2, <2>1, <2>2
<1>4. /\ \A k \in 1 .. n : Sets(events', k, t) <=> Sets(events, k, t)
      /\ \A k \in 1 .. m : Sets(events', n + k, t) <=> Sets(new, k, t)
  BY <1>3 DEF Sets
<1>5. \A s : WillShow(t, s)' <=> Shows(events', n + m, t, shown[t], s)
  BY <1>3 DEF WillShow, Shows, Sets
<1>6. ASSUME \A i \in 1 .. m : ~Sets(new, i, t),
             NEW s, Shows(events', n + m, t, shown[t], s)
      PROVE  Shows(events, n, t, shown[t], s)
  <2>1. \A i \in 1 .. n + m : Sets(events', i, t) => i \in 1 .. n
    <3> SUFFICES ASSUME NEW i \in 1 .. n + m, i \notin 1 .. n PROVE ~Sets(events', i, t)
      OBVIOUS
    <3>1. i - n \in 1 .. m /\ n + (i - n) = i
      OBVIOUS
    <3>2. ~Sets(events', n + (i - n), t)
      BY <1>4, <1>6, <3>1
    <3> QED  BY <3>1, <3>2
  <2>2. \A i \in 1 .. n : i \in 1 .. n + m
    OBVIOUS
  <2>3. \A i \in 1 .. n : \A j \in i + 1 .. n : j \in 1 .. n /\ j \in i + 1 .. n + m
    OBVIOUS
  <2>4. CASE \E i \in 1 .. n + m : /\ Sets(events', i, t) /\ s = ShownAs(events'[i].kind)
                                   /\ \A j \in i + 1 .. n + m : ~Sets(events', j, t)
    <3>1. PICK i \in 1 .. n + m : /\ Sets(events', i, t) /\ s = ShownAs(events'[i].kind)
                                  /\ \A j \in i + 1 .. n + m : ~Sets(events', j, t)
      BY <2>4
    <3>2. i \in 1 .. n
      BY <2>1, <3>1
    <3>3. /\ Sets(events, i, t) /\ s = ShownAs(events[i].kind)
          /\ \A j \in i + 1 .. n : ~Sets(events, j, t)
      BY <1>3, <1>4, <2>3, <3>1, <3>2
    <3> QED  BY <3>2, <3>3 DEF Shows
  <2>5. CASE (\A j \in 1 .. n + m : ~Sets(events', j, t)) /\ s = shown[t]
    BY <1>4, <2>2, <2>5 DEF Shows
  <2> QED  BY <1>6, <2>4, <2>5 DEF Shows
<1>7. ASSUME m > 0, Sets(new, m, t), NEW s, Shows(events', n + m, t, shown[t], s)
      PROVE  s = ShownAs(new[m].kind)
  <2>1. m \in 1 .. m /\ n + m \in 1 .. n + m
    BY <1>7
  <2>2. Sets(events', n + m, t) /\ events'[n + m] = new[m]
    BY <1>3, <1>4, <1>7, <2>1
  <2>3. PICK i \in 1 .. n + m : /\ s = ShownAs(events'[i].kind)
                                /\ \A j \in i + 1 .. n + m : ~Sets(events', j, t)
    BY <1>7, <2>1, <2>2 DEF Shows
  <2>4. i = n + m
    <3> SUFFICES ASSUME i # n + m PROVE FALSE
      OBVIOUS
    <3>1. n + m \in i + 1 .. n + m
      OBVIOUS
    <3> QED  BY <2>2, <2>3, <3>1
  <2> QED  BY <2>2, <2>3, <2>4
<1> QED  BY <1>2, <1>5, <1>6, <1>7 DEF WillShow

\* The same for what one tunnel reports.
LEMMA ReportShows ==
    ASSUME EngineTypeOK, NEW u \in Tunnels, NEW sent \in Seq(SentEvent), Emit(u, sent),
           UNCHANGED shown, NEW t
    PROVE  /\ t # u \/ sent = <<>> => \A s : WillShow(t, s)' => WillShow(t, s)
           /\ /\ t = u /\ Len(sent) > 0
              /\ sent[Len(sent)].kind # "ReloginRequired"
              => \A s : WillShow(t, s)' => s = ShownAs(sent[Len(sent)].kind)
<1> DEFINE new == Tagged(u, sent)
<1>1. new \in Seq(Event) /\ events' = events \o new
  BY TaggedType DEF Emit
<1>2. Len(sent) \in Nat /\ DOMAIN sent = 1 .. Len(sent)
  BY LenProperties
<1>3. DOMAIN new = 1 .. Len(sent)
  BY <1>2 DEF Tagged
<1>4. \A i \in 1 .. Len(sent) : new[i].tunnel = u /\ new[i].kind = sent[i].kind
  BY <1>2 DEF Tagged
<1> HIDE DEF new
<1>5. Len(new) = Len(sent)
  BY <1>1, <1>2, <1>3, LenProperties
<1>6. t # u \/ sent = <<>> => \A i \in 1 .. Len(new) : ~Sets(new, i, t)
  <2>1. sent = <<>> => Len(sent) = 0 /\ 1 .. 0 = {}
    BY EmptySeq
  <2> QED  BY <1>4, <1>5, <2>1 DEF Sets
<1>7. /\ t = u /\ Len(sent) > 0
      /\ sent[Len(sent)].kind # "ReloginRequired"
      => Sets(new, Len(new), t) /\ new[Len(new)].kind = sent[Len(sent)].kind
  <2>1. Len(sent) > 0 => Len(sent) \in 1 .. Len(sent)
    BY <1>2
  <2> QED  BY <1>4, <1>5, <2>1 DEF Sets
<1> QED  BY <1>1, <1>5, <1>6, <1>7, SentShows

\* What a resumption reports fits where it leaves the task, and if it reports
\* nothing, what fitted before still does.
FittingResult(tk, r) ==
    \/ r.sent = <<>> /\ \A s : FitsPoint(tk.pc, s) => FitsPoint(r.task.pc, s)
    \/ /\ Len(r.sent) > 0 /\ r.sent[Len(r.sent)].kind # "ReloginRequired"
       /\ FitsPoint(r.task.pc, ShownAs(r.sent[Len(r.sent)].kind))

LEMMA ThreadReports ==
    ASSUME EngineTypeOK, RunningHaveTunnel, NEW th \in Threads, GroupThread(th)
    PROVE  \/ WindDown(th)
           \/ ThreadExit(th)
           \/ \E r : Resume(th, r) /\ GoodResult(r) /\ FittingResult(task[th], r)
<1> DEFINE Reports(r) == Resume(th, r) /\ GoodResult(r) /\ FittingResult(task[th], r)
<1>0. task[th] \in Task
  BY DEF EngineTypeOK
<1>1. ASSUME NEW r, NEW kind \in EventKind \ {"ReloginRequired"}, NEW msg,
             \/ r.sent = <<[kind |-> kind, msg |-> msg]>>
             \/ \E e : r.sent = <<e, [kind |-> kind, msg |-> msg]>>,
             FitsPoint(r.task.pc, ShownAs(kind))
      PROVE  FittingResult(task[th], r)
  <2> DEFINE last == [kind |-> kind, msg |-> msg]
  <2>1. last.kind = kind
    OBVIOUS
  <2> HIDE DEF last
  <2>2. CASE r.sent = <<last>>
    <3>1. Len(r.sent) = 1 /\ r.sent[1] = last
      BY <2>2
    <3>2. Len(r.sent) > 0 /\ r.sent[Len(r.sent)] = last
      BY <3>1
    <3> QED  BY <1>1, <2>1, <3>2 DEF FittingResult
  <2>3. ASSUME NEW e, r.sent = <<e, last>> PROVE FittingResult(task[th], r)
    <3>1. Len(r.sent) = 2 /\ r.sent[2] = last
      BY <2>3
    <3>2. Len(r.sent) > 0 /\ r.sent[Len(r.sent)] = last
      BY <3>1
    <3> QED  BY <1>1, <2>1, <3>2 DEF FittingResult
  <2> QED  BY <1>1, <2>2, <2>3 DEF last
<1>2. CASE BuildFails(th)
  <2>1. StartFails.sent = <<[kind |-> "Error", msg |-> {}]>> /\ StartFails.task.pc = "returned"
    BY NoTaskType DEF StartFails, Result, SentError
  <2>2. FitsPoint(StartFails.task.pc, ShownAs("Error"))
    BY <2>1 DEF FitsPoint, ShownAs
  <2>3. Reports(StartFails)
    BY <1>1, <1>2, <2>1, <2>2, StartFailsGood DEF BuildFails, EventKind
  <2> QED  BY <2>3
<1>3. CASE Begin(th)
  <2> DEFINE r == Attempt(task[th])
             kind == Phase(task[th].policy)
  <2>1. GoodResult(r) /\ r.task.pc \in {"connecting", "minting"}
    BY <1>0, AttemptGood
  <2>2. kind \in {"Connecting", "Reconnecting"}
    BY PhaseType
  <2>3. r.sent = <<[kind |-> kind, msg |-> {}]>>
    BY DEF Attempt, Result, Sent
  <2>4. Resume(th, r)
    BY <1>3 DEF Begin
  <2> HIDE DEF r, kind
  <2>5. FitsPoint(r.task.pc, ShownAs(kind))
    BY <2>1, <2>2 DEF FitsPoint, ShownAs
  <2>6. Reports(r)
    BY <1>1, <2>1, <2>2, <2>3, <2>4, <2>5 DEF EventKind
  <2> QED  BY <2>6
<1>4. CASE MintDone(th)
  <2> DEFINE r == Minted(task[th])
  <2>1. GoodResult(r) /\ r.task.pc = "connecting" /\ r.sent = <<>>
    BY <1>0, MintedGood DEF Minted, Result
  <2>2. FittingResult(task[th], r)
    BY <1>4, <2>1 DEF MintDone, At, FittingResult, FitsPoint
  <2>3. Reports(r)
    BY <1>4, <2>1, <2>2 DEF MintDone
  <2> QED  BY <2>3
<1>5. ASSUME Resume(th, Up(task[th])) PROVE Reports(Up(task[th]))
  <2>1. GoodResult(Up(task[th])) /\ Up(task[th]).task.pc = "holding"
    BY <1>0, UpGood
  <2>2. Up(task[th]).sent = <<[kind |-> "Hosting", msg |-> {}]>>
    BY DEF Up, Result, Sent
  <2>3. FitsPoint(Up(task[th]).task.pc, ShownAs("Hosting"))
    BY <2>1 DEF FitsPoint, ShownAs
  <2> QED  BY <1>1, <1>5, <2>1, <2>2, <2>3 DEF EventKind
<1>6. CASE ConnectDone(th)
  <2>1. CASE task[th].ports = "some"
    <3> DEFINE r == RelayConnected(task[th])
    <3>1. r = Result([task[th] EXCEPT !.pc = "forwarding"], <<>>)
      BY <2>1 DEF RelayConnected
    <3>2. r.sent = <<>> /\ r.task.pc = "forwarding"
      BY <1>0, <3>1 DEF Result, Task
    <3>3. GoodResult(r)
      BY <1>0, RelayConnectedGood
    <3> HIDE DEF r
    <3>4. FittingResult(task[th], r)
      BY <1>6, <3>2 DEF ConnectDone, At, FittingResult, FitsPoint
    <3>5. Reports(r)
      BY <1>6, <3>3, <3>4 DEF ConnectDone, r
    <3> QED  BY <3>5
  <2>2. CASE task[th].ports # "some"
    BY <1>5, <1>6, <2>2 DEF ConnectDone, RelayConnected
  <2> QED  BY <2>1, <2>2
<1>7. CASE ForwardDone(th)
  BY <1>5, <1>7 DEF ForwardDone
<1>8. ASSUME NEW msg \in SUBSET Needle, Resume(th, Failed(task[th], msg))
      PROVE  Reports(Failed(task[th], msg))
  <2> DEFINE r == Failed(task[th], msg)
             answer == Advance(task[th].policy, Classify(msg))
  <2>1. GoodResult(r)
    BY <1>0, FailedGood
  <2>2. CASE answer.action.kind \in {"Relogin", "Fail"}
    <3>1. /\ \/ r.sent = <<SentError(msg)>>
             \/ \E e : r.sent = <<e, SentError(msg)>>
          /\ r.task = Gone
      BY <2>2 DEF Failed, Result
    <3>2. SentError(msg) = [kind |-> "Error", msg |-> msg]
      BY DEF SentError
    <3> HIDE DEF r
    <3>3. FitsPoint(r.task.pc, ShownAs("Error"))
      BY <3>1, NoTaskType DEF FitsPoint, ShownAs
    <3> QED  BY <1>1, <1>8, <2>1, <3>1, <3>2, <3>3 DEF EventKind, r
  <2>3. CASE answer.action.kind \notin {"Relogin", "Fail"}
    <3> DEFINE next == [task[th] EXCEPT !.pc = "backoff", !.policy = answer.state,
                                        !.tokens = "none"]
    <3>1. r = Result(next, <<>>)
      BY <2>3 DEF Failed
    <3> HIDE DEF answer
    <3>a. next.pc = "backoff"
      BY <1>0 DEF Task
    <3> HIDE DEF next
    <3>2. r.sent = <<>> /\ r.task.pc = "backoff"
      BY <3>1, <3>a DEF Result
    <3> HIDE DEF r
    <3>3. FittingResult(task[th], r)
      BY <3>2 DEF FittingResult, FitsPoint
    <3> QED  BY <1>8, <2>1, <3>3 DEF r
  <2> QED  BY <2>2, <2>3
<1>9. CASE MintFails(th)
  <2>1. ~Finished(th)
    BY <1>9, AtRunning DEF MintFails, At, AwaitPoint
  <2>2. PICK c \in Causes : Resume(th, Failed(task[th], MintMessage(tunnel[th], c)))
    BY <1>9 DEF MintFails
  <2>3. MintMessage(tunnel[th], c) \in SUBSET Needle
    BY <2>1, MessageTypes, ErrorConstants DEF RunningHaveTunnel
  <2>4. Reports(Failed(task[th], MintMessage(tunnel[th], c)))
    BY <1>8, <2>2, <2>3
  <2> QED  BY <2>4
<1>10. CASE ConnectFails(th)
  <2>1. PICK c \in Causes : Resume(th, Failed(task[th], SdkMessage(c)))
    BY <1>10 DEF ConnectFails
  <2>2. SdkMessage(c) \in SUBSET Needle
    BY MessageTypes, ErrorConstants
  <2>3. Reports(Failed(task[th], SdkMessage(c)))
    BY <1>8, <2>1, <2>2
  <2> QED  BY <2>3
<1>11. CASE SessionEnds(th) \/ ForcedDrop(th)
  <2>1. PICK e \in SessionEnd : Resume(th, SessionOver(task[th], e))
    BY <1>11 DEF SessionEnds, ForcedDrop, SessionEnd
  <2> DEFINE r == SessionOver(task[th], e)
  <2>2. GoodResult(r) /\ r.task.pc = "backoff"
    BY <1>0, SessionOverGood
  <2>3. r.sent = <<>>
    BY DEF SessionOver, Result
  <2>4. Resume(th, r)
    BY <2>1
  <2> HIDE DEF r
  <2>5. FittingResult(task[th], r)
    BY <2>2, <2>3 DEF FittingResult, FitsPoint
  <2>6. Reports(r)
    BY <2>2, <2>4, <2>5
  <2> QED  BY <2>6
<1> HIDE DEF Reports
<1> QED
  BY <1>2, <1>3, <1>4, <1>6, <1>7, <1>5, <1>9, <1>10, <1>11 DEF GroupThread, Reports

\* A tunnel with a step of the engine's to its name is not disturbed after it
\* unless it was, or a command about it was received.
LEMMA NotDisturbed ==
    ASSUME EngineTypeOK, NEW t \in Tunnels \ disturbed', Engine, UNCHANGED cmds \/ ~Live(t)
    PROVE  t \notin disturbed \/ fetching' = t
BY DEF Engine, StartsClean

LEMMA ThreadKeepsShown ==
    ASSUME SessionInv, ShownInv, Engine, NEW th \in Threads, GroupThread(th),
           NEW t \in Tunnels \ disturbed'
    PROVE  SoleThread(t)' /\ FitsOnceShown(t)'
<1>1. /\ EngineInv /\ EngineTypeOK /\ RunningHaveTunnel /\ HandlesMatch
      /\ UNCHANGED shown
  BY DEF SessionInv, EngineInv, Engine, uiVars
<1>2. UNCHANGED commandVars /\ UNCHANGED tunnel
  BY DEF GroupThread, BuildFails, Begin, MintDone, MintFails, ConnectDone, ForwardDone,
         ConnectFails, SessionEnds, ForcedDrop, WindDown, ThreadExit, Resume
<1>3. UNCHANGED <<cmds, fetching, groups, tunnel>>
  BY <1>2 DEF commandVars
<1>4. SoleThread(t) /\ FitsOnceShown(t)
  BY <1>3 DEF Engine, StartsClean, ShownInv
<1>5. /\ Pending(t) => Pending(t)'
      /\ Pending(t)' => Pending(t)
  BY <1>3 DEF Pending
<1>6. /\ \A o \in Threads \ {th} : task'[o] = task[o]
      /\ ~Finished(th)
      /\ \A o \in Threads : ~Finished(o)' => ~Finished(o)
  <2>1. CASE WindDown(th)
    BY <1>1, <2>1, AtRunning DEF WindDown, EngineTypeOK, Finished
  <2>2. CASE ThreadExit(th)
    BY <1>1, <2>2 DEF ThreadExit, EngineTypeOK, At, Finished
  <2>3. ASSUME NEW r, Resume(th, r), GoodResult(r), ~Finished(th) PROVE <1>6!1 /\ ~Finished(th)
    BY <1>1, <2>3 DEF Resume, EngineTypeOK
  <2> QED  BY <1>1, <2>1, <2>2, <2>3, ThreadResumes DEF EngineInv, Finished
<1>7. tunnel[th] \in Tunnels
  BY <1>1, <1>6 DEF RunningHaveTunnel
<1>8. SoleThread(t)'
  BY <1>3, <1>4, <1>6 DEF SoleThread
<1>9. CASE tunnel[th] # t
  <2>1. groups[t] # None => groups[t] \in Threads \ {th}
    BY <1>1, <1>9 DEF HandlesMatch, EngineTypeOK
  <2>2. ASSUME WindDown(th) \/ ThreadExit(th) PROVE \A s : WillShow(t, s)' => WillShow(t, s)
    <3>1. UNCHANGED <<events, shown>>
      BY <1>1, <2>2 DEF WindDown, ThreadExit
    <3> QED  BY <3>1 DEF WillShow
  <2>3. ASSUME NEW r, Resume(th, r), GoodResult(r)
        PROVE  \A s : WillShow(t, s)' => WillShow(t, s)
    <3>1. r.sent \in Seq(SentEvent) /\ Emit(tunnel[th], r.sent)
      BY <2>3 DEF GoodResult, Resume
    <3> QED  BY <1>1, <1>7, <1>9, <3>1, ReportShows
  <2>4. \A s : WillShow(t, s)' => WillShow(t, s)
    BY <1>1, <2>2, <2>3, ThreadReports
  <2> QED  BY <1>3, <1>4, <1>5, <1>6, <2>1, <2>4, ShownKept
<1>10. CASE tunnel[th] = t
  <2>1. groups[t] = th /\ th # None
    BY <1>4, <1>6, <1>10, EngineConstants DEF SoleThread
  <2>2. ~Pending(t) => \A s : WillShow(t, s) => FitsPoint(task[th].pc, s)
    BY <1>4, <2>1 DEF FitsOnceShown, Fits
  <2>3. ~WindDown(th)
    BY <1>1, <2>1 DEF WindDown, HandlesMatch
  <2>4. ASSUME ThreadExit(th), ~Pending(t), NEW s, WillShow(t, s)'
        PROVE  FitsPoint(task'[th].pc, s)
    <3>1. UNCHANGED <<events, shown>> /\ task[th].pc = "returned"
      BY <1>1, <2>4 DEF ThreadExit, At
    <3>2. WillShow(t, s)
      BY <2>4, <3>1 DEF WillShow
    <3>3. s = "none"
      BY <2>2, <2>4, <3>1, <3>2 DEF FitsPoint
    <3> QED  BY <1>1, <2>4, <3>3, NoTaskType DEF ThreadExit, EngineTypeOK, FitsPoint
  <2>5. ASSUME NEW r, Resume(th, r), GoodResult(r), FittingResult(task[th], r),
               ~Pending(t), NEW s, WillShow(t, s)'
        PROVE  FitsPoint(task'[th].pc, s)
    <3>1. r.sent \in Seq(SentEvent) /\ Emit(tunnel[th], r.sent) /\ task'[th] = r.task
      BY <1>1, <2>5 DEF GoodResult, Resume, EngineTypeOK
    <3>2. CASE r.sent = <<>> /\ \A x : FitsPoint(task[th].pc, x) => FitsPoint(r.task.pc, x)
      <4>1. WillShow(t, s)
        BY <1>1, <1>7, <2>5, <3>1, <3>2, ReportShows
      <4> QED  BY <2>2, <2>5, <3>1, <3>2, <4>1
    <3>3. CASE /\ Len(r.sent) > 0 /\ r.sent[Len(r.sent)].kind # "ReloginRequired"
               /\ FitsPoint(r.task.pc, ShownAs(r.sent[Len(r.sent)].kind))
      <4>1. s = ShownAs(r.sent[Len(r.sent)].kind)
        BY <1>1, <1>7, <1>10, <2>5, <3>1, <3>3, ReportShows
      <4> QED  BY <3>1, <3>3, <4>1
    <3> QED  BY <2>5, <3>2, <3>3 DEF FittingResult
  <2>6. ~Pending(t) => \A s : WillShow(t, s)' => FitsPoint(task'[th].pc, s)
    BY <1>1, <2>3, <2>4, <2>5, ThreadReports
  <2>7. FitsOnceShown(t)'
    BY <1>3, <1>5, <2>1, <2>6 DEF FitsOnceShown, Fits
  <2> QED  BY <1>8, <2>7
<1> QED  BY <1>9, <1>10

\* A command that is received takes no other tunnel's Host or Stop with it.
LEMMA StaysPending ==
    ASSUME EngineTypeOK, NEW op, NEW u, Receive(op, u),
           NEW t \in Tunnels, t # u \/ op = "DropRelay", Pending(t)
    PROVE  Pending(t)'
<1>1. fetching # t
  BY EngineConstants DEF Receive
<1>2. PICK i \in DOMAIN cmds : cmds[i].tunnel = t /\ cmds[i].op # "DropRelay"
  BY <1>1 DEF Pending
<1>3. /\ Len(cmds) \in Nat /\ DOMAIN cmds = 1 .. Len(cmds)
      /\ cmds[1] = [op |-> op, tunnel |-> u]
      /\ DOMAIN cmds' = 1 .. Len(cmds) - 1
      /\ \A k \in 1 .. Len(cmds) - 1 : cmds'[k] = cmds[k + 1]
  BY ReceivedTail
<1>4. i # 1
  BY <1>2, <1>3
<1>5. i - 1 \in DOMAIN cmds' /\ cmds'[i - 1] = cmds[i]
  BY <1>3, <1>4
<1> QED  BY <1>2, <1>5 DEF Pending

\* What the events of a fetch that fails end in.
LEMMA FetchErrorShows ==
    ASSUME EngineTypeOK, UNCHANGED shown, NEW u \in Tunnels, FetchFails(u), NEW t
    PROVE  /\ t # u => \A s : WillShow(t, s)' => WillShow(t, s)
           /\ t = u => \A s : WillShow(t, s)' => s = "none"
<1>1. PICK c \in Causes :
         Emit(u, (IF IsAuthError(CliMessage(u, c)) THEN <<Sent("ReloginRequired")>> ELSE <<>>)
                     \o <<SentError(CliMessage(u, c))>>)
  BY DEF FetchFails
<1> DEFINE msg == CliMessage(u, c)
           first == IF IsAuthError(msg) THEN <<Sent("ReloginRequired")>> ELSE <<>>
           sent == first \o <<SentError(msg)>>
<1>2. msg \in SUBSET Needle
  BY MessageTypes, ErrorConstants
<1> HIDE DEF msg
<1>3. first \in Seq(SentEvent)
  BY SeqTypes, SentType DEF EventKind
<1>4. <<SentError(msg)>> \in Seq(SentEvent)
  BY <1>2, SeqTypes, SentErrorType
<1>5. Len(<<SentError(msg)>>) = 1 /\ <<SentError(msg)>>[1].kind = "Error"
  BY DEF SentError
<1> HIDE DEF first
<1>6. /\ sent \in Seq(SentEvent) /\ Len(sent) = Len(first) + 1
      /\ sent[Len(sent)] = <<SentError(msg)>>[1]
  <2>1. PICK n \in Nat : n = Len(first)
    BY <1>3, LenProperties
  <2>2. /\ sent \in Seq(SentEvent) /\ Len(sent) = n + 1
        /\ \A k \in 1 .. n + 1 : sent[k] = IF k <= n THEN first[k] ELSE <<SentError(msg)>>[k - n]
    BY <1>3, <1>4, <1>5, <2>1, ConcatProperties
  <2>3. n + 1 \in 1 .. n + 1 /\ ~(n + 1 <= n) /\ (n + 1) - n = 1
    OBVIOUS
  <2> QED  BY <2>1, <2>2, <2>3
<1>7. Emit(u, sent)
  BY <1>1 DEF first, msg
<1> HIDE DEF sent
<1>8. Len(sent) > 0 /\ sent[Len(sent)].kind = "Error"
  BY <1>3, <1>5, <1>6, LenProperties
<1>9. ShownAs("Error") = "none"
  BY DEF ShownAs
<1> QED  BY <1>6, <1>7, <1>8, <1>9, ReportShows

LEMMA CommandKeepsShown ==
    ASSUME SessionInv, ShownInv, Engine, NEW u \in Tunnels,
           \/ HostIgnored(u) \/ HostBegins(u) \/ FetchFails(u)
           \/ SpawnGroup(u) \/ StopGroup(u) \/ DropRelay(u),
           NEW t \in Tunnels \ disturbed'
    PROVE  SoleThread(t)' /\ FitsOnceShown(t)'
<1>1. /\ EngineTypeOK /\ FetchesForTheDead /\ HandlesMatch
      /\ UNCHANGED shown
      /\ ~FoundLive(t) /\ (t \notin disturbed \/ StartsClean(t))
  BY DEF SessionInv, EngineInv, Engine, uiVars
<1>2. t \notin disturbed => SoleThread(t) /\ FitsOnceShown(t)
  BY DEF ShownInv
<1>3. ASSUME NEW op, Receive(op, u), Live(t) PROVE u # t
  BY <1>1, <1>3 DEF Receive, FoundLive
<1>4. u # t \/ ~HostBegins(u) => t \notin disturbed
  BY <1>1, EngineConstants
     DEF StartsClean, HostIgnored, HostBegins, FetchFails, SpawnGroup, StopGroup, DropRelay
<1>5. CASE HostIgnored(u)
  <2>1. u # t
    BY <1>3, <1>5 DEF HostIgnored
  <2>2. Pending(t) => Pending(t)'
    BY <1>1, <1>5, <2>1, StaysPending DEF HostIgnored
  <2>3. UNCHANGED <<groups, tunnel, task, events>>
    BY <1>5 DEF HostIgnored, threadVars
  <2> QED
    BY <1>1, <1>2, <1>4, <2>1, <2>2, <2>3, ShownKept DEF WillShow, Finished
<1>6. CASE HostBegins(u) /\ u # t
  <2>2. Pending(t) => Pending(t)'
    BY <1>1, <1>6, StaysPending DEF HostBegins
  <2>3. UNCHANGED <<groups, tunnel, task, events>>
    BY <1>6 DEF HostBegins, threadVars
  <2> QED
    BY <1>1, <1>2, <1>4, <1>6, <2>2, <2>3, ShownKept DEF WillShow, Finished
<1>7. CASE HostBegins(u) /\ u = t
  <2>1. fetching' = t /\ UNCHANGED <<groups, tunnel, task>>
    BY <1>7 DEF HostBegins, threadVars
  <2>2. SoleThread(t)
    BY <1>1, <1>2 DEF StartsClean, SoleThread
  <2> QED  BY <2>1, <2>2 DEF SoleThread, Finished, FitsOnceShown, Pending
<1>8. CASE FetchFails(u)
  <2>1. UNCHANGED <<cmds, groups, tunnel, task>> /\ fetching = u
    BY <1>8 DEF FetchFails, threadVars
  <2>2. SoleThread(t) /\ FitsOnceShown(t)
    BY <1>2, <1>4, <1>8 DEF FetchFails, HostBegins, Receive
  <2>3. CASE u # t
    <3>1. Pending(t) => Pending(t)'
      BY <2>1, <2>3 DEF Pending
    <3>2. \A s : WillShow(t, s)' => WillShow(t, s)
      BY <1>1, <1>8, <2>3, FetchErrorShows
    <3> QED  BY <2>1, <2>2, <3>1, <3>2, ShownKept DEF Finished
  <2>4. CASE u = t
    <3>1. \A s : WillShow(t, s)' => s = "none"
      BY <1>1, <1>8, <2>4, FetchErrorShows
    <3>2. ~Live(t)
      BY <1>1, <2>1, <2>4, EngineConstants DEF FetchesForTheDead
    <3>3. Fits(t, "none")'
      BY <2>1, <3>2 DEF Live, Finished, Fits, FitsPoint
    <3> QED  BY <2>1, <2>2, <3>1, <3>3 DEF SoleThread, Finished, FitsOnceShown
  <2> QED  BY <2>3, <2>4
<1>9. CASE StopGroup(u)
  <2>1. /\ groups' = [groups EXCEPT ![u] = None]
        /\ UNCHANGED <<tunnel, task>>
        /\ Emit(u, <<Sent("Stopped")>>)
    BY <1>9 DEF StopGroup
  <2>2. SoleThread(t) /\ FitsOnceShown(t)
    BY <1>2, <1>4, <1>9 DEF StopGroup, HostBegins, Receive
  <2>3. /\ <<Sent("Stopped")>> \in Seq(SentEvent)
        /\ Len(<<Sent("Stopped")>>) = 1 /\ <<Sent("Stopped")>>[1].kind = "Stopped"
    BY SeqTypes, SentType DEF EventKind, Sent
  <2>4. CASE u # t
    <3>1. Pending(t) => Pending(t)'
      BY <1>1, <1>9, <2>4, StaysPending DEF StopGroup
    <3>2. \A s : WillShow(t, s)' => WillShow(t, s)
      BY <1>1, <2>1, <2>3, <2>4, ReportShows
    <3>3. groups'[t] = groups[t]
      BY <1>1, <2>1, <2>4 DEF EngineTypeOK
    <3> QED  BY <2>1, <2>2, <3>1, <3>2, <3>3, ShownKept DEF Finished
  <2>5. CASE u = t
    <3>1. ~Live(t)
      BY <1>3, <1>9, <2>5 DEF StopGroup
    <3> DEFINE sent == <<Sent("Stopped")>>
    <3>5. /\ sent \in Seq(SentEvent) /\ Len(sent) > 0
          /\ sent[Len(sent)].kind = "Stopped" /\ Emit(u, sent)
      BY <2>1, <2>3
    <3> HIDE DEF sent
    <3>2. \A s : WillShow(t, s)' => s = ShownAs("Stopped")
      BY <1>1, <2>5, <3>5, ReportShows
    <3>3. groups'[t] = None
      BY <1>1, <2>1, <2>5 DEF EngineTypeOK
    <3>4. SoleThread(t)'
      BY <2>1, <2>2, <3>1, EngineConstants DEF SoleThread, Live, Finished
    <3> QED  BY <3>2, <3>3, <3>4 DEF FitsOnceShown, Fits, ShownAs
  <2> QED  BY <2>4, <2>5
<1>10. CASE DropRelay(u)
  <2>1. Pending(t) => Pending(t)'
    BY <1>1, <1>10, StaysPending DEF DropRelay
  <2>2. UNCHANGED <<groups, tunnel, task, events>>
    BY <1>10 DEF DropRelay
  <2>3. SoleThread(t) /\ FitsOnceShown(t)
    BY <1>2, <1>4, <1>10 DEF DropRelay, HostBegins, Receive
  <2> QED
    BY <1>1, <2>1, <2>2, <2>3, ShownKept DEF WillShow, Finished
<1>11. CASE SpawnGroup(u)
  <2>1. PICK th \in Threads, ports \in {"none", "some"} :
           /\ Unused(th)
           /\ groups' = [groups EXCEPT ![u] = th]
           /\ tunnel' = [tunnel EXCEPT ![th] = u]
           /\ task' = [task EXCEPT ![th] = NewTask(ports)]
    BY <1>11 DEF SpawnGroup
  <2>2. fetching = u /\ UNCHANGED <<cmds, events>>
    BY <1>11 DEF SpawnGroup
  <2>3. SoleThread(t) /\ FitsOnceShown(t)
    BY <1>2, <1>4, <1>11 DEF SpawnGroup, HostBegins, Receive
  <2>4. /\ Finished(th) /\ \A o \in Tunnels \ {u} : groups[o] # th
    BY <2>1, <2>2 DEF Unused
  <2>5. \A o \in Threads : /\ tunnel'[o] = IF o = th THEN u ELSE tunnel[o]
                           /\ task'[o] = IF o = th THEN NewTask(ports) ELSE task[o]
    BY <1>1, <2>1 DEF EngineTypeOK
  <2>6. groups'[t] = IF t = u THEN th ELSE groups[t]
    BY <1>1, <2>1 DEF EngineTypeOK
  <2>7. CASE u # t
    <3>1. Pending(t) => Pending(t)'
      BY <2>2, <2>7 DEF Pending
    <3>2. groups[t] # None => groups[t] \in Threads \ {th}
      BY <1>1, <2>4, <2>7 DEF EngineTypeOK
    <3> QED
      BY <1>1, <2>2, <2>3, <2>5, <2>6, <2>7, <3>1, <3>2, ShownKept DEF WillShow, Finished
  <2>8. CASE u = t
    <3>1. ~Live(t)
      BY <1>1, <2>2, <2>8, EngineConstants DEF FetchesForTheDead
    <3>2. SoleThread(t)'
      BY <2>3, <2>5, <2>6, <2>8, <3>1, EngineConstants DEF SoleThread, Live, Finished
    <3>3. task'[th].pc = "starting" /\ groups'[t] = th /\ th # None
      BY <2>5, <2>6, <2>8, NewTaskType, EngineConstants
    <3>4. \A s : Fits(t, s)'
      BY <3>3 DEF Fits, FitsPoint
    <3> QED  BY <3>2, <3>4 DEF FitsOnceShown
  <2> QED  BY <2>7, <2>8
<1> QED  BY <1>5, <1>6, <1>7, <1>8, <1>9, <1>10, <1>11

\* Commands that are sent behind the others.
LEMMA SentPending ==
    ASSUME EngineTypeOK, NEW batch \in Seq(Command), cmds' = cmds \o batch, UNCHANGED fetching,
           NEW t
    PROVE  /\ Pending(t) => Pending(t)'
           /\ \A i \in 1 .. Len(batch) :
                 batch[i].tunnel = t /\ batch[i].op # "DropRelay" => Pending(t)'
<1>1. /\ cmds' \in Seq(Command) /\ Len(cmds') = Len(cmds) + Len(batch)
      /\ \A k \in 1 .. Len(cmds) + Len(batch) :
            cmds'[k] = IF k <= Len(cmds) THEN cmds[k] ELSE batch[k - Len(cmds)]
  <2>1. cmds \in Seq(Command)
    BY DEF EngineTypeOK
  <2> QED  BY <2>1, ConcatProperties
<1>2. PICK n \in Nat, m \in Nat : n = Len(cmds) /\ m = Len(batch) /\ DOMAIN cmds = 1 .. n
  BY LenProperties DEF EngineTypeOK
<1>3. DOMAIN cmds' = 1 .. n + m
  BY <1>1, <1>2, LenProperties
<1>4. \A i \in 1 .. n : i \in DOMAIN cmds' /\ cmds'[i] = cmds[i]
  <2>1. \A i \in 1 .. n : i \in 1 .. n + m /\ i <= n
    OBVIOUS
  <2> QED  BY <1>1, <1>2, <1>3, <2>1
<1>5. ASSUME NEW i \in 1 .. m PROVE n + i \in DOMAIN cmds' /\ cmds'[n + i] = batch[i]
  <2>1. PICK k \in 1 .. n + m : k = n + i /\ ~(k <= n) /\ k - n = i
    OBVIOUS
  <2>2. k \in DOMAIN cmds'
    BY <1>3
  <2>3. cmds'[k] = batch[k - n]
    BY <1>1, <1>2, <2>1
  <2> QED  BY <2>1, <2>2, <2>3
<1>6. Pending(t) => Pending(t)'
  BY <1>2, <1>4 DEF Pending
<1>7. ASSUME NEW i \in 1 .. m, batch[i].tunnel = t, batch[i].op # "DropRelay"
      PROVE  Pending(t)'
  <2>1. \E j \in DOMAIN cmds' : cmds'[j] = batch[i]
    BY <1>5
  <2>2. \E j \in DOMAIN cmds' : cmds'[j].tunnel = t /\ cmds'[j].op # "DropRelay"
    BY <1>7, <2>1
  <2> QED  BY ONLY <2>2 DEF Pending
<1> QED  BY <1>2, <1>6, <1>7

LEMMA UserKeepsShown ==
    ASSUME SessionInv, ShownInv, NEW u \in Tunnels, OnHost(u) \/ OnStop(u),
           NEW t \in Tunnels \ disturbed'
    PROVE  SoleThread(t)' /\ FitsOnceShown(t)'
<1>1. EngineTypeOK /\ shown \in [Tunnels -> {"none", "host", "hosting"}]
  BY DEF SessionInv, EngineInv, SessionTypes
<1>2. PICK op \in {"Host", "Stop"} : Send(op, u)
  BY DEF OnHost, OnStop
<1>3. /\ UNCHANGED <<fetching, groups, tunnel, task, events, disturbed>>
      /\ \A v \in Tunnels \ {u} : shown'[v] = shown[v]
  BY <1>1 DEF OnHost, OnStop, threadVars
<1>4. SoleThread(t) /\ FitsOnceShown(t)
  BY <1>3 DEF ShownInv
<1> DEFINE command == [op |-> op, tunnel |-> u]
           batch == <<command>>
<1>5. /\ batch \in Seq(Command) /\ Len(batch) = 1 /\ cmds' = cmds \o batch
  BY <1>1, <1>2, SendBatch DEF Op
<1>6. batch[1].tunnel = u /\ batch[1].op # "DropRelay"
  OBVIOUS
<1> HIDE DEF batch
<1>7. /\ Pending(t) => Pending(t)'
      /\ u = t => Pending(t)'
  <2>1. UNCHANGED fetching
    BY <1>3
  <2>2. /\ Pending(t) => Pending(t)'
        /\ \A i \in 1 .. Len(batch) :
              batch[i].tunnel = t /\ batch[i].op # "DropRelay" => Pending(t)'
    BY ONLY <1>1, <1>5, <2>1, SentPending
  <2>3. 1 \in 1 .. Len(batch)
    BY ONLY <1>5
  <2> QED  BY ONLY <1>6, <2>2, <2>3
<1>8. SoleThread(t)'
  BY <1>3, <1>4 DEF SoleThread, Finished
<1>9. u # t => \A s : WillShow(t, s)' => WillShow(t, s)
  BY <1>3 DEF WillShow
<1> QED  BY <1>3, <1>4, <1>7, <1>8, <1>9, ShownKept DEF FitsOnceShown, Finished

LEMMA PumpKeepsShown ==
    ASSUME SessionInv, ShownInv, Pump, NEW t \in Tunnels \ disturbed'
    PROVE  SoleThread(t)' /\ FitsOnceShown(t)'
<1>1. PICK pfs \in AfterInstall : Tick(pfs)
  BY DEF Pump
<1>2. EngineTypeOK /\ SessionTypes
  BY DEF SessionInv, EngineInv
<1>3. PICK batch \in Seq(Command) :
         /\ cmds' = cmds \o batch
         /\ WillShow(t, shown'[t]) \/ \E i \in 1 .. Len(batch) : batch[i] = [op |-> "Host", tunnel |-> t]
  BY <1>1, <1>2, TickEffect
<1>4. /\ events' = <<>>
      /\ UNCHANGED <<fetching, groups, tunnel, task, disturbed>>
  BY <1>1, <1>2, TickEffect DEF threadVars, historyVars
<1>5. SoleThread(t) /\ FitsOnceShown(t)
  BY <1>4 DEF ShownInv
<1>6. SoleThread(t)'
  BY <1>4, <1>5 DEF SoleThread, Finished
<1>7. Pending(t) => Pending(t)'
  BY <1>2, <1>3, <1>4, SentPending
<1>8. CASE \E i \in 1 .. Len(batch) : batch[i] = [op |-> "Host", tunnel |-> t]
  <2>1. PICK i \in 1 .. Len(batch) : batch[i].tunnel = t /\ batch[i].op # "DropRelay"
    BY <1>8
  <2>2. Pending(t)'
    BY <1>2, <1>3, <1>4, <2>1, SentPending
  <2> QED  BY <1>6, <2>2 DEF FitsOnceShown
<1>9. CASE WillShow(t, shown'[t])
  <2>1. \A s : WillShow(t, s)' => s = shown'[t]
    <3>1. Len(events') = 0 /\ 1 .. 0 = {}
      BY <1>4
    <3> QED  BY <3>1 DEF WillShow, Shows
  <2>2. \A s : WillShow(t, s)' => WillShow(t, s)
    BY <1>9, <2>1
  <2> QED  BY <1>4, <1>5, <1>7, <2>2, ShownKept DEF Finished
<1> QED  BY <1>3, <1>8, <1>9

LEMMA BackgroundKeepsShown ==
    ASSUME ShownInv, UNCHANGED <<cmds, fetching, groups, tunnel, task, events, shown, disturbed>>
    PROVE  ShownInv'
BY DEF ShownInv, SoleThread, FitsOnceShown, WillShow, Fits, FitsPoint, Pending, Finished

LEMMA InitShownInv == SessionInit => ShownInv
<1> SUFFICES ASSUME SessionInit, NEW t \in Tunnels PROVE SoleThread(t) /\ FitsOnceShown(t)
  BY DEF ShownInv
<1>1. /\ events = <<>> /\ shown[t] = "none" /\ groups[t] = None
      /\ \A th \in Threads : Finished(th)
  BY NoTaskType DEF SessionInit, EngineInit, Finished
<1>2. \A s : WillShow(t, s) => s = "none"
  <2>1. Len(events) = 0 /\ 1 .. 0 = {}
    BY <1>1
  <2> QED  BY <1>1, <2>1 DEF WillShow, Shows
<1> QED  BY <1>1, <1>2 DEF SoleThread, FitsOnceShown, Fits

LEMMA NextShownInv == SessionInv /\ ShownInv /\ [SessionNext]_sessionVars => ShownInv'
<1> SUFFICES ASSUME SessionInv, ShownInv, [SessionNext]_sessionVars PROVE ShownInv'
  OBVIOUS
<1>1. CASE Engine
  <2> SUFFICES ASSUME NEW t \in Tunnels \ disturbed' PROVE SoleThread(t)' /\ FitsOnceShown(t)'
    BY DEF ShownInv
  <2>1. CASE CommandThread
    BY <1>1, <2>1, CommandKeepsShown DEF CommandThread
  <2>2. CASE \E th \in Threads : GroupThread(th)
    BY <1>1, <2>2, ThreadKeepsShown
  <2> QED  BY <1>1, <2>1, <2>2 DEF Engine, EngineStep
<1>2. ASSUME NEW u \in Tunnels, OnHost(u) \/ OnStop(u) PROVE ShownInv'
  BY <1>2, UserKeepsShown DEF ShownInv
<1>3. CASE Pump
  BY <1>3, PumpKeepsShown DEF ShownInv
<1>4. CASE Background
  BY <1>4, BackgroundLeaves, BackgroundKeepsShown DEF engineVars, uiVars, historyVars
<1>5. CASE UNCHANGED sessionVars
  BY <1>5, BackgroundKeepsShown DEF sessionVars, engineVars, uiVars, historyVars
<1> QED  BY <1>1, <1>2, <1>3, <1>4, <1>5 DEF SessionNext

LEMMA ShownAgrees == SessionInv /\ ShownInv => UndisturbedAgrees
<1> SUFFICES ASSUME SessionInv, ShownInv, NEW t \in Tunnels \ disturbed, Quiet(t)
             PROVE  Agrees(t)
  BY DEF UndisturbedAgrees
<1>1. EngineTypeOK /\ DOMAIN events = 1 .. Len(events)
  BY LenProperties DEF SessionInv, EngineInv, EngineTypeOK
<1>2. ~Pending(t)
  BY DEF Quiet, Pending
<1>3. WillShow(t, shown[t])
  BY <1>1 DEF Quiet, WillShow, Shows, Sets
<1>4. Fits(t, shown[t])
  BY <1>2, <1>3 DEF ShownInv, FitsOnceShown
<1>5. CASE groups[t] = None
  <2>1. PhaseOf(t) = "none"
    BY <1>5 DEF PhaseOf
  <2> QED  BY <1>4, <1>5, <2>1 DEF Fits, Agrees
<1>6. CASE groups[t] # None
  <2> DEFINE tk == task[groups[t]]
  <2>1. tk \in Task /\ FitsPoint(tk.pc, shown[t]) /\ PhaseOf(t) = TaskPhase(tk)
    BY <1>1, <1>4, <1>6, PhaseOfTask DEF Fits, EngineTypeOK
  <2>2. tk.pc \in Point
    BY <2>1 DEF Task
  <2> HIDE DEF tk
  <2>3. CASE tk.pc \in {"returned", "finished"}
    BY <2>1, <2>3, SettledPhase DEF Agrees, FitsPoint
  <2>4. CASE tk.pc = "holding"
    BY <2>1, <2>4, SettledPhase DEF Agrees, FitsPoint
  <2>5. CASE tk.pc \in {"starting", "backoff"}
    <3>1. PhaseOf(t) \in {"connecting", "reconnecting"}
      BY <2>1, <2>2, <2>5, TryingPhase
    <3>2. At(groups[t], "starting") \/ At(groups[t], "backoff")
      BY <2>5 DEF At, tk
    <3> QED  BY <3>1, <3>2 DEF Agrees
  <2>6. CASE tk.pc \in {"minting", "connecting", "forwarding"}
    <3>1. PhaseOf(t) \in {"connecting", "reconnecting"}
      BY <2>1, <2>2, <2>6, TryingPhase
    <3>2. shown[t] = "host"
      BY <2>1, <2>6 DEF FitsPoint
    <3> QED  BY <3>1, <3>2 DEF Agrees
  <2> QED  BY <2>2, <2>3, <2>4, <2>5, <2>6 DEF Point, AwaitPoint
<1> QED  BY <1>5, <1>6

(* What the window shows of a quiet tunnel is what the engine does, unless *)
(* a command found a thread of the tunnel running (the toggles of main.rs, *)
(* map_host_state and the events of engine.rs): for any number of tunnels, *)
(* threads, sign-ins, loads and auto-resumes.                              *)
THEOREM UndisturbedToggles == SessionSpec => []UndisturbedAgrees
<1>1. SessionInit => ShownInv
  BY InitShownInv
<1>2. SessionInv /\ SessionInv' /\ ShownInv /\ [SessionNext]_sessionVars => ShownInv'
  BY NextShownInv
<1>3. SessionInv /\ ShownInv => UndisturbedAgrees
  BY ShownAgrees
<1> QED  BY <1>1, <1>2, <1>3, SessionInvHolds, PTL DEF SessionSpec

=============================================================================
