------------------------------ MODULE HostEngine ------------------------------
(***************************************************************************)
(* The host engine (src/host/engine.rs): a command thread that serves Host, *)
(* Stop and DropRelay in order and keeps a handle per hosted group, and    *)
(* one OS thread per group that runs the task of HostGroup.tla inside      *)
(* select! with the group's cancel signal.  All threads send to one event  *)
(* channel, which the user interface or the headless runner drains.        *)
(*                                                                         *)
(* A Notify that holds a permit is membership in a set.  A step of a group *)
(* thread is what its task runs between two awaits, the events it sends    *)
(* included; the command thread and the other groups interleave at awaits. *)
(***************************************************************************)
EXTENDS HostGroup, FiniteSets

CONSTANTS UserOps,       \* bound: the commands the user sends
          Threads,       \* bound: OS threads alive at one time
          None,          \* no thread, no tunnel
          MaxCommands,   \* bound: commands waiting in the channel
          MaxEvents      \* bound: no one sends while so many events wait

Op == {"Host", "Stop", "DropRelay"}

ASSUME EngineConstants == /\ UserOps \subseteq Op
                          /\ None \notin Threads
                          /\ None \notin Tunnels
                          /\ MaxCommands \in Nat
                          /\ MaxEvents \in Nat

VARIABLES
    cmds,        \* cmd_rx: commands not yet received
    fetching,    \* the tunnel whose ports the command thread is fetching
    groups,      \* the handle map: [Tunnels -> thread or None]
    tunnel,      \* the tunnel_id a thread was spawned with
    task,        \* host_group on each thread
    cancelled,   \* threads whose `cancel` holds a permit
    dropping,    \* threads whose `drop_relay` holds a permit
    lastPass,    \* threads resumed with the cancel permit stored: the same
                 \*   pass over select! polls `cancel` before it polls again
    events       \* host_evt_rx: events not yet drained

commandVars == <<cmds, fetching, groups>>
threadVars == <<tunnel, task, cancelled, dropping, lastPass>>
engineVars == <<cmds, fetching, groups, tunnel, task, cancelled, dropping, lastPass, events>>

Command == [op : Op, tunnel : Tunnels]
Event == [tunnel : Tunnels, kind : EventKind, msg : SUBSET Needle]

EngineTypeOK ==
    /\ cmds \in Seq(Command)
    /\ fetching \in Tunnels \cup {None}
    /\ groups \in [Tunnels -> Threads \cup {None}]
    /\ tunnel \in [Threads -> Tunnels \cup {None}]
    /\ task \in [Threads -> Task]
    /\ cancelled \in SUBSET Threads
    /\ dropping \in SUBSET Threads
    /\ lastPass \in SUBSET Threads
    /\ events \in Seq(Event)

EngineInit ==
    /\ cmds = <<>>
    /\ fetching = None
    /\ groups = [t \in Tunnels |-> None]
    /\ tunnel = [th \in Threads |-> None]
    /\ task = [th \in Threads |-> NoTask]
    /\ cancelled = {}
    /\ dropping = {}
    /\ lastPass = {}
    /\ events = <<>>

Finished(th) == task[th].pc = "finished"

\* The group is hosted, as the command thread tells: a handle whose thread is
\* not finished.
Live(t) == groups[t] # None /\ ~Finished(groups[t])

Tagged(t, sent) == [i \in DOMAIN sent |-> [tunnel |-> t, kind |-> sent[i].kind,
                                           msg |-> sent[i].msg]]
Emit(t, sent) == /\ sent # <<>> => Len(events) < MaxEvents
                 /\ events' = events \o Tagged(t, sent)

-----------------------------------------------------------------------------
(* The other end of the channels. *)

Send(op, t) == /\ Len(cmds) < MaxCommands
               /\ cmds' = Append(cmds, [op |-> op, tunnel |-> t])

Drain == /\ events # <<>>
         /\ events' = Tail(events)

-----------------------------------------------------------------------------
(* The command thread. *)

\* It receives the next command; while it fetches ports it receives nothing.
Receive(op, t) == /\ fetching = None
                  /\ cmds # <<>>
                  /\ Head(cmds) = [op |-> op, tunnel |-> t]
                  /\ cmds' = Tail(cmds)

HostIgnored(t) == /\ Receive("Host", t)
                  /\ Live(t)
                  /\ UNCHANGED <<fetching, groups, threadVars, events>>

\* Mutant of HostBegins: the check for a live group is gone.
HostBeginsBlindly(t) == /\ Receive("Host", t)
                        /\ fetching' = t
                        /\ UNCHANGED <<groups, threadVars, events>>

HostBegins(t) == /\ Receive("Host", t)
                 /\ ~Live(t)
                 /\ fetching' = t
                 /\ UNCHANGED <<groups, threadVars, events>>

\* Mutant of FetchFails: the error ends the command loop.
FetchFailsForGood(t) ==
    /\ fetching = t
    /\ \E c \in Causes : Emit(t, <<SentError(CliMessage(t, c))>>)
    /\ UNCHANGED <<commandVars, threadVars>>

FetchFails(t) ==
    /\ fetching = t
    /\ fetching' = None
    /\ \E c \in Causes :
          LET msg == CliMessage(t, c)
          IN  Emit(t, (IF IsAuthError(msg) THEN <<Sent("ReloginRequired")>> ELSE <<>>)
                         \o <<SentError(msg)>>)
    /\ UNCHANGED <<cmds, groups, threadVars>>

\* A thread no handle points to any more may be any new OS thread.
Unused(th) == Finished(th) /\ \A t \in Tunnels \ {fetching} : groups[t] # th

SpawnGroup(t) ==
    /\ fetching = t
    /\ fetching' = None
    /\ \E th \in Threads, ports \in {"none", "some"} :
          /\ Unused(th)
          /\ groups' = [groups EXCEPT ![t] = th]
          /\ tunnel' = [tunnel EXCEPT ![th] = t]
          /\ task' = [task EXCEPT ![th] = NewTask(ports)]
          /\ cancelled' = cancelled \ {th}
          /\ dropping' = dropping \ {th}
          /\ lastPass' = lastPass \ {th}
    /\ UNCHANGED <<cmds, events>>

\* Mutants of StopGroup: no cancel, and get() for remove().
StopWithoutCancel(t) ==
    /\ Receive("Stop", t)
    /\ groups' = [groups EXCEPT ![t] = None]
    /\ Emit(t, <<Sent("Stopped")>>)
    /\ UNCHANGED <<fetching, threadVars>>
StopKeepingHandle(t) ==
    /\ Receive("Stop", t)
    /\ cancelled' = IF groups[t] # None THEN cancelled \cup {groups[t]} ELSE cancelled
    /\ Emit(t, <<Sent("Stopped")>>)
    /\ UNCHANGED <<fetching, groups, tunnel, task, dropping, lastPass>>

StopGroup(t) ==
    /\ Receive("Stop", t)
    /\ cancelled' = IF groups[t] # None THEN cancelled \cup {groups[t]} ELSE cancelled
    /\ groups' = [groups EXCEPT ![t] = None]
    /\ Emit(t, <<Sent("Stopped")>>)
    /\ UNCHANGED <<fetching, tunnel, task, dropping, lastPass>>

DropRelay(t) ==
    /\ Receive("DropRelay", t)
    /\ dropping' = IF Live(t) THEN dropping \cup {groups[t]} ELSE dropping
    /\ UNCHANGED <<fetching, groups, tunnel, task, cancelled, lastPass, events>>

CommandThread ==
    \E t \in Tunnels : \/ HostIgnored(t) \/ HostBegins(t)
                       \/ FetchFails(t) \/ SpawnGroup(t)
                       \/ StopGroup(t) \/ DropRelay(t)

-----------------------------------------------------------------------------
(* A group thread. *)

At(th, p) == task[th].pc = p

\* block_on polls the task: it runs to its next await.  If the cancel permit
\* is stored already, this pass over select! goes on to poll `cancel`.
Resume(th, result) ==
    /\ th \notin lastPass
    /\ task' = [task EXCEPT ![th] = result.task]
    /\ Emit(tunnel[th], result.sent)
    /\ lastPass' = IF th \in cancelled THEN lastPass \cup {th} ELSE lastPass
    /\ UNCHANGED <<commandVars, tunnel, cancelled>>

BuildFails(th) == /\ At(th, "starting")
                  /\ Resume(th, StartFails)
                  /\ UNCHANGED dropping

Begin(th) == /\ task[th].pc \in {"starting", "backoff"}
             /\ Resume(th, Attempt(task[th]))
             /\ UNCHANGED dropping

MintDone(th) == /\ At(th, "minting")
                /\ Resume(th, Minted(task[th]))
                /\ UNCHANGED dropping

MintFails(th) == /\ At(th, "minting")
                 /\ \E c \in Causes : Resume(th, Failed(task[th], MintMessage(tunnel[th], c)))
                 /\ UNCHANGED dropping

ConnectDone(th) == /\ At(th, "connecting")
                   /\ Resume(th, RelayConnected(task[th]))
                   /\ UNCHANGED dropping

ForwardDone(th) == /\ At(th, "forwarding")
                   /\ Resume(th, Up(task[th]))
                   /\ UNCHANGED dropping

ConnectFails(th) == /\ task[th].pc \in {"connecting", "forwarding"}
                    /\ \E c \in Causes : Resume(th, Failed(task[th], SdkMessage(c)))
                    /\ UNCHANGED dropping

SessionEnds(th) == /\ At(th, "holding")
                   /\ \E e \in SessionEnd : Resume(th, SessionOver(task[th], e))
                   /\ UNCHANGED dropping

ForcedDrop(th) == /\ At(th, "holding")
                  /\ th \in dropping
                  /\ Resume(th, SessionOver(task[th], "RelayDropped"))
                  /\ dropping' = dropping \ {th}

\* select! takes the cancel permit; block_on returns and the runtime drops,
\* which waits for a mint that is still running on a blocking thread.
WindDown(th) ==
    /\ th \in cancelled
    /\ task[th].pc \in AwaitPoint \cup {"starting"}
    /\ task' = [task EXCEPT ![th] = Gone]
    /\ UNCHANGED <<commandVars, tunnel, cancelled, dropping, lastPass, events>>

ThreadExit(th) ==
    /\ At(th, "returned")
    /\ task' = [task EXCEPT ![th] = NoTask]
    /\ cancelled' = cancelled \ {th}
    /\ dropping' = dropping \ {th}
    /\ lastPass' = lastPass \ {th}
    /\ UNCHANGED <<commandVars, tunnel, events>>

GroupThread(th) ==
    \/ BuildFails(th) \/ Begin(th)
    \/ MintDone(th) \/ MintFails(th)
    \/ ConnectDone(th) \/ ForwardDone(th) \/ ConnectFails(th)
    \/ SessionEnds(th) \/ ForcedDrop(th)
    \/ WindDown(th) \/ ThreadExit(th)

EngineStep == CommandThread \/ \E th \in Threads : GroupThread(th)

-----------------------------------------------------------------------------
(* The engine with a user that sends any command at any time, as the       *)
(* headless runner can, and drains the events.                             *)

UserCommand == /\ \E op \in UserOps, t \in Tunnels : Send(op, t)
               /\ UNCHANGED <<fetching, groups, threadVars, events>>

UserDrain == Drain /\ UNCHANGED <<commandVars, threadVars>>

Next == UserCommand \/ UserDrain \/ EngineStep

Spec == EngineInit /\ [][Next]_engineVars

(* The command thread serves what it received and the CLI calls it makes   *)
(* return: strongly fair, because the bound on events, which the channel of *)
(* the code does not have, disables it over and over.  A thread whose      *)
(* cancel permit is stored is polled again and its runtime drops.  Nothing *)
(* makes a connect succeed or a relay drop. *)
EngineFairness ==
    /\ SF_engineVars(CommandThread)
    /\ \A th \in Threads : WF_engineVars(WindDown(th) \/ ThreadExit(th))

-----------------------------------------------------------------------------
(* A tunnel as its handle shows it. *)
PhaseOf(t) ==
    IF groups[t] = None THEN "none"
    ELSE LET tk == task[groups[t]]
         IN  CASE tk.pc \in {"returned", "finished"} -> "failed"
               [] tk.pc = "holding" -> "hosting"
               [] OTHER -> IF Phase(tk.policy) = "Connecting" THEN "connecting"
                                                              ELSE "reconnecting"

Lifecycle == INSTANCE HostLifecycle WITH phase <- [t \in Tunnels |-> PhaseOf(t)]

(* The engine keeps the promise of HostLifecycle.tla, whatever the order   *)
(* in which the command thread, the old and the new threads of a tunnel    *)
(* and the CLI calls proceed.                                              *)
ImplementsLifecycle == Lifecycle!Spec

(* A thread that runs without being in the handle map for its tunnel: no   *)
(* Stop can reach it any more. *)
Stray(th) == ~Finished(th) /\ groups[tunnel[th]] # th

(* Every thread the engine has lost the handle of was cancelled first: a   *)
(* Host that overwrites a handle finds it finished, although a blocking    *)
(* CLI call lies between the check and the insert, and a Stop that removes *)
(* one signals it.  So at most one task per tunnel goes on retrying.       *)
StraysAreCancelled == \A th \in Threads : Stray(th) => th \in cancelled

(* Cached tokens serve one reconnect, the first after a session that came  *)
(* up and ended: an attempt that reuses them sees the backoff of exactly   *)
(* one sleep since the last success, so none does after an attempt that    *)
(* failed (cached.take() and the assignments to `cached`).  Which end of   *)
(* the session lets it keep them is not told here: that the tokens of one  *)
(* that ended for a re-mint are dropped is SpoiledAreDropped, of           *)
(* TokenLifetime.tla.                                                      *)
ReuseFollowsSuccess ==
    \A th \in Threads : task[th].tokens = "reused" =>
        /\ task[th].policy.backoff = Doubled(BackoffStart)
        /\ Phase(task[th].policy) = "Reconnecting"

(* A thread that lost its handle ends, whatever it was waiting for.        *)
StraysEnd == \A th \in Threads : Stray(th) ~> ~Stray(th)

(* A Stop in the channel is served although the command thread blocks in   *)
(* CLI calls for the commands before it and the group may be anywhere.     *)
StopIsServed == \A t \in Tunnels :
    (\E i \in DOMAIN cmds : cmds[i] = [op |-> "Stop", tunnel |-> t]) ~> groups[t] = None

(* host/mod.rs says of ReloginRequired "The CLI sign-in is expired or       *)
(* absent": no one is asked to sign in when that is never the cause of a   *)
(* failure. *)
ReloginMeansSignIn ==
    "signin" \notin Causes => \A i \in DOMAIN events : events[i].kind # "ReloginRequired"

(* engine.rs says of DropRelay "Ignored if the group is gone or not yet    *)
(* up": a permit is stored only for a thread that holds a session.         *)
DropIgnoredUnlessUp == [][\A th \in dropping' \ dropping : At(th, "holding")]_engineVars

=============================================================================
