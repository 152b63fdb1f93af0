---------------------------- MODULE HeadlessRunner ----------------------------
(***************************************************************************)
(* The headless runner (src/headless.rs) on top of the host engine: it     *)
(* hosts the tunnels of DEVTUNNEL_HEADLESS_HOST, prints the events of the  *)
(* engine, and between two drains takes one line of stdin.  A quit line or *)
(* the end of stdin stops those tunnels, waits 300 ms, prints what has     *)
(* come and ends the process, engine and group threads with it.            *)
(***************************************************************************)
EXTENDS HostEngine

CONSTANTS Ids,           \* `ids`: the tunnels the runner was started with
          MaxWaiting     \* bound: no line is read while so many lines and
                         \*   commands wait

ASSUME RunnerConstants == Ids \in Seq(Tunnels) /\ MaxWaiting \in Nat

VARIABLES
    runner,      \* where the main thread of the runner is
    lines        \* ctl_rx: lines read from stdin and not yet served

runnerVars == <<runner, lines>>
allVars == <<engineVars, runnerVars>>

Ctl == [op : UserOps, tunnel : Tunnels] \cup [op : {"StopAll", "Quit"}, tunnel : {None}]

RunnerPoint == {"starting", "running",                \* run() and its loop
                "asleep", "leaving", "ended"}         \* after Quit

RunnerInit == EngineInit /\ runner = "starting" /\ lines = <<>>

\* One command for each of the tunnels in `ids`.
Each(op) == [i \in DOMAIN Ids |-> [op |-> op, tunnel |-> Ids[i]]]

SendAll(batch) == cmds' = cmds \o batch

StopAll == SendAll(Each("Stop"))

-----------------------------------------------------------------------------
(* The thread that reads stdin.  The end of stdin is a Quit as well. *)

ReadLine == /\ runner # "ended"
            /\ Len(lines) + Len(cmds) < MaxWaiting
            /\ \E line \in Ctl : lines' = Append(lines, line)
            /\ UNCHANGED <<engineVars, runner>>

-----------------------------------------------------------------------------
(* The main thread. *)

MainAt(from, to) == runner = from /\ runner' = to

HostIds == /\ MainAt("starting", "running")
           /\ SendAll(Each("Host"))
           /\ UNCHANGED <<fetching, groups, threadVars, events, lines>>

\* try_recv hands out an event, in the main loop or in the last drain.
PrintEvent == /\ runner \in {"running", "leaving"}
              /\ Drain
              /\ UNCHANGED <<commandVars, threadVars, runnerVars>>

\* The channel is empty, and recv_timeout returns a line.  What the engine
\* does between the two does not depend on the line, so the line is taken as
\* the drain ends; 100 ms without a line are one more drain.  The channel is
\* never disconnected: the command thread holds a sender, and waits for
\* commands as long as `host` exists.
NextLine(op) == /\ runner = "running"
                /\ events = <<>>
                /\ lines # <<>>
                /\ Head(lines).op = op
                /\ lines' = Tail(lines)
                /\ UNCHANGED <<fetching, groups, threadVars, events>>

ServeCommand == /\ \E op \in UserOps : NextLine(op)
                /\ SendAll(<<Head(lines)>>)
                /\ runner' = "running"

\* Mutant of ServeStopAll: the line is handed on as it is.
StopAllHandedOn == /\ NextLine("StopAll")
                   /\ SendAll(<<Head(lines)>>)
                   /\ runner' = "running"

ServeStopAll == /\ NextLine("StopAll")
                /\ StopAll
                /\ runner' = "running"

\* Mutants of Quit: it falls through to the next turn of the loop, and it
\* leaves without stopping anything.
QuitLikeStop == /\ NextLine("Quit")
                /\ StopAll
                /\ runner' = "running"
QuitAtOnce == /\ NextLine("Quit")
              /\ runner' = "asleep"
              /\ UNCHANGED cmds

Quit == /\ NextLine("Quit")
        /\ StopAll
        /\ runner' = "asleep"

\* 300 ms later.
WakeUp == /\ MainAt("asleep", "leaving")
          /\ UNCHANGED <<engineVars, lines>>

\* run() returns, and main with it: no thread of the process is left.
Exit == /\ MainAt("leaving", "ended")
        /\ events = <<>>
        /\ cmds' = <<>>
        /\ fetching' = None
        /\ groups' = [t \in Tunnels |-> None]
        /\ tunnel' = [th \in Threads |-> None]
        /\ task' = [th \in Threads |-> NoTask]
        /\ cancelled' = {}
        /\ dropping' = {}
        /\ lastPass' = {}
        /\ lines' = <<>>
        /\ UNCHANGED events

ServeLine == ServeCommand \/ ServeStopAll \/ Quit

MainThread == HostIds \/ PrintEvent \/ ServeLine \/ WakeUp \/ Exit

RunnerNext == \/ ReadLine
              \/ MainThread
              \/ EngineStep /\ UNCHANGED runnerVars

RunnerSpec == RunnerInit /\ [][RunnerNext]_allVars

(* The main thread runs.  It prints faster than the engine reports, so     *)
(* that the channel is empty at times and a drain ends: strongly fair.  No *)
(* line is ever sure to be typed.                                          *)
RunnerFairness ==
    /\ WF_allVars(MainThread)
    /\ SF_allVars(ServeLine \/ Exit)

FairRunnerSpec == RunnerSpec /\ EngineFairness /\ RunnerFairness

-----------------------------------------------------------------------------
(* Commands for the engine name an operation of its own, lines may not.    *)
RunnerTypeOK == /\ EngineTypeOK
                /\ runner \in RunnerPoint
                /\ lines \in Seq(Ctl)

(* headless.rs says of quit "stop all and exit": once it is served, every  *)
(* tunnel of `ids` that has a thread, or is to get one from a Host already *)
(* on its way, has a Stop behind that, whatever the lines before it asked. *)
ToBeHosted(t) == \/ groups[t] # None
                 \/ fetching = t
                 \/ \E i \in DOMAIN cmds : cmds[i] = [op |-> "Host", tunnel |-> t]

StoppedLast(t) ==
    \E i \in DOMAIN cmds :
        /\ cmds[i] = [op |-> "Stop", tunnel |-> t]
        /\ \A j \in DOMAIN cmds : cmds[j] = [op |-> "Host", tunnel |-> t] => j < i

QuitStopsIds ==
    runner \in {"asleep", "leaving"} =>
        \A i \in DOMAIN Ids : ToBeHosted(Ids[i]) => StoppedLast(Ids[i])

(* A quit line ends the process, although tunnels come up, drop and report *)
(* all the time and the engine may be in the middle of a CLI call.         *)
QuitEnds == (\E i \in DOMAIN lines : lines[i].op = "Quit") ~> runner = "ended"

(* headless.rs says of the stop line "Stop every hosted group": when it is *)
(* served, every tunnel with a thread has a Stop on its way.  A tunnel of  *)
(* an earlier host line that is not in `ids` has none. *)
StopLineStopsAll ==
    [][ServeStopAll => \A t \in Tunnels : groups[t] # None => StoppedLast(t)']_allVars

=============================================================================
