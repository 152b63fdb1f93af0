--------------------------------- MODULE Probe ---------------------------------
(***************************************************************************)
(* The health probe (src/probe.rs) and the badges it feeds (src/main.rs):  *)
(* one thread that probes the ports of the hosted groups in cycles, a      *)
(* local TCP connect each time and the Public URL on a slow cadence, and   *)
(* the pump that takes host events and probe results and re-points the     *)
(* thread when either the rows or the host states changed.                 *)
(*                                                                         *)
(* A port stands for a group with that one port, with a URL; the host      *)
(* engine sends any event about it at any time.  Time is counted in the    *)
(* seconds the thread sleeps.                                              *)
(***************************************************************************)
EXTENDS Integers, Sequences, FiniteSets

CONSTANTS Ports,
          Intervals,       \* bound: probe intervals the user sets, in seconds
          FastInterval,    \* FAST_INTERVAL
          HttpInterval,    \* HTTP_FALLBACK_INTERVAL
          MaxCommands,     \* bound: commands waiting for the thread
          MaxEvents        \* bound: results waiting for the pump

ASSUME ProbeConstants == /\ Intervals \subseteq Nat \ {0} /\ Intervals # {}
                         /\ FastInterval \in Nat \ {0}
                         /\ HttpInterval \in Nat
                         /\ MaxCommands \in Nat /\ MaxEvents \in Nat

VARIABLES
    listening,   \* the local services that accept connections
    \* the user interface
    host,        \* LiveState.host
    badge,       \* LiveState.probe
    \* the channels
    cmds,        \* cmd_rx of the thread
    results,     \* probe_evt_rx
    \* the thread
    pc, targets, interval,
    httpCache,   \* cached answers; a port not in `targets` has none
    httpAge,     \* seconds since last_http, up to HttpInterval
    httpDue,     \* this cycle asks the Public URLs
    todo,        \* targets not yet probed in this cycle
    allOk,       \* all_operational
    steps,       \* sleep steps left
    troubled     \* history: targets this cycle has found not operational

uiVars == <<host, badge>>
threadVars == <<pc, targets, interval, httpCache, httpAge, httpDue, todo, allOk, steps, troubled>>
vars == <<listening, uiVars, cmds, results, threadVars>>

Answer == {"unreachable", "gateway", "other"}    \* no answer; 502, 503 or 504; the rest
Status == {"Operational", "ServiceDown", "Down"}
Command == [op : {"SetTargets"}, ports : SUBSET Ports] \cup [op : {"SetInterval"}, secs : Intervals]

ProbeTypeOK ==
    /\ listening \in SUBSET Ports
    /\ host \in [Ports -> {"none", "host", "hosting"}]
    /\ badge \in [Ports -> {"none", "ok", "warn", "down"}]
    /\ cmds \in Seq(Command)
    /\ results \in Seq([port : Ports, status : Status])
    /\ pc \in {"drain", "probe", "sleep"}
    /\ targets \in SUBSET Ports
    /\ interval \in Intervals
    /\ httpCache \in [Ports -> Answer \cup {"none"}]
    /\ httpAge \in 0 .. HttpInterval
    /\ httpDue \in BOOLEAN
    /\ todo \in SUBSET targets
    /\ allOk \in BOOLEAN
    /\ steps \in Nat
    /\ troubled \in SUBSET Ports

NoAnswers == [p \in Ports |-> "none"]

\* last_http = None is an age at which the fallback is due.
Init ==
    /\ listening \in SUBSET Ports
    /\ host = [p \in Ports |-> "none"]
    /\ badge = [p \in Ports |-> "none"]
    /\ cmds = <<>>
    /\ results = <<>>
    /\ pc = "drain"
    /\ targets = {}
    /\ interval \in Intervals
    /\ httpCache = NoAnswers
    /\ httpAge = HttpInterval
    /\ httpDue = FALSE
    /\ todo = {}
    /\ allOk = TRUE
    /\ steps = 0
    /\ troubled = {}

-----------------------------------------------------------------------------
(* The world: services come and go. *)

Listens(p) == /\ listening' \in {listening \cup {p}, listening \ {p}}
              /\ UNCHANGED <<uiVars, cmds, results, threadVars>>

-----------------------------------------------------------------------------
(* The user interface. *)

\* on_stop: optimistic; targets follow with the Stopped event.
OnStop(p) == /\ host[p] # "none"
             /\ host' = [host EXCEPT ![p] = "none"]
             /\ badge' = [badge EXCEPT ![p] = "none"]
             /\ UNCHANGED <<listening, cmds, results, threadVars>>

SetInterval == /\ Len(cmds) < MaxCommands
               /\ \E secs \in Intervals : cmds' = Append(cmds, [op |-> "SetInterval", secs |-> secs])
               /\ UNCHANGED <<listening, uiVars, results, threadVars>>

\* map_probe_state
BadgeOf(status) == CASE status = "Operational" -> "ok"
                     [] status = "ServiceDown" -> "warn"
                     [] status = "Down" -> "down"

\* The badges after the results: the last one about a port counts.
Badges(before) ==
    [p \in Ports |->
        LET about == {i \in DOMAIN results : results[i].port = p}
        IN  IF about = {} THEN before[p]
            ELSE BadgeOf(results[CHOOSE i \in about : \A k \in about : k <= i].status)]

\* hosting_targets
HostingTargets(h) == {p \in Ports : h[p] = "hosting"}

\* A tick of the pump that finds a host event about p, or a load, or neither:
\* host events first, then the results, then SetTargets.
PumpHostEvent(p, shownAs) ==
    /\ Len(cmds) < MaxCommands
    /\ host' = [host EXCEPT ![p] = shownAs]
    /\ badge' = Badges(IF shownAs = "none" THEN [badge EXCEPT ![p] = "none"] ELSE badge)
    /\ results' = <<>>
    /\ cmds' = Append(cmds, [op |-> "SetTargets", ports |-> HostingTargets(host')])
    /\ UNCHANGED <<listening, threadVars>>

PumpLoad == /\ Len(cmds) < MaxCommands
            /\ badge' = Badges(badge)
            /\ results' = <<>>
            /\ cmds' = Append(cmds, [op |-> "SetTargets", ports |-> HostingTargets(host)])
            /\ UNCHANGED <<listening, host, threadVars>>

PumpResults == /\ results # <<>>
               /\ badge' = Badges(badge)
               /\ results' = <<>>
               /\ UNCHANGED <<listening, host, cmds, threadVars>>

-----------------------------------------------------------------------------
(* The thread. *)

\* A command, at the head of the loop or between two sleep steps.
Obey(cmd) == IF cmd.op = "SetTargets"
               THEN /\ targets' = cmd.ports
                    /\ httpCache' = NoAnswers
                    /\ httpAge' = HttpInterval
                    /\ UNCHANGED interval
               ELSE /\ interval' = cmd.secs
                    /\ UNCHANGED <<targets, httpCache, httpAge>>

TakeCommand == /\ pc = "drain"
               /\ cmds # <<>>
               /\ cmds' = Tail(cmds)
               /\ Obey(Head(cmds))
               /\ UNCHANGED <<listening, uiVars, results, pc, httpDue, todo, allOk, steps, troubled>>

StartCycle == /\ pc = "drain"
              /\ cmds = <<>>
              /\ pc' = "probe"
              /\ httpDue' = (httpAge >= HttpInterval)
              /\ httpAge' = IF httpAge >= HttpInterval THEN 0 ELSE httpAge
              /\ todo' = targets
              /\ allOk' = TRUE
              /\ troubled' = {}
              /\ UNCHANGED <<listening, uiVars, cmds, results, targets, interval, httpCache, steps>>

Classify(answer) == CASE answer = "unreachable" -> "Down"
                      [] answer = "gateway" -> "ServiceDown"
                      [] answer = "other" -> "Operational"

\* Mutant of Combine: a good answer of the Public URL is trusted over the port.
CombineTrusting(tcp, answer) ==
    IF answer = "other" \/ (tcp /\ answer # "gateway") THEN "Operational" ELSE "ServiceDown"

Combine(tcp, answer) ==
    IF tcp /\ (answer = "none" \/ Classify(answer) # "ServiceDown") THEN "Operational"
                                                                    ELSE "ServiceDown"

\* What the history keeps of a probe.
Finds(p, status) == troubled' = IF status = "Operational" THEN troubled ELSE troubled \cup {p}

\* Mutant of ProbeTarget: the last target decides for all.
ProbeTargetAlone(p) ==
    /\ pc = "probe" /\ p \in todo
    /\ Len(results) < MaxEvents
    /\ \E answer \in IF httpDue THEN Answer ELSE {httpCache[p]} :
          LET status == Combine(p \in listening, answer)
          IN  /\ httpCache' = [httpCache EXCEPT ![p] = answer]
              /\ results' = Append(results, [port |-> p, status |-> status])
              /\ allOk' = (status = "Operational")
              /\ Finds(p, status)
    /\ todo' = todo \ {p}
    /\ UNCHANGED <<listening, uiVars, cmds, pc, targets, interval, httpAge, httpDue, steps>>

\* The Public URL answers anything.  The event PublicUnreachable is left out:
\* it is logged only.
ProbeTarget(p) ==
    /\ pc = "probe" /\ p \in todo
    /\ Len(results) < MaxEvents
    /\ \E answer \in IF httpDue THEN Answer ELSE {httpCache[p]} :
          LET status == Combine(p \in listening, answer)
          IN  /\ httpCache' = [httpCache EXCEPT ![p] = answer]
              /\ results' = Append(results, [port |-> p, status |-> status])
              /\ allOk' = (allOk /\ status = "Operational")
              /\ Finds(p, status)
    /\ todo' = todo \ {p}
    /\ UNCHANGED <<listening, uiVars, cmds, pc, targets, interval, httpAge, httpDue, steps>>

\* Mutant of EndCycle: an interval of a second leaves no step to sleep.
EndCycleShort == /\ pc = "probe" /\ todo = {}
                 /\ pc' = "sleep"
                 /\ steps' = IF allOk THEN interval - 1 ELSE FastInterval
                 /\ UNCHANGED <<listening, uiVars, cmds, results, targets, interval,
                                httpCache, httpAge, httpDue, todo, allOk, troubled>>

EndCycle == /\ pc = "probe" /\ todo = {}
            /\ pc' = "sleep"
            /\ steps' = IF allOk THEN interval ELSE FastInterval
            /\ UNCHANGED <<listening, uiVars, cmds, results, targets, interval,
                           httpCache, httpAge, httpDue, todo, allOk, troubled>>

Older == IF httpAge < HttpInterval THEN httpAge + 1 ELSE httpAge

\* A second passes, then one command is taken; SetTargets ends the sleep.
SleepStep ==
    /\ pc = "sleep"
    /\ IF cmds = <<>>
         THEN /\ steps' = steps - 1
              /\ httpAge' = Older
              /\ UNCHANGED <<cmds, targets, interval, httpCache>>
         ELSE /\ cmds' = Tail(cmds)
              /\ Head(cmds).op = "SetTargets" => steps' = 0
              /\ Head(cmds).op = "SetInterval" => steps' = steps - 1
              /\ IF Head(cmds).op = "SetTargets" THEN Obey(Head(cmds))
                 ELSE /\ interval' = Head(cmds).secs
                      /\ httpAge' = Older
                      /\ UNCHANGED <<targets, httpCache>>
    /\ pc' = IF steps' = 0 THEN "drain" ELSE "sleep"
    /\ troubled' = IF steps' = 0 THEN {} ELSE troubled
    /\ UNCHANGED <<listening, uiVars, results, httpDue, todo, allOk>>

Thread == TakeCommand \/ StartCycle \/ (\E p \in Ports : ProbeTarget(p)) \/ EndCycle \/ SleepStep

User == SetInterval \/ \E p \in Ports : OnStop(p)

PumpEvent == PumpLoad \/ \E p \in Ports, s \in {"none", "host", "hosting"} : PumpHostEvent(p, s)

World == \E p \in Ports : Listens(p)

Next == User \/ PumpEvent \/ PumpResults \/ World \/ Thread

Spec == Init /\ [][Next]_vars

(* The thread runs and the timer ticks; the thread takes commands faster   *)
(* than the user, whose every SetTargets comes with another tick, can send *)
(* them, so it does not drain for ever.                                    *)
FairSpec == Spec /\ WF_vars(Thread) /\ SF_vars(StartCycle) /\ WF_vars(PumpResults)

-----------------------------------------------------------------------------
(* After a cycle that found a target not operational, its local port down  *)
(* or its Public URL answered by the gateway, the next one comes after the *)
(* fast interval at most, whatever the other targets answered and whatever *)
(* interval was set meanwhile: the badge of a service that recovers        *)
(* follows "within a few seconds".                                         *)
TroubleIsRecheckedSoon == pc = "sleep" /\ troubled # {} => steps <= FastInterval

(* A hosted port whose service stays down is shown so in the end, however  *)
(* old the cached answer of its Public URL is and however the other badges *)
(* come and go.                                                            *)
OutageIsShown ==
    \A p \in Ports :
        <>[](host[p] = "hosting" /\ p \in targets /\ p \notin listening) => <>[](badge[p] = "warn")

(* on_stop drops the probe results of a group "so badges clear": a group   *)
(* that is not hosted has none, once no result about it is on its way and  *)
(* the thread has its new targets.                                         *)
BadgesClear ==
    \A p \in Ports :
        host[p] = "none" /\ p \notin targets /\ results = <<>> /\ cmds = <<>> => badge[p] = "none"

=============================================================================
