----------------------------- MODULE HostSession -----------------------------
(***************************************************************************)
(* The user interface's side of hosting (src/main.rs) composed with the    *)
(* host engine: the Host and Stop toggles, the persisted auto-host set,    *)
(* the pump that the timer runs every 150 ms on the UI thread, and the     *)
(* background threads that run preflights, operations on tunnels and loads *)
(* of the rows, while the service changes.                                 *)
(*                                                                         *)
(* One Pump is one timer tick.  It drains its channels in the order of the *)
(* code; a message that arrives during a tick is one that arrives before   *)
(* or after it, because no part of a tick reads what another thread owns.  *)
(* An answer of the service is read at one step and applied at a later     *)
(* one, so that it may be out of date by then.                             *)
(***************************************************************************)
EXTENDS HostEngine, SequencesExt

CONSTANTS MaxJobs,       \* bound: preflights, operations, loads and installs under way
          Preflights,    \* bound: what a preflight finds
          Services       \* bound: what the service may have of a tunnel

VARIABLES
    shown,       \* LiveState.host: [Tunnels -> "none", "host" or "hosting"]
    rows,        \* LiveState.rows, as far as hosting asks: absent, portless, ported
    autoHost,    \* AppState.auto_host
    appState,    \* the app-state property of the window
    resumeDue,   \* auto_resume_pending
    checking,    \* preflights running
    preflights,  \* pf_rx
    operating,   \* threads of run_op_async that have not finished their operation
    loading,     \* threads about to call `list`, of a load or after an operation
    listed,      \* and those that have its answer: [SUBSET Tunnels -> Nat], by answer
    loads,       \* rx
    installing,  \* the installing property, its thread and install_rx
    service,     \* what the tunnel service has: [Tunnels -> RowState]
    wanted,      \* history: tunnels the user hosted last, rather than stopped
    disturbed,   \* history: tunnels a command found live, until a Host starts clean
    lacked       \* history: tunnels the service lacked at some time since before the
                 \* oldest answer of it that is still under way

uiVars == <<shown, rows, autoHost, appState, resumeDue>>
jobVars == <<checking, preflights, operating, loading, listed, loads, installing, service>>
historyVars == <<wanted, disturbed>>
sessionVars == <<engineVars, uiVars, jobVars, historyVars, lacked>>

RowState == {"absent", "portless", "ported"}
Preflight == {"Ok", "CliMissing", "LoggedOut"}

\* WingetMissing and Elevation differ from Failed in what they tell the user.
InstallOutcome == {"Installed", "Failed"}

ASSUME SessionConstants == /\ IsFiniteSet(Tunnels)
                           /\ MaxJobs \in Nat \ {0}
                           /\ Preflights \subseteq Preflight
                           /\ Services \subseteq RowState

Load == [ok : BOOLEAN, rows : [Tunnels -> RowState], msg : SUBSET Needle]

SessionTypeOK ==
    /\ EngineTypeOK
    /\ shown \in [Tunnels -> {"none", "host", "hosting"}]
    /\ rows \in [Tunnels -> RowState]
    /\ autoHost \in SUBSET Tunnels
    /\ appState \in {"checking", "ready", "cli-missing", "relogin"}
    /\ resumeDue \in BOOLEAN
    /\ checking \in Nat
    /\ preflights \in Seq(Preflight)
    /\ operating \in Nat
    /\ loading \in Nat
    /\ listed \in [SUBSET Tunnels -> Nat]
    /\ loads \in Seq(Load)
    /\ installing \in {"no", "running"} \cup InstallOutcome
    /\ service \in [Tunnels -> RowState]
    /\ wanted \in SUBSET Tunnels
    /\ disturbed \in SUBSET Tunnels
    /\ lacked \in SUBSET Tunnels

Absent == {t \in Tunnels : service[t] = "absent"}

\* At startup the rows come from the cache, the set from the state file, and
\* the first preflight is under way.
SessionInit ==
    /\ EngineInit
    /\ shown = [t \in Tunnels |-> "none"]
    /\ service \in [Tunnels -> Services]
    /\ rows \in {[t \in Tunnels |-> "absent"], [t \in Tunnels |-> "ported"]}
    /\ autoHost \in SUBSET Tunnels
    /\ appState = "checking"
    /\ resumeDue = TRUE
    /\ checking = 1 /\ preflights = <<>>
    /\ operating = 0
    /\ loading = 0 /\ listed = [S \in SUBSET Tunnels |-> 0] /\ loads = <<>>
    /\ installing = "no"
    /\ wanted = autoHost
    /\ disturbed = {}
    /\ lacked = Absent

-----------------------------------------------------------------------------
(* The user. *)

OnHost(t) == /\ rows[t] = "ported"
             /\ shown[t] = "none"
             /\ Send("Host", t)
             /\ autoHost' = autoHost \cup {t}
             /\ shown' = [shown EXCEPT ![t] = "host"]
             /\ wanted' = wanted \cup {t}
             /\ UNCHANGED <<fetching, groups, threadVars, events,
                            rows, appState, resumeDue, jobVars, disturbed, lacked>>

\* Mutant of OnStop: the tunnel stays in the auto-host set.
OnStopForgetful(t) == /\ rows[t] # "absent"
                      /\ shown[t] # "none"
                      /\ Send("Stop", t)
                      /\ shown' = [shown EXCEPT ![t] = "none"]
                      /\ wanted' = wanted \ {t}
                      /\ UNCHANGED <<fetching, groups, threadVars, events,
                                     rows, autoHost, appState, resumeDue, jobVars, disturbed, lacked>>

OnStop(t) == /\ rows[t] # "absent"
             /\ shown[t] # "none"
             /\ Send("Stop", t)
             /\ autoHost' = autoHost \ {t}
             /\ shown' = [shown EXCEPT ![t] = "none"]
             /\ wanted' = wanted \ {t}
             /\ UNCHANGED <<fetching, groups, threadVars, events,
                            rows, appState, resumeDue, jobVars, disturbed, lacked>>

Jobs == checking + Len(preflights) + operating + loading + SumFunction(listed) + Len(loads)
        + (IF installing = "no" THEN 0 ELSE 1)

OnRefresh == /\ appState = "ready"
             /\ Jobs < MaxJobs
             /\ loading' = loading + 1
             /\ UNCHANGED <<engineVars, uiVars, checking, preflights, operating, listed, loads,
                            installing, service, historyVars, lacked>>

\* The user confirms the creation of a group or a port, or a deletion.  A dialog
\* outlives the state that offered it; before the first preflight only cards of
\* the cache offer one.  What it hides or adds to the list is RowList.
OnOperation == /\ appState # "checking" \/ \E t \in Tunnels : rows[t] # "absent"
               /\ Jobs < MaxJobs
               /\ operating' = operating + 1
               /\ UNCHANGED <<engineVars, uiVars, checking, preflights, loading, listed, loads,
                              installing, service, historyVars, lacked>>

\* The Sign in button, of the banner in the state relogin and of the Settings in
\* every state but ready: user_login, then a preflight, whether it worked or not.
OnSignIn == /\ appState # "ready"
            /\ Len(cmds) < MaxCommands    \* bound: auto-resumes do not pile up
            /\ Jobs < MaxJobs
            /\ checking' = checking + 1
            /\ UNCHANGED <<engineVars, uiVars, preflights, operating, loading, listed, loads,
                           installing, service, historyVars, lacked>>

\* The Install button, which is disabled until the outcome is there.
OnInstallCli == /\ appState = "cli-missing"
                /\ installing = "no"
                /\ Len(cmds) < MaxCommands    \* bound: as above
                /\ Jobs < MaxJobs
                /\ installing' = "running"
                /\ UNCHANGED <<engineVars, uiVars, checking, preflights, operating, loading,
                               listed, loads, service, historyVars, lacked>>

-----------------------------------------------------------------------------
(* The background threads and the service. *)

PreflightDone == /\ checking > 0
                 /\ checking' = checking - 1
                 /\ \E pf \in Preflights : preflights' = Append(preflights, pf)
                 /\ UNCHANGED <<engineVars, uiVars, operating, loading, listed, loads,
                                installing, service, historyVars, lacked>>

InstallCli == /\ installing = "running"
              /\ installing' \in InstallOutcome
              /\ UNCHANGED <<engineVars, uiVars, checking, preflights, operating, loading, listed,
                             loads, service, historyVars, lacked>>

\* Answers of the service that the pump has not applied.
UnderWay == \/ loads # <<>> \/ events # <<>>
            \/ \E S \in SUBSET Tunnels : listed[S] > 0

ServiceBecomes(t, r) == /\ service' = [service EXCEPT ![t] = r]
                        /\ lacked' = Absent' \cup (IF UnderWay THEN lacked ELSE {})

\* A tunnel expires, or someone deletes, creates or changes it: another client,
\* or the first call of an operation that has two.  An ID is a name that a user
\* gives, so what is deleted may be created again.
ServiceChanges(t) ==
    /\ \E r \in Services \ {service[t]} : ServiceBecomes(t, r)
    /\ UNCHANGED <<engineVars, uiVars, checking, preflights, operating, loading, listed, loads,
                   installing, historyVars>>

\* run_op_async: the operation works, and a load follows.  One that adds a
\* second port or deletes one of two leaves the tunnel as it is here.
OperationWorks ==
    /\ operating > 0
    /\ operating' = operating - 1
    /\ loading' = loading + 1
    /\ \E t \in Tunnels, r \in Services : ServiceBecomes(t, r)
    /\ UNCHANGED <<engineVars, uiVars, checking, preflights, listed, loads, installing,
                   historyVars>>

FailedLoad(msg) == [ok |-> FALSE, msg |-> msg, rows |-> [t \in Tunnels |-> "absent"]]

\* It fails, with a message that quotes the Tunnel ID; no load follows.
OperationFails ==
    /\ operating > 0
    /\ operating' = operating - 1
    /\ \E t \in Tunnels, c \in {"network", "signin"} :
          loads' = Append(loads, FailedLoad(CliMessage(t, c)))
    /\ UNCHANGED <<engineVars, uiVars, checking, preflights, loading, listed, installing, service,
                   historyVars, lacked>>

\* fetch_rows: the list, and what of it each `show` adds later.  If the list
\* fails, so does the load.
List == /\ loading > 0
        /\ loading' = loading - 1
        /\ \/ /\ listed' = [listed EXCEPT ![Tunnels \ Absent] = @ + 1]
              /\ UNCHANGED loads
           \/ /\ \E c \in {"network", "signin"} :
                    loads' = Append(loads, FailedLoad(CauseNeedles(c)))
              /\ UNCHANGED listed
        /\ UNCHANGED <<engineVars, uiVars, checking, preflights, operating, installing, service,
                       historyVars, lacked>>

\* A tunnel of the list whose `show` fails, as it does when the tunnel is gone by
\* now, comes back without ports.
RowsOf(S, shows) == [t \in Tunnels |-> IF t \in shows THEN "ported"
                                       ELSE IF t \in S THEN "portless" ELSE "absent"]

LoadDone ==
    /\ \E S \in SUBSET Tunnels :
          /\ listed[S] > 0
          /\ listed' = [listed EXCEPT ![S] = @ - 1]
          /\ \E shows \in SUBSET {t \in S : service[t] = "ported"} :
                loads' = Append(loads, [ok |-> TRUE, msg |-> {}, rows |-> RowsOf(S, shows)])
    /\ UNCHANGED <<engineVars, uiVars, checking, preflights, operating, loading, installing,
                   service, historyVars, lacked>>

-----------------------------------------------------------------------------
(* One tick of the pump.  ui is the state the tick works on. *)

AppStateOf(pf) == CASE pf = "Ok" -> "ready"
                    [] pf = "CliMissing" -> "cli-missing"
                    [] pf = "LoggedOut" -> "relogin"

\* After an install that worked a preflight runs in the tick itself, and its
\* result is drained with the others.
AfterInstall == {pfs \in {preflights} \cup {Append(preflights, pf) : pf \in Preflights} :
                    pfs # preflights <=> installing = "Installed"}

TakePreflight(ui, pf) == [ui EXCEPT !.appState = AppStateOf(pf),
                                    !.resumeDue = @ \/ pf = "Ok",
                                    !.started = IF pf = "Ok" THEN @ + 1 ELSE @]

\* apply_rows
TakeLoad(ui, load) ==
    IF load.ok THEN [ui EXCEPT !.rows = load.rows, !.loadOk = TRUE]
    ELSE [ui EXCEPT !.appState = IF IsAuthError(load.msg) THEN "relogin" ELSE @]

\* Mutants of ShownAs: an error leaves the toggle on, and a state of its own
\* for a reconnect, which nothing else knows of.
ShownAsOn(kind) == CASE kind \in {"Connecting", "Reconnecting", "Error"} -> "host"
                     [] kind = "Hosting" -> "hosting"
                     [] kind = "Stopped" -> "none"
ShownAsNew(kind) == CASE kind = "Connecting" -> "host"
                      [] kind = "Reconnecting" -> "reconnecting"
                      [] kind = "Hosting" -> "hosting"
                      [] kind \in {"Stopped", "Error"} -> "none"

\* map_host_state
ShownAs(kind) == CASE kind \in {"Connecting", "Reconnecting"} -> "host"
                   [] kind = "Hosting" -> "hosting"
                   [] kind \in {"Stopped", "Error"} -> "none"

TakeEvent(ui, ev) ==
    IF ev.kind = "ReloginRequired" THEN [ui EXCEPT !.appState = "relogin"]
    ELSE [ui EXCEPT !.shown[ev.tunnel] = ShownAs(ev.kind),
                    !.appState = IF IsAuthError(ev.msg) THEN "relogin" ELSE @,
                    !.autoHost = IF IsMissingTunnelError(ev.msg) THEN @ \ {ev.tunnel} ELSE @]

\* Mutant of AutoResume: what cannot be hosted now is forgotten.
AutoResumePruning(ui) ==
    IF ~(ui.loadOk /\ ui.resumeDue) THEN [ui |-> ui, host |-> {}]
    ELSE LET known == {t \in ui.autoHost : ui.rows[t] = "ported"}
         IN  [ui |-> [ui EXCEPT !.resumeDue = FALSE,
                                !.shown = [t \in Tunnels |-> IF t \in known THEN "host" ELSE @[t]],
                                !.autoHost = known],
              host |-> known]

\* The one-shot auto-resume, after a load that succeeded: host what has a port,
\* forget what is gone, skip what is portless.
AutoResume(ui) ==
    IF ~(ui.loadOk /\ ui.resumeDue) THEN [ui |-> ui, host |-> {}]
    ELSE LET known == {t \in ui.autoHost : ui.rows[t] = "ported"}
         IN  [ui |-> [ui EXCEPT !.resumeDue = FALSE,
                                !.shown = [t \in Tunnels |-> IF t \in known THEN "host" ELSE @[t]],
                                !.autoHost = {t \in @ : ui.rows[t] # "absent"}],
              host |-> known]

Drained(pfs) ==
    LET start == [shown |-> shown, rows |-> rows, autoHost |-> autoHost,
                  appState |-> appState, resumeDue |-> resumeDue,
                  started |-> 0, loadOk |-> FALSE]
        checked == FoldLeft(TakePreflight, start, pfs)
        loaded == FoldLeft(TakeLoad, checked, loads)
    IN  FoldLeft(TakeEvent, loaded, events)

Tick(pfs) ==
    LET tick == AutoResume(Drained(pfs))
        ui == tick.ui
        ids == SetToSeq(tick.host)
    IN  /\ installing' = IF installing \in InstallOutcome THEN "no" ELSE installing
        /\ preflights' = <<>> /\ loads' = <<>> /\ events' = <<>>
        /\ loading' = loading + ui.started
        /\ shown' = ui.shown /\ rows' = ui.rows /\ autoHost' = ui.autoHost
        /\ appState' = ui.appState /\ resumeDue' = ui.resumeDue
        /\ cmds' = cmds \o [i \in DOMAIN ids |-> [op |-> "Host", tunnel |-> ids[i]]]
        /\ lacked' = Absent \cup (IF \E S \in SUBSET Tunnels : listed[S] > 0 THEN lacked ELSE {})
        /\ UNCHANGED <<fetching, groups, threadVars, checking, operating, listed, service,
                       historyVars>>

Pump == /\ preflights # <<>> \/ loads # <<>> \/ events # <<>> \/ installing \in InstallOutcome
        /\ \E pfs \in AfterInstall : Tick(pfs)

-----------------------------------------------------------------------------
(* The engine runs on.  The service tells it the truth: an error says that *)
(* a tunnel is gone only when it is (or when the Tunnel ID says so), and    *)
(* the ports it fetches are those the tunnel has.  The answer of a call and *)
(* the event it makes are one moment here; what may happen between them    *)
(* may as well happen before the pump drains the event.                    *)
Truthful ==
    /\ \A i \in DOMAIN events' \ DOMAIN events :
          LET ev == events'[i]
          IN  IsMissingTunnelError(ev.msg \ IdNeedles[ev.tunnel]) => service[ev.tunnel] = "absent"
    /\ \A t \in Tunnels : fetching = t /\ fetching' = None /\ events' = events =>
          /\ service[t] # "absent"
          /\ task'[groups'[t]].ports = "some" <=> service[t] = "ported"

\* A command about t is received while a thread of t that has a handle runs.
FoundLive(t) == /\ cmds # <<>> /\ cmds' = Tail(cmds)
                /\ Head(cmds).tunnel = t
                /\ Live(t)

\* A Host of t is received when nothing of an earlier one is left.
StartsClean(t) == /\ fetching # t /\ fetching' = t
                  /\ \A th \in Threads : tunnel[th] = t => Finished(th)
                  /\ \A i \in DOMAIN events : events[i].tunnel # t

Engine == /\ EngineStep
          /\ Truthful
          /\ disturbed' = {t \in Tunnels : \/ FoundLive(t)
                                           \/ t \in disturbed /\ ~StartsClean(t)}
          /\ UNCHANGED <<uiVars, jobVars, wanted, lacked>>

Background == \/ OnRefresh \/ OnOperation \/ OnSignIn \/ OnInstallCli
              \/ PreflightDone \/ InstallCli
              \/ OperationWorks \/ OperationFails \/ List \/ LoadDone
              \/ \E t \in Tunnels : ServiceChanges(t)

SessionNext == \/ \E t \in Tunnels : OnHost(t) \/ OnStop(t)
               \/ Background
               \/ Pump \/ Engine

SessionSpec == SessionInit /\ [][SessionNext]_sessionVars

-----------------------------------------------------------------------------
(* What the user stopped stays stopped: whatever loads, sign-ins and        *)
(* auto-resumes are under way, a tunnel that has a handle, with no Stop on  *)
(* its way, is one the user hosted last (or one hosted when the program     *)
(* ended before).                                                           *)
HostedIsWanted ==
    \A t \in Tunnels :
        /\ PhaseOf(t) # "none"
        /\ \A i \in DOMAIN cmds : cmds[i] # [op |-> "Stop", tunnel |-> t]
        => t \in wanted

(* Only the user takes a tunnel out of the auto-host set that the service  *)
(* has had all the while, from before the oldest load or error that is not *)
(* applied yet: whatever is deleted and created again meanwhile, a failed  *)
(* load, a failed `show` and an error about another tunnel never do (the   *)
(* auto-resume and the events in the pump, and fetch_rows).                *)
PrunedWasGone ==
    [][\A t \in autoHost \ autoHost' : t \notin wanted' \/ t \in lacked]_sessionVars

(* The comment on the pruning (main.rs) says more: "The tunnel no longer   *)
(* exists (deleted/expired while the app was closed)".                     *)
PrunedIsGone ==
    [][\A t \in autoHost \ autoHost' : t \notin wanted' \/ service[t] = "absent"]_sessionVars

\* Nothing about t is in the channels.
Quiet(t) == /\ fetching # t
            /\ \A i \in DOMAIN cmds : cmds[i].tunnel # t
            /\ \A i \in DOMAIN events : events[i].tunnel # t

\* What the window shows is what the engine does.
Agrees(t) ==
    CASE PhaseOf(t) \in {"none", "failed"} -> shown[t] = "none"
      [] PhaseOf(t) = "hosting" -> shown[t] = "hosting"
      [] OTHER -> At(groups[t], "starting") \/ At(groups[t], "backoff") \/ shown[t] = "host"

(* The optimistic update is confirmed by the events: once the channels are *)
(* quiet about a tunnel the window shows its state, unless a Stop or a     *)
(* Host was received while a thread of the tunnel was running.             *)
UndisturbedAgrees == \A t \in Tunnels \ disturbed : Quiet(t) => Agrees(t)

(* The comment on the toggles (main.rs) promises it without exception:     *)
(* "the engine confirms via HostEvent in the pump".  Here for a group that *)
(* is hosted, by the one thread it has. *)
HostingIsConfirmed ==
    \A t \in Tunnels : /\ Quiet(t)
                       /\ PhaseOf(t) = "hosting"
                       /\ \A th \in Threads : tunnel[th] = t => ~Stray(th)
                       => shown[t] = "hosting"

(* And for a group that is stopped, its last event being Stopped. *)
StopIsConfirmed ==
    \A t \in Tunnels : Quiet(t) /\ PhaseOf(t) = "none" => shown[t] = "none"

=============================================================================
