------------------------------ MODULE HostGroup ------------------------------
(***************************************************************************)
(* The task of one hosted group: host_group and connect_once of            *)
(* src/host/engine.rs.  The task is a record; an operator stands for what  *)
(* the code runs from one await to the next and yields the task afterwards *)
(* and the HostEvents it sent on the way.  HostEngine.tla runs many of     *)
(* these tasks, TokenLifetime.tla runs one against a clock.                *)
(*                                                                         *)
(* HostEvent::Progress is left out: it only sets a status label.           *)
(***************************************************************************)
EXTENDS KeepAlivePolicy, ErrorClass, Sequences

\* Where the task is.  "returned": host_group returned or was cancelled but
\* the thread still drops its runtime; "finished": is_finished() holds.
AwaitPoint == {"minting", "connecting", "forwarding", "holding", "backoff"}
Point == AwaitPoint \cup {"starting", "returned", "finished"}

Task == [pc : Point,
         policy : PolicyState,
         cached : {"none", "some"},               \* the local `cached`
         tokens : {"none", "fresh", "reused"},    \* tokens of the attempt under way
         ports : {"none", "some"}]                \* the port list fetched for this Host

NoTask == [pc |-> "finished", policy |-> New, cached |-> "none",
           tokens |-> "none", ports |-> "none"]

NewTask(ports) == [NoTask EXCEPT !.pc = "starting", !.ports = ports]

\* A HostEvent but for the tunnel it is about; only an Error has a message.
EventKind == {"Connecting", "Reconnecting", "Hosting", "Stopped", "Error", "ReloginRequired"}
SentEvent == [kind : EventKind, msg : SUBSET Needle]

Result(tk, sent) == [task |-> tk, sent |-> sent]
Sent(kind) == [kind |-> kind, msg |-> {}]
SentError(msg) == [kind |-> "Error", msg |-> msg]

\* host_group returned or was dropped, and its locals with it.
Gone == [NoTask EXCEPT !.pc = "returned"]

\* The runtime could not be built: an error that quotes no CLI call.
StartFails == Result(Gone, <<SentError({})>>)

\* Mutant of Attempt: cached.clone() for cached.take().
AttemptKeepingCached(tk) ==
    Result(IF tk.cached = "some" THEN [tk EXCEPT !.pc = "connecting", !.tokens = "reused"]
                                 ELSE [tk EXCEPT !.pc = "minting", !.tokens = "none"],
           <<Sent(Phase(tk.policy))>>)

\* The head of the loop, and connect_once up to its first await: take the
\* cached tokens or begin to mint a pair.
Attempt(tk) ==
    Result(IF tk.cached = "some"
             THEN [tk EXCEPT !.pc = "connecting", !.cached = "none", !.tokens = "reused"]
             ELSE [tk EXCEPT !.pc = "minting", !.tokens = "none"],
           <<Sent(Phase(tk.policy))>>)

Minted(tk) ==
    Result([tk EXCEPT !.pc = "connecting", !.tokens = "fresh"], <<>>)

\* connect_once returned Ok: keep the tokens, report Hosting, hold the relay.
Up(tk) ==
    Result([tk EXCEPT !.pc = "holding",
                      !.policy = Advance(tk.policy, "Connected").state,
                      !.cached = "some", !.tokens = "none"],
           <<Sent("Hosting")>>)

RelayConnected(tk) ==
    IF tk.ports = "some" THEN Result([tk EXCEPT !.pc = "forwarding"], <<>>)
                         ELSE Up(tk)

\* connect_once returned Err(msg); the tokens it took or minted are dropped.
Failed(tk, msg) ==
    LET answer == Advance(tk.policy, Classify(msg))
    IN  CASE answer.action.kind = "Relogin" ->
               Result(Gone, <<Sent("ReloginRequired"), SentError(msg)>>)
          [] answer.action.kind = "Fail" ->
               Result(Gone, <<SentError(msg)>>)
          [] OTHER ->
               Result([tk EXCEPT !.pc = "backoff", !.policy = answer.state,
                                 !.tokens = "none"], <<>>)

\* Mutant of SessionOver: a re-mint keeps the tokens like a drop does.
SessionOverKeepingTokens(tk, e) ==
    Result([tk EXCEPT !.pc = "backoff", !.policy = Advance(tk.policy, e).state], <<>>)

\* The keep-alive select! ended with e; only a re-mint drops the tokens.
SessionOver(tk, e) ==
    Result([tk EXCEPT !.pc = "backoff",
                      !.policy = Advance(tk.policy, e).state,
                      !.cached = IF e = "RemintDue" THEN "none" ELSE @],
           <<>>)

=============================================================================
