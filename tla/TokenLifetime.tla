---------------------------- MODULE TokenLifetime ----------------------------
(***************************************************************************)
(* One group's task (HostGroup.tla) against a clock: how old the host and  *)
(* manage tokens are when the task uses them, and which of them it may use *)
(* again.  host_group arms the re-mint timer anew for every session; the   *)
(* tokens may come from an earlier one.                                    *)
(*                                                                         *)
(* A tick is some hours; it passes only while a session is up, because an  *)
(* attempt and a sleep between two take seconds.  The timer is exact.      *)
(***************************************************************************)
EXTENDS HostGroup

CONSTANTS RemintAfter,   \* REMINT_AFTER in ticks: 20 h
          TokenLife,     \* what the service grants a token: about 24 h
          MaxAge         \* bound: ages above are not told apart

ASSUME LifetimeConstants == /\ RemintAfter \in Nat \ {0}
                            /\ TokenLife \in Nat
                            /\ RemintAfter < TokenLife
                            /\ MaxAge \in Nat
                            /\ TokenLife <= MaxAge

VARIABLES tk,        \* the task
          age,       \* ticks since the tokens it uses or keeps were minted
          held,      \* ticks since the session came up: the timer
          spoiled    \* history: a re-mint was due, or an attempt failed, since
                     \*   tokens were minted last

vars == <<tk, age, held, spoiled>>

TypeOK == /\ tk \in Task
          /\ age \in 0 .. MaxAge
          /\ held \in 0 .. RemintAfter
          /\ spoiled \in BOOLEAN

Init == /\ \E ports \in {"none", "some"} : tk = NewTask(ports)
        /\ age = 0
        /\ held = 0
        /\ spoiled = FALSE

Begin == /\ tk.pc \in {"starting", "backoff"}
         /\ tk' = Attempt(tk).task
         /\ UNCHANGED <<age, held, spoiled>>

Mint == /\ tk.pc = "minting"
        /\ tk' = Minted(tk).task
        /\ age' = 0
        /\ spoiled' = FALSE
        /\ UNCHANGED held

RelayUp == /\ tk.pc = "connecting"
           /\ tk' = RelayConnected(tk).task
           /\ held' = 0
           /\ UNCHANGED <<age, spoiled>>

PortsUp == /\ tk.pc = "forwarding"
           /\ tk' = Up(tk).task
           /\ held' = 0
           /\ UNCHANGED <<age, spoiled>>

AttemptFails == /\ tk.pc \in {"minting", "connecting", "forwarding"}
                /\ \E c \in Causes : tk' = Failed(tk, SdkMessage(c)).task
                /\ spoiled' = TRUE
                /\ UNCHANGED <<age, held>>

\* Mutant of Tick: the timer does not fire.
TickOn == /\ tk.pc = "holding"
          /\ held' = held + 1
          /\ age' = IF age < MaxAge THEN age + 1 ELSE age
          /\ UNCHANGED <<tk, spoiled>>

Tick == /\ tk.pc = "holding"
        /\ held < RemintAfter
        /\ held' = held + 1
        /\ age' = IF age < MaxAge THEN age + 1 ELSE age
        /\ UNCHANGED <<tk, spoiled>>

RelayDrops == /\ tk.pc = "holding"
              /\ tk' = SessionOver(tk, "RelayDropped").task
              /\ UNCHANGED <<age, held, spoiled>>

RemintDue == /\ tk.pc = "holding"
             /\ held = RemintAfter
             /\ tk' = SessionOver(tk, "RemintDue").task
             /\ spoiled' = TRUE
             /\ UNCHANGED <<age, held>>

Next == \/ Begin \/ Mint \/ RelayUp \/ PortsUp \/ AttemptFails
        \/ Tick \/ RelayDrops \/ RemintDue

Spec == Init /\ [][Next]_vars

-----------------------------------------------------------------------------
(* Tokens that a due re-mint or a failed attempt has spoiled are neither   *)
(* kept, nor used for an attempt, nor those of a session that is up: only  *)
(* a fresh mint leads back to one (the comment on `cached` in host_group). *)
SpoiledAreDropped ==
    spoiled => /\ tk.cached = "none"
               /\ tk.tokens = "none"
               /\ tk.pc # "holding"

(* keepalive.rs says of REMINT_AFTER that it re-mints the tokens "before   *)
(* their ~24h expiry": no session is held, and no connect attempted, with  *)
(* tokens past their life.                                                 *)
RemintedBeforeExpiry ==
    tk.pc \in {"connecting", "forwarding", "holding"} => age < TokenLife

=============================================================================
