---------------------------- MODULE GroupLifetime ----------------------------
(***************************************************************************)
(* One group over days: the task that hosts it (TokenLifetime.tla), the    *)
(* window after which the service removes its tunnel, and the renewal that *)
(* re-applies the window and the anonymous ACE for the groups of the       *)
(* auto-host set, after the first load and every 12 h (renew_async of      *)
(* src/main.rs, renew_tunnel of src/devtunnel.rs).                         *)
(*                                                                         *)
(* A renewal runs on a thread of its own over a copy of the set, while the *)
(* user and other clients of the service do what they like to the tunnel.  *)
(* It takes seconds: no tick passes in it.  The timer is exact.            *)
(***************************************************************************)
EXTENDS TokenLifetime

CONSTANTS Windows,     \* the expirations one can set, in ticks: 1 to 30 days
          RenewEvery,  \* renew_timer: 12 h
          Misses       \* bound: more failed renewals in a row are not told apart

ASSUME RenewalConstants == /\ RenewEvery \in Nat \ {0}
                           /\ Misses \in Nat
                           /\ Windows \subseteq Nat
                           /\ \A w \in Windows : RenewEvery <= w /\ w <= (Misses + 1) * RenewEvery
                           /\ \E w \in Windows : \A v \in Windows : v <= w

VARIABLES
    window,    \* settings.default_expiration; 0: empty, as a state.json can have it
    auto,      \* the group is in the auto-host set
    left,      \* ticks until the service removes the tunnel; 0: there is none
    open,      \* the tunnel has an anonymous ACE
    due,       \* ticks since renew_timer fired
    renewing,  \* where renew_tunnel is
    copied,    \* the expiration it has been given; 0 when it is empty, or idle
    wanted,    \* history: the user has made this tunnel public
    meddled,   \* history: the access changed after renew_tunnel had looked
    granted,   \* history: the window a renewal has set for this tunnel; 0: none has
    missed     \* history: renewals since the one that did last

taskVars == <<tk, age, held, spoiled>>
renewVars == <<renewing, copied, missed>>
tunnelVars == <<window, auto, left, open, due, renewVars, wanted, meddled, granted>>
lifetimeVars == <<taskVars, tunnelVars>>

Longest == CHOOSE w \in Windows : \A v \in Windows : v <= w

RenewalTypeOK ==
    /\ window \in Windows \cup {0}
    /\ auto \in BOOLEAN
    /\ left \in 0 .. Longest
    /\ open \in BOOLEAN
    /\ due \in 0 .. RenewEvery
    /\ renewing \in {"idle", "updating", "listing", "creating"}
    /\ copied \in Windows \cup {0}
    /\ wanted \in BOOLEAN
    /\ meddled \in BOOLEAN
    /\ granted \in Windows \cup {0}
    /\ missed \in 0 .. Misses

\* Hosted again after the first load, which also starts a renewal, or by the user.
LifetimeInit == /\ Init
                /\ window \in Windows \cup {0}
                /\ auto = TRUE
                /\ left \in 1 .. Longest
                /\ open \in BOOLEAN /\ wanted = open
                /\ due \in 0 .. RenewEvery - 1
                /\ \/ renewing = "idle" /\ copied = 0
                   \/ renewing = "updating" /\ copied = window
                /\ meddled = FALSE /\ granted = 0 /\ missed = 0

-----------------------------------------------------------------------------
(* The task: without a tunnel no attempt succeeds. *)

TaskStep == /\ \/ Begin \/ AttemptFails \/ RelayDrops \/ RemintDue
               \/ left > 0 /\ (Mint \/ RelayUp \/ PortsUp)
            /\ UNCHANGED tunnelVars

\* Time passes for a session that is up, or when the task is over.
Pass == /\ \/ Tick
           \/ tk.pc = "returned" /\ UNCHANGED taskVars
        /\ renewing = "idle" /\ due < RenewEvery
        /\ due' = due + 1
        /\ left' = IF left > 0 THEN left - 1 ELSE 0
        /\ open' = (open /\ left > 1)
        /\ UNCHANGED <<window, auto, renewVars, wanted, meddled, granted>>

-----------------------------------------------------------------------------
(* Renewal. *)

Start(now) == /\ renewing' = IF now THEN "updating" ELSE "idle"
              /\ copied' = IF now THEN window ELSE 0
              /\ due' = 0
              /\ UNCHANGED <<taskVars, window, auto, left, open, missed, wanted, meddled, granted>>

\* Mutant of TimerFires: groups that are hosted are not disturbed.
TimerSparesHosted == /\ due = RenewEvery /\ renewing = "idle"
                     /\ Start(auto /\ tk.pc # "holding")

TimerFires == /\ due = RenewEvery /\ renewing = "idle"
              /\ Start(auto)

Goto(from, to) == /\ renewing = from /\ renewing' = to
                  /\ copied' = IF to = "idle" THEN 0 ELSE copied
                  /\ UNCHANGED <<taskVars, window, auto, due, wanted, meddled>>

\* Mutant of NewWindow: the window is added to what is left.
AddedWindow == left + copied
NewWindow == copied

\* devtunnel update --expiration, skipped when it is empty: an error ends the
\* renewal of this group.
Update == \/ /\ copied = 0 /\ Goto("updating", "listing")
             /\ UNCHANGED <<left, open, missed, granted>>
          \/ /\ copied # 0 /\ Goto("updating", "listing") /\ left > 0
             /\ left' = NewWindow /\ granted' = copied /\ missed' = 0
             /\ UNCHANGED open
          \/ /\ copied # 0 /\ Goto("updating", "idle")
             /\ missed' = IF missed < Misses THEN missed + 1 ELSE missed
             /\ UNCHANGED <<left, open, granted>>

\* Mutant of HasAnonymousAccess: the ACE is created whatever the list says.
AnyAccess == TRUE
HasAnonymousAccess == open

ListAccess == /\ \/ left > 0 /\ Goto("listing", IF HasAnonymousAccess THEN "creating" ELSE "idle")
                 \/ Goto("listing", "idle")
              /\ UNCHANGED <<left, open, missed, granted>>

CreateACE == /\ Goto("creating", "idle")
             /\ \/ left > 0 /\ open' = TRUE
                \/ UNCHANGED open
             /\ UNCHANGED <<left, missed, granted>>

-----------------------------------------------------------------------------
(* The user, here and with other clients of the service. *)

\* on_default_expiration_changed sets days, never an empty expiration.  A
\* renewal that has been started keeps the copy it has.
ChangeWindow == /\ window' \in Windows \ {window}
                /\ UNCHANGED <<taskVars, auto, left, open, due, renewVars, wanted, meddled, granted>>

SetAccess(public) == /\ open' = public /\ wanted' = public
                     /\ meddled' = (meddled \/ renewing = "creating")

ChangeAccess == /\ left > 0 /\ SetAccess(~open)
                /\ UNCHANGED <<taskVars, window, auto, left, due, renewVars, granted>>

\* The thread of a hosted group and its auto-host entry outlive its tunnel.
Delete == /\ left > 0 /\ left' = 0 /\ SetAccess(FALSE)
          /\ granted' = 0
          /\ UNCHANGED <<taskVars, window, auto, due, renewVars>>

\* A group of the same name, with an expiration of its own.
Create == /\ left = 0 /\ left' \in Windows
          /\ \E public \in BOOLEAN : SetAccess(public)
          /\ granted' = 0
          /\ UNCHANGED <<taskVars, window, auto, due, renewVars>>

\* A renewal that has been started goes on.
StopHosting == /\ auto /\ auto' = FALSE
               /\ tk' = Gone
               /\ UNCHANGED <<age, held, spoiled, window, left, open, due, renewVars,
                              wanted, meddled, granted>>

Host == /\ left > 0 /\ tk.pc = "returned"
        /\ auto' = TRUE /\ granted' = IF auto THEN granted ELSE 0
        /\ \E ports \in {"none", "some"} : tk' = NewTask(ports)
        /\ age' = 0 /\ spoiled' = FALSE
        /\ UNCHANGED <<held, window, left, open, due, renewVars, wanted, meddled>>

LifetimeNext == \/ TaskStep \/ Pass
                \/ TimerFires \/ Update \/ ListAccess \/ CreateACE
                \/ ChangeWindow \/ ChangeAccess \/ Delete \/ Create \/ StopHosting \/ Host

LifetimeSpec == LifetimeInit /\ [][LifetimeNext]_lifetimeVars

-----------------------------------------------------------------------------
(* "so renewal never turns an authenticated group public": the tunnel is   *)
(* public only if the user made this very tunnel so, unless he changed its *)
(* access, or put another one in its place, after a renewal had looked.    *)
NeverWidened == open => wanted \/ meddled

(* Without the exception: nothing holds the access between the list and    *)
(* the create.                                                             *)
NeverWidenedAtAll == open => wanted

(* "keeps the window far inside the 30-day limit": the tunnel of a group   *)
(* that stays in the auto-host set expires only after so many renewals in  *)
(* a row have failed that their time makes up the window.                  *)
OutlivesRenewals ==
    granted # 0 /\ auto /\ left = 0 => (missed + 1) * RenewEvery >= granted

=============================================================================
