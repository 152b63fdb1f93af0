------------------------- MODULE GroupLifetimeProofs -------------------------
(***************************************************************************)
(* Theorems about one group over days, for every re-mint time and token    *)
(* life, every renewal period and every set of windows that the period     *)
(* fits into: which tokens the task keeps, that renewal makes no tunnel    *)
(* public, and that a renewed tunnel outlives the renewals that fail.      *)
(***************************************************************************)
EXTENDS GroupLifetime, HostGroupProofs

-----------------------------------------------------------------------------
(* The task and its tokens. *)

\* What holds of the tokens of task t when s says they are spoiled: only an
\* attempt that goes on has any in use, it has none left to fall back on, and
\* neither it nor a session that is up has spoiled ones.
TokensOf(t, s) ==
    /\ t.pc # "finished"
    /\ t.pc \notin {"connecting", "forwarding"} => t.tokens = "none"
    /\ t.pc \in {"minting", "connecting", "forwarding"} => t.cached = "none"
    /\ s => t.cached = "none" /\ t.pc \notin {"connecting", "forwarding", "holding"}

TaskInv == TypeOK /\ TokensOf(tk, spoiled)

LEMMA GoneTokens == \A s \in BOOLEAN : TokensOf(Gone, s)
BY DEF TokensOf, Gone, NoTask

LEMMA NewTaskTokens ==
    ASSUME NEW ports \in {"none", "some"}
    PROVE  TokensOf(NewTask(ports), FALSE)
BY DEF TokensOf, NewTask, NoTask

\* Spoiled or not: with a pair in the cache it is taken out of it, without
\* one the task begins to mint.
LEMMA AttemptTokens ==
    ASSUME NEW t \in Task, NEW s \in BOOLEAN, TokensOf(t, s),
           t.pc \in {"starting", "backoff"}
    PROVE  TokensOf(Attempt(t).task, s)
<1>1. CASE t.cached = "some"
  <2>1. Attempt(t).task = [t EXCEPT !.pc = "connecting", !.cached = "none", !.tokens = "reused"]
    BY <1>1 DEF Attempt, Result
  <2> QED  BY <1>1, <2>1 DEF TokensOf, Task
<1>2. CASE t.cached # "some"
  <2>1. Attempt(t).task = [t EXCEPT !.pc = "minting", !.tokens = "none"]
    BY <1>2 DEF Attempt, Result
  <2> QED  BY <1>2, <2>1 DEF TokensOf, Task
<1> QED  BY <1>1, <1>2

LEMMA MintedTokens ==
    ASSUME NEW t \in Task, NEW s \in BOOLEAN, TokensOf(t, s), t.pc = "minting"
    PROVE  TokensOf(Minted(t).task, FALSE)
BY DEF TokensOf, Minted, Result, Task

LEMMA UpTokens ==
    ASSUME NEW t \in Task, NEW s \in BOOLEAN, TokensOf(t, s),
           t.pc \in {"connecting", "forwarding"}
    PROVE  TokensOf(Up(t).task, s)
<1>1. ~s
  BY DEF TokensOf
<1>2. Up(t).task = [t EXCEPT !.pc = "holding",
                            !.policy = Advance(t.policy, "Connected").state,
                            !.cached = "some", !.tokens = "none"]
  BY DEF Up, Result
<1>3. Up(t).task.pc = "holding" /\ Up(t).task.tokens = "none"
  BY <1>2 DEF Task
<1> QED  BY <1>1, <1>3 DEF TokensOf

LEMMA RelayConnectedTokens ==
    ASSUME NEW t \in Task, NEW s \in BOOLEAN, TokensOf(t, s), t.pc = "connecting"
    PROVE  TokensOf(RelayConnected(t).task, s)
<1>1. CASE t.ports = "some"
  <2>1. RelayConnected(t).task = [t EXCEPT !.pc = "forwarding"]
    BY <1>1 DEF RelayConnected, Result
  <2> QED  BY <2>1 DEF TokensOf, Task
<1>2. CASE t.ports # "some"
  <2>1. RelayConnected(t) = Up(t)
    BY <1>2 DEF RelayConnected
  <2> QED  BY <2>1, UpTokens
<1> QED  BY <1>1, <1>2

\* An attempt that failed leaves no tokens behind.
LEMMA FailedTokens ==
    ASSUME NEW t \in Task, NEW s \in BOOLEAN, TokensOf(t, s), NEW msg \in SUBSET Needle,
           t.pc \in {"minting", "connecting", "forwarding"}
    PROVE  TokensOf(Failed(t, msg).task, TRUE)
<1> DEFINE answer == Advance(t.policy, Classify(msg))
<1>1. CASE answer.action.kind \in {"Relogin", "Fail"}
  <2>1. Failed(t, msg).task = Gone
    BY <1>1 DEF Failed, Result
  <2> QED  BY <2>1, GoneTokens
<1>2. CASE answer.action.kind \notin {"Relogin", "Fail"}
  <2>1. Failed(t, msg).task = [t EXCEPT !.pc = "backoff", !.policy = answer.state,
                                        !.tokens = "none"]
    BY <1>2 DEF Failed, Result
  <2> HIDE DEF answer
  <2>2. /\ Failed(t, msg).task.pc = "backoff"
        /\ Failed(t, msg).task.tokens = "none"
        /\ Failed(t, msg).task.cached = t.cached
    BY <2>1 DEF Task
  <2> QED  BY <2>2 DEF TokensOf
<1> QED  BY <1>1, <1>2

\* A drop keeps the tokens, which nothing has spoiled; a re-mint drops them.
LEMMA SessionOverTokens ==
    ASSUME NEW t \in Task, NEW s \in BOOLEAN, TokensOf(t, s), t.pc = "holding",
           NEW e \in SessionEnd
    PROVE  TokensOf(SessionOver(t, e).task, e = "RemintDue")
<1> DEFINE after == Advance(t.policy, e).state
<1>1. SessionOver(t, e).task =
        [t EXCEPT !.pc = "backoff", !.policy = after,
                  !.cached = IF e = "RemintDue" THEN "none" ELSE @]
  BY DEF SessionOver, Result
<1> HIDE DEF after
<1>2. /\ SessionOver(t, e).task.pc = "backoff"
      /\ SessionOver(t, e).task.tokens = t.tokens
      /\ e = "RemintDue" => SessionOver(t, e).task.cached = "none"
  BY <1>1 DEF Task
<1> QED  BY <1>2 DEF TokensOf

\* The bounds of the two clocks at their ends.
LEMMA Clocks == /\ 0 \in 0 .. MaxAge /\ 0 \in 0 .. RemintAfter
                /\ \A h \in 0 .. RemintAfter : h < RemintAfter => h + 1 \in 0 .. RemintAfter
                /\ \A a \in 0 .. MaxAge : a < MaxAge => a + 1 \in 0 .. MaxAge
BY LifetimeConstants

LEMMA TaskInit == Init => TaskInv
<1> SUFFICES ASSUME Init PROVE TaskInv
  OBVIOUS
<1>1. PICK ports \in {"none", "some"} : tk = NewTask(ports)
  BY DEF Init
<1>2. tk \in Task /\ TokensOf(tk, FALSE)
  BY <1>1, NewTaskType, NewTaskTokens
<1> QED  BY <1>2, Clocks DEF Init, TaskInv, TypeOK

\* A step of the task on its own, as TokenLifetime has it.
LEMMA TaskNext == TaskInv /\ [Next]_vars => TaskInv'
<1> SUFFICES ASSUME TaskInv, [Next]_vars PROVE TaskInv'
  OBVIOUS
<1>1. /\ tk \in Task /\ age \in 0 .. MaxAge /\ held \in 0 .. RemintAfter
      /\ spoiled \in BOOLEAN /\ TokensOf(tk, spoiled)
  BY DEF TaskInv, TypeOK
<1>2. CASE Begin
  <2>1. tk' \in Task /\ TokensOf(tk', spoiled)
    BY <1>1, <1>2, AttemptGood, AttemptTokens DEF Begin, GoodResult
  <2> QED  BY <1>1, <1>2, <2>1 DEF Begin, TaskInv, TypeOK
<1>3. CASE Mint
  <2>1. tk' \in Task /\ TokensOf(tk', FALSE)
    BY <1>1, <1>3, MintedGood, MintedTokens DEF Mint, GoodResult
  <2> QED  BY <1>1, <1>3, <2>1, Clocks DEF Mint, TaskInv, TypeOK
<1>4. CASE RelayUp
  <2>1. tk' \in Task /\ TokensOf(tk', spoiled)
    BY <1>1, <1>4, RelayConnectedGood, RelayConnectedTokens DEF RelayUp, GoodResult
  <2> QED  BY <1>1, <1>4, <2>1, Clocks DEF RelayUp, TaskInv, TypeOK
<1>5. CASE PortsUp
  <2>1. tk' \in Task /\ TokensOf(tk', spoiled)
    BY <1>1, <1>5, UpGood, UpTokens DEF PortsUp, GoodResult
  <2> QED  BY <1>1, <1>5, <2>1, Clocks DEF PortsUp, TaskInv, TypeOK
<1>6. CASE AttemptFails
  <2>1. PICK c \in Causes : tk' = Failed(tk, SdkMessage(c)).task
    BY <1>6 DEF AttemptFails
  <2>2. SdkMessage(c) \in SUBSET Needle
    BY ErrorConstants, MessageTypes
  <2>3. tk' \in Task
    BY <1>1, <2>1, <2>2, FailedGood DEF GoodResult
  <2>4. tk.pc \in {"minting", "connecting", "forwarding"}
    BY <1>6 DEF AttemptFails
  <2>5. TokensOf(tk', TRUE)
    <3>1. TokensOf(Failed(tk, SdkMessage(c)).task, TRUE)
      BY <1>1, <2>2, <2>4, FailedTokens
    <3> QED  BY <3>1, <2>1
  <2>6. spoiled' = TRUE /\ age' = age /\ held' = held
    BY <1>6 DEF AttemptFails
  <2> QED  BY <1>1, <2>3, <2>5, <2>6 DEF TaskInv, TypeOK
<1>7. CASE Tick
  <2>1. tk' = tk /\ spoiled' = spoiled
    BY <1>7 DEF Tick
  <2>2. age' \in 0 .. MaxAge /\ held' \in 0 .. RemintAfter
    BY <1>1, <1>7, Clocks DEF Tick
  <2> QED  BY <1>1, <2>1, <2>2 DEF TaskInv, TypeOK
<1>8. CASE RelayDrops
  <2>1. "RelayDropped" \in SessionEnd /\ spoiled = FALSE
    BY <1>1, <1>8 DEF SessionEnd, RelayDrops, TokensOf
  <2>2. tk' \in Task /\ TokensOf(tk', FALSE)
    BY <1>1, <1>8, <2>1, SessionOverGood, SessionOverTokens DEF RelayDrops, GoodResult
  <2> QED  BY <1>1, <1>8, <2>1, <2>2 DEF RelayDrops, TaskInv, TypeOK
<1>9. CASE RemintDue
  <2>1. "RemintDue" \in SessionEnd
    BY DEF SessionEnd
  <2>2. tk' \in Task /\ TokensOf(tk', TRUE)
    BY <1>1, <1>9, <2>1, SessionOverGood, SessionOverTokens DEF RemintDue, GoodResult
  <2> QED  BY <1>1, <1>9, <2>2 DEF RemintDue, TaskInv, TypeOK
<1>10. CASE UNCHANGED vars
  BY <1>1, <1>10 DEF vars, TaskInv, TypeOK
<1> QED  BY <1>2, <1>3, <1>4, <1>5, <1>6, <1>7, <1>8, <1>9, <1>10 DEF Next

LEMMA TaskInvImplies == TaskInv => TypeOK /\ SpoiledAreDropped
BY DEF TaskInv, TokensOf, SpoiledAreDropped

-----------------------------------------------------------------------------
(* The renewals. *)

\* What a renewal has been given belongs to where it is, and the tunnel of a
\* renewal under way that nobody meddled with is public when it is to be made
\* so.  Once the expiration is not empty it stays so.
RenewalShape == /\ renewing = "idle" => copied = 0
                /\ copied # 0 \/ granted # 0 => window # 0
                /\ renewing # "idle" /\ granted # 0 => copied # 0
                /\ renewing = "creating" /\ ~meddled => open

\* What a renewed tunnel has left, with the time since the timer fired and
\* that of the renewals missed, makes up its window; a renewal that may still
\* fail counts as missed.
MissedTime == IF renewing = "updating" THEN RenewEvery ELSE 0
WindowKept == /\ granted # 0 /\ renewing = "updating" => due = 0
              /\ granted # 0 /\ auto /\ missed < Misses
                   => granted <= left + due + missed * RenewEvery + MissedTime

LifetimeInv == /\ TaskInv
               /\ RenewalTypeOK
               /\ RenewalShape
               /\ NeverWidened
               /\ WindowKept

\* Every window is positive, and the longest bounds them all.
LEMMA WindowBounds ==
    /\ Longest \in Windows
    /\ Windows \subseteq 1 .. Longest
    /\ 0 \notin Windows
    /\ Longest \in Nat
<1>1. PICK m \in Windows : \A v \in Windows : v <= m
  BY RenewalConstants, Zenon
<1>2. Longest \in Windows /\ \A v \in Windows : v <= Longest
  BY <1>1 DEF Longest
<1>3. RenewEvery \in Nat /\ RenewEvery # 0 /\ \A w \in Windows : w \in Nat /\ RenewEvery <= w
  BY RenewalConstants, Zenon
<1>4. \A w \in Windows : w \in Nat /\ w >= 1
  BY <1>3
<1> QED  BY <1>2, <1>4

\* A miss more is a renewal period more.
LEMMA MoreMisses == /\ \A m \in Nat : /\ m * RenewEvery \in Nat
                                      /\ (m + 1) * RenewEvery = m * RenewEvery + RenewEvery
                    /\ 0 * RenewEvery = 0
BY RenewalConstants

\* Time that passes leaves no less than there was.
LEMMA MoreTime ==
    \A g, l, d, t, l1, d1 \in Nat :
        g <= l + d + t + 0 /\ l1 + d1 >= l + d => g <= l1 + d1 + t
OBVIOUS

\* The parts that a step of the task, or of the user, leaves as they are.
LEMMA SameTunnel ==
    ASSUME LifetimeInv, UNCHANGED tunnelVars
    PROVE  RenewalTypeOK' /\ RenewalShape' /\ NeverWidened' /\ WindowKept'
BY DEF LifetimeInv, tunnelVars, renewVars, RenewalTypeOK, RenewalShape,
       NeverWidened, WindowKept, MissedTime

LEMMA SameTask ==
    ASSUME LifetimeInv, UNCHANGED taskVars
    PROVE  TaskInv'
BY DEF LifetimeInv, taskVars, TaskInv, TypeOK, TokensOf

LEMMA InvInit == LifetimeInit => LifetimeInv
<1> SUFFICES ASSUME LifetimeInit PROVE LifetimeInv
  OBVIOUS
<1>1. TaskInv
  BY TaskInit DEF LifetimeInit
<1>2. RenewalTypeOK
  <2>1. \A d \in 0 .. RenewEvery - 1 : d \in 0 .. RenewEvery
    BY RenewalConstants
  <2>2. 0 \in 0 .. Misses
    BY RenewalConstants
  <2>3. \A l \in 1 .. Longest : l \in 0 .. Longest
    BY WindowBounds
  <2> QED  BY <2>1, <2>2, <2>3 DEF LifetimeInit, RenewalTypeOK
<1>3. RenewalShape /\ NeverWidened /\ WindowKept
  BY WindowBounds DEF LifetimeInit, RenewalShape, NeverWidened, WindowKept
<1> QED  BY <1>1, <1>2, <1>3 DEF LifetimeInv

\* A step of the task moves nothing of the tunnel.
LEMMA TaskStepKeeps == LifetimeInv /\ TaskStep => LifetimeInv'
<1> SUFFICES ASSUME LifetimeInv, TaskStep PROVE LifetimeInv'
  OBVIOUS
<1>1. [Next]_vars
  BY DEF TaskStep, Next
<1>2. TaskInv'
  BY <1>1, TaskNext DEF LifetimeInv
<1>3. UNCHANGED tunnelVars
  BY DEF TaskStep
<1> QED  BY <1>2, <1>3, SameTunnel DEF LifetimeInv

\* What is left shrinks by what the time since the timer fired grows by.
LEMMA PassKeeps == LifetimeInv /\ Pass => LifetimeInv'
<1> SUFFICES ASSUME LifetimeInv, Pass PROVE LifetimeInv'
  OBVIOUS
<1>1. TaskInv'
  <2>1. CASE Tick
    BY <2>1, TaskNext DEF Next, LifetimeInv
  <2>2. CASE UNCHANGED taskVars
    BY <2>2, SameTask
  <2> QED  BY <2>1, <2>2 DEF Pass
<1>2. /\ renewing = "idle" /\ due < RenewEvery
      /\ due' = due + 1
      /\ left' = IF left > 0 THEN left - 1 ELSE 0
      /\ open' = (open /\ left > 1)
      /\ UNCHANGED <<window, auto, renewing, copied, missed, wanted, meddled, granted>>
  BY DEF Pass, renewVars
<1>3. /\ due \in 0 .. RenewEvery /\ left \in 0 .. Longest /\ missed \in 0 .. Misses
      /\ granted \in Windows \cup {0}
      /\ RenewEvery \in Nat /\ Longest \in Nat /\ Misses \in Nat
  BY WindowBounds, RenewalConstants DEF LifetimeInv, RenewalTypeOK
<1>4. /\ due' \in 0 .. RenewEvery
      /\ left' \in 0 .. Longest
      /\ left' + due' >= left + due
  BY <1>2, <1>3
<1>5. RenewalTypeOK'
  BY <1>2, <1>4 DEF LifetimeInv, RenewalTypeOK
<1>6. RenewalShape' /\ NeverWidened'
  BY <1>2 DEF LifetimeInv, RenewalShape, NeverWidened
<1>7. WindowKept'
  <2>1. /\ missed * RenewEvery \in Nat
        /\ MissedTime = 0 /\ MissedTime' = 0
    BY <1>2, <1>3, MoreMisses DEF MissedTime
  <2>2. granted \in Nat
    BY <1>3, RenewalConstants
  <2>3. ASSUME granted # 0, auto, missed < Misses
        PROVE  granted <= left' + due' + missed * RenewEvery
    <3>1. granted <= left + due + missed * RenewEvery + MissedTime
      BY <2>3 DEF LifetimeInv, WindowKept
    <3>2. left \in Nat /\ due \in Nat /\ left' \in Nat /\ due' \in Nat
      BY <1>3, <1>4
    <3> QED  BY <1>4, <2>1, <2>2, <3>1, <3>2, MoreTime
  <2> QED  BY <1>2, <2>1, <2>3, <1>4, <1>3 DEF WindowKept
<1> QED  BY <1>1, <1>5, <1>6, <1>7 DEF LifetimeInv

\* The timer fires when its period has gone by: a renewal that begins may be
\* missed, and a group that is not in the set is promised nothing.
LEMMA TimerKeeps == LifetimeInv /\ TimerFires => LifetimeInv'
<1> SUFFICES ASSUME LifetimeInv, TimerFires PROVE LifetimeInv'
  OBVIOUS
<1>1. /\ due = RenewEvery /\ renewing = "idle" /\ due' = 0
      /\ renewing' = IF auto THEN "updating" ELSE "idle"
      /\ copied' = IF auto THEN window ELSE 0
      /\ UNCHANGED <<window, auto, left, open, missed, wanted, meddled, granted>>
      /\ UNCHANGED taskVars
  BY DEF TimerFires, Start
<1>2. RenewalTypeOK'
  BY <1>1, RenewalConstants DEF LifetimeInv, RenewalTypeOK
<1>3. RenewalShape' /\ NeverWidened'
  BY <1>1, WindowBounds DEF LifetimeInv, RenewalTypeOK, RenewalShape, NeverWidened
<1>4. WindowKept'
  <2>1. MissedTime = 0 /\ MissedTime' = IF auto THEN RenewEvery ELSE 0
    BY <1>1 DEF MissedTime
  <2>2. /\ missed * RenewEvery \in Nat /\ left \in Nat /\ RenewEvery \in Nat
        /\ granted \in Nat
    BY MoreMisses, WindowBounds, RenewalConstants DEF LifetimeInv, RenewalTypeOK
  <2> QED  BY <1>1, <2>1, <2>2 DEF LifetimeInv, WindowKept
<1> QED  BY <1>1, <1>2, <1>3, <1>4, SameTask DEF LifetimeInv

\* A renewal that does sets the whole window, one that does not is a miss.
LEMMA UpdateKeeps == LifetimeInv /\ Update => LifetimeInv'
<1> SUFFICES ASSUME LifetimeInv, Update PROVE LifetimeInv'
  OBVIOUS
<1>1. /\ renewing = "updating"
      /\ copied' = IF renewing' = "idle" THEN 0 ELSE copied
      /\ UNCHANGED <<window, auto, due, open, wanted, meddled>>
      /\ UNCHANGED taskVars
  BY DEF Update, Goto
<1>2. copied # 0 => copied \in Windows
  BY DEF LifetimeInv, RenewalTypeOK
<1>3. /\ due \in Nat /\ left \in Nat /\ missed \in 0 .. Misses /\ granted \in Nat
      /\ RenewEvery \in Nat /\ Misses \in Nat /\ missed * RenewEvery \in Nat
      /\ MissedTime = RenewEvery
  BY <1>1, MoreMisses, WindowBounds, RenewalConstants
  DEF LifetimeInv, RenewalTypeOK, MissedTime
<1>4. NeverWidened'
  BY <1>1 DEF LifetimeInv, NeverWidened
<1>5. CASE /\ copied # 0 /\ renewing' = "listing"
           /\ left' = copied /\ granted' = copied /\ missed' = 0
  <2> copied \in Windows
    BY <1>2, <1>5
  <2>1. RenewalTypeOK'
    <3>1. left' \in 0 .. Longest
      BY <1>2, <1>5, WindowBounds
    <3>2. missed' \in 0 .. Misses
      BY <1>3, <1>5
    <3> QED  BY <1>1, <1>2, <1>5, <3>1, <3>2 DEF LifetimeInv, RenewalTypeOK
  <2>2. RenewalShape'
    BY <1>1, <1>2, <1>5 DEF LifetimeInv, RenewalShape
  <2>3. WindowKept'
    <3>1. MissedTime' = 0 /\ missed' * RenewEvery = 0
      BY <1>5, MoreMisses DEF MissedTime
    <3>2. copied \in Nat
      BY <1>2, RenewalConstants
    <3> QED  BY <1>1, <1>3, <1>5, <3>1, <3>2 DEF WindowKept
  <2> QED  BY <1>1, <1>4, <2>1, <2>2, <2>3, SameTask DEF LifetimeInv
<1>6. CASE /\ renewing' = "idle"
           /\ missed' = IF missed < Misses THEN missed + 1 ELSE missed
           /\ UNCHANGED <<left, granted>>
  <2>1. RenewalTypeOK'
    BY <1>1, <1>3, <1>6 DEF LifetimeInv, RenewalTypeOK
  <2>2. RenewalShape'
    BY <1>1, <1>6 DEF LifetimeInv, RenewalShape
  <2>3. WindowKept'
    <3>1. MissedTime' = 0
      BY <1>6 DEF MissedTime
    <3>2. missed < Misses => missed' * RenewEvery = missed * RenewEvery + RenewEvery
      BY <1>3, <1>6, MoreMisses
    <3>3. missed' < Misses => missed < Misses
      BY <1>3, <1>6
    <3>4. granted # 0 /\ auto /\ missed' < Misses
            => granted <= left + due + missed' * RenewEvery
      BY <1>3, <3>2, <3>3 DEF LifetimeInv, WindowKept
    <3>5. missed' * RenewEvery \in Nat
      BY <1>3, <1>6, MoreMisses
    <3> QED  BY <1>1, <1>3, <1>6, <3>1, <3>4, <3>5 DEF WindowKept
  <2> QED  BY <1>1, <1>4, <2>1, <2>2, <2>3, SameTask DEF LifetimeInv
<1>7. CASE /\ copied = 0 /\ renewing' = "listing"
           /\ UNCHANGED <<left, missed, granted>>
  <2>1. granted = 0
    BY <1>1, <1>7 DEF LifetimeInv, RenewalShape
  <2>2. RenewalTypeOK' /\ RenewalShape' /\ WindowKept'
    BY <1>1, <1>7, <2>1 DEF LifetimeInv, RenewalTypeOK, RenewalShape, WindowKept
  <2> QED  BY <1>1, <1>4, <2>2, SameTask DEF LifetimeInv
<1> QED  BY <1>5, <1>6, <1>7 DEF Update, Goto, NewWindow

\* The list and the create touch the access alone; who is not public and not
\* meddled with does not get as far as the create.
LEMMA AccessKeeps == LifetimeInv /\ (ListAccess \/ CreateACE) => LifetimeInv'
<1> SUFFICES ASSUME LifetimeInv, ListAccess \/ CreateACE PROVE LifetimeInv'
  OBVIOUS
<1>1. /\ renewing \in {"listing", "creating"}
      /\ renewing' \in {"creating", "idle"}
      /\ renewing' = "creating" => renewing = "listing" /\ open
      /\ copied' = IF renewing' = "idle" THEN 0 ELSE copied
      /\ renewing = "listing" => open' = open
      /\ open' \in {open, TRUE}
      /\ UNCHANGED <<window, auto, left, due, missed, wanted, meddled, granted>>
      /\ UNCHANGED taskVars
  BY DEF ListAccess, CreateACE, Goto, HasAnonymousAccess
<1>2. RenewalTypeOK'
  BY <1>1 DEF LifetimeInv, RenewalTypeOK
<1>3. RenewalShape' /\ NeverWidened'
  BY <1>1 DEF LifetimeInv, RenewalShape, NeverWidened
<1>4. WindowKept'
  <2>1. MissedTime' = MissedTime /\ renewing' # "updating"
    BY <1>1 DEF MissedTime
  <2> QED  BY <1>1, <2>1 DEF LifetimeInv, WindowKept
<1> QED  BY <1>1, <1>2, <1>3, <1>4, SameTask DEF LifetimeInv

LEMMA ChangeWindowKeeps == LifetimeInv /\ ChangeWindow => LifetimeInv'
<1> SUFFICES ASSUME LifetimeInv, ChangeWindow PROVE LifetimeInv'
  OBVIOUS
<1>1. /\ window' \in Windows
      /\ UNCHANGED <<auto, left, open, due, renewing, copied, missed, wanted, meddled, granted>>
      /\ UNCHANGED taskVars
  BY DEF ChangeWindow, renewVars
<1>2. RenewalTypeOK'
  BY <1>1 DEF LifetimeInv, RenewalTypeOK
<1>3. RenewalShape' /\ NeverWidened' /\ WindowKept'
  BY <1>1, WindowBounds DEF LifetimeInv, RenewalShape, NeverWidened, WindowKept, MissedTime
<1> QED  BY <1>1, <1>2, <1>3, SameTask DEF LifetimeInv

\* Whatever is done to the access is what the user wants, and a tunnel that
\* is put in the place of another has not been renewed.
LEMMA UserKeeps == LifetimeInv /\ (ChangeAccess \/ Delete \/ Create) => LifetimeInv'
<1> SUFFICES ASSUME LifetimeInv, ChangeAccess \/ Delete \/ Create PROVE LifetimeInv'
  OBVIOUS
<1>1. /\ open' = wanted'
      /\ open' \in BOOLEAN
      /\ meddled' = (meddled \/ renewing = "creating")
      /\ UNCHANGED <<window, auto, due, renewing, copied, missed>>
      /\ UNCHANGED taskVars
  BY DEF ChangeAccess, Delete, Create, SetAccess, LifetimeInv, RenewalTypeOK, renewVars
<1>2. /\ left' \in {left, 0} \cup Windows
      /\ granted' \in {granted, 0}
      /\ granted' # 0 => left' = left
  BY DEF ChangeAccess, Delete, Create
<1>3. left' \in 0 .. Longest
  BY <1>2, WindowBounds DEF LifetimeInv, RenewalTypeOK
<1>4. RenewalTypeOK'
  BY <1>1, <1>2, <1>3 DEF LifetimeInv, RenewalTypeOK
<1>5. RenewalShape' /\ NeverWidened'
  BY <1>1, <1>2 DEF LifetimeInv, RenewalShape, NeverWidened
<1>6. WindowKept'
  <2>1. MissedTime' = MissedTime
    BY <1>1 DEF MissedTime
  <2> QED  BY <1>1, <1>2, <2>1 DEF LifetimeInv, WindowKept
<1> QED  BY <1>1, <1>4, <1>5, <1>6, SameTask DEF LifetimeInv

\* A group that is taken out of the set is promised nothing any more.
LEMMA HostingKeeps == LifetimeInv /\ (StopHosting \/ Host) => LifetimeInv'
<1> SUFFICES ASSUME LifetimeInv, StopHosting \/ Host PROVE LifetimeInv'
  OBVIOUS
<1>1. TaskInv'
  <2>1. /\ tk \in Task /\ age \in 0 .. MaxAge /\ held \in 0 .. RemintAfter
        /\ spoiled \in BOOLEAN
    BY DEF LifetimeInv, TaskInv, TypeOK
  <2>2. CASE StopHosting
    BY <2>1, <2>2, NoTaskType, GoneTokens DEF StopHosting, TaskInv, TypeOK
  <2>3. CASE Host
    <3>1. PICK ports \in {"none", "some"} : tk' = NewTask(ports)
      BY <2>3 DEF Host
    <3>2. tk' \in Task /\ TokensOf(tk', FALSE)
      BY <3>1, NewTaskType, NewTaskTokens
    <3>3. age' = 0 /\ spoiled' = FALSE /\ held' = held
      BY <2>3 DEF Host
    <3> QED  BY <2>1, <3>2, <3>3, Clocks DEF TaskInv, TypeOK
  <2> QED  BY <2>2, <2>3
<1>2. /\ auto' \in BOOLEAN
      /\ granted' \in {granted, 0}
      /\ auto' /\ granted' # 0 => auto /\ granted' = granted
      /\ UNCHANGED <<window, left, open, due, renewing, copied, missed, wanted, meddled>>
  BY DEF StopHosting, Host, renewVars, LifetimeInv, RenewalTypeOK
<1>3. RenewalTypeOK'
  BY <1>2 DEF LifetimeInv, RenewalTypeOK
<1>4. RenewalShape' /\ NeverWidened'
  BY <1>2 DEF LifetimeInv, RenewalShape, NeverWidened
<1>5. WindowKept'
  <2>1. MissedTime' = MissedTime
    BY <1>2 DEF MissedTime
  <2> QED  BY <1>2, <2>1 DEF LifetimeInv, WindowKept
<1> QED  BY <1>1, <1>3, <1>4, <1>5 DEF LifetimeInv

LEMMA InvNext == LifetimeInv /\ [LifetimeNext]_lifetimeVars => LifetimeInv'
<1> SUFFICES ASSUME LifetimeInv, [LifetimeNext]_lifetimeVars PROVE LifetimeInv'
  OBVIOUS
<1>1. CASE UNCHANGED lifetimeVars
  BY <1>1, SameTask, SameTunnel DEF lifetimeVars, LifetimeInv
<1> QED  BY <1>1, TaskStepKeeps, PassKeeps, TimerKeeps, UpdateKeeps, AccessKeeps,
            ChangeWindowKeeps, UserKeeps, HostingKeeps DEF LifetimeNext

\* A window that has been counted down makes up the misses; when all that are
\* told apart have happened, their time is that of the longest window.
LEMMA InvOutlives == LifetimeInv => OutlivesRenewals
<1> SUFFICES ASSUME LifetimeInv, granted # 0, auto, left = 0
             PROVE  (missed + 1) * RenewEvery >= granted
  BY DEF OutlivesRenewals
<1>1. /\ granted \in Windows /\ granted \in Nat /\ missed \in 0 .. Misses
      /\ due \in 0 .. RenewEvery
  BY RenewalConstants DEF LifetimeInv, RenewalTypeOK
<1>2. CASE missed = Misses
  BY <1>1, <1>2, RenewalConstants
<1>3. CASE missed < Misses
  <2>1. /\ (missed + 1) * RenewEvery = missed * RenewEvery + RenewEvery
        /\ missed * RenewEvery \in Nat
    BY <1>1, MoreMisses
  <2>2. granted <= 0 + due + missed * RenewEvery + MissedTime
    BY <1>3 DEF LifetimeInv, WindowKept
  <2>3. MissedTime \in Nat /\ due \in Nat /\ due + MissedTime <= RenewEvery
    BY <1>1, RenewalConstants DEF LifetimeInv, WindowKept, MissedTime
  <2> QED  BY <1>1, <2>1, <2>2, <2>3, RenewalConstants
<1> QED  BY <1>1, <1>2, <1>3, RenewalConstants

LEMMA InvAlways == LifetimeSpec => []LifetimeInv
BY InvInit, InvNext, PTL DEF LifetimeSpec

-----------------------------------------------------------------------------
(* The task, its tokens and its clocks keep their types while the group is *)
(* hosted, stopped and hosted again (host_group of src/host/engine.rs).    *)
THEOREM TaskTypeCorrect == LifetimeSpec => []TypeOK
<1>1. LifetimeInv => TypeOK
  BY TaskInvImplies DEF LifetimeInv
<1> QED  BY <1>1, InvAlways, PTL

(* The renewal, the tunnel and the history keep theirs: in particular no   *)
(* tunnel ever has more time left than the longest window one can set.     *)
THEOREM RenewalTypeCorrect == LifetimeSpec => []RenewalTypeOK
<1>1. LifetimeInv => RenewalTypeOK
  BY DEF LifetimeInv
<1> QED  BY <1>1, InvAlways, PTL

(* No attempt and no session uses, and no task keeps, tokens that a due    *)
(* re-mint or a failed attempt has spoiled (`cached` in host_group).       *)
THEOREM SpoiledTokensAreDropped == LifetimeSpec => []SpoiledAreDropped
<1>1. LifetimeInv => SpoiledAreDropped
  BY TaskInvImplies DEF LifetimeInv
<1> QED  BY <1>1, InvAlways, PTL

(* Renewal makes no tunnel public that the user has not made so, unless    *)
(* its access changes between the two calls (renew_tunnel).                *)
THEOREM RenewalNeverWidens == LifetimeSpec => []NeverWidened
<1>1. LifetimeInv => NeverWidened
  BY DEF LifetimeInv
<1> QED  BY <1>1, InvAlways, PTL

(* A tunnel that a renewal has reached expires, while its group stays in   *)
(* the auto-host set, only after misses whose time makes up its window.    *)
THEOREM RenewedOutlives == LifetimeSpec => []OutlivesRenewals
BY InvAlways, InvOutlives, PTL

=============================================================================
