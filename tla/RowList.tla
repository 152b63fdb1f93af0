------------------------------- MODULE RowList -------------------------------
(***************************************************************************)
(* The list of groups and ports (src/main.rs): the user's create, add and  *)
(* delete operations and refreshes, each a background thread that runs the *)
(* CLI and then reads the whole list again; the optimistic placeholders    *)
(* and hidden rows meanwhile; and the pump that applies the results in the *)
(* order in which they arrive.                                             *)
(*                                                                         *)
(* A row is <<tunnel, port>>; port 0 is a group without ports, and as a    *)
(* hidden key it is the whole group (the code's None).                     *)
(***************************************************************************)
EXTENDS Integers, Sequences

CONSTANTS Tunnels,
          Ports,
          Jobs,        \* bound: operations that run or wait to be applied
          Failing      \* whether CLI calls may fail

ASSUME RowConstants == /\ Tunnels # {}
                       /\ \A p \in Ports : p \in Nat /\ 0 < p /\ p < 65536
                       /\ Failing \in BOOLEAN

VARIABLES
    exists,        \* the service's tunnels
    ports,         \* and their ports
    job,           \* the background threads
    rx,            \* the channel of results: jobs that have sent
    rows,          \* LiveState.rows
    picker,        \* group-ids of the window: what the Add port dialog offers
    placeholders,  \* LiveState.placeholders, by the job that owns them
    hidden,        \* LiveState.hidden
    clean,         \* history: jobs that have run alone and without failures
    basis          \* history: what the rows rest on

serviceVars == <<exists, ports>>
uiVars == <<rows, picker, placeholders, hidden, basis>>
vars == <<exists, ports, job, rx, rows, picker, placeholders, hidden, clean, basis>>

Row == Tunnels \X (Ports \cup {0})
Kind == {"Load", "CreateGroup", "AddPort", "DeletePort", "DeleteGroup"}
JobState == [pc : {"free", "create", "op", "list", "show", "sent"},
             kind : Kind, key : Row, left : SUBSET Tunnels, acc : SUBSET Row, ok : BOOLEAN]

NoKey == CHOOSE r \in Row : TRUE
NewJob(pc, kind, key) == [pc |-> pc, kind |-> kind, key |-> key,
                          left |-> {}, acc |-> {}, ok |-> TRUE]
Free == NewJob("free", "Load", NoKey)

Deleting(j) == job[j].pc # "free" /\ job[j].kind \in {"DeletePort", "DeleteGroup"}

RowTypeOK ==
    /\ exists \in SUBSET Tunnels
    /\ ports \in SUBSET (Tunnels \X Ports)
    /\ job \in [Jobs -> JobState]
    /\ rx \in Seq(Jobs)
    /\ rows \in SUBSET Row
    /\ picker \in SUBSET Tunnels
    /\ placeholders \in SUBSET Jobs
    /\ hidden \in SUBSET Row
    /\ clean \in SUBSET Jobs
    /\ basis \in {"cache", "clean", "mixed"}

\* The rows of fetch_rows for the tunnels ts when every `show` works.
RowsOf(ts) == {r \in ports : r[1] \in ts}
                  \cup {<<t, 0>> : t \in {u \in ts : \A r \in ports : r[1] # u}}
ServiceRows == RowsOf(exists)

\* What the cards show.
Rendered == {r \in rows : r[2] # 0 /\ r \notin hidden /\ <<r[1], 0>> \notin hidden}
Cards == {r[1] : r \in {s \in rows : <<s[1], 0>> \notin hidden}}

\* The first rows are those of the cache file, which may be out of date.
Init ==
    /\ exists \in SUBSET Tunnels
    /\ ports \in SUBSET (exists \X Ports)
    /\ job = [j \in Jobs |-> Free]
    /\ rx = <<>>
    /\ rows \in {{}, ServiceRows}
    /\ picker = {}
    /\ placeholders = {} /\ hidden = {}
    /\ clean = {} /\ basis = "cache"

-----------------------------------------------------------------------------
(* The user starts an operation: run_op_async, and load_async for a load.  *)

Start(j, pc, kind, key) ==
    /\ job[j].pc = "free"
    /\ job' = [job EXCEPT ![j] = NewJob(pc, kind, key)]
    /\ placeholders' = IF kind \in {"CreateGroup", "AddPort"} THEN placeholders \cup {j}
                                                               ELSE placeholders
    /\ hidden' = IF kind \in {"DeletePort", "DeleteGroup"} THEN hidden \cup {key} ELSE hidden
    /\ clean' = IF \A k \in Jobs : job[k].pc = "free" THEN {j} ELSE {}
    /\ UNCHANGED <<serviceVars, rx, rows, picker, basis>>

Refresh(j) == Start(j, "list", "Load", NoKey)
\* Mutant of OnCreateGroup: it goes the way of Add port, with no port.
OnCreateAsAdd(j) == \E t \in Tunnels : Start(j, "create", "AddPort", <<t, 0>>)
OnCreateGroup(j) == \E t \in Tunnels : Start(j, "op", "CreateGroup", <<t, 0>>)
OnAddPort(j) == \/ \E t \in picker, p \in Ports : Start(j, "op", "AddPort", <<t, p>>)
                \/ \E t \in Tunnels, p \in Ports : Start(j, "create", "AddPort", <<t, p>>)
OnDelete(j) == \/ \E r \in Rendered : Start(j, "op", "DeletePort", r)
               \/ \E t \in Cards : Start(j, "op", "DeleteGroup", <<t, 0>>)

-----------------------------------------------------------------------------
(* A background thread: the operation, then `list`, then `show` for each   *)
(* tunnel listed.  A failed operation or `list` ends it with an error; a   *)
(* failed `show` makes the tunnel look portless.                           *)

Goto(j, pc) == job' = [job EXCEPT ![j].pc = pc]
StillClean(j, ok) == clean' = IF ok THEN clean ELSE clean \ {j}
Finish(j, ok, acc) == /\ job' = [job EXCEPT ![j].pc = "sent", ![j].ok = ok, ![j].acc = acc]
                      /\ rx' = Append(rx, j)
                      /\ StillClean(j, ok)

\* Mutant of Fails: the thread returns early and sends nothing.
FailsSilently(j) == /\ job' = [job EXCEPT ![j] = Free]
                    /\ clean' = clean \ {j}
                    /\ UNCHANGED <<serviceVars, rx, uiVars>>

Fails(j) == Finish(j, FALSE, {}) /\ UNCHANGED <<serviceVars, uiVars>>

Create(j) ==
    LET t == job[j].key[1]
    IN  /\ job[j].pc = "create" \/ (job[j].pc = "op" /\ job[j].kind = "CreateGroup")
        /\ t \notin exists
        /\ exists' = exists \cup {t}
        /\ Goto(j, IF job[j].pc = "create" THEN "op" ELSE "list")
        /\ UNCHANGED <<ports, rx, uiVars, clean>>

CreatePort(j) ==
    LET r == job[j].key
    IN  /\ job[j].pc = "op" /\ job[j].kind = "AddPort"
        /\ r[1] \in exists /\ r \notin ports
        /\ ports' = ports \cup {r}
        /\ Goto(j, "list")
        /\ UNCHANGED <<exists, rx, uiVars, clean>>

Delete(j) ==
    LET r == job[j].key
    IN  /\ job[j].pc = "op" /\ Deleting(j)
        /\ IF job[j].kind = "DeletePort"
             THEN /\ r \in ports
                  /\ ports' = ports \ {r}
                  /\ UNCHANGED exists
             ELSE /\ r[1] \in exists
                  /\ exists' = exists \ {r[1]}
                  /\ ports' = {s \in ports : s[1] # r[1]}
        /\ Goto(j, "list")
        /\ UNCHANGED <<rx, uiVars, clean>>

\* The service refuses what it cannot do; a call may fail for other reasons.
Refused(j) == LET r == job[j].key
              IN  CASE job[j].pc = "create" \/ job[j].kind = "CreateGroup" -> r[1] \in exists
                    [] job[j].kind = "AddPort"     -> r[1] \notin exists \/ r \in ports
                    [] job[j].kind = "DeletePort"  -> r \notin ports
                    [] job[j].kind = "DeleteGroup" -> r[1] \notin exists
                    [] OTHER -> FALSE

OpFails(j) == /\ job[j].pc \in {"create", "op"}
              /\ Refused(j) \/ Failing
              /\ Fails(j)

List(j) == /\ job[j].pc = "list"
           /\ IF exists = {} THEN Finish(j, TRUE, {})
              ELSE /\ job' = [job EXCEPT ![j].pc = "show", ![j].left = exists]
                   /\ UNCHANGED <<rx, clean>>
           /\ UNCHANGED <<serviceVars, uiVars>>

ListFails(j) == job[j].pc = "list" /\ Failing /\ Fails(j)

Show(j) ==
    /\ job[j].pc = "show"
    /\ \E t \in job[j].left, works \in BOOLEAN :
          LET more == job[j].left \ {t}
              acc == job[j].acc \cup (IF works THEN RowsOf({t}) ELSE {<<t, 0>>})
          IN  /\ works => t \in exists
              /\ ~works => t \notin exists \/ Failing
              /\ job' = [job EXCEPT ![j].left = more, ![j].acc = acc,
                                    ![j].pc = IF more = {} THEN "sent" ELSE "show"]
              /\ rx' = IF more = {} THEN Append(rx, j) ELSE rx
              /\ StillClean(j, works)
    /\ UNCHANGED <<serviceVars, uiVars>>

Thread(j) == \/ Create(j) \/ CreatePort(j) \/ Delete(j) \/ OpFails(j)
             \/ List(j) \/ ListFails(j) \/ Show(j)

-----------------------------------------------------------------------------
(* One tick of the pump: apply_rows for every result in the channel.  The  *)
(* last load that worked is the one that stays.                            *)

Applied == {rx[i] : i \in DOMAIN rx}
Worked == {i \in DOMAIN rx : job[rx[i]].ok}
LastWorked == CHOOSE i \in Worked : \A k \in Worked : k <= i

\* Mutant of NewRows: the load is merged into the rows.
MergedRows == IF Worked = {} THEN rows ELSE rows \cup job[rx[LastWorked]].acc
NewRows == IF Worked = {} THEN rows ELSE job[rx[LastWorked]].acc

\* The hidden keys to clear.  Mutant: not those of deletes that failed.
SettledIfWorked == {job[j].key : j \in {k \in Applied : Deleting(k) /\ job[k].ok}}
Settled == {job[j].key : j \in {k \in Applied : Deleting(k)}}

Pump ==
    /\ rx # <<>>
    /\ rx' = <<>>
    /\ rows' = NewRows
    /\ picker' = IF Worked = {} THEN picker ELSE {r[1] : r \in rows'}
    /\ placeholders' = placeholders \ Applied
    /\ hidden' = hidden \ Settled
    /\ job' = [j \in Jobs |-> IF j \in Applied THEN Free ELSE job[j]]
    /\ clean' = clean \ Applied
    /\ basis' = IF Applied \subseteq clean THEN "clean"
                ELSE IF basis = "cache" /\ Worked = {} THEN "cache"
                ELSE "mixed"
    /\ UNCHANGED serviceVars

User(j) == Refresh(j) \/ OnCreateGroup(j) \/ OnAddPort(j) \/ OnDelete(j)

Next == \/ \E j \in Jobs : User(j) \/ Thread(j)
        \/ Pump

Spec == Init /\ [][Next]_vars

(* A CLI call returns and the timer ticks; the user need not do anything.  *)
FairSpec == Spec /\ WF_vars(Pump) /\ \A j \in Jobs : WF_vars(Thread(j))

-----------------------------------------------------------------------------
(* A row is hidden exactly while a delete of it is under way: it is back   *)
(* after a delete that failed, and no other result that is applied in the  *)
(* meantime brings it back early.  A key is a set member, not a count, so  *)
(* two deletes may never share one.                                        *)
HiddenWhileDeleting == hidden = {job[j].key : j \in {k \in Jobs : Deleting(k)}}

(* An operation that runs alone and without failures leaves the list as    *)
(* the service has it.                                                     *)
AloneCatchesUp ==
    basis = "clean" /\ (\A j \in Jobs : job[j].pc = "free") => rows = ServiceRows

(* Every optimistic change is settled, whatever its operation met with: no *)
(* placeholder and no hidden row stays.                                    *)
OptimismEnds == /\ \A j \in Jobs : j \in placeholders ~> j \notin placeholders
                /\ \A r \in Row : r \in hidden ~> r \notin hidden

(* run_op_async promises more than AloneCatchesUp: the path through        *)
(* apply_rows "reconciles the UI (and tray) from the service after every   *)
(* mutation", so that nothing is left to reconcile once all have settled.  *)
CaughtUp == basis # "cache" /\ (\A j \in Jobs : job[j].pc = "free") => rows = ServiceRows

=============================================================================
