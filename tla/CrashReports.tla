----------------------------- MODULE CrashReports -----------------------------
(***************************************************************************)
(* Crash reports (src/crash.rs): the panic hook that writes a report file  *)
(* on the thread that panics, and take_pending, with which a window that   *)
(* starts surfaces the newest report and clears the others.                *)
(*                                                                         *)
(* Nothing keeps a second instance from running, and a headless process    *)
(* writes reports but takes none: panics of several processes and the      *)
(* starts of others interleave freely.  A panic stands for its report.  A  *)
(* pending file is named after the second and the process, <<time, pid>>.  *)
(* The crash context a report carries is in LogBuffer.tla.                 *)
(***************************************************************************)
EXTENDS Integers, FiniteSets

CONSTANTS Panics,        \* bound: the panics that may happen, each on a thread of its own
          Processes,
          Pid(_),        \* the process a panic happens in
          Starters,      \* bound: instances that start at one time
          MaxTime,       \* bound: the clock
          MaxMishaps,    \* bound: the ways in which take_pending may fail in one behaviour
          Missing,       \* no file
          Torn           \* a file that does not parse

ASSUME CrashConstants == /\ Processes # {}
                         /\ \A p \in Panics : Pid(p) \in Processes
                         /\ MaxTime \in Nat \ {0}
                         /\ Missing # Torn
                         /\ Missing \notin Panics /\ Torn \notin Panics

Time == 1 .. MaxTime
Name == Time \X Processes
Content == Panics \cup {Missing, Torn}

VARIABLES
    clock,      \* Unix seconds
    hook,       \* where a panic is in the hook
    stamp,      \* when_unix of its report; 0 before the panic
    target,     \* the file it has open
    file,       \* the pending files
    lastCrash,  \* last-crash.json
    starter,    \* take_pending in each instance that starts
    latest,     \* history: the latest panic
    saved,      \* history: its report was written, whole, to a file no start has read
    banners,    \* history: how often a report was surfaced
    mishaps     \* history: what failed in take_pending, and for which report

hookVars == <<hook, stamp, latest, saved>>
fileVars == <<file, lastCrash, target>>
startVars == <<starter, banners, mishaps>>
crashVars == <<clock, hookVars, fileVars, startVars>>

\* Where an open file is, when it is no pending one.
NoFile == <<0, "none">>
AsLast == <<0, "last">>
Unlinked == <<0, "unlinked">>

Mishap == {"read", "remove", "rename", "drop", "surface"} \X Content
Start == [pc : {"idle", "reading", "clearing", "moving", "dropping", "surfacing"},
          newest : Name, stale : SUBSET Name, report : Panics \cup {Torn}]
Idle == [pc |-> "idle", newest |-> <<1, CHOOSE q \in Processes : TRUE>>, stale |-> {}, report |-> Torn]

CrashTypeOK ==
    /\ clock \in Time
    /\ hook \in [Panics -> {"none", "opening", "writing", "over"}]
    /\ stamp \in [Panics -> 0 .. MaxTime]
    /\ target \in [Panics -> Name \cup {NoFile, AsLast, Unlinked}]
    /\ file \in [Name -> Content]
    /\ lastCrash \in Content
    /\ starter \in [Starters -> Start]
    /\ latest \in Panics \cup {Missing}
    /\ saved \in BOOLEAN
    /\ banners \in [Panics -> 0 .. 2]
    /\ mishaps \subseteq Mishap

CrashInit ==
    /\ clock = 1
    /\ hook = [p \in Panics |-> "none"]
    /\ stamp = [p \in Panics |-> 0]
    /\ target = [p \in Panics |-> NoFile]
    /\ file = [n \in Name |-> Missing] /\ lastCrash = Missing
    /\ starter = [s \in Starters |-> Idle]
    /\ latest = Missing /\ saved = FALSE
    /\ banners = [p \in Panics |-> 0] /\ mishaps = {}

-----------------------------------------------------------------------------
(* The panic hook. *)

\* Mutant of NameOf: the suffix is the thread.
NameByThread(p) == <<stamp[p], p>>
NameOf(p) == <<stamp[p], Pid(p)>>
InHook(p, from, to) == hook[p] = from /\ hook' = [hook EXCEPT ![p] = to]

PanicStarts(p) == /\ InHook(p, "none", "opening")
                  /\ stamp' = [stamp EXCEPT ![p] = clock]
                  /\ latest' = p /\ saved' = FALSE
                  /\ UNCHANGED <<clock, fileVars, startVars>>

\* fs::write opens and truncates, then writes from the beginning.
Open(p) == /\ InHook(p, "opening", "writing")
           /\ file' = [file EXCEPT ![NameOf(p)] = Torn]
           /\ target' = [target EXCEPT ![p] = NameOf(p)]
           /\ UNCHANGED <<clock, stamp, latest, saved, lastCrash, startVars>>

\* Over a report that another thread has written to the same file since, the
\* rest of the longer one may stay behind.
Mixed(p, there) == {p} \cup (IF there = Torn THEN {} ELSE {Torn})

\* A start has read the file, and will not read it again.
Seen(n) == \E s \in Starters : starter[s].pc \notin {"idle", "reading"} /\ starter[s].newest = n

Write(p) ==
    LET t == target[p]
    IN  /\ InHook(p, "writing", "over")
        /\ \/ t \in Name /\ \E c \in Mixed(p, file[t]) :
                 /\ file' = [file EXCEPT ![t] = c]
                 /\ saved' = IF latest = p THEN c = p /\ ~Seen(t) ELSE saved
                 /\ UNCHANGED lastCrash
           \/ t = AsLast /\ \E c \in Mixed(p, lastCrash) : lastCrash' = c /\ UNCHANGED <<file, saved>>
           \/ t = Unlinked /\ UNCHANGED <<file, lastCrash, saved>>
        /\ target' = [target EXCEPT ![p] = NoFile]
        /\ UNCHANGED <<clock, stamp, latest, startVars>>

WriteFails(p) ==
    /\ InHook(p, "opening", "over") \/ InHook(p, "writing", "over")
    /\ target' = [target EXCEPT ![p] = NoFile]
    /\ UNCHANGED <<clock, stamp, latest, saved, file, lastCrash, startVars>>

Hook(p) == PanicStarts(p) \/ Open(p) \/ Write(p) \/ WriteFails(p)

\* The main thread has unwound, or the process is killed: no thread of it goes on.
Exit(q) == LET gone == {p \in Panics : Pid(p) = q}
           IN  /\ \E p \in gone : hook[p] # "over"
               /\ hook' = [p \in Panics |-> IF p \in gone THEN "over" ELSE hook[p]]
               /\ target' = [p \in Panics |-> IF p \in gone THEN NoFile ELSE target[p]]
               /\ UNCHANGED <<clock, stamp, latest, saved, file, lastCrash, startVars>>

\* The wall clock passes on, and may be set back.
SetClock == /\ clock' \in Time \ {clock}
            /\ UNCHANGED <<hookVars, fileVars, startVars>>

-----------------------------------------------------------------------------
(* take_pending in an instance that starts. *)

Pending == {n \in Name : file[n] # Missing}

\* The process ids of one second are compared as text: in any order.
Latest(names) == {n \in names : \A o \in names : o[1] <= n[1]}
Earliest(names) == {n \in names : \A o \in names : n[1] <= o[1]}

In(s, pc) == starter[s].pc = pc
Become(s, st) == /\ starter' = [starter EXCEPT ![s] = st]
                 /\ UNCHANGED <<clock, hookVars>>

Fails(what, content) == /\ mishaps' = mishaps \cup {<<what, content>>}
                        /\ Cardinality(mishaps') <= MaxMishaps

\* A file is removed while a thread may have it open.
Removed(n) == /\ file' = [file EXCEPT ![n] = Missing]
              /\ target' = [p \in Panics |-> IF target[p] = n THEN Unlinked ELSE target[p]]
              /\ UNCHANGED mishaps
NotRemoved == Fails("remove", Missing) /\ UNCHANGED <<file, target>>
WithoutLast == [p \in Panics |-> IF target[p] = AsLast THEN Unlinked ELSE target[p]]

\* Mutant of Newest: the list is not sorted.
AnyPending == Pending
Newest == Latest(Pending)

List(s) == /\ In(s, "idle")
           /\ \E n \in Newest : Become(s, [Idle EXCEPT !.pc = "reading", !.newest = n,
                                                       !.stale = Pending \ {n}])
           /\ UNCHANGED <<fileVars, banners, mishaps>>

Read(s) ==
    LET there == file[starter[s].newest]
    IN  /\ In(s, "reading")
        /\ \/ Become(s, [starter[s] EXCEPT !.pc = "clearing",
                                          !.report = IF there \in Panics THEN there ELSE Torn])
              /\ UNCHANGED mishaps
           \/ Become(s, [starter[s] EXCEPT !.pc = "clearing"])
              /\ Fails("read", there)
        /\ UNCHANGED <<fileVars, banners>>

\* The older reports, then the one surfaced last; errors are ignored.
ClearStale(s) ==
    /\ In(s, "clearing")
    /\ \E n \in Earliest(starter[s].stale) :
          /\ Become(s, [starter[s] EXCEPT !.stale = @ \ {n}])
          /\ Removed(n) \/ NotRemoved
    /\ UNCHANGED <<lastCrash, banners>>

ClearLast(s) ==
    /\ In(s, "clearing") /\ starter[s].stale = {}
    /\ Become(s, [starter[s] EXCEPT !.pc = "moving"])
    /\ \/ lastCrash' = Missing /\ target' = WithoutLast /\ UNCHANGED <<file, mishaps>>
       \/ NotRemoved /\ UNCHANGED lastCrash
    /\ UNCHANGED banners

Move(s) ==
    LET n == starter[s].newest
    IN  /\ In(s, "moving") /\ file[n] # Missing
        /\ Become(s, [starter[s] EXCEPT !.pc = "surfacing"])
        /\ file' = [file EXCEPT ![n] = Missing]
        /\ lastCrash' = file[n]
        /\ target' = [p \in Panics |-> IF target[p] = n THEN AsLast ELSE WithoutLast[p]]
        /\ UNCHANGED <<banners, mishaps>>

MoveFails(s) ==
    /\ In(s, "moving")
    /\ Become(s, [starter[s] EXCEPT !.pc = "dropping"])
    /\ Fails("rename", starter[s].report)
    /\ UNCHANGED <<fileVars, banners>>

\* Mutant of Drop: the report that could not be moved stays.
DropNothing(s) ==
    /\ In(s, "dropping")
    /\ Become(s, [starter[s] EXCEPT !.pc = "surfacing"])
    /\ UNCHANGED <<fileVars, banners, mishaps>>

Drop(s) ==
    /\ In(s, "dropping")
    /\ Become(s, [starter[s] EXCEPT !.pc = "surfacing"])
    /\ \/ Removed(starter[s].newest)
       \/ Fails("drop", starter[s].report) /\ UNCHANGED <<file, target>>
    /\ UNCHANGED <<lastCrash, banners>>

\* The banner is raised for the report that was read, if it parsed.
Surface(s) ==
    LET r == starter[s].report
    IN  /\ In(s, "surfacing")
        /\ Become(s, Idle)
        /\ banners' = IF r = Torn \/ banners[r] = 2 THEN banners ELSE [banners EXCEPT ![r] = @ + 1]
        /\ UNCHANGED <<fileVars, mishaps>>

StarterKilled(s) ==
    /\ ~In(s, "idle")
    /\ Become(s, Idle)
    /\ IF In(s, "surfacing") THEN Fails("surface", starter[s].report) ELSE UNCHANGED mishaps
    /\ UNCHANGED <<fileVars, banners>>

TakePending(s) == \/ List(s) \/ Read(s) \/ ClearStale(s) \/ ClearLast(s)
                  \/ Move(s) \/ MoveFails(s) \/ Drop(s) \/ Surface(s)

CrashNext == \/ \E p \in Panics : Hook(p)
             \/ \E q \in Processes : Exit(q)
             \/ SetClock
             \/ \E s \in Starters : TakePending(s) \/ StarterKilled(s)

CrashSpec == CrashInit /\ [][CrashNext]_crashVars

-----------------------------------------------------------------------------
(* The report of the latest panic is not lost before the user has seen it: *)
(* once it has been written, whole, to a file that no start has read yet,  *)
(* it is pending, held by the start that is to surface it, or surfaced,    *)
(* however hooks, exits and starts interleave, whichever files cannot be   *)
(* moved or removed, and wherever else a start is killed.  It may be lost  *)
(* after all when an earlier panic has as late a stamp (the same second,   *)
(* or a clock set back), when the start that takes it cannot read it, and  *)
(* when that start is killed between the move and the banner: only         *)
(* last-crash.json has it then, until the next start replaces that.  A     *)
(* report that a start reads while it is being written is promised nothing. *)
LatestIsKept ==
    saved => \/ \E n \in Name : file[n] = latest
             \/ \E s \in Starters : starter[s].report = latest
             \/ banners[latest] > 0
             \/ \E p \in Panics \ {latest} : stamp[p] >= stamp[latest]
             \/ \E what \in {"read", "surface"} : <<what, latest>> \in mishaps

(* "so the banner is raised once per crash": no report is surfaced twice,  *)
(* by starts that follow one another, whatever they are killed in, unless  *)
(* neither the move nor the removal of its file worked.                    *)
SurfacedOnce ==
    \A p \in Panics : banners[p] > 1 => {<<"rename", p>>, <<"drop", p>>} \subseteq mishaps

=============================================================================
