------------------------------- MODULE AppFiles -------------------------------
(***************************************************************************)
(* The two files the program keeps (src/state.rs): state.json, the         *)
(* auto-host set and the settings, and cache.json, the rows of the last    *)
(* successful load.  Both are written by atomic_write, on the UI thread,   *)
(* and read when the program starts.  The program may be killed, and a     *)
(* file operation may fail, between any two steps.                         *)
(*                                                                         *)
(* What a file holds is a version number; version 0 is the default state,  *)
(* or no rows.                                                             *)
(***************************************************************************)
EXTENDS Integers

CONSTANTS CacheMaxAge,    \* CACHE_MAX_AGE_SECS
          MaxVersion,     \* bound: changes of the state, and loads
          MaxTime         \* bound: wall-clock readings

ASSUME FilesConstants == CacheMaxAge \in Nat /\ MaxVersion \in Nat /\ MaxTime \in Nat

VARIABLES
    mem,        \* the version of the AppState in memory
    painted,    \* LiveState.rows: the version of the rows shown
    disk,       \* the two files: [File -> Content]
    tmp,        \* their temporary files
    writing,    \* the atomic_write under way: which file, and its next step
    clock,      \* the wall clock; it may be set back
    saved       \* history: per file, the version of the last save that returned Ok

vars == <<mem, painted, disk, tmp, writing, clock, saved>>

File == {"state", "cache"}
Version == 0 .. MaxVersion
Content == [kind : {"missing", "torn", "whole"}, version : Version, at : 0 .. MaxTime]

Missing == [kind |-> "missing", version |-> 0, at |-> 0]
Torn == [Missing EXCEPT !.kind = "torn"]

Idle == [file |-> "state", step |-> "idle"]

FilesTypeOK ==
    /\ mem \in Version
    /\ painted \in Version
    /\ disk \in [File -> Content]
    /\ tmp \in [File -> Content]
    /\ writing \in [file : File, step : {"idle", "write", "flush", "remove", "rename"}]
    /\ clock \in 0 .. MaxTime
    /\ saved \in [File -> Version]

Init == /\ mem = 0
        /\ painted = 0
        /\ disk = [f \in File |-> Missing]
        /\ tmp = [f \in File |-> Missing]
        /\ writing = Idle
        /\ clock \in 0 .. MaxTime
        /\ saved = [f \in File |-> 0]

-----------------------------------------------------------------------------
(* The UI thread changes the state and saves it, or takes a load and saves *)
(* the rows; it does nothing else before atomic_write has returned.        *)

ChangeState == /\ writing = Idle
               /\ mem < MaxVersion
               /\ mem' = mem + 1
               /\ writing' = [file |-> "state", step |-> "write"]
               /\ UNCHANGED <<painted, disk, tmp, clock, saved>>

TakeLoad == /\ writing = Idle
            /\ painted < MaxVersion
            /\ painted' = painted + 1
            /\ writing' = [file |-> "cache", step |-> "write"]
            /\ UNCHANGED <<mem, disk, tmp, clock, saved>>

At(f, step) == writing = [file |-> f, step |-> step]
Then(f, step) == writing' = [file |-> f, step |-> step]

\* Mutant of OpenTmp: the file is written in place.
OpenInPlace(f) == /\ At(f, "write")
                  /\ disk' = [disk EXCEPT ![f] = Torn]
                  /\ Then(f, "flush")
                  /\ UNCHANGED <<mem, painted, tmp, clock, saved>>

\* fs::write opens and truncates, and the content comes after.
OpenTmp(f) == /\ At(f, "write")
              /\ tmp' = [tmp EXCEPT ![f] = Torn]
              /\ Then(f, "flush")
              /\ UNCHANGED <<mem, painted, disk, clock, saved>>

\* Mutant of WriteTmp: it stores when the cache expires.
WriteTmpExpiry(f) == /\ At(f, "flush")
                     /\ tmp' = [tmp EXCEPT ![f] = [kind |-> "whole", version |-> painted,
                                                   at |-> clock + CacheMaxAge]]
                     /\ Then(f, "remove")
                     /\ UNCHANGED <<mem, painted, disk, clock, saved>>

\* saved_at is the clock's reading; state.json has none.
WriteTmp(f) == /\ At(f, "flush")
               /\ tmp' = [tmp EXCEPT ![f] =
                             [kind |-> "whole",
                              version |-> IF f = "state" THEN mem ELSE painted,
                              at |-> IF f = "state" THEN 0 ELSE clock]]
               /\ Then(f, "remove")
               /\ UNCHANGED <<mem, painted, disk, clock, saved>>

\* The result of remove_file is ignored.
RemoveOld(f) == /\ At(f, "remove")
                /\ \/ disk' = [disk EXCEPT ![f] = Missing]
                   \/ disk' = disk
                /\ Then(f, "rename")
                /\ UNCHANGED <<mem, painted, tmp, clock, saved>>

Rename(f) == /\ At(f, "rename")
             /\ disk' = [disk EXCEPT ![f] = tmp[f]]
             /\ tmp' = [tmp EXCEPT ![f] = Missing]
             /\ saved' = [saved EXCEPT ![f] = tmp[f].version]
             /\ writing' = Idle
             /\ UNCHANGED <<mem, painted, clock>>

\* An error ends atomic_write; it is logged, and the next save starts over.
WriteFails(f) == /\ \E step \in {"write", "flush", "rename"} : At(f, step)
                 /\ writing' = Idle
                 /\ UNCHANGED <<mem, painted, disk, tmp, clock, saved>>

AtomicWrite(f) == OpenTmp(f) \/ WriteTmp(f) \/ RemoveOld(f) \/ Rename(f) \/ WriteFails(f)

-----------------------------------------------------------------------------
\* load_from: defaults for a missing or invalid file.
LoadedState == IF disk["state"].kind = "whole" THEN disk["state"].version ELSE 0

\* load_row_cache_from; the subtraction saturates at zero.
CacheAge(now) == IF now >= disk["cache"].at THEN now - disk["cache"].at ELSE 0
LoadedCache(now) == IF disk["cache"].kind = "whole" /\ CacheAge(now) <= CacheMaxAge
                      THEN disk["cache"].version ELSE 0

\* The program is killed, or quits, and is started again some time later.
Restart == /\ mem' = LoadedState
           /\ clock' \in 0 .. MaxTime
           /\ painted' = LoadedCache(clock')
           /\ writing' = Idle
           /\ UNCHANGED <<disk, tmp, saved>>

Passes == /\ writing = Idle
          /\ clock < MaxTime
          /\ clock' = clock + 1
          /\ UNCHANGED <<mem, painted, disk, tmp, writing, saved>>

Next == \/ ChangeState \/ TakeLoad
        \/ \E f \in File : AtomicWrite(f)
        \/ Restart \/ Passes

Spec == Init /\ [][Next]_vars

-----------------------------------------------------------------------------
(* A file is never half-written ("A crash mid-write can never truncate the *)
(* destination"), and what it holds is the version saved last or, where    *)
(* the clean-up after the rename did not happen, nothing at all: an older  *)
(* version never comes back.                                               *)
DiskIsLastSaved ==
    \A f \in File : disk[f].kind # "missing" => /\ disk[f].kind = "whole"
                                                /\ disk[f].version = saved[f]

(* atomic_write says "Writes `content` to `path` atomically": after a kill *)
(* the state is the one saved last or the one being saved.                 *)
SavesAreAtomic == LoadedState \in {saved["state"], mem}

(* load_row_cache_from says that it "also drops a cache with a future      *)
(* timestamp (clock skew)": no rows from the future are painted.           *)
FutureCacheIsDropped == LoadedCache(clock) # 0 => disk["cache"].at <= clock

=============================================================================
