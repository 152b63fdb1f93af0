------------------------------ MODULE LogBuffer ------------------------------
(***************************************************************************)
(* The logger of the process (src/logbuf.rs): every thread logs through    *)
(* CaptureLogger::log, which keeps the last Warn and Error lines as crash   *)
(* context and hands each line to the one thread that writes to stderr.    *)
(*                                                                         *)
(* A line is its number.  The lines that are no problems, and those that   *)
(* the level filter lets through, matter only to the channel.  Every write *)
(* to stderr takes its global lock and waits for the console, so that all  *)
(* of them proceed while the console flows and none while it is stuck.     *)
(***************************************************************************)
EXTENDS Naturals, Sequences

CONSTANTS Threads,       \* the threads that log and panic
          UI,            \* the main thread
          Nobody,
          Capacity,      \* CRASH_CONTEXT_CAPACITY
          SinkCapacity,  \* SINK_CAPACITY
          MaxLines       \* bound: Warn and Error lines of one process

ASSUME LogConstants == /\ UI \in Threads
                       /\ Nobody \notin Threads
                       /\ Capacity \in Nat \ {0}
                       /\ SinkCapacity \in Nat
                       /\ MaxLines \in Nat

VARIABLES
    at,         \* where a thread is in log() or in the panic hook
    line,       \* the line it logs
    lines,      \* Warn and Error lines so far
    ring,       \* CRASH_RING: the lines it holds
    holder,     \* who holds its lock
    poisoned,   \* a holder panicked
    sink,       \* SINK: lines in the channel
    writing,    \* the writer thread has taken a line from it
    stuck,      \* the console takes no output
    recorded    \* history: the lines that went into the ring

ringVars == <<ring, holder, poisoned, recorded>>
sinkVars == <<sink, writing>>
logVars == <<at, line, lines, ringVars, sinkVars, stuck>>

Logging == {"recording", "evicting", "pushing", "sending"}
Capturing == {"context", "snapping", "reporting"}
Place == {"app", "complaining", "previous", "dead"} \cup Logging \cup Capturing

LogTypeOK ==
    /\ at \in [Threads -> Place]
    /\ line \in [Threads -> 0 .. MaxLines]
    /\ lines \in 0 .. MaxLines
    /\ ring \in Seq(1 .. MaxLines) /\ Len(ring) <= Capacity
    /\ holder \in Threads \cup {Nobody}
    /\ poisoned \in BOOLEAN
    /\ sink \in 0 .. SinkCapacity
    /\ writing \in BOOLEAN
    /\ stuck \in BOOLEAN
    /\ recorded \in Seq(1 .. MaxLines)

Init == /\ at = [th \in Threads |-> "app"]
        /\ line = [th \in Threads |-> 0] /\ lines = 0
        /\ ring = <<>> /\ holder = Nobody /\ poisoned = FALSE /\ recorded = <<>>
        /\ sink = 0 /\ writing = FALSE
        /\ stuck = FALSE

Goto(th, from, to) == at[th] = from /\ at' = [at EXCEPT ![th] = to]

-----------------------------------------------------------------------------
(* log(): a problem goes to the ring if its lock is free, every line to    *)
(* the channel if it has room.                                             *)

LogProblem(th) == /\ Goto(th, "app", "recording")
                  /\ lines < MaxLines
                  /\ lines' = lines + 1
                  /\ line' = [line EXCEPT ![th] = lines + 1]
                  /\ UNCHANGED <<ringVars, sinkVars, stuck>>

LogOther(th) == /\ Goto(th, "app", "sending")
                /\ UNCHANGED <<line, lines, ringVars, sinkVars, stuck>>

\* Mutant of Locked: a poisoned lock is taken, as RING's accessors do.
HeldOnly == holder # Nobody
Locked == holder # Nobody \/ poisoned

Record(th) == /\ ~Locked
              /\ Goto(th, "recording", "evicting")
              /\ holder' = th
              /\ UNCHANGED <<line, lines, ring, poisoned, recorded, sinkVars, stuck>>

SkipRecord(th) == /\ Locked
                  /\ Goto(th, "recording", "sending")
                  /\ UNCHANGED <<line, lines, ringVars, sinkVars, stuck>>

\* Mutant of Evict: the length is compared with one more than the capacity.
EvictLate(th) == /\ Goto(th, "evicting", "pushing")
                 /\ ring' = IF Len(ring) = Capacity + 1 THEN Tail(ring) ELSE ring
                 /\ UNCHANGED <<line, lines, holder, poisoned, recorded, sinkVars, stuck>>

Evict(th) == /\ Goto(th, "evicting", "pushing")
             /\ ring' = IF Len(ring) = Capacity THEN Tail(ring) ELSE ring
             /\ UNCHANGED <<line, lines, holder, poisoned, recorded, sinkVars, stuck>>

Push(th) == /\ Goto(th, "pushing", "sending")
            /\ ring' = Append(ring, line[th])
            /\ recorded' = Append(recorded, line[th])
            /\ holder' = Nobody
            /\ UNCHANGED <<line, lines, poisoned, sinkVars, stuck>>

\* Mutant of TrySend: send() for try_send().
BlockingSend(th) == /\ sink < SinkCapacity
                    /\ Goto(th, "sending", "app")
                    /\ sink' = sink + 1
                    /\ UNCHANGED <<line, lines, ringVars, writing, stuck>>

TrySend(th) == /\ Goto(th, "sending", "app")
               /\ sink' = IF sink < SinkCapacity THEN sink + 1 ELSE sink
               /\ UNCHANGED <<line, lines, ringVars, writing, stuck>>

LogStep(th) == Record(th) \/ SkipRecord(th) \/ Evict(th) \/ Push(th) \/ TrySend(th)

-----------------------------------------------------------------------------
(* The writer thread, and the console. *)

WriterTakes == /\ ~writing /\ sink > 0
               /\ writing' = TRUE /\ sink' = sink - 1
               /\ UNCHANGED <<at, line, lines, ringVars, stuck>>

WriterWrites == /\ writing /\ ~stuck
                /\ writing' = FALSE
                /\ UNCHANGED <<at, line, lines, ringVars, sink, stuck>>

ConsolePausesOrResumes == /\ stuck' = ~stuck
                          /\ UNCHANGED <<at, line, lines, ringVars, sinkVars>>

-----------------------------------------------------------------------------
(* A panic, anywhere in the program or in log() with the ring locked, and  *)
(* the panic hook: crash_context(), the report that CrashReports.tla is    *)
(* about, the default hook, which prints the panic.  That a push may panic  *)
(* between its two calls is more than the code can do, where nothing       *)
(* there panics; what is shown of the ring does not depend on it.          *)

Panic(th) == /\ \E from \in {"app", "evicting", "pushing"} : Goto(th, from, "context")
             /\ UNCHANGED <<line, lines, ringVars, sinkVars, stuck>>

\* Mutant of SkipContext: lock() for try_lock().
WaitForContext(th) == /\ poisoned
                      /\ Goto(th, "context", "reporting")
                      /\ UNCHANGED <<line, lines, ringVars, sinkVars, stuck>>

SkipContext(th) == /\ Locked
                   /\ Goto(th, "context", "reporting")
                   /\ UNCHANGED <<line, lines, ringVars, sinkVars, stuck>>

LockContext(th) == /\ ~Locked
                   /\ Goto(th, "context", "snapping")
                   /\ holder' = th
                   /\ UNCHANGED <<line, lines, ring, poisoned, recorded, sinkVars, stuck>>

Snapshot(th) == /\ Goto(th, "snapping", "reporting")
                /\ holder' = Nobody
                /\ UNCHANGED <<line, lines, ring, poisoned, recorded, sinkVars, stuck>>

Reported(th) == /\ \/ Goto(th, "reporting", "previous")
                   \/ Goto(th, "reporting", "complaining")
                /\ UNCHANGED <<line, lines, ringVars, sinkVars, stuck>>

\* eprintln! of a report that could not be written.
Complain(th) == /\ ~stuck
                /\ Goto(th, "complaining", "previous")
                /\ UNCHANGED <<line, lines, ringVars, sinkVars, stuck>>

\* The thread unwinds and gives up the lock it may hold.
Unwind(th) == /\ ~stuck
              /\ Goto(th, "previous", "dead")
              /\ holder' = IF holder = th THEN Nobody ELSE holder
              /\ poisoned' = (poisoned \/ holder = th)
              /\ UNCHANGED <<line, lines, ring, recorded, sinkVars, stuck>>

HookStep(th) == \/ SkipContext(th) \/ LockContext(th) \/ Snapshot(th)
                \/ Reported(th) \/ Complain(th) \/ Unwind(th)

-----------------------------------------------------------------------------
\* The process goes on until the main thread has unwound.
Next == /\ at[UI] # "dead"
        /\ \/ \E th \in Threads : \/ LogProblem(th) \/ LogOther(th) \/ LogStep(th)
                                  \/ Panic(th) \/ HookStep(th)
           \/ WriterTakes \/ WriterWrites
           \/ ConsolePausesOrResumes

Spec == Init /\ [][Next]_logVars

(* A thread that logs or panics goes on.  Nothing else need happen: the     *)
(* other threads, the writer among them, and the console may stop anywhere. *)
FairSpec == /\ Spec
            /\ \A th \in Threads : /\ WF_logVars(at[UI] # "dead" /\ LogStep(th))
                                   /\ WF_logVars(at[UI] # "dead" /\ HookStep(th))

-----------------------------------------------------------------------------
(* The context a panic report takes is the last problems that were         *)
(* recorded, oldest first: the snapshot never sees a push half done by     *)
(* another thread, nor one that a panic has cut short.                     *)
LastRecorded == SubSeq(recorded, IF Len(recorded) > Capacity THEN Len(recorded) - Capacity + 1 ELSE 1, Len(recorded))
ContextIsRecent == \A th \in Threads : at[th] = "snapping" => ring = LastRecorded

\* The process has exited.
Exited == at[UI] = "dead"

(* "A stuck console can therefore stall at most this one background thread *)
(* [...] never the UI thread": a call of log() returns, although the       *)
(* console may never take a line again and other threads stop anywhere.    *)
LoggingReturns == \A th \in Threads : at[th] \in Logging ~> at[th] \notin Logging \/ Exited

(* "Losing the context is acceptable; deadlocking the dying process while  *)
(* it writes its report is not": a thread that panics gets its report      *)
(* written by its own steps, whoever holds the lock of the ring, it itself *)
(* included, and whatever the console does.                                *)
PanicIsReported == \A th \in Threads : at[th] \in Capturing ~> at[th] \notin Capturing \/ Exited

(* The comment promises that a stuck console stalls only the writer.  The  *)
(* default panic hook and eprintln! wait for it too: here a thread that    *)
(* panics is to end.                                                       *)
PanicEnds == \A th \in Threads : at[th] = "previous" ~> at[th] = "dead" \/ Exited

=============================================================================
