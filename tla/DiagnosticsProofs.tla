--------------------------- MODULE DiagnosticsProofs ---------------------------
(***************************************************************************)
(* Proofs about what the program leaves behind when something goes wrong:  *)
(* the crash reports, for every set of panics, processes and clock values, *)
(* and the log buffer they quote, for every number of threads, lines and   *)
(* sizes.                                                                  *)
(***************************************************************************)
EXTENDS CrashReports, LogBuffer, SequenceTheorems, TLAPS

-----------------------------------------------------------------------------
(* Crash reports. *)

Target == Name \cup {NoFile, AsLast, Unlinked}

\* Who owns what: a pending file is named after a panic, and holds the report
\* of a panic only under the name of that one, written to the end; a thread
\* has its own file open while it writes, or the one it has become.
HooksInv ==
    \A p \in Panics :
        /\ hook[p] = "none" => stamp[p] = 0
        /\ hook[p] \in {"opening", "writing"} => stamp[p] # 0
        /\ target[p] # NoFile => hook[p] = "writing"
        /\ target[p] \in Name => target[p] = NameOf(p)

FilesInv ==
    /\ \A n \in Name : file[n] # Missing => \E q \in Panics : NameOf(q) = n
    /\ \A n \in Name, p \in Panics : file[n] = p => hook[p] = "over" /\ NameOf(p) = n

\* What a start has listed and read: the newest file is as late as those it
\* clears, and the report it is to surface comes from that file.
GoodStart(st) ==
    /\ st.pc \in {"idle", "reading"} => st.report = Torn
    /\ st.pc # "idle" => \E q \in Panics : NameOf(q) = st.newest
    /\ \A n \in st.stale : n # st.newest /\ n[1] <= st.newest[1]
    /\ \A p \in Panics : st.report = p => hook[p] = "over" /\ NameOf(p) = st.newest
    /\ st.pc = "dropping" => <<"rename", st.report>> \in mishaps

StartersInv == \A s \in Starters : GoodStart(starter[s])

CrashInv == CrashTypeOK /\ HooksInv /\ FilesInv /\ StartersInv

\* The places a report may be in are different ones.
LEMMA Places == /\ NoFile \notin Name /\ AsLast \notin Name /\ Unlinked \notin Name
                /\ NoFile # AsLast /\ AsLast # Unlinked /\ NoFile # Unlinked
BY CrashConstants DEF NoFile, AsLast, Unlinked, Name, Time

LEMMA IdleType == Idle \in Start /\ Idle.pc = "idle" /\ Idle.report = Torn
<1>1. 1 \in Time /\ (CHOOSE q \in Processes : TRUE) \in Processes
  BY CrashConstants DEF Time
<1> QED  BY <1>1 DEF Idle, Start, Name

LEMMA InitCrashType == CrashInit => CrashTypeOK
<1> SUFFICES ASSUME CrashInit PROVE CrashTypeOK
  OBVIOUS
<1>1. clock \in Time /\ stamp \in [Panics -> 0 .. MaxTime]
  BY CrashConstants DEF CrashInit, Time
<1>2. banners \in [Panics -> 0 .. 2]
  BY DEF CrashInit
<1>3. saved \in BOOLEAN
  BY DEF CrashInit
<1>4. starter \in [Starters -> Start]
  BY IdleType DEF CrashInit
<1> QED  BY <1>1, <1>2, <1>3, <1>4 DEF CrashInit, CrashTypeOK, Content

-----------------------------------------------------------------------------
\* Where the name of a report is: known as soon as it is being written.
LEMMA NameType ==
    ASSUME CrashTypeOK, NEW p \in Panics, stamp[p] # 0
    PROVE  NameOf(p) \in Name
<1>1. stamp[p] \in Time /\ Pid(p) \in Processes
  BY CrashConstants DEF CrashTypeOK, Time
<1> QED  BY <1>1 DEF NameOf, Name

LEMMA HookType ==
    ASSUME CrashTypeOK, NEW p \in Panics, Hook(p),
           hook[p] = "opening" => stamp[p] # 0
    PROVE  CrashTypeOK'
<1> USE DEF CrashTypeOK, InHook
<1>1. CASE PanicStarts(p)
  <2>1. stamp' \in [Panics -> 0 .. MaxTime]
    BY <1>1, CrashConstants DEF PanicStarts, Time
  <2>2. saved' \in BOOLEAN
    BY <1>1, Zenon DEF PanicStarts
  <2> QED  BY <1>1, <2>1, <2>2 DEF PanicStarts, fileVars, startVars
<1>2. CASE Open(p)
  <2>1. NameOf(p) \in Name
    BY <1>2, NameType DEF Open
  <2> QED  BY <1>2, <2>1 DEF Open, startVars, Content
<1>3. CASE Write(p)
  <2>1. \A c : Mixed(p, c) \subseteq Content
    BY DEF Mixed, Content
  <2>2. saved' \in BOOLEAN
    BY <1>3, Zenon DEF Write
  <2>3. file' \in [Name -> Content] /\ lastCrash' \in Content
    BY <1>3, <2>1 DEF Write
  <2> QED  BY <1>3, <2>2, <2>3 DEF Write, startVars
<1>4. CASE WriteFails(p)
  BY <1>4 DEF WriteFails, startVars
<1> QED  BY <1>1, <1>2, <1>3, <1>4 DEF Hook

LEMMA BecomeType ==
    ASSUME CrashTypeOK, NEW s \in Starters, NEW st \in Start, Become(s, st)
    PROVE  /\ starter' \in [Starters -> Start]
           /\ clock' \in Time
           /\ hook' \in [Panics -> {"none", "opening", "writing", "over"}]
           /\ stamp' \in [Panics -> 0 .. MaxTime]
           /\ latest' \in Panics \cup {Missing}
           /\ saved' \in BOOLEAN
BY DEF CrashTypeOK, Become, hookVars

LEMMA FailsType ==
    ASSUME CrashTypeOK, NEW what \in {"read", "remove", "rename", "drop", "surface"},
           NEW c \in Content, Fails(what, c)
    PROVE  mishaps' \subseteq Mishap
BY DEF CrashTypeOK, Fails, Mishap

LEMMA RemovedType ==
    ASSUME CrashTypeOK, NEW n \in Name, Removed(n) \/ NotRemoved
    PROVE  /\ file' \in [Name -> Content]
           /\ target' \in [Panics -> Target]
           /\ mishaps' \subseteq Mishap
<1>1. CASE Removed(n)
  BY <1>1 DEF CrashTypeOK, Removed, Content, Target
<1>2. CASE NotRemoved
  BY <1>2, FailsType DEF CrashTypeOK, NotRemoved, Target, Content
<1> QED  BY <1>1, <1>2

LEMMA TakePendingType ==
    ASSUME CrashTypeOK, NEW s \in Starters, TakePending(s) \/ StarterKilled(s)
    PROVE  CrashTypeOK'
<1> DEFINE was == starter[s]
<1>0. was \in Start /\ was.report \in Content
  BY DEF CrashTypeOK, Start, Content
<1>1. ASSUME NEW st \in Start, Become(s, st),
             file' \in [Name -> Content], lastCrash' \in Content,
             target' \in [Panics -> Target],
             banners' \in [Panics -> 0 .. 2],
             mishaps' \subseteq Mishap
      PROVE  CrashTypeOK'
  BY <1>1, BecomeType DEF CrashTypeOK, Target
<1>2. CASE List(s)
  <2>1. PICK n \in Newest : Become(s, [Idle EXCEPT !.pc = "reading", !.newest = n,
                                                  !.stale = Pending \ {n}])
    BY <1>2 DEF List
  <2>2. n \in Name /\ Pending \ {n} \in SUBSET Name
    BY <2>1 DEF Newest, Latest, Pending
  <2>3. [Idle EXCEPT !.pc = "reading", !.newest = n, !.stale = Pending \ {n}] \in Start
    BY <2>2, IdleType DEF Start
  <2> QED  BY <1>1, <1>2, <2>1, <2>3 DEF List, fileVars, CrashTypeOK, Target
<1>3. CASE Read(s)
  <2>1. PICK st \in Start : /\ Become(s, st)
                            /\ UNCHANGED mishaps \/ Fails("read", file[was.newest])
    <3>1. [was EXCEPT !.pc = "clearing"] \in Start
      BY <1>0 DEF Start
    <3>2. [was EXCEPT !.pc = "clearing",
                      !.report = IF file[was.newest] \in Panics THEN file[was.newest] ELSE Torn]
             \in Start
      BY <1>0 DEF Start
    <3> QED  BY <1>3, <3>1, <3>2 DEF Read
  <2>2. file[was.newest] \in Content
    BY <1>0 DEF CrashTypeOK, Start
  <2>3. mishaps' \subseteq Mishap
    BY <2>1, <2>2, FailsType DEF CrashTypeOK
  <2> QED  BY <1>1, <1>3, <2>1, <2>3 DEF Read, fileVars, CrashTypeOK, Target
<1>4. CASE ClearStale(s)
  <2>1. PICK n \in Earliest(was.stale) :
           /\ Become(s, [was EXCEPT !.stale = @ \ {n}])
           /\ Removed(n) \/ NotRemoved
    BY <1>4 DEF ClearStale
  <2>2. n \in Name /\ [was EXCEPT !.stale = @ \ {n}] \in Start
    BY <1>0, <2>1 DEF Earliest, Start
  <2> QED  BY <1>1, <1>4, <2>1, <2>2, RemovedType DEF ClearStale, CrashTypeOK
<1>5. CASE ClearLast(s)
  <2>1. [was EXCEPT !.pc = "moving"] \in Start
    BY <1>0 DEF Start
  <2>2. /\ file' \in [Name -> Content] /\ lastCrash' \in Content
        /\ target' \in [Panics -> Target]
        /\ mishaps' \subseteq Mishap
    BY <1>5, FailsType DEF ClearLast, WithoutLast, NotRemoved, CrashTypeOK, Target, Content
  <2> QED  BY <1>1, <1>5, <2>1, <2>2 DEF ClearLast, CrashTypeOK
<1>6. CASE Move(s)
  <2>1. [was EXCEPT !.pc = "surfacing"] \in Start /\ was.newest \in Name
    BY <1>0 DEF Start
  <2>2. /\ file' \in [Name -> Content] /\ lastCrash' \in Content
        /\ target' \in [Panics -> Target]
    BY <1>6, <2>1 DEF Move, WithoutLast, CrashTypeOK, Target, Content
  <2> QED  BY <1>1, <1>6, <2>1, <2>2 DEF Move, CrashTypeOK
<1>7. CASE MoveFails(s)
  <2>1. [was EXCEPT !.pc = "dropping"] \in Start
    BY <1>0 DEF Start
  <2>2. mishaps' \subseteq Mishap
    BY <1>0, <1>7, FailsType DEF MoveFails
  <2> QED  BY <1>1, <1>7, <2>1, <2>2 DEF MoveFails, fileVars, CrashTypeOK, Target
<1>8. CASE Drop(s)
  <2>1. [was EXCEPT !.pc = "surfacing"] \in Start /\ was.newest \in Name
    BY <1>0 DEF Start
  <2>2. CASE Removed(was.newest)
    BY <1>1, <1>8, <2>1, <2>2, RemovedType DEF Drop, CrashTypeOK
  <2>3. CASE Fails("drop", was.report) /\ UNCHANGED <<file, target>>
    BY <1>0, <1>1, <1>8, <2>1, <2>3, FailsType DEF Drop, CrashTypeOK, Target
  <2> QED  BY <1>8, <2>2, <2>3 DEF Drop
<1>9. CASE Surface(s)
  <2>1. banners' \in [Panics -> 0 .. 2]
    BY <1>0, <1>9 DEF Surface, CrashTypeOK, Start
  <2> QED  BY <1>1, <1>9, <2>1, IdleType DEF Surface, fileVars, CrashTypeOK, Target
<1>10. CASE StarterKilled(s)
  <2>1. mishaps' \subseteq Mishap
    BY <1>0, <1>10, FailsType DEF StarterKilled, CrashTypeOK
  <2> QED  BY <1>1, <1>10, <2>1, IdleType DEF StarterKilled, fileVars, CrashTypeOK, Target
<1> QED
  BY <1>2, <1>3, <1>4, <1>5, <1>6, <1>7, <1>8, <1>9, <1>10 DEF TakePending

\* A killed process leaves its threads where they are, their files closed.
LEMMA ExitType ==
    ASSUME CrashTypeOK, NEW q \in Processes, Exit(q)
    PROVE  CrashTypeOK'
<1>1. /\ hook' \in [Panics -> {"none", "opening", "writing", "over"}]
      /\ target' \in [Panics -> Name \cup {NoFile, AsLast, Unlinked}]
  BY DEF Exit, CrashTypeOK
<1> QED  BY <1>1 DEF Exit, CrashTypeOK, startVars

LEMMA NextCrashType == CrashInv /\ [CrashNext]_crashVars => CrashTypeOK'
<1> SUFFICES ASSUME CrashInv, [CrashNext]_crashVars PROVE CrashTypeOK'
  OBVIOUS
<1> USE DEF CrashInv
<1>1. ASSUME NEW p \in Panics, Hook(p) PROVE CrashTypeOK'
  BY <1>1, HookType DEF HooksInv
<1>2. CASE SetClock
  BY <1>2 DEF SetClock, CrashTypeOK, hookVars, fileVars, startVars
<1>3. CASE UNCHANGED crashVars
  BY <1>3 DEF CrashTypeOK, crashVars, hookVars, fileVars, startVars
<1> QED  BY <1>1, <1>2, <1>3, ExitType, TakePendingType DEF CrashNext

-----------------------------------------------------------------------------
(* Who owns what. *)

LEMMA InitCrashInv == CrashInit => CrashInv
<1> SUFFICES ASSUME CrashInit PROVE CrashInv
  OBVIOUS
<1>1. HooksInv
  BY Places DEF CrashInit, HooksInv
<1>2. FilesInv
  BY CrashConstants DEF CrashInit, FilesInv
<1>3. StartersInv
  BY IdleType, CrashConstants DEF CrashInit, StartersInv, GoodStart, Idle
<1> QED  BY <1>1, <1>2, <1>3, InitCrashType DEF CrashInv

\* Stamps only change when a panic starts, and then from 0.
LEMMA HooksStep ==
    ASSUME CrashInv, NEW p \in Panics, Hook(p)
    PROVE  HooksInv'
<1> USE Places, CrashConstants DEF CrashInv, CrashTypeOK, HooksInv, InHook, NameOf
<1>1. CASE PanicStarts(p)
  BY <1>1 DEF PanicStarts, fileVars, Time
<1>2. CASE Open(p)
  BY <1>2 DEF Open
<1>3. CASE Write(p)
  BY <1>3 DEF Write
<1>4. CASE WriteFails(p)
  BY <1>4 DEF WriteFails
<1> QED  BY <1>1, <1>2, <1>3, <1>4 DEF Hook

\* What is named after a panic stays so, and a hook that is over stays over.
LEMMA OwnersStay ==
    ASSUME CrashInv,
           \/ \E p \in Panics : Hook(p)
           \/ \E q \in Processes : Exit(q)
           \/ SetClock \/ UNCHANGED crashVars
           \/ \E s \in Starters : TakePending(s) \/ StarterKilled(s)
    PROVE  \A p \in Panics :
              /\ stamp[p] # 0 => stamp'[p] = stamp[p] /\ NameOf(p)' = NameOf(p)
              /\ NameOf(p) \in Name => stamp[p] # 0
              /\ hook[p] = "over" => hook'[p] = "over"
<1>1. \A p \in Panics : NameOf(p) \in Name => stamp[p] # 0
  BY DEF NameOf, Name, Time
<1>2. ASSUME NEW p \in Panics, Hook(p), NEW q \in Panics
      PROVE  /\ stamp[q] # 0 => stamp'[q] = stamp[q]
             /\ hook[q] = "over" => hook'[q] = "over"
  BY <1>2 DEF Hook, PanicStarts, Open, Write, WriteFails, InHook, CrashInv, CrashTypeOK, HooksInv
<1>3. ASSUME NEW r \in Processes, Exit(r), NEW q \in Panics
      PROVE  stamp'[q] = stamp[q] /\ (hook[q] = "over" => hook'[q] = "over")
  BY <1>3 DEF Exit
<1>4. ASSUME SetClock \/ UNCHANGED crashVars, NEW q \in Panics
      PROVE  stamp'[q] = stamp[q] /\ hook'[q] = hook[q]
  BY <1>4 DEF SetClock, hookVars, crashVars
<1>5. ASSUME NEW s \in Starters, TakePending(s) \/ StarterKilled(s), NEW q \in Panics
      PROVE  stamp'[q] = stamp[q] /\ hook'[q] = hook[q]
  BY <1>5 DEF TakePending, List, Read, ClearStale, ClearLast, Move, MoveFails, Drop, Surface,
              StarterKilled, Become, hookVars
<1> QED  BY <1>1, <1>2, <1>3, <1>4, <1>5 DEF NameOf

LEMMA HookKeepsInv ==
    ASSUME CrashInv, NEW p \in Panics, Hook(p)
    PROVE  FilesInv' /\ StartersInv'
<1> USE DEF CrashInv
<1>1. \A q \in Panics : /\ stamp[q] # 0 => stamp'[q] = stamp[q] /\ NameOf(q)' = NameOf(q)
                        /\ NameOf(q) \in Name => stamp[q] # 0
                        /\ hook[q] = "over" => hook'[q] = "over"
  BY OwnersStay
<1>2. \A n \in Name : file'[n] = file[n] \/ (n = NameOf(p) /\ file'[n] \in {p, Torn})
  BY CrashConstants, Places
     DEF Hook, PanicStarts, Open, Write, Mixed, WriteFails, fileVars, CrashTypeOK, HooksInv, InHook
<1>3. \A n \in Name : file'[n] = p => file[n] = p \/ (hook'[p] = "over" /\ n = NameOf(p))
  BY CrashConstants, Places
     DEF Hook, PanicStarts, Open, Write, Mixed, WriteFails, fileVars, CrashTypeOK, HooksInv, InHook
<1>4. ASSUME NEW n \in Name, file'[n] # Missing PROVE \E q \in Panics : NameOf(q)' = n
  <2>1. PICK q \in Panics : NameOf(q) = n
    BY <1>2, <1>4 DEF FilesInv
  <2> QED  BY <1>1, <2>1
<1>5. ASSUME NEW n \in Name, NEW q \in Panics, file'[n] = q
      PROVE  hook'[q] = "over" /\ NameOf(q)' = n
  <2>1. CASE file[n] = q
    <3>1. hook[q] = "over" /\ NameOf(q) = n
      BY <2>1 DEF FilesInv
    <3> QED  BY <1>1, <3>1
  <2>2. CASE file[n] # q
    <3>1. q = p /\ n = NameOf(p)
      BY <1>2, <1>5, <2>2, CrashConstants
    <3> QED  BY <1>1, <1>3, <1>5, <2>2, <3>1
  <2> QED  BY <2>1, <2>2
<1>6. UNCHANGED startVars
  BY DEF Hook, PanicStarts, Open, Write, WriteFails
<1>7. ASSUME NEW s \in Starters PROVE \A q \in Panics : NameOf(q) = starter[s].newest => NameOf(q)' = NameOf(q)
  BY <1>1, <1>7 DEF CrashTypeOK, Start
<1>8. StartersInv'
  BY <1>1, <1>6, <1>7 DEF StartersInv, GoodStart, startVars
<1> QED  BY <1>4, <1>5, <1>8 DEF FilesInv

\* A start leaves the hooks alone; it takes files away, from under a thread
\* that may have them open, and makes none.
LEMMA StartTakesAway ==
    ASSUME CrashInv, NEW s \in Starters, TakePending(s) \/ StarterKilled(s)
    PROVE  /\ UNCHANGED hookVars
           /\ \A n \in Name : file'[n] \in {file[n], Missing}
           /\ \A p \in Panics : /\ target'[p] # NoFile => target[p] # NoFile
                                /\ target'[p] \in Name => target'[p] = target[p]
<1> USE Places DEF CrashInv, CrashTypeOK, Become, fileVars
<1>1. ASSUME NEW n \in Name, Removed(n) \/ NotRemoved
      PROVE  /\ \A m \in Name : file'[m] \in {file[m], Missing}
             /\ \A p \in Panics : /\ target'[p] # NoFile => target[p] # NoFile
                                  /\ target'[p] \in Name => target'[p] = target[p]
  BY <1>1 DEF Removed, NotRemoved
<1>2. starter[s].newest \in Name /\ starter[s].stale \subseteq Name
  BY DEF Start
<1>3. CASE List(s) \/ Read(s) \/ MoveFails(s) \/ Surface(s) \/ StarterKilled(s)
  BY <1>3 DEF List, Read, MoveFails, Surface, StarterKilled
<1>4. CASE ClearStale(s)
  BY <1>1, <1>2, <1>4 DEF ClearStale, Earliest
<1>5. CASE ClearLast(s)
  BY <1>5 DEF ClearLast, NotRemoved, WithoutLast
<1>6. CASE Move(s)
  BY <1>2, <1>6 DEF Move, WithoutLast
<1>7. CASE Drop(s)
  <2>1. Removed(starter[s].newest) \/ UNCHANGED <<file, target>>
    BY <1>7 DEF Drop
  <2>2. UNCHANGED hookVars
    BY <1>7 DEF Drop
  <2> QED  BY <1>1, <1>2, <2>1, <2>2
<1> QED  BY <1>3, <1>4, <1>5, <1>6, <1>7 DEF TakePending

\* What becomes of the record of one start, and of no other.
LEMMA StartBecomes ==
    ASSUME CrashInv, NEW s \in Starters, TakePending(s) \/ StarterKilled(s)
    PROVE  /\ mishaps \subseteq mishaps'
           /\ \A o \in Starters \ {s} : starter'[o] = starter[o]
           /\ LET was == starter[s]
                  now == starter'[s]
              IN  \/ List(s) /\ \E n \in Newest : now = [Idle EXCEPT !.pc = "reading", !.newest = n,
                                                                    !.stale = Pending \ {n}]
                  \/ Read(s) /\ now.pc = "clearing" /\ now.newest = was.newest /\ now.stale = was.stale
                             /\ (now.report = was.report
                                   \/ (file[was.newest] \in Panics /\ now.report = file[was.newest])
                                   \/ now.report = Torn)
                  \/ ClearStale(s) /\ now.pc = "clearing" /\ now.newest = was.newest
                                   /\ now.stale \subseteq was.stale /\ now.report = was.report
                  \/ ClearLast(s) /\ now = [was EXCEPT !.pc = "moving"]
                  \/ Move(s) /\ now = [was EXCEPT !.pc = "surfacing"]
                  \/ MoveFails(s) /\ now = [was EXCEPT !.pc = "dropping"]
                                  /\ <<"rename", was.report>> \in mishaps'
                  \/ Drop(s) /\ now = [was EXCEPT !.pc = "surfacing"]
                  \/ Surface(s) /\ now = Idle
                  \/ StarterKilled(s) /\ now = Idle
<1> USE DEF CrashInv, CrashTypeOK, Become, Start, In
<1>0. starter \in [Starters -> Start] /\ starter[s] \in Start
  OBVIOUS
<1>1. ASSUME NEW n \in Name, Removed(n) \/ NotRemoved PROVE mishaps \subseteq mishaps'
  BY <1>1 DEF Removed, NotRemoved, Fails
<1>2. starter[s].newest \in Name /\ starter[s].stale \subseteq Name
  OBVIOUS
<1>3. CASE List(s)
  <2>1. PICK n \in Newest : Become(s, [Idle EXCEPT !.pc = "reading", !.newest = n,
                                                  !.stale = Pending \ {n}])
    BY <1>3 DEF List
  <2>2. /\ starter'[s] = [Idle EXCEPT !.pc = "reading", !.newest = n, !.stale = Pending \ {n}]
        /\ \A o \in Starters \ {s} : starter'[o] = starter[o]
    BY ONLY <1>0, <2>1, s \in Starters DEF Become
  <2>3. mishaps' = mishaps
    BY <1>3 DEF List
  <2> QED  BY <1>3, <2>2, <2>3
<1>4. CASE Read(s)
  <2> DEFINE there == file[starter[s].newest]
  <2>1. /\ \/ Become(s, [starter[s] EXCEPT !.pc = "clearing",
                                          !.report = IF there \in Panics THEN there ELSE Torn])
           \/ Become(s, [starter[s] EXCEPT !.pc = "clearing"])
        /\ mishaps \subseteq mishaps'
    BY <1>4 DEF Read, Fails
  <2>2. /\ \A o \in Starters \ {s} : starter'[o] = starter[o]
        /\ \/ starter'[s] = [starter[s] EXCEPT !.pc = "clearing",
                                              !.report = IF there \in Panics THEN there ELSE Torn]
           \/ starter'[s] = [starter[s] EXCEPT !.pc = "clearing"]
    BY ONLY <1>0, <2>1, s \in Starters DEF Become
  <2>3. /\ starter'[s].pc = "clearing"
        /\ starter'[s].newest = starter[s].newest
        /\ starter'[s].stale = starter[s].stale
        /\ \/ starter'[s].report = starter[s].report
           \/ starter'[s].report = IF there \in Panics THEN there ELSE Torn
    BY <1>0, <2>2
  <2> QED  BY <1>4, <2>1, <2>2, <2>3
<1>5. CASE ClearStale(s)
  <2>1. PICK n \in starter[s].stale : /\ Become(s, [starter[s] EXCEPT !.stale = @ \ {n}])
                                      /\ Removed(n) \/ NotRemoved
    BY <1>5 DEF ClearStale, Earliest
  <2>2. /\ starter'[s] = [starter[s] EXCEPT !.stale = @ \ {n}]
        /\ \A o \in Starters \ {s} : starter'[o] = starter[o]
    BY ONLY <1>0, <2>1, s \in Starters DEF Become
  <2>3. starter[s].pc = "clearing"
    BY <1>5 DEF ClearStale
  <2>4. /\ starter'[s].pc = "clearing"
        /\ starter'[s].newest = starter[s].newest
        /\ starter'[s].stale \subseteq starter[s].stale
        /\ starter'[s].report = starter[s].report
    BY <1>0, <2>2, <2>3
  <2> QED  BY <1>1, <1>2, <1>5, <2>1, <2>2, <2>4
<1>6. CASE ClearLast(s)
  BY <1>0, <1>6 DEF ClearLast, NotRemoved, Fails
<1>7. CASE Move(s)
  BY <1>0, <1>7 DEF Move
<1>8. CASE MoveFails(s)
  BY <1>0, <1>8 DEF MoveFails, Fails
<1>9. CASE Drop(s)
  <2>1. mishaps \subseteq mishaps'
    BY <1>9 DEF Drop, Removed, Fails
  <2> QED  BY <1>0, <1>9, <2>1 DEF Drop
<1>10. CASE Surface(s)
  BY <1>0, <1>10 DEF Surface
<1>11. CASE StarterKilled(s)
  BY <1>0, <1>11 DEF StarterKilled, Fails
<1> QED  BY <1>3, <1>4, <1>5, <1>6, <1>7, <1>8, <1>9, <1>10, <1>11 DEF TakePending

LEMMA StartKeepsInv ==
    ASSUME CrashInv, NEW s \in Starters, TakePending(s) \/ StarterKilled(s)
    PROVE  HooksInv' /\ FilesInv' /\ StartersInv'
<1> DEFINE was == starter[s]
           now == starter'[s]
<1>0. CrashTypeOK /\ HooksInv /\ FilesInv /\ StartersInv /\ was \in Start
  BY DEF CrashInv, CrashTypeOK
<1>1. /\ hook' = hook /\ stamp' = stamp
      /\ \A p \in Panics : NameOf(p)' = NameOf(p)
  BY StartTakesAway DEF hookVars, NameOf
<1>2. HooksInv'
  <2>1. ASSUME NEW p \in Panics
        PROVE  /\ target'[p] # NoFile => target[p] # NoFile
               /\ target'[p] \in Name => target'[p] = target[p]
    BY StartTakesAway
  <2> QED  BY <1>0, <1>1, <2>1 DEF HooksInv, NameOf
<1>3. FilesInv'
  <2>1. \A n \in Name : file'[n] \in {file[n], Missing}
    BY StartTakesAway
  <2> QED  BY <1>0, <1>1, <2>1, CrashConstants DEF FilesInv
<1>4. mishaps \subseteq mishaps' /\ \A o \in Starters \ {s} : starter'[o] = starter[o]
  BY StartBecomes
<1>5. \A st : GoodStart(st) => GoodStart(st)'
  BY <1>1, <1>4 DEF GoodStart, NameOf
<1> DEFINE good == GoodStart(starter[s])'
<1>6. ASSUME good PROVE StartersInv'
  BY <1>0, <1>4, <1>5, <1>6 DEF StartersInv
<1>7. GoodStart(was)
  BY <1>0 DEF StartersInv
<1>8. good
  <2>6. CASE now = Idle
    <3>1. now.pc = "idle" /\ now.stale = {} /\ now.report = Torn
      BY <2>6 DEF Idle
    <3> QED  BY <3>1, CrashConstants DEF GoodStart, NameOf
  <2>7. CASE List(s) /\ \E n \in Newest : now = [Idle EXCEPT !.pc = "reading", !.newest = n,
                                                           !.stale = Pending \ {n}]
    <3>1. PICK n \in Newest : now = [Idle EXCEPT !.pc = "reading", !.newest = n, !.stale = Pending \ {n}]
      BY <2>7
    <3>2. /\ now.pc = "reading" /\ now.newest = n /\ now.stale = Pending \ {n} /\ now.report = Torn
      BY <3>1 DEF Idle
    <3>3. n \in Pending /\ \A m \in Pending : m[1] <= n[1]
      BY DEF Newest, Latest
    <3>4. \E q \in Panics : NameOf(q)' = n
      BY <1>0, <1>1, <3>3 DEF FilesInv, Pending
    <3> QED  BY <3>2, <3>3, <3>4, CrashConstants DEF GoodStart
  <2>8. CASE Read(s) /\ now.pc = "clearing" /\ now.newest = was.newest /\ now.stale = was.stale
                     /\ \/ now.report = was.report
                        \/ file[was.newest] \in Panics /\ now.report = file[was.newest]
                        \/ now.report = Torn
    <3>1. was.pc = "reading" /\ was.newest \in Name
      BY <1>0, <2>8 DEF Read, In, Start
    <3>2. \A p \in Panics : now.report = p => hook[p] = "over" /\ NameOf(p) = now.newest
      BY <1>0, <2>8, <1>7, <3>1, CrashConstants DEF FilesInv, GoodStart
    <3> QED  BY <1>1, <2>8, <1>7, <3>1, <3>2 DEF GoodStart, NameOf
  <2>9. CASE ClearStale(s) /\ now.pc = "clearing" /\ now.newest = was.newest
                           /\ now.stale \subseteq was.stale /\ now.report = was.report
    <3>1. was.pc = "clearing"
      BY <2>9 DEF ClearStale, In
    <3> QED  BY <1>1, <2>9, <1>7, <3>1 DEF GoodStart, NameOf
  <2>10. ASSUME NEW to \in {"moving", "surfacing"}, now = [was EXCEPT !.pc = to], was.pc # "idle"
         PROVE  good
    <3>1. /\ now.pc = to /\ now.newest = was.newest /\ now.stale = was.stale
          /\ now.report = was.report
      BY <1>0, <2>10 DEF Start
    <3> QED  BY <1>1, <2>10, <1>7, <3>1 DEF GoodStart, NameOf
  <2>11. CASE /\ MoveFails(s) /\ now = [was EXCEPT !.pc = "dropping"]
              /\ <<"rename", was.report>> \in mishaps'
    <3>1. was.pc = "moving"
      BY <2>11 DEF MoveFails, In
    <3>2. /\ now.pc = "dropping" /\ now.newest = was.newest /\ now.stale = was.stale
          /\ now.report = was.report
      BY <1>0, <2>11 DEF Start
    <3> QED  BY <1>1, <2>11, <1>7, <3>1, <3>2 DEF GoodStart, NameOf
  <2>12. ASSUME ClearLast(s) \/ Move(s) \/ Drop(s) PROVE was.pc # "idle"
    BY <2>12 DEF ClearLast, Move, Drop, In
  <2> HIDE DEF good
  <2> QED  BY <2>6, <2>7, <2>8, <2>9, <2>10, <2>11, <2>12, StartBecomes
<1> QED  BY <1>2, <1>3, <1>6, <1>8

LEMMA QuietKeepsInv ==
    ASSUME CrashInv, (\E q \in Processes : Exit(q)) \/ SetClock \/ UNCHANGED crashVars
    PROVE  HooksInv' /\ FilesInv' /\ StartersInv'
<1>0. HooksInv /\ FilesInv /\ StartersInv
  BY DEF CrashInv
<1>1. UNCHANGED <<stamp, file, starter, mishaps>>
  BY DEF Exit, SetClock, crashVars, hookVars, fileVars, startVars
<1>2. ASSUME NEW p \in Panics
      PROVE  /\ hook'[p] \in {hook[p], "over"}
             /\ target'[p] \in {target[p], NoFile}
             /\ hook'[p] # hook[p] => target'[p] = NoFile
  BY <1>2 DEF Exit, SetClock, crashVars, hookVars, fileVars
<1>3. HooksInv'
  BY <1>0, <1>1, <1>2, Places DEF HooksInv, NameOf
<1>4. FilesInv'
  BY <1>0, <1>1, <1>2 DEF FilesInv, NameOf
<1>5. StartersInv'
  BY <1>0, <1>1, <1>2 DEF StartersInv, GoodStart, NameOf
<1> QED  BY <1>3, <1>4, <1>5

LEMMA NextCrashInv == CrashInv /\ [CrashNext]_crashVars => CrashInv'
<1> SUFFICES ASSUME CrashInv, [CrashNext]_crashVars PROVE CrashInv'
  OBVIOUS
<1>1. CrashTypeOK'
  BY NextCrashType
<1>2. HooksInv' /\ FilesInv' /\ StartersInv'
  BY HooksStep, HookKeepsInv, StartKeepsInv, QuietKeepsInv DEF CrashNext
<1> QED  BY <1>1, <1>2 DEF CrashInv

LEMMA CrashInvHolds == CrashSpec => []CrashInv
BY InitCrashInv, NextCrashInv, PTL DEF CrashSpec

(* The crash reports keep their types, with any number of starts at once:  *)
(* a thread has its own file open, what has become of it, or none.         *)
THEOREM CrashTypeCorrect == CrashSpec => []CrashTypeOK
<1>1. CrashInv => CrashTypeOK
  BY DEF CrashInv
<1> QED  BY <1>1, CrashInvHolds, PTL

-----------------------------------------------------------------------------
(* Once per crash, when starts follow one another. *)

\* The report of p is nowhere a start would find it, and will not be again.
Taken(p) == hook[p] = "over" /\ \A n \in Name : file[n] # p

\* It could neither be moved nor removed.
Stuck(p) == {<<"rename", p>>, <<"drop", p>>} \subseteq mishaps

OnceInv ==
    \A p \in Panics :
       \/ Stuck(p)
       \/ /\ banners[p] > 0 => banners[p] = 1 /\ Taken(p)
          /\ \A s \in Starters :
                starter[s].report = p => /\ banners[p] = 0
                                         /\ starter[s].pc = "surfacing" => Taken(p)

LEMMA InitOnce == CrashInit => OnceInv
BY IdleType, CrashConstants DEF CrashInit, OnceInv

\* What has been taken stays so: a report is written once.
LEMMA TakenStays ==
    ASSUME CrashInv, [CrashNext]_crashVars, NEW p \in Panics, Taken(p)
    PROVE  Taken(p)'
<1>1. hook'[p] = "over"
  BY OwnersStay DEF CrashNext, Taken
<1>2. ASSUME NEW n \in Name PROVE file'[n] # p
  <2>1. CASE \E s \in Starters : TakePending(s) \/ StarterKilled(s)
    BY <2>1, StartTakesAway, CrashConstants DEF Taken
  <2>2. ASSUME NEW q \in Panics, Hook(q) PROVE file'[n] # p
    <3>1. q # p \/ file'[n] = file[n]
      BY <2>2 DEF Hook, PanicStarts, Open, Write, WriteFails, InHook, Taken, fileVars
    <3>2. file'[n] \in {file[n], q, Torn}
      BY <2>2, CrashConstants
         DEF Hook, PanicStarts, Open, Write, Mixed, WriteFails, fileVars, CrashInv, CrashTypeOK
    <3> QED  BY <3>1, <3>2, CrashConstants DEF Taken
  <2>3. CASE (\E q \in Processes : Exit(q)) \/ SetClock \/ UNCHANGED crashVars
    BY <2>3 DEF Exit, SetClock, crashVars, fileVars, Taken
  <2> QED  BY <2>1, <2>2, <2>3 DEF CrashNext
<1> QED  BY <1>1, <1>2 DEF Taken

\* With the only start there is: what it holds is not surfaced yet, and is
\* taken from the files before it is.
LEMMA StartOnce ==
    ASSUME CrashInv, OnceInv, NEW s, Starters = {s}, TakePending(s) \/ StarterKilled(s)
    PROVE  OnceInv'
<1> DEFINE was == starter[s]
           now == starter'[s]
<1>1. s \in Starters /\ was \in Start /\ GoodStart(was)
  BY DEF CrashInv, CrashTypeOK, StartersInv
<1>2. \A p \in Panics : Stuck(p) => Stuck(p)'
  BY <1>1, StartBecomes DEF Stuck
<1>3. SUFFICES ASSUME NEW p \in Panics, ~Stuck(p)'
               PROVE  /\ banners'[p] > 0 => banners'[p] = 1 /\ Taken(p)'
                      /\ now.report = p => /\ banners'[p] = 0
                                           /\ now.pc = "surfacing" => Taken(p)'
  BY <1>1 DEF OnceInv
<1>4. /\ banners[p] > 0 => banners[p] = 1 /\ Taken(p)
      /\ was.report = p => banners[p] = 0 /\ (was.pc = "surfacing" => Taken(p))
  BY <1>1, <1>2, <1>3 DEF OnceInv
<1>5. Taken(p) => Taken(p)'
  BY <1>1, TakenStays DEF CrashNext
<1>6. banners[p] \in 0 .. 2 /\ p # Torn
  BY CrashConstants DEF CrashInv, CrashTypeOK
<1>7. /\ ~Surface(s) \/ was.report # p => banners'[p] = banners[p]
      /\ Surface(s) /\ was.report = p => banners'[p] = 1
  <2>1. CASE Surface(s)
    BY <1>1, <1>4, <1>6, <2>1, CrashConstants DEF Surface, CrashInv, CrashTypeOK, Start
  <2>2. CASE ~Surface(s)
    BY <2>2 DEF TakePending, List, Read, ClearStale, ClearLast, Move, MoveFails, Drop, StarterKilled
  <2> QED  BY <2>1, <2>2
<1>8. ASSUME now.report = p
      PROVE  banners'[p] = 0 /\ (now.pc = "surfacing" => Taken(p)')
  <2>1. CASE was.report = p
    <3>1. banners'[p] = 0
      <4>1. ~Surface(s)
        BY <1>1, <1>6, <1>8, StartBecomes, IdleType DEF Surface, Become, CrashInv, CrashTypeOK
      <4> QED  BY <1>4, <1>7, <2>1, <4>1
    <3>2. hook'[p] = "over" /\ NameOf(p) = was.newest
      BY <1>1, <2>1, StartTakesAway DEF GoodStart, hookVars
    <3>3. \A n \in Name : file[n] = p => n = was.newest
      BY <3>2 DEF CrashInv, FilesInv
    <3>4. ASSUME file'[was.newest] = Missing PROVE Taken(p)'
      <4>1. \A n \in Name : file'[n] # p
        BY <1>1, <3>3, <3>4, StartTakesAway, CrashConstants
      <4> QED  BY <3>2, <4>1 DEF Taken
    <3>5. now.pc = "surfacing" => Move(s) \/ Drop(s)
      BY <1>1, <1>6, <1>8, StartBecomes, IdleType DEF Start, Idle
    <3>6. ASSUME Move(s) \/ Drop(s) PROVE file'[was.newest] = Missing
      <4>1. was.newest \in Name /\ file \in [Name -> Content]
        BY <1>1 DEF Start, CrashInv, CrashTypeOK
      <4>2. CASE Move(s)
        BY <4>1, <4>2 DEF Move
      <4>3. CASE Drop(s)
        <5>1. <<"rename", p>> \in mishaps
          BY <1>1, <2>1, <4>3 DEF Drop, In, GoodStart
        <5>2. Removed(was.newest) => file'[was.newest] = Missing
          BY <4>1 DEF Removed
        <5>3. ~Fails("drop", was.report)
          BY <1>3, <2>1, <5>1 DEF Fails, Stuck
        <5> QED  BY <4>3, <5>2, <5>3 DEF Drop
      <4> QED  BY <3>6, <4>2, <4>3
    <3> QED  BY <3>1, <3>4, <3>5, <3>6
  <2>2. CASE was.report # p
    <3>1. Read(s) /\ now.pc = "clearing" /\ file[was.newest] = p
      BY <1>1, <1>6, <1>8, <2>2, StartBecomes, IdleType DEF Start, Idle
    <3>2. ~Taken(p)
      BY <1>1, <3>1 DEF Taken, Start
    <3>3. banners[p] = 0
      BY <1>4, <1>6, <3>2
    <3>4. banners' = banners
      BY <3>1 DEF Read
    <3> QED  BY <3>1, <3>3, <3>4
  <2> QED  BY <2>1, <2>2
<1>9. banners'[p] > 0 => banners'[p] = 1 /\ Taken(p)'
  <2>1. CASE Surface(s) /\ was.report = p
    <3>1. Taken(p)
      BY <1>4, <2>1 DEF Surface, In
    <3> QED  BY <1>5, <1>7, <2>1, <3>1
  <2>2. CASE ~(Surface(s) /\ was.report = p)
    BY <1>4, <1>5, <1>7, <2>2
  <2> QED  BY <2>1, <2>2
<1> QED  BY <1>8, <1>9

LEMMA NextOnce ==
    ASSUME NEW s, Starters = {s}
    PROVE  CrashInv /\ OnceInv /\ [CrashNext]_crashVars => OnceInv'
<1> SUFFICES ASSUME CrashInv, OnceInv, [CrashNext]_crashVars PROVE OnceInv'
  OBVIOUS
<1>1. CASE \E o \in Starters : TakePending(o) \/ StarterKilled(o)
  BY <1>1, StartOnce
<1>2. CASE UNCHANGED startVars
  <2>1. \A p \in Panics : Taken(p) => Taken(p)'
    BY TakenStays
  <2> QED  BY <1>2, <2>1 DEF OnceInv, Stuck, startVars
<1>3. ASSUME NEW p \in Panics, Hook(p) PROVE UNCHANGED startVars
  BY <1>3 DEF Hook, PanicStarts, Open, Write, WriteFails
<1>4. ASSUME (\E q \in Processes : Exit(q)) \/ SetClock \/ UNCHANGED crashVars
      PROVE  UNCHANGED startVars
  BY <1>4 DEF Exit, SetClock, crashVars
<1> QED  BY <1>1, <1>2, <1>3, <1>4 DEF CrashNext

(* When starts follow one another no crash is surfaced twice, whatever     *)
(* they are killed in and whatever else panics meanwhile, unless neither   *)
(* the move nor the removal of its file worked.  Starts that overlap do    *)
(* surface one twice, which is why there is one starter here.              *)
THEOREM OncePerCrash ==
    ASSUME NEW s, Starters = {s}
    PROVE  CrashSpec => []SurfacedOnce
<1>1. CrashInv /\ OnceInv => SurfacedOnce
  BY DEF CrashInv, CrashTypeOK, OnceInv, Stuck, SurfacedOnce
<1>2. CrashInv /\ OnceInv /\ [CrashNext]_crashVars => OnceInv'
  BY NextOnce
<1> QED  BY <1>1, <1>2, InitOnce, CrashInvHolds, PTL DEF CrashSpec

-----------------------------------------------------------------------------
(* The latest report is kept. *)

\* Why the report of the latest panic may be lost after all.
Excused == \/ \E p \in Panics \ {latest} : stamp[p] >= stamp[latest]
           \/ \E what \in {"read", "surface"} : <<what, latest>> \in mishaps

\* Where it is otherwise: pending, with every start yet to read it or having
\* read it; held by a start that has taken its file; or surfaced.
StillPending ==
    /\ file[NameOf(latest)] = latest
    /\ \A s \in Starters :
          starter[s].newest = NameOf(latest) /\ starter[s].pc \notin {"idle", "reading"}
              => starter[s].report = latest

Held == \E s \in Starters : starter[s].pc = "surfacing" /\ starter[s].report = latest

Kept == hook[latest] = "over" /\ (StillPending \/ Held \/ banners[latest] > 0)

KeptInv == /\ latest \in Panics => stamp[latest] # 0
           /\ saved => latest \in Panics /\ (Excused \/ Kept)

LEMMA InitKept == CrashInit => KeptInv
BY CrashConstants DEF CrashInit, KeptInv

\* A name is that of the latest panic only, unless that is excused.
LEMMA OwnName ==
    ASSUME ~Excused, NEW p \in Panics, NameOf(p) = NameOf(latest), CrashTypeOK
    PROVE  p = latest
<1>1. stamp[p] = stamp[latest]
  BY DEF NameOf
<1>2. stamp[p] \in Nat
  BY DEF CrashTypeOK
<1> QED  BY <1>1, <1>2 DEF Excused

\* An excuse stays one as long as there is no later panic.
LEMMA ExcuseStays ==
    ASSUME CrashInv, [CrashNext]_crashVars, latest' = latest, latest \in Panics, Excused,
           stamp[latest] # 0
    PROVE  Excused'
<1>1. \A p \in Panics : stamp[p] # 0 => stamp'[p] = stamp[p]
  BY OwnersStay DEF CrashNext
<1>2. mishaps \subseteq mishaps'
  BY StartBecomes DEF CrashNext, Hook, PanicStarts, Open, Write, WriteFails, Exit, SetClock,
                      crashVars, startVars
<1>3. \A p \in Panics : stamp[p] \in Nat
  BY DEF CrashInv, CrashTypeOK
<1>4. \A p \in Panics : stamp[p] >= stamp[latest] => stamp[p] # 0
  BY <1>3
<1> QED  BY <1>1, <1>2, <1>4 DEF Excused

LEMMA HookKept ==
    ASSUME CrashInv, KeptInv, NEW p \in Panics, Hook(p)
    PROVE  KeptInv'
<1>0. CrashTypeOK /\ HooksInv /\ FilesInv /\ StartersInv
  BY DEF CrashInv
<1>1. CASE PanicStarts(p)
  BY <1>0, <1>1, CrashConstants DEF PanicStarts, KeptInv, CrashTypeOK, Time
<1>2. CASE ~PanicStarts(p)
  <2>1. UNCHANGED <<stamp, latest, startVars>>
    BY <1>2 DEF Hook, Open, Write, WriteFails
  <2>2. \A q \in Panics : NameOf(q)' = NameOf(q)
    BY <2>1 DEF NameOf
  <2>3. Excused' <=> Excused
    BY <2>1 DEF Excused, startVars
  <2>4. (latest \in Panics => stamp[latest] # 0)'
    BY <2>1 DEF KeptInv
  <2>5. saved' => saved \/ latest = p
    BY <1>2 DEF Hook, Open, Write, WriteFails
  <2>6. ASSUME saved', ~Excused PROVE Kept'
    <3>1. CASE Write(p) /\ latest = p /\ target[p] \in Name
      <4>1. target[p] = NameOf(p) /\ file \in [Name -> Content] /\ hook'[p] = "over"
        BY <1>0, <3>1 DEF HooksInv, CrashTypeOK, Write, InHook
      <4>2. file'[NameOf(p)] = p /\ ~Seen(NameOf(p))
        BY <2>6, <3>1, <4>1, Places DEF Write
      <4>3. \A s \in Starters : starter[s].newest = NameOf(p) => starter[s].pc \in {"idle", "reading"}
        BY <4>2 DEF Seen
      <4>4. StillPending'
        BY <2>1, <2>2, <3>1, <4>2, <4>3 DEF StillPending, startVars
      <4> QED  BY <2>1, <3>1, <4>1, <4>4 DEF Kept
    <3>2. CASE ~(Write(p) /\ latest = p /\ target[p] \in Name)
      <4>1. saved
        BY <1>2, <2>6, <3>2 DEF Hook, Open, Write, WriteFails
      <4>2. latest \in Panics /\ stamp[latest] # 0 /\ Kept /\ p # latest
        BY <1>2, <2>6, <4>1 DEF KeptInv, Kept, Hook, Open, Write, WriteFails, InHook
      <4>3. hook'[latest] = "over"
        BY <2>1, <4>2, OwnersStay DEF Kept
      <4>4. NameOf(p) # NameOf(latest)
        BY <1>0, <2>6, <4>2, OwnName
      <4>5. CASE StillPending
        <5>1. NameOf(latest) \in Name
          BY <1>0, <4>2, NameType
        <5>2. file'[NameOf(latest)] = file[NameOf(latest)]
          BY <1>0, <1>2, <4>4, <5>1 DEF Hook, Open, Write, WriteFails, HooksInv, CrashTypeOK
        <5> QED  BY <2>1, <2>2, <4>2, <4>3, <4>5, <5>2 DEF StillPending, Kept, startVars
      <4>6. CASE Held
        BY <2>1, <4>3, <4>6 DEF Held, Kept, startVars
      <4>7. CASE banners[latest] > 0
        BY <2>1, <4>3, <4>7 DEF Kept, startVars
      <4> QED  BY <4>2, <4>5, <4>6, <4>7 DEF Kept
    <3> QED  BY <3>1, <3>2
  <2>7. saved' => latest \in Panics
    BY <2>5 DEF KeptInv
  <2> QED  BY <2>1, <2>3, <2>4, <2>6, <2>7, Zenon DEF KeptInv
<1> QED  BY <1>1, <1>2

\* The only start there is loses no report: those it clears are older than the
\* one it surfaces, and it gives that up only when it has read it.
LEMMA StartKept ==
    ASSUME CrashInv, KeptInv, NEW s, Starters = {s}, TakePending(s) \/ StarterKilled(s)
    PROVE  KeptInv'
<1> DEFINE was == starter[s]
           now == starter'[s]
           name == NameOf(latest)
<1>1. UNCHANGED <<hook, stamp, latest, saved>> /\ NameOf(latest)' = name
  BY StartTakesAway DEF hookVars, NameOf
<1>2. SUFFICES ASSUME saved, latest \in Panics, Kept, ~Excused, ~Excused'
               PROVE  Kept'
  <2>1. Excused => Excused'
    BY <1>1, StartBecomes DEF Excused
  <2>2. (latest \in Panics => stamp[latest] # 0)'
    BY <1>1 DEF KeptInv
  <2> QED  BY <1>1, <2>1, <2>2, Zenon DEF KeptInv
<1>3. /\ CrashTypeOK /\ HooksInv /\ FilesInv /\ GoodStart(was)
      /\ s \in Starters /\ was \in Start
  BY DEF CrashInv, StartersInv, CrashTypeOK
<1>4. hook'[latest] = "over" /\ stamp[latest] # 0
  BY <1>1, <1>2 DEF Kept, KeptInv
<1>5. /\ name \in Name
      /\ \A what \in {"read", "surface"} : <<what, latest>> \notin mishaps'
  BY <1>1, <1>2, <1>3, <1>4, NameType DEF Excused
<1>6. CASE banners[latest] > 0
  <2>1. banners'[latest] > 0
    <3>1. CASE Surface(s)
      <4>1. banners \in [Panics -> 0 .. 2] /\ was.report \in Panics \cup {Torn}
        BY <1>3 DEF CrashTypeOK, Start
      <4>2. banners' = banners \/ \E r \in Panics : banners' = [banners EXCEPT ![r] = @ + 1]
        BY <3>1, <4>1 DEF Surface
      <4> QED  BY <1>2, <1>6, <4>1, <4>2
    <3>2. CASE ~Surface(s)
      BY <1>6, <3>2
         DEF TakePending, List, Read, ClearStale, ClearLast, Move, MoveFails, Drop, StarterKilled
    <3> QED  BY <3>1, <3>2
  <2> QED  BY <1>1, <1>4, <2>1 DEF Kept
<1>7. CASE Held
  <2>1. was.pc = "surfacing" /\ was.report = latest
    BY <1>3, <1>7 DEF Held
  <2>2. CASE Surface(s)
    <3>1. banners'[latest] > 0
      BY <1>2, <1>3, <2>1, <2>2, CrashConstants DEF Surface, CrashTypeOK
    <3> QED  BY <1>1, <1>4, <3>1 DEF Kept
  <2>3. ~StarterKilled(s)
    BY <1>5, <2>1 DEF StarterKilled, In, Fails
  <2> QED
    BY <1>2, <2>1, <2>2, <2>3
       DEF TakePending, List, Read, ClearStale, ClearLast, Move, MoveFails, Drop, In
<1>8. CASE StillPending
  <2>1. file[name] = latest
    BY <1>8 DEF StillPending
  <2>2. was.newest = name /\ was.pc \notin {"idle", "reading"} => was.report = latest
    BY <1>3, <1>8 DEF StillPending
  <2>3. ASSUME file'[name] = latest,
               now.newest = name /\ now.pc \notin {"idle", "reading"} => now.report = latest
        PROVE  Kept'
    <3>1. StillPending'
      BY <1>1, <1>3, <2>3 DEF StillPending
    <3> QED  BY <1>1, <1>4, <3>1 DEF Kept
  <2>4. ASSUME now.pc = "surfacing", now.newest = was.newest, now.report = was.report,
               was.pc \notin {"idle", "reading"},
               \A n \in Name \ {was.newest} : file'[n] = file[n]
        PROVE  Kept'
    <3>1. CASE was.newest = name
      <4>1. Held'
        BY <1>1, <1>3, <2>2, <2>4, <3>1 DEF Held
      <4> QED  BY <1>1, <1>4, <4>1 DEF Kept
    <3>2. CASE was.newest # name
      BY <1>5, <2>1, <2>3, <2>4, <3>2
    <3> QED  BY <3>1, <3>2
  <2>5. CASE /\ ClearStale(s) /\ now.pc = "clearing" /\ now.newest = was.newest
             /\ now.report = was.report
    <3>1. was.pc = "clearing"
      BY <2>5 DEF ClearStale, In
    <3>2. PICK n \in was.stale : Removed(n) \/ NotRemoved
      BY <2>5 DEF ClearStale, Earliest
    <3>3. n # name
      <4>1. SUFFICES ASSUME n = name PROVE FALSE
        OBVIOUS
      <4>2. PICK q \in Panics : NameOf(q) = was.newest
        BY <1>3, <3>1 DEF GoodStart
      <4>3. name # was.newest /\ name[1] <= was.newest[1]
        BY <1>3, <4>1 DEF GoodStart
      <4>4. q # latest /\ stamp[latest] <= stamp[q]
        BY <4>2, <4>3 DEF NameOf
      <4>5. stamp[q] \in Nat /\ stamp[latest] \in Nat
        BY <1>2, <1>3 DEF CrashTypeOK
      <4> QED  BY <1>2, <4>4, <4>5 DEF Excused
    <3>4. file'[name] = latest
      BY <1>3, <1>5, <2>1, <3>2, <3>3 DEF Removed, NotRemoved, CrashTypeOK
    <3> QED  BY <2>2, <2>3, <2>5, <3>1, <3>4
  <2>6. CASE (Move(s) \/ Drop(s)) /\ now = [was EXCEPT !.pc = "surfacing"]
    <3>1. /\ now.pc = "surfacing" /\ now.newest = was.newest /\ now.report = was.report
          /\ was.pc \notin {"idle", "reading"}
      BY <1>3, <2>6 DEF Move, Drop, In, Start
    <3>2. \A n \in Name \ {was.newest} : file'[n] = file[n]
      BY <1>3, <2>6 DEF Move, Drop, Removed, Start, CrashTypeOK
    <3> QED  BY <2>4, <3>1, <3>2
  <2>7. CASE List(s) \/ Surface(s) \/ StarterKilled(s)
    <3>1. now.pc \in {"idle", "reading"}
      BY <1>3, <2>7, IdleType DEF List, Surface, StarterKilled, Become, CrashTypeOK, Idle
    <3>2. file' = file
      BY <2>7 DEF List, Surface, StarterKilled, fileVars
    <3> QED  BY <2>1, <2>3, <3>1, <3>2
  <2>8. CASE Read(s) /\ now.pc = "clearing" /\ now.newest = was.newest
    <3>1. CASE was.newest = name
      <4>1. ~Fails("read", file[was.newest])
        BY <1>5, <2>1, <3>1 DEF Fails
      <4>2. Become(s, [was EXCEPT !.pc = "clearing",
                                  !.report = IF file[was.newest] \in Panics THEN file[was.newest]
                                                                           ELSE Torn])
        BY <2>8, <4>1 DEF Read
      <4>3. now.report = IF file[was.newest] \in Panics THEN file[was.newest] ELSE Torn
        BY <1>3, <4>2 DEF Become, CrashTypeOK, Start
      <4>4. file' = file
        BY <2>8 DEF Read, fileVars
      <4> QED  BY <1>2, <2>1, <2>3, <3>1, <4>3, <4>4
    <3>2. CASE was.newest # name
      <4>1. file' = file
        BY <2>8 DEF Read, fileVars
      <4> QED  BY <2>1, <2>3, <2>8, <3>2, <4>1
    <3> QED  BY <3>1, <3>2
  <2>9. CASE /\ ClearLast(s) \/ MoveFails(s)
             /\ \E to \in {"moving", "dropping"} : now = [was EXCEPT !.pc = to]
    <3>1. was.pc \in {"clearing", "moving"} /\ now.newest = was.newest /\ now.report = was.report
      BY <1>3, <2>9 DEF ClearLast, MoveFails, In, Start
    <3>2. file' = file
      BY <2>9 DEF ClearLast, MoveFails, NotRemoved, fileVars
    <3> QED  BY <2>1, <2>2, <2>3, <3>1, <3>2
  <2> QED
    BY <1>3, <2>5, <2>6, <2>7, <2>8, <2>9, StartBecomes
<1> QED  BY <1>2, <1>6, <1>7, <1>8 DEF Kept

LEMMA NextKept ==
    ASSUME NEW s, Starters = {s}
    PROVE  CrashInv /\ KeptInv /\ [CrashNext]_crashVars => KeptInv'
<1> SUFFICES ASSUME CrashInv, KeptInv, [CrashNext]_crashVars PROVE KeptInv'
  OBVIOUS
<1>1. CASE \E o \in Starters : TakePending(o) \/ StarterKilled(o)
  BY <1>1, StartKept
<1>2. CASE (\E q \in Processes : Exit(q)) \/ SetClock \/ UNCHANGED crashVars
  <2>1. /\ UNCHANGED <<stamp, latest, saved, file, lastCrash, startVars>>
        /\ \A p \in Panics : /\ hook'[p] \in {hook[p], "over"}
                             /\ target'[p] \in {target[p], NoFile}
    BY <1>2 DEF Exit, SetClock, crashVars, hookVars, fileVars
  <2>2. (latest \in Panics => stamp[latest] # 0)' /\ (Excused' <=> Excused)
    BY <2>1 DEF KeptInv, Excused, startVars
  <2>3. ASSUME latest \in Panics, Kept PROVE Kept'
    BY <2>1, <2>3, Places DEF Kept, StillPending, Held, NameOf, startVars
  <2> QED  BY <2>1, <2>2, <2>3, Zenon DEF KeptInv
<1> QED  BY <1>1, <1>2, HookKept DEF CrashNext

(* When starts follow one another the report of the latest panic, once it  *)
(* is written whole to a file that no start has read, is pending, held by  *)
(* the start that is to surface it, or surfaced, whichever files cannot be *)
(* moved or removed and whatever else panics meanwhile; unless an earlier  *)
(* panic has as late a stamp, or the start that took this very report      *)
(* could not read it or was killed between the move and the banner.        *)
THEOREM LatestReportKept ==
    ASSUME NEW s, Starters = {s}
    PROVE  CrashSpec => []LatestIsKept
<1>1. ASSUME CrashInv, KeptInv, saved PROVE LatestIsKept
  <2>1. latest \in Panics /\ (Excused \/ Kept)
    BY <1>1 DEF KeptInv
  <2>2. StillPending => NameOf(latest) \in Name
    BY <1>1, <2>1, NameType DEF CrashInv, KeptInv
  <2> QED
    BY <2>1, <2>2 DEF LatestIsKept, Excused, Kept, StillPending, Held
<1>2. CrashInv /\ KeptInv => LatestIsKept
  BY <1>1 DEF LatestIsKept
<1>3. CrashInv /\ KeptInv /\ [CrashNext]_crashVars => KeptInv'
  BY NextKept
<1> QED  BY <1>2, <1>3, InitKept, CrashInvHolds, PTL DEF CrashSpec


-----------------------------------------------------------------------------
(* The log buffer. *)

Line == 1 .. MaxLines

\* The last n elements of s, or all of it.
LastOf(s, n) == SubSeq(s, IF Len(s) > n THEN Len(s) - n + 1 ELSE 1, Len(s))

-----------------------------------------------------------------------------
(* The ring as a sequence. *)

LEMMA LastOfType ==
    ASSUME NEW S, NEW s \in Seq(S), NEW n \in Nat
    PROVE  /\ LastOf(s, n) \in Seq(S)
           /\ Len(LastOf(s, n)) = IF Len(s) > n THEN n ELSE Len(s)
           /\ \A i \in 1 .. Len(LastOf(s, n)) :
                 LastOf(s, n)[i] = IF Len(s) > n THEN s[Len(s) - n + i] ELSE s[i]
<1> DEFINE from == IF Len(s) > n THEN Len(s) - n + 1 ELSE 1
<1>1. Len(s) \in Nat
  BY LenProperties
<1>2. from \in Int /\ from >= 1
  BY <1>1
<1>3. \A i \in from .. Len(s) : s[i] \in S
  BY <1>1, <1>2, ElementOfSeq
<1>4. LastOf(s, n) = SubSeq(s, from, Len(s))
  BY DEF LastOf
<1>5. /\ SubSeq(s, from, Len(s)) \in Seq(S)
      /\ Len(SubSeq(s, from, Len(s))) = IF from <= Len(s) THEN Len(s) - from + 1 ELSE 0
      /\ \A i \in 1 .. Len(s) - from + 1 : SubSeq(s, from, Len(s))[i] = s[from + i - 1]
  <2> HIDE DEF from
  <2> QED  BY <1>1, <1>2, <1>3, SubSeqProperties
<1>6. CASE Len(s) > n
  <2>1. from = Len(s) - n + 1
    BY <1>6
  <2> HIDE DEF from
  <2> QED  BY <1>1, <1>4, <1>5, <1>6, <2>1
<1>7. CASE ~(Len(s) > n)
  <2>1. from = 1
    BY <1>7
  <2> HIDE DEF from
  <2> QED  BY <1>1, <1>4, <1>5, <1>7, <2>1
<1> QED  BY <1>6, <1>7

\* The eviction: the last n + 1 elements without the first are the last n.
LEMMA EvictLast ==
    ASSUME NEW S, NEW s \in Seq(S), NEW n \in Nat
    PROVE  LastOf(s, n) = IF Len(LastOf(s, n + 1)) = n + 1
                            THEN Tail(LastOf(s, n + 1)) ELSE LastOf(s, n + 1)
<1> DEFINE a == LastOf(s, n)
           b == LastOf(s, n + 1)
<1>1. Len(s) \in Nat
  BY LenProperties
<1>2. /\ a \in Seq(S) /\ Len(a) = IF Len(s) > n THEN n ELSE Len(s)
      /\ \A i \in 1 .. Len(a) : a[i] = IF Len(s) > n THEN s[Len(s) - n + i] ELSE s[i]
  BY LastOfType
<1>3. /\ b \in Seq(S) /\ Len(b) = IF Len(s) > n + 1 THEN n + 1 ELSE Len(s)
      /\ \A i \in 1 .. Len(b) : b[i] = IF Len(s) > n + 1 THEN s[Len(s) - (n + 1) + i] ELSE s[i]
  BY LastOfType
<1> HIDE DEF a, b
<1>4. CASE Len(b) = n + 1
  <2>1. b # <<>>
    BY <1>4, EmptySeq
  <2>2. /\ Tail(b) \in Seq(S) /\ Len(Tail(b)) = Len(b) - 1
        /\ \A i \in 1 .. Len(Tail(b)) : Tail(b)[i] = b[i + 1]
    BY <1>3, <2>1, HeadTailProperties
  <2>3. Len(s) > n /\ Len(a) = n /\ Len(Tail(b)) = n
    BY <1>1, <1>2, <1>3, <1>4, <2>2
  <2>4. ASSUME NEW i \in 1 .. Len(a) PROVE a[i] = Tail(b)[i]
    <3>1. /\ a[i] = s[Len(s) - n + i]
          /\ Tail(b)[i] = b[i + 1]
          /\ i + 1 \in 1 .. Len(b)
      BY <1>2, <1>4, <2>2, <2>3
    <3>2. CASE Len(s) > n + 1
      <4>1. b[i + 1] = s[Len(s) - (n + 1) + (i + 1)]
        BY <1>3, <3>1, <3>2
      <4>2. Len(s) - (n + 1) + (i + 1) = Len(s) - n + i
        BY <1>1
      <4> QED  BY <3>1, <4>1, <4>2
    <3>3. CASE ~(Len(s) > n + 1)
      <4>1. b[i + 1] = s[i + 1]
        BY <1>3, <3>1, <3>3
      <4>2. Len(s) - n + i = i + 1
        BY <1>1, <2>3, <3>3
      <4> QED  BY <3>1, <4>1, <4>2
    <3> QED  BY <3>2, <3>3
  <2>5. a = Tail(b)
    BY <1>2, <2>2, <2>3, <2>4, SeqEqual
  <2> QED  BY <1>4, <2>5 DEF a, b
<1>5. CASE Len(b) # n + 1
  <2>1. ~(Len(s) > n) /\ Len(a) = Len(s) /\ Len(b) = Len(s)
    BY <1>1, <1>2, <1>3, <1>5
  <2>2. \A i \in 1 .. Len(a) : a[i] = b[i]
    BY <1>1, <1>2, <1>3, <2>1
  <2>3. a = b
    BY <1>2, <1>3, <2>1, <2>2, SeqEqual
  <2> QED  BY <1>5, <2>3 DEF a, b
<1> QED  BY <1>4, <1>5

\* The append: a line after the last n is the last n + 1 with that line.
LEMMA PushLast ==
    ASSUME NEW S, NEW s \in Seq(S), NEW x \in S, NEW n \in Nat
    PROVE  Append(LastOf(s, n), x) = LastOf(Append(s, x), n + 1)
<1> DEFINE a == LastOf(s, n)
           t == Append(s, x)
           b == LastOf(t, n + 1)
<1>1. Len(s) \in Nat
  BY LenProperties
<1>2. /\ a \in Seq(S) /\ Len(a) = IF Len(s) > n THEN n ELSE Len(s)
      /\ \A i \in 1 .. Len(a) : a[i] = IF Len(s) > n THEN s[Len(s) - n + i] ELSE s[i]
  BY LastOfType
<1>3. /\ t \in Seq(S) /\ Len(t) = Len(s) + 1
      /\ \A i \in 1 .. Len(s) : t[i] = s[i]
      /\ t[Len(s) + 1] = x
  BY AppendProperties
<1> HIDE DEF t
<1>4. /\ b \in Seq(S) /\ Len(b) = IF Len(t) > n + 1 THEN n + 1 ELSE Len(t)
      /\ \A i \in 1 .. Len(b) : b[i] = IF Len(t) > n + 1 THEN t[Len(t) - (n + 1) + i] ELSE t[i]
  <2>1. t \in Seq(S) /\ n + 1 \in Nat
    BY <1>3
  <2> QED  BY <2>1, LastOfType
<1> HIDE DEF a, b
<1>5. /\ Append(a, x) \in Seq(S) /\ Len(Append(a, x)) = Len(a) + 1
      /\ \A i \in 1 .. Len(a) : Append(a, x)[i] = a[i]
      /\ Append(a, x)[Len(a) + 1] = x
  BY <1>2, AppendProperties
<1>6. Len(Append(a, x)) = Len(b)
  BY <1>1, <1>2, <1>3, <1>4, <1>5
<1>7. ASSUME NEW i \in 1 .. Len(b) PROVE Append(a, x)[i] = b[i]
  <2>1. CASE Len(s) > n
    <3>1. b[i] = t[Len(s) - n + i] /\ Len(a) = n /\ Len(b) = n + 1
      <4>1. Len(t) - (n + 1) + i = Len(s) - n + i
        BY <1>1, <1>3
      <4>2. Len(t) > n + 1 /\ Len(a) = n /\ Len(b) = n + 1
        BY <1>1, <1>2, <1>3, <1>4, <2>1
      <4> QED  BY <1>4, <4>1, <4>2
    <3>2. CASE i = n + 1
      <4>1. Len(s) - n + i = Len(s) + 1
        BY <1>1, <3>2
      <4> QED  BY <1>3, <1>5, <3>1, <3>2, <4>1
    <3>3. CASE i \in 1 .. n
      <4>1. Len(s) - n + i \in 1 .. Len(s)
        BY <1>1, <2>1, <3>3
      <4> QED  BY <1>2, <1>3, <1>5, <2>1, <3>1, <3>3, <4>1
    <3> QED  BY <3>1, <3>2, <3>3
  <2>2. CASE ~(Len(s) > n)
    <3>1. b[i] = t[i] /\ Len(a) = Len(s) /\ Len(b) = Len(s) + 1
      BY <1>1, <1>2, <1>3, <1>4, <2>2
    <3>2. CASE i = Len(s) + 1
      BY <1>3, <1>5, <3>1, <3>2
    <3>3. CASE i \in 1 .. Len(s)
      BY <1>2, <1>3, <1>5, <2>2, <3>1, <3>3
    <3> QED  BY <1>1, <3>1, <3>2, <3>3
  <2> QED  BY <2>1, <2>2
<1>8. Append(a, x) = b
  BY <1>4, <1>5, <1>6, <1>7, SeqEqual
<1> QED  BY <1>8 DEF a, b, t

-----------------------------------------------------------------------------
(* The invariant. *)

\* A thread with a line to record has one.
Numbered == \A th \in Threads : at[th] \in {"recording", "evicting", "pushing"} => line[th] \in Line

\* The lock is held by the one thread that works on the ring.
Working == {"evicting", "pushing", "snapping"}
Locking == \A th \in Threads : at[th] \in Working => holder = th

\* The ring is whole while nobody holds its lock, unless a panic has cut a
\* push short; a thread that has the lock found it whole, and finds it one
\* short between the eviction and the append.
RingParts == /\ holder = Nobody /\ ~poisoned => ring = LastRecorded
             /\ \A th \in Threads : /\ at[th] \in {"evicting", "snapping"} => ring = LastRecorded
                                    /\ at[th] = "pushing" => ring = LastOf(recorded, Capacity - 1)

RingInv == LogTypeOK /\ Numbered /\ Locking /\ RingParts

LEMMA CapacityFacts == /\ Capacity \in Nat /\ Capacity - 1 \in Nat /\ (Capacity - 1) + 1 = Capacity
                       /\ MaxLines \in Nat /\ Nobody \notin Threads /\ UI \in Threads
BY LogConstants

LEMMA LastRecordedIs == LastRecorded = LastOf(recorded, Capacity)
BY DEF LastRecorded, LastOf

\* The types of the ring alone.
RingTypeOK == /\ ring \in Seq(Line) /\ Len(ring) <= Capacity
              /\ holder \in Threads \cup {Nobody}
              /\ poisoned \in BOOLEAN
              /\ recorded \in Seq(Line)
RestTypeOK == /\ at \in [Threads -> Place]
              /\ line \in [Threads -> 0 .. MaxLines]
              /\ lines \in 0 .. MaxLines
              /\ sink \in 0 .. SinkCapacity
              /\ writing \in BOOLEAN
              /\ stuck \in BOOLEAN

LEMMA TypeParts == /\ LogTypeOK <=> RingTypeOK /\ RestTypeOK
                   /\ LogTypeOK' <=> RingTypeOK' /\ RestTypeOK'
BY DEF LogTypeOK, RingTypeOK, RestTypeOK, Line

LEMMA Moved ==
    ASSUME NEW th \in Threads, NEW to \in Place, at \in [Threads -> Place],
           at' = [at EXCEPT ![th] = to]
    PROVE  /\ at' \in [Threads -> Place]
           /\ at'[th] = to
           /\ \A o \in Threads \ {th} : at'[o] = at[o]
OBVIOUS

\* A thread that goes on without touching the ring, to where it has no line
\* to record and no business with the ring, or with a line that it has.
LEMMA GoesOn ==
    ASSUME RingInv, NEW th \in Threads, NEW to \in Place \ Working,
           at' = [at EXCEPT ![th] = to], UNCHANGED ringVars,
           line' \in [Threads -> 0 .. MaxLines],
           to = "recording" => line'[th] \in Line,
           \A o \in Threads \ {th} : line'[o] = line[o]
    PROVE  RingTypeOK' /\ at' \in [Threads -> Place] /\ Numbered' /\ Locking' /\ RingParts'
<1>1. at \in [Threads -> Place] /\ RingTypeOK
  BY TypeParts DEF RingInv, RestTypeOK
<1>2. /\ at' \in [Threads -> Place] /\ at'[th] = to
      /\ \A o \in Threads \ {th} : at'[o] = at[o]
  BY <1>1, Moved
<1>3. ring' = ring /\ holder' = holder /\ poisoned' = poisoned /\ recorded' = recorded
  BY DEF ringVars
<1>4. RingTypeOK'
  BY <1>1, <1>3 DEF RingTypeOK
<1>5. Numbered'
  BY <1>2 DEF RingInv, Numbered, Working
<1>6. Locking'
  BY <1>2, <1>3 DEF RingInv, Locking
<1>7. RingParts'
  BY <1>2, <1>3 DEF RingInv, RingParts, LastRecorded, Working
<1> QED  BY <1>2, <1>4, <1>5, <1>6, <1>7

LEMMA InvInit == Init => RingInv
<1> SUFFICES ASSUME Init PROVE RingInv
  OBVIOUS
<1>1. /\ ring = <<>> /\ recorded = <<>> /\ holder = Nobody /\ poisoned = FALSE
      /\ at = [th \in Threads |-> "app"]
  BY Zenon DEF Init
<1>2. /\ ring \in Seq(Line) /\ Len(ring) = 0
      /\ recorded \in Seq(Line) /\ Len(recorded) = 0
  BY <1>1, EmptySeq, Zenon
<1>3. RingTypeOK
  <2>1. holder \in Threads \cup {Nobody} /\ poisoned \in BOOLEAN
    BY DEF Init
  <2>2. Len(ring) <= Capacity
    BY <1>2, CapacityFacts
  <2> QED  BY <1>2, <2>1, <2>2 DEF RingTypeOK
<1>4. RestTypeOK
  <2>1. "app" \in Place
    BY DEF Place
  <2>2. 0 \in 0 .. MaxLines /\ 0 \in 0 .. SinkCapacity
    BY LogConstants
  <2> QED  BY <2>1, <2>2 DEF Init, RestTypeOK
<1>5. \A th \in Threads : at[th] = "app"
  BY <1>1
<1>6. Numbered /\ Locking
  BY <1>5 DEF Numbered, Locking, Working
<1>7. RingParts
  <2>1. /\ LastOf(recorded, Capacity) \in Seq(Line)
        /\ Len(LastOf(recorded, Capacity)) = 0
    <3>1. /\ LastOf(recorded, Capacity) \in Seq(Line)
          /\ Len(LastOf(recorded, Capacity)) = IF Len(recorded) > Capacity THEN Capacity ELSE Len(recorded)
      BY <1>2, CapacityFacts, LastOfType, Zenon
    <3> QED  BY <1>2, <3>1, CapacityFacts
  <2>2. LastOf(recorded, Capacity) = ring
    BY <1>1, <2>1, EmptySeq
  <2> QED  BY <1>5, <2>2, LastRecordedIs DEF RingParts
<1> QED  BY <1>3, <1>4, <1>6, <1>7, TypeParts DEF RingInv

\* The steps that leave the ring alone: a call of log() begins, finds the lock
\* taken or hands its line on; a panic, the hook before and after the ring.
LEMMA OthersKeep ==
    ASSUME RingInv, NEW th \in Threads,
           \/ LogProblem(th) \/ LogOther(th) \/ SkipRecord(th) \/ TrySend(th)
           \/ Panic(th) \/ SkipContext(th) \/ Reported(th) \/ Complain(th)
    PROVE  RingInv'
<1>1. /\ line \in [Threads -> 0 .. MaxLines] /\ lines \in 0 .. MaxLines
      /\ at \in [Threads -> Place] /\ RestTypeOK
  BY TypeParts DEF RingInv, RestTypeOK
<1>2. UNCHANGED ringVars
  BY DEF LogProblem, LogOther, SkipRecord, TrySend, Panic, SkipContext, Reported, Complain
<1>3. CASE LogProblem(th)
  <2>1. lines + 1 \in Line /\ lines + 1 \in 0 .. MaxLines
    BY <1>1, <1>3, CapacityFacts DEF LogProblem, Line
  <2>2. /\ line' \in [Threads -> 0 .. MaxLines] /\ line'[th] \in Line
        /\ \A o \in Threads \ {th} : line'[o] = line[o]
    BY <1>1, <1>3, <2>1 DEF LogProblem
  <2>3. "recording" \in Place \ Working /\ at' = [at EXCEPT ![th] = "recording"]
    BY <1>3 DEF Place, Working, Logging, LogProblem, Goto
  <2>4. RingTypeOK' /\ at' \in [Threads -> Place] /\ Numbered' /\ Locking' /\ RingParts'
    BY <1>2, <2>2, <2>3, GoesOn
  <2>5. RestTypeOK'
    BY <1>1, <1>3, <2>1, <2>2, <2>4 DEF LogProblem, RestTypeOK, sinkVars
  <2> QED  BY <2>4, <2>5, TypeParts DEF RingInv
<1>4. CASE ~LogProblem(th)
  <2>1. line' = line /\ lines' = lines /\ writing' = writing /\ stuck' = stuck
    BY <1>4 DEF LogOther, SkipRecord, TrySend, Panic, SkipContext, Reported, Complain, sinkVars
  <2>2. PICK to \in {"sending", "app", "context", "reporting", "previous", "complaining"} :
           at' = [at EXCEPT ![th] = to]
    <3>1. \/ at' = [at EXCEPT ![th] = "sending"]
          \/ at' = [at EXCEPT ![th] = "app"]
          \/ at' = [at EXCEPT ![th] = "context"]
          \/ at' = [at EXCEPT ![th] = "reporting"]
          \/ at' = [at EXCEPT ![th] = "previous"]
          \/ at' = [at EXCEPT ![th] = "complaining"]
      BY <1>4, Zenon
      DEF LogOther, SkipRecord, TrySend, Panic, SkipContext, Reported, Complain, Goto
    <3> QED  BY <3>1, Zenon
  <2>3. to \in Place \ Working /\ to # "recording"
    BY <2>2 DEF Place, Working, Logging, Capturing
  <2>4. RingTypeOK' /\ at' \in [Threads -> Place] /\ Numbered' /\ Locking' /\ RingParts'
    BY <1>1, <1>2, <2>1, <2>2, <2>3, GoesOn
  <2>5. sink' \in 0 .. SinkCapacity
    BY <1>1, <1>4, LogConstants
    DEF RestTypeOK, LogOther, SkipRecord, TrySend, Panic, SkipContext, Reported, Complain, sinkVars
  <2>6. RestTypeOK'
    BY <1>1, <2>1, <2>4, <2>5 DEF RestTypeOK
  <2> QED  BY <2>4, <2>6, TypeParts DEF RingInv
<1> QED  BY <1>3, <1>4

\* Nobody works on the ring while its lock is free, and only one thread ever does.
LEMMA OneWorks ==
    ASSUME RingInv
    PROVE  /\ holder = Nobody => \A o \in Threads : at[o] \notin Working
           /\ \A th \in Threads : at[th] \in Working =>
                 holder = th /\ \A o \in Threads \ {th} : at[o] \notin Working
BY CapacityFacts DEF RingInv, Locking

\* The lock is taken to push a line, or for the context of a report: it is
\* free and no panic has poisoned it, so the ring is whole.
LEMMA TakesKeep ==
    ASSUME RingInv, NEW th \in Threads, Record(th) \/ LockContext(th)
    PROVE  RingInv'
<1>1. PICK to \in {"evicting", "snapping"} : /\ at' = [at EXCEPT ![th] = to]
                                             /\ to = "evicting" => at[th] = "recording"
  <2>1. \/ at' = [at EXCEPT ![th] = "evicting"] /\ at[th] = "recording"
        \/ at' = [at EXCEPT ![th] = "snapping"]
    BY DEF Record, LockContext, Goto
  <2> QED  BY <2>1
<1>2. /\ holder = Nobody /\ ~poisoned /\ holder' = th
      /\ UNCHANGED <<ring, poisoned, recorded, line, lines, sink, writing, stuck>>
  BY DEF Record, LockContext, Locked, sinkVars
<1>3. RingTypeOK /\ RestTypeOK /\ at \in [Threads -> Place] /\ to \in Place
  BY <1>1, TypeParts DEF RingInv, RestTypeOK, Place, Logging, Capturing
<1>4. /\ at' \in [Threads -> Place] /\ at'[th] = to
      /\ \A o \in Threads \ {th} : at'[o] = at[o]
  BY <1>1, <1>3, Moved
<1>5. \A o \in Threads \ {th} : at'[o] \notin Working
  BY <1>2, <1>4, OneWorks
<1>6. RingTypeOK' /\ RestTypeOK'
  BY <1>2, <1>3, <1>4 DEF RingTypeOK, RestTypeOK
<1>7. Numbered'
  BY <1>1, <1>2, <1>4 DEF RingInv, Numbered
<1>8. Locking'
  BY <1>2, <1>5 DEF Locking
<1>9. RingParts'
  <2>1. ring = LastRecorded /\ LastRecorded' = LastRecorded
    BY <1>2 DEF RingInv, RingParts, LastRecorded
  <2>2. holder' # Nobody /\ at'[th] # "pushing"
    BY <1>1, <1>2, <1>4, CapacityFacts
  <2> QED  BY <1>2, <1>5, <2>1, <2>2 DEF RingParts, Working
<1> QED  BY <1>6, <1>7, <1>8, <1>9, TypeParts DEF RingInv

\* With the lock held the ring loses its oldest line if it is full.
LEMMA EvictKeeps ==
    ASSUME RingInv, NEW th \in Threads, Evict(th)
    PROVE  RingInv'
<1>1. /\ at[th] = "evicting" /\ at' = [at EXCEPT ![th] = "pushing"]
      /\ ring' = IF Len(ring) = Capacity THEN Tail(ring) ELSE ring
      /\ UNCHANGED <<holder, poisoned, recorded, line, lines, sink, writing, stuck>>
  BY DEF Evict, Goto, sinkVars
<1>2. RingTypeOK /\ RestTypeOK /\ at \in [Threads -> Place] /\ "pushing" \in Place
  BY TypeParts DEF RingInv, RestTypeOK, Place, Logging
<1>3. /\ at' \in [Threads -> Place] /\ at'[th] = "pushing"
      /\ \A o \in Threads \ {th} : at'[o] = at[o]
  BY <1>1, <1>2, Moved
<1>4. holder = th /\ \A o \in Threads \ {th} : at'[o] \notin Working
  BY <1>1, <1>3, OneWorks DEF Working
<1>5. recorded \in Seq(Line)
  BY <1>2 DEF RingTypeOK
<1>6. ring' = LastOf(recorded, Capacity - 1)
  <2>1. ring = LastOf(recorded, Capacity)
    BY <1>1, LastRecordedIs DEF RingInv, RingParts
  <2>2. LastOf(recorded, Capacity - 1) =
          IF Len(LastOf(recorded, (Capacity - 1) + 1)) = (Capacity - 1) + 1
            THEN Tail(LastOf(recorded, (Capacity - 1) + 1))
            ELSE LastOf(recorded, (Capacity - 1) + 1)
    BY <1>5, CapacityFacts, EvictLast, Zenon
  <2>3. LastOf(recorded, Capacity - 1) =
          IF Len(LastOf(recorded, Capacity)) = Capacity
            THEN Tail(LastOf(recorded, Capacity)) ELSE LastOf(recorded, Capacity)
    BY <2>2, CapacityFacts
  <2> QED  BY <1>1, <2>1, <2>3, Zenon
<1>7. ring' \in Seq(Line) /\ Len(ring') <= Capacity
  <2> DEFINE last == LastOf(recorded, Capacity - 1)
  <2>1. /\ last \in Seq(Line)
        /\ Len(last) = IF Len(recorded) > Capacity - 1 THEN Capacity - 1 ELSE Len(recorded)
    BY <1>5, CapacityFacts, LastOfType, Zenon
  <2> HIDE DEF last
  <2>2. Len(recorded) \in Nat
    BY <1>5, LenProperties
  <2>3. last \in Seq(Line) /\ Len(last) <= Capacity
    BY <2>1, <2>2, CapacityFacts
  <2> QED  BY <1>6, <2>3 DEF last
<1>8. RingTypeOK' /\ RestTypeOK'
  BY <1>1, <1>2, <1>3, <1>7 DEF RingTypeOK, RestTypeOK
<1>9. Numbered'
  BY <1>1, <1>3 DEF RingInv, Numbered
<1>10. Locking'
  BY <1>1, <1>4 DEF Locking
<1>11. RingParts'
  <2>1. holder' # Nobody
    BY <1>1, <1>4, CapacityFacts
  <2> QED  BY <1>1, <1>3, <1>4, <1>6, <2>1 DEF RingParts, Working
<1> QED  BY <1>8, <1>9, <1>10, <1>11, TypeParts DEF RingInv

\* The line goes to the end of what the eviction left, and the lock is free.
LEMMA PushKeeps ==
    ASSUME RingInv, NEW th \in Threads, Push(th)
    PROVE  RingInv'
<1>1. /\ at[th] = "pushing" /\ at' = [at EXCEPT ![th] = "sending"]
      /\ ring' = Append(ring, line[th]) /\ recorded' = Append(recorded, line[th])
      /\ holder' = Nobody
      /\ UNCHANGED <<poisoned, line, lines, sink, writing, stuck>>
  BY DEF Push, Goto, sinkVars
<1>2. RingTypeOK /\ RestTypeOK /\ at \in [Threads -> Place] /\ "sending" \in Place
  BY TypeParts DEF RingInv, RestTypeOK, Place, Logging
<1>3. /\ at' \in [Threads -> Place] /\ at'[th] = "sending"
      /\ \A o \in Threads \ {th} : at'[o] = at[o]
  BY <1>1, <1>2, Moved
<1>4. \A o \in Threads : at'[o] \notin Working
  BY <1>1, <1>3, OneWorks DEF Working
<1>5. recorded \in Seq(Line) /\ line[th] \in Line
  BY <1>1, <1>2 DEF RingTypeOK, RingInv, Numbered
<1>6. ring = LastOf(recorded, Capacity - 1)
  BY <1>1 DEF RingInv, RingParts
<1>7. ring' = LastRecorded' /\ recorded' \in Seq(Line)
  <2>1. Append(LastOf(recorded, Capacity - 1), line[th]) =
          LastOf(Append(recorded, line[th]), (Capacity - 1) + 1)
    BY <1>5, CapacityFacts, PushLast, Zenon
  <2>2. ring' = LastOf(recorded', Capacity)
    BY <1>1, <1>6, <2>1, CapacityFacts
  <2>3. recorded' \in Seq(Line)
    BY <1>1, <1>5, AppendProperties
  <2> QED  BY <2>2, <2>3 DEF LastRecorded, LastOf
<1>8. ring' \in Seq(Line) /\ Len(ring') <= Capacity
  <2> DEFINE last == LastOf(recorded', Capacity)
  <2>1. /\ last \in Seq(Line)
        /\ Len(last) = IF Len(recorded') > Capacity THEN Capacity ELSE Len(recorded')
    BY <1>7, CapacityFacts, LastOfType, Zenon
  <2> HIDE DEF last
  <2>2. Len(recorded') \in Nat
    BY <1>7, LenProperties
  <2>3. last \in Seq(Line) /\ Len(last) <= Capacity
    BY <2>1, <2>2, CapacityFacts
  <2> QED  BY <1>7, <2>3 DEF last, LastRecorded, LastOf
<1>9. RingTypeOK' /\ RestTypeOK'
  BY <1>1, <1>2, <1>3, <1>7, <1>8 DEF RingTypeOK, RestTypeOK
<1>10. Numbered'
  BY <1>1, <1>3 DEF RingInv, Numbered
<1>11. Locking' /\ RingParts'
  BY <1>4, <1>7 DEF Locking, RingParts, Working
<1> QED  BY <1>9, <1>10, <1>11, TypeParts DEF RingInv

\* The snapshot gives the lock back with the ring as it was.
LEMMA SnapshotKeeps ==
    ASSUME RingInv, NEW th \in Threads, Snapshot(th)
    PROVE  RingInv'
<1>1. /\ at[th] = "snapping" /\ at' = [at EXCEPT ![th] = "reporting"]
      /\ holder' = Nobody
      /\ UNCHANGED <<ring, poisoned, recorded, line, lines, sink, writing, stuck>>
  BY DEF Snapshot, Goto, sinkVars
<1>2. RingTypeOK /\ RestTypeOK /\ at \in [Threads -> Place] /\ "reporting" \in Place
  BY TypeParts DEF RingInv, RestTypeOK, Place, Capturing
<1>3. /\ at' \in [Threads -> Place] /\ at'[th] = "reporting"
      /\ \A o \in Threads \ {th} : at'[o] = at[o]
  BY <1>1, <1>2, Moved
<1>4. \A o \in Threads : at'[o] \notin Working
  BY <1>1, <1>3, OneWorks DEF Working
<1>5. ring' = LastRecorded'
  BY <1>1 DEF RingInv, RingParts, LastRecorded
<1>6. RingTypeOK' /\ RestTypeOK'
  BY <1>1, <1>2, <1>3 DEF RingTypeOK, RestTypeOK
<1>7. Numbered'
  BY <1>1, <1>3 DEF RingInv, Numbered
<1>8. Locking' /\ RingParts'
  BY <1>4, <1>5 DEF Locking, RingParts, Working
<1> QED  BY <1>6, <1>7, <1>8, TypeParts DEF RingInv

\* A thread that unwinds with the lock held poisons it: whatever it has left
\* of the ring, nobody takes the lock again.
LEMMA UnwindKeeps ==
    ASSUME RingInv, NEW th \in Threads, Unwind(th)
    PROVE  RingInv'
<1>1. /\ at[th] = "previous" /\ at' = [at EXCEPT ![th] = "dead"]
      /\ holder' = IF holder = th THEN Nobody ELSE holder
      /\ poisoned' = (poisoned \/ holder = th)
      /\ UNCHANGED <<ring, recorded, line, lines, sink, writing, stuck>>
  BY DEF Unwind, Goto, sinkVars
<1>2. RingTypeOK /\ RestTypeOK /\ at \in [Threads -> Place] /\ "dead" \in Place
  BY TypeParts DEF RingInv, RestTypeOK, Place
<1>3. /\ at' \in [Threads -> Place] /\ at'[th] = "dead"
      /\ \A o \in Threads \ {th} : at'[o] = at[o]
  BY <1>1, <1>2, Moved
<1>4. \A o \in Threads : at'[o] \in Working => o # th /\ at[o] \in Working /\ holder = o
  BY <1>3, OneWorks DEF Working
<1>5. RingTypeOK'
  <2>1. holder' \in Threads \cup {Nobody}
    BY <1>1, <1>2 DEF RingTypeOK
  <2>2. poisoned' \in BOOLEAN
    BY <1>1
  <2> QED  BY <1>1, <1>2, <2>1, <2>2 DEF RingTypeOK
<1>6. RestTypeOK'
  BY <1>1, <1>2, <1>3 DEF RestTypeOK
<1>7. Numbered'
  BY <1>1, <1>3 DEF RingInv, Numbered
<1>8. Locking'
  BY <1>1, <1>4 DEF Locking
<1>9. RingParts'
  <2>1. LastRecorded' = LastRecorded
    BY <1>1 DEF LastRecorded
  <2>2. holder' = Nobody /\ ~poisoned' => holder = Nobody /\ ~poisoned
    BY <1>1
  <2>3. \A o \in Threads : at'[o] \in Working => at'[o] = at[o]
    BY <1>3, <1>4
  <2> QED  BY <1>1, <2>1, <2>2, <2>3 DEF RingInv, RingParts, Working
<1> QED  BY <1>5, <1>6, <1>7, <1>8, <1>9, TypeParts DEF RingInv

\* The writer and the console have nothing to do with the ring.
LEMMA ChannelKeeps ==
    ASSUME RingInv, \/ WriterTakes \/ WriterWrites \/ ConsolePausesOrResumes
                    \/ UNCHANGED logVars
    PROVE  RingInv'
<1>1. UNCHANGED <<at, line, lines, ring, holder, poisoned, recorded>>
  BY DEF WriterTakes, WriterWrites, ConsolePausesOrResumes, ringVars, logVars
<1>2. RestTypeOK /\ RingTypeOK
  BY TypeParts DEF RingInv
<1>3. /\ sink' \in 0 .. SinkCapacity /\ writing' \in BOOLEAN /\ stuck' \in BOOLEAN
  <2>1. sink' \in 0 .. SinkCapacity
    BY <1>2, LogConstants
    DEF WriterTakes, WriterWrites, ConsolePausesOrResumes, sinkVars, logVars, RestTypeOK
  <2>2. writing' \in BOOLEAN /\ stuck' \in BOOLEAN
    BY <1>2, Zenon
    DEF WriterTakes, WriterWrites, ConsolePausesOrResumes, sinkVars, logVars, RestTypeOK
  <2> QED  BY <2>1, <2>2
<1>4. RestTypeOK' /\ RingTypeOK'
  BY <1>1, <1>2, <1>3 DEF RestTypeOK, RingTypeOK
<1>5. Numbered' /\ Locking' /\ RingParts'
  BY <1>1 DEF RingInv, Numbered, Locking, RingParts, LastRecorded
<1> QED  BY <1>4, <1>5, TypeParts DEF RingInv

LEMMA InvNext == RingInv /\ [Next]_logVars => RingInv'
<1> SUFFICES ASSUME RingInv, [Next]_logVars PROVE RingInv'
  OBVIOUS
<1>1. CASE \/ WriterTakes \/ WriterWrites \/ ConsolePausesOrResumes \/ UNCHANGED logVars
  BY <1>1, ChannelKeeps
<1>2. ASSUME NEW th \in Threads,
             \/ LogProblem(th) \/ LogOther(th) \/ LogStep(th) \/ Panic(th) \/ HookStep(th)
      PROVE  RingInv'
  BY <1>2, OthersKeep, TakesKeep, EvictKeeps, PushKeeps, SnapshotKeeps, UnwindKeeps
  DEF LogStep, HookStep
<1> QED  BY <1>1, <1>2 DEF Next

LEMMA InvAlways == Spec => []RingInv
BY InvInit, InvNext, PTL DEF Spec

-----------------------------------------------------------------------------
(* The ring never holds more lines than CRASH_CONTEXT_CAPACITY, and        *)
(* threads, lock and channel keep their types (log of src/logbuf.rs).      *)
THEOREM LogTypeCorrect == Spec => []LogTypeOK
<1>1. RingInv => LogTypeOK
  BY DEF RingInv
<1> QED  BY <1>1, InvAlways, PTL

(* A panic that takes the context takes the last lines recorded, never a   *)
(* ring that another thread works on or that a panic has left half done    *)
(* (crash_context of src/logbuf.rs).                                       *)
THEOREM ContextIsAlwaysRecent == Spec => []ContextIsRecent
<1>1. RingInv => ContextIsRecent
  BY DEF RingInv, RingParts, ContextIsRecent
<1> QED  BY <1>1, InvAlways, PTL


=============================================================================
