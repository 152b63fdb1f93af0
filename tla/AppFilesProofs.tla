---------------------------- MODULE AppFilesProofs ----------------------------
(***************************************************************************)
(* The types of AppFiles.tla, and that a file is never half-written and    *)
(* never an older version than the one saved last, for every bound.        *)
(***************************************************************************)
EXTENDS AppFiles, TLAPS

(* From the moment the temporary file is complete until it is renamed, it  *)
(* is whole: atomic_write does not touch it in between. *)
TmpIsWhole == writing.step \in {"remove", "rename"} => tmp[writing.file].kind = "whole"

FilesInv == FilesTypeOK /\ DiskIsLastSaved /\ TmpIsWhole

(* The numbers in what a file holds are versions and times. *)
LEMMA LoadsType ==
    ASSUME FilesTypeOK
    PROVE  LoadedState \in Version /\ \A now : LoadedCache(now) \in Version
<1>1. disk["state"].version \in Version /\ disk["cache"].version \in Version
  BY DEF FilesTypeOK, Content, File
<1>2. 0 \in Version
  BY FilesConstants DEF Version
<1>. QED
  BY <1>1, <1>2 DEF LoadedState, LoadedCache

LEMMA ContentType == Missing \in Content /\ Torn \in Content
<1>1. 0 \in Version /\ 0 \in 0 .. MaxTime
  BY FilesConstants DEF Version
<1>. QED
  BY <1>1 DEF Missing, Torn, Content

(* A step of atomic_write keeps the types. *)
LEMMA WriteType ==
    ASSUME FilesTypeOK, NEW f \in File, AtomicWrite(f)
    PROVE  FilesTypeOK'
<1>. USE ContentType DEF FilesTypeOK, Then
<1>1. CASE OpenTmp(f)
  BY <1>1 DEF OpenTmp
<1>2. CASE WriteTmp(f)
  <2>. DEFINE new == [kind |-> "whole",
                      version |-> IF f = "state" THEN mem ELSE painted,
                      at |-> IF f = "state" THEN 0 ELSE clock]
  <2>1. new \in Content
    BY FilesConstants DEF Content
  <2>2. tmp' = [tmp EXCEPT ![f] = new]
    BY <1>2 DEF WriteTmp
  <2>. QED
    BY <2>1, <2>2, <1>2 DEF WriteTmp
<1>3. CASE RemoveOld(f)
  BY <1>3 DEF RemoveOld
<1>4. CASE Rename(f)
  <2>1. tmp[f] \in Content /\ tmp[f].version \in Version
    BY DEF Content
  <2>. QED
    BY <2>1, <1>4 DEF Rename, Idle, File
<1>5. CASE WriteFails(f)
  BY <1>5 DEF WriteFails, Idle, File
<1>. QED
  BY <1>1, <1>2, <1>3, <1>4, <1>5 DEF AtomicWrite

LEMMA StepType ==
    ASSUME FilesTypeOK, [Next]_vars
    PROVE  FilesTypeOK'
<1>1. CASE ChangeState
  BY <1>1, FilesConstants DEF ChangeState, FilesTypeOK, Version, File
<1>2. CASE TakeLoad
  BY <1>2, FilesConstants DEF TakeLoad, FilesTypeOK, Version, File
<1>3. ASSUME NEW f \in File, AtomicWrite(f) PROVE FilesTypeOK'
  BY <1>3, WriteType
<1>4. CASE Restart
  BY <1>4, LoadsType DEF Restart, FilesTypeOK, Idle, File
<1>5. CASE Passes
  BY <1>5, FilesConstants DEF Passes, FilesTypeOK
<1>6. CASE UNCHANGED vars
  BY <1>6 DEF vars, FilesTypeOK
<1>. QED
  BY <1>1, <1>2, <1>3, <1>4, <1>5, <1>6 DEF Next

LEMMA StepSaved ==
    ASSUME FilesTypeOK, DiskIsLastSaved, TmpIsWhole, [Next]_vars
    PROVE  DiskIsLastSaved' /\ TmpIsWhole'
<1>. USE DEF DiskIsLastSaved, TmpIsWhole
<1>1. CASE ChangeState
  BY <1>1 DEF ChangeState
<1>2. CASE TakeLoad
  BY <1>2 DEF TakeLoad
<1>3. ASSUME NEW f \in File, AtomicWrite(f) PROVE DiskIsLastSaved' /\ TmpIsWhole'
  <2>. USE DEF FilesTypeOK, At, Then
  <2>1. CASE OpenTmp(f)
    BY <2>1 DEF OpenTmp
  <2>2. CASE WriteTmp(f)
    BY <2>2 DEF WriteTmp
  <2>3. CASE RemoveOld(f)
    BY <2>3 DEF RemoveOld, Missing
  <2>4. CASE Rename(f)
    <3>1. tmp[f].kind = "whole"
      BY <2>4 DEF Rename
    <3>. QED
      BY <3>1, <2>4 DEF Rename, Idle
  <2>5. CASE WriteFails(f)
    BY <2>5 DEF WriteFails, Idle
  <2>. QED
    BY <1>3, <2>1, <2>2, <2>3, <2>4, <2>5 DEF AtomicWrite
<1>4. CASE Restart
  BY <1>4 DEF Restart, Idle
<1>5. CASE Passes
  BY <1>5 DEF Passes
<1>6. CASE UNCHANGED vars
  BY <1>6 DEF vars
<1>. QED
  BY <1>1, <1>2, <1>3, <1>4, <1>5, <1>6 DEF Next

THEOREM FilesInvariant == Spec => []FilesInv
<1>1. Init => FilesInv
  <2>. SUFFICES ASSUME Init PROVE FilesInv
    OBVIOUS
  <2>1. FilesTypeOK
    BY ContentType, FilesConstants DEF Init, FilesTypeOK, Version, Idle, File
  <2>2. DiskIsLastSaved /\ TmpIsWhole
    BY DEF Init, DiskIsLastSaved, TmpIsWhole, Missing, Idle
  <2>. QED
    BY <2>1, <2>2 DEF FilesInv
<1>2. FilesInv /\ [Next]_vars => FilesInv'
  BY StepType, StepSaved DEF FilesInv
<1>. QED
  BY <1>1, <1>2, PTL DEF Spec

(* The types of AppFiles.tla hold in every reachable state. *)
THEOREM FilesTypeCorrect == Spec => []FilesTypeOK
<1>1. FilesInv => FilesTypeOK
  BY DEF FilesInv
<1>. QED
  BY <1>1, FilesInvariant, PTL

(* A kill or a failed file operation between any two steps of atomic_write *)
(* leaves neither a torn file nor an older version. *)
THEOREM DiskNeverTorn == Spec => []DiskIsLastSaved
<1>1. FilesInv => DiskIsLastSaved
  BY DEF FilesInv
<1>. QED
  BY <1>1, FilesInvariant, PTL

=============================================================================
