---------------------------- MODULE RowListProofs ----------------------------
(***************************************************************************)
(* The types of RowList.tla, that a row is hidden exactly while it is      *)
(* being deleted, and that an operation that runs alone leaves the list as *)
(* the service has it, for any set of tunnels, ports and operations.       *)
(***************************************************************************)
EXTENDS RowList, WellFoundedInduction, TLAPS

(* No two deletes under way have the same key: the second could only be    *)
(* asked for a row that is hidden. *)
KeysDiffer == \A j, k \in Jobs : /\ Deleting(j) /\ Deleting(k)
                                 /\ job[j].key = job[k].key
                                 => j = k

(* The key of an Add port names a port; port 0 is only for groups. *)
AddsNamePorts == \A j \in Jobs : job[j].kind = "AddPort" => job[j].key \in Tunnels \X Ports

RowsInv == RowTypeOK /\ HiddenWhileDeleting /\ KeysDiffer /\ AddsNamePorts

-----------------------------------------------------------------------------
(* A set of places in the channel has a last one. *)
LEMMA LastExists ==
    ASSUME rx \in Seq(Jobs), Worked # {}
    PROVE  LastWorked \in Worked
<1>. DEFINE fromEnd == {Len(rx) - i : i \in Worked}
<1>1. Worked \subseteq 1 .. Len(rx)
  BY DEF Worked
<1>2. fromEnd \subseteq Nat /\ fromEnd # {}
  <2>1. Len(rx) \in Nat
    OBVIOUS
  <2>2. \A i \in Worked : i \in Nat /\ i <= Len(rx)
    BY <1>1, <2>1
  <2>3. \A i \in Worked : Len(rx) - i \in Nat
    BY <2>1, <2>2
  <2>. QED
    BY <2>3
<1>3. PICK x \in fromEnd : \A y \in fromEnd : ~ (<<y, x>> \in OpToRel(<, Nat))
  <2>. HIDE DEF fromEnd
  <2>. QED
    BY <1>2, NatLessThanWellFounded, WFMin
<1>4. \A y \in fromEnd : x <= y
  <2>. SUFFICES ASSUME NEW y \in fromEnd, y < x PROVE FALSE
    <3>1. x \in Nat /\ fromEnd \subseteq Nat
      BY <1>2
    <3>. HIDE DEF fromEnd
    <3>. QED
      BY <3>1
  <2>1. x \in Nat /\ y \in Nat
    BY <1>2
  <2>2. <<y, x>> \in OpToRel(<, Nat)
    BY <2>1 DEF OpToRel
  <2>. QED
    BY <2>2, <1>3
<1>5. PICK i \in Worked : x = Len(rx) - i
  BY <1>3
<1>6. \A k \in Worked : k <= i
  <2>. SUFFICES ASSUME NEW k \in Worked PROVE k <= i
    OBVIOUS
  <2>1. Len(rx) - i <= Len(rx) - k
    BY <1>4, <1>5
  <2>2. Len(rx) \in Nat /\ i \in Nat /\ k \in Nat
    BY <1>1
  <2>. QED
    BY <2>1, <2>2
<1>. QED
  BY <1>6 DEF LastWorked

LEMMA RowTypes == /\ NoKey \in Row
                  /\ Free \in JobState
                  /\ \A ts \in SUBSET Tunnels : ports \in SUBSET (Tunnels \X Ports) =>
                        RowsOf(ts) \in SUBSET Row
<1>1. NoKey \in Row
  <2>0. Tunnels # {}
    BY RowConstants
  <2>1. PICK t : t \in Tunnels
    BY <2>0
  <2>2. <<t, 0>> \in Row
    BY <2>1 DEF Row
  <2>3. \E r \in Row : TRUE
    BY <2>2
  <2>. QED
    BY <2>3, Zenon DEF NoKey
<1>2. Free \in JobState
  BY <1>1 DEF Free, NewJob, JobState, Kind
<1>3. ASSUME NEW ts \in SUBSET Tunnels, ports \in SUBSET (Tunnels \X Ports)
      PROVE  RowsOf(ts) \in SUBSET Row
  <2>1. {r \in ports : r[1] \in ts} \subseteq Row
    BY <1>3 DEF Row
  <2>2. {<<t, 0>> : t \in {u \in ts : \A r \in ports : r[1] # u}} \subseteq Row
    BY <1>3 DEF Row
  <2>. QED
    BY <2>1, <2>2 DEF RowsOf
<1>4. \A ts \in SUBSET Tunnels : ports \in SUBSET (Tunnels \X Ports) =>
         RowsOf(ts) \in SUBSET Row
  BY ONLY <1>3
<1>. QED
  BY <1>1, <1>2, <1>4

(* The types of what the pump assigns. *)
LEMMA PumpType ==
    ASSUME RowTypeOK, Pump
    PROVE  RowTypeOK'
<1>1. Applied \in SUBSET Jobs
  BY DEF RowTypeOK, Applied
<1>2. NewRows \in SUBSET Row
  <2>1. CASE Worked = {}
    BY <2>1 DEF NewRows, RowTypeOK
  <2>2. CASE Worked # {}
    <3>1. LastWorked \in Worked
      BY <2>2, LastExists DEF RowTypeOK
    <3>2. rx[LastWorked] \in Jobs
      BY <3>1 DEF Worked, RowTypeOK
    <3>3. job[rx[LastWorked]] \in JobState
      BY <3>2 DEF RowTypeOK
    <3>. QED
      BY <3>3, <2>2 DEF NewRows, JobState
  <2>. QED
    BY <2>1, <2>2
<1>3. Free \in JobState
  BY RowTypes
<1>4. job' \in [Jobs -> JobState]
  BY <1>3 DEF Pump, RowTypeOK
<1>5. rows' \in SUBSET Row /\ picker' \in SUBSET Tunnels
  <2>1. rows' \in SUBSET Row
    BY <1>2 DEF Pump
  <2>2. \A r \in rows' : r[1] \in Tunnels
    BY <2>1 DEF Row
  <2>. QED
    BY <2>1, <2>2 DEF Pump, RowTypeOK
<1>6. hidden' \in SUBSET Row /\ placeholders' \in SUBSET Jobs /\ clean' \in SUBSET Jobs
  BY DEF Pump, RowTypeOK
<1>7. rx' \in Seq(Jobs) /\ basis' \in {"cache", "clean", "mixed"}
  BY DEF Pump, RowTypeOK
<1>. QED
  BY <1>4, <1>5, <1>6, <1>7 DEF Pump, RowTypeOK, serviceVars

-----------------------------------------------------------------------------
(* An operation starts with a key that is not hidden. *)
LEMMA StartKeeps ==
    ASSUME RowsInv, NEW j \in Jobs, NEW pc, NEW kind \in Kind, NEW key \in Row,
           pc \in {"create", "op", "list"},
           kind \in {"DeletePort", "DeleteGroup"} => key \notin hidden,
           kind = "AddPort" => key \in Tunnels \X Ports,
           Start(j, pc, kind, key)
    PROVE  RowsInv'
<1>. DEFINE new == NewJob(pc, kind, key)
<1>1. new = [pc |-> pc, kind |-> kind, key |-> key, left |-> {}, acc |-> {}, ok |-> TRUE]
  BY DEF NewJob
<1>2. new \in JobState
  BY <1>1 DEF JobState
<1>3. /\ job' = [job EXCEPT ![j] = new]
      /\ job[j].pc = "free"
  BY DEF Start
<1>4. job \in [Jobs -> JobState]
  BY DEF RowsInv, RowTypeOK
<1>5. /\ job'[j] = new
      /\ \A k \in Jobs \ {j} : job'[k] = job[k]
  BY <1>3, <1>4
<1>6. RowTypeOK'
  BY <1>2, <1>3 DEF Start, RowsInv, RowTypeOK, serviceVars
<1>7. /\ ~Deleting(j)
      /\ Deleting(j)' <=> kind \in {"DeletePort", "DeleteGroup"}
      /\ job'[j].key = key
      /\ \A k \in Jobs \ {j} : (Deleting(k)' <=> Deleting(k)) /\ job'[k].key = job[k].key
  BY <1>1, <1>3, <1>5 DEF Deleting
<1>8. hidden' = IF kind \in {"DeletePort", "DeleteGroup"} THEN hidden \cup {key} ELSE hidden
  BY DEF Start
<1>9. hidden = {job[k].key : k \in {i \in Jobs : Deleting(i)}}
  BY DEF RowsInv, HiddenWhileDeleting
<1>. HIDE DEF new
<1>10. HiddenWhileDeleting'
  <2>1. hidden' = {job'[k].key : k \in {i \in Jobs : Deleting(i)'}}
    <3>1. CASE kind \in {"DeletePort", "DeleteGroup"}
      <4>1. {i \in Jobs : Deleting(i)'} = {i \in Jobs : Deleting(i)} \cup {j}
        BY <3>1, <1>7
      <4>2. \A i \in Jobs : Deleting(i) => job'[i].key = job[i].key
        BY <1>7
      <4>. QED
        BY <3>1, <1>7, <1>8, <1>9, <4>1, <4>2
    <3>2. CASE kind \notin {"DeletePort", "DeleteGroup"}
      <4>1. {i \in Jobs : Deleting(i)'} = {i \in Jobs : Deleting(i)}
        BY <3>2, <1>7
      <4>2. \A i \in Jobs : Deleting(i) => job'[i].key = job[i].key
        BY <1>7
      <4>. QED
        BY <3>2, <1>8, <1>9, <4>1, <4>2
    <3>. QED
      BY <3>1, <3>2
  <2>. QED
    BY <2>1 DEF HiddenWhileDeleting
<1>11. KeysDiffer'
  <2>. SUFFICES ASSUME NEW i \in Jobs, NEW k \in Jobs, Deleting(i)', Deleting(k)',
                       job'[i].key = job'[k].key
                PROVE  i = k
    BY DEF KeysDiffer
  <2>1. CASE i # j /\ k # j
    BY <2>1, <1>7 DEF RowsInv, KeysDiffer
  <2>2. CASE i = j /\ k # j
    <3>1. key \notin hidden
      BY <2>2, <1>7
    <3>2. job[k].key \in hidden
      BY <2>2, <1>7, <1>9
    <3>. QED
      BY <2>2, <3>1, <3>2, <1>7
  <2>3. CASE i # j /\ k = j
    <3>1. key \notin hidden
      BY <2>3, <1>7
    <3>2. job[i].key \in hidden
      BY <2>3, <1>7, <1>9
    <3>. QED
      BY <2>3, <3>1, <3>2, <1>7
  <2>. QED
    BY <2>1, <2>2, <2>3
<1>12. AddsNamePorts'
  BY <1>1, <1>5 DEF new, RowsInv, AddsNamePorts
<1>. QED
  BY <1>6, <1>10, <1>11, <1>12 DEF RowsInv

LEMMA UserKeeps ==
    ASSUME RowsInv, NEW j \in Jobs, User(j)
    PROVE  RowsInv'
<1>. USE DEF Kind
<1>1. \A t \in Tunnels : <<t, 0>> \in Row /\ \A p \in Ports : <<t, p>> \in Row
  BY DEF Row
<1>2. CASE Refresh(j)
  <2>1. NoKey \in Row
    <3>1. job[j].key \in Row
      BY DEF RowsInv, RowTypeOK, JobState
    <3>. QED
      BY <3>1, RowTypes
  <2>. QED
    BY <2>1, <1>2, StartKeeps DEF Refresh
<1>3. CASE OnCreateGroup(j)
  BY <1>1, <1>3, StartKeeps DEF OnCreateGroup
<1>4. CASE OnAddPort(j)
  <2>1. picker \subseteq Tunnels
    BY DEF RowsInv, RowTypeOK
  <2>2. ASSUME NEW t \in Tunnels, NEW p \in Ports,
               Start(j, "op", "AddPort", <<t, p>>) \/ Start(j, "create", "AddPort", <<t, p>>)
        PROVE  RowsInv'
    BY <1>1, <2>2, StartKeeps
  <2>. QED
    BY <1>4, <2>1, <2>2 DEF OnAddPort
<1>5. CASE OnDelete(j)
  <2>1. ASSUME NEW r \in Rendered, Start(j, "op", "DeletePort", r)
        PROVE  RowsInv'
    <3>1. r \in Row /\ r \notin hidden
      BY DEF Rendered, RowsInv, RowTypeOK
    <3>. QED
      BY <2>1, <3>1, StartKeeps
  <2>2. ASSUME NEW t \in Cards, Start(j, "op", "DeleteGroup", <<t, 0>>)
        PROVE  RowsInv'
    <3>1. PICK r \in rows : <<r[1], 0>> \notin hidden /\ t = r[1]
      BY DEF Cards
    <3>2. t \in Tunnels
      BY <3>1 DEF RowsInv, RowTypeOK, Row
    <3>. QED
      BY <1>1, <2>2, <3>1, <3>2, StartKeeps
  <2>. QED
    BY <1>5, <2>1, <2>2 DEF OnDelete
<1>. QED
  BY <1>2, <1>3, <1>4, <1>5 DEF User

-----------------------------------------------------------------------------
(* A step of a background thread leaves what the operation is for alone,   *)
(* and with it the hidden rows. *)
LEMMA WorkKeeps ==
    ASSUME RowsInv, NEW j \in Jobs, RowTypeOK',
           job[j].pc # "free", job'[j].pc # "free",
           job'[j].kind = job[j].kind, job'[j].key = job[j].key,
           \A k \in Jobs \ {j} : job'[k] = job[k],
           hidden' = hidden
    PROVE  RowsInv'
<1>1. \A k \in Jobs : (Deleting(k)' <=> Deleting(k)) /\ job'[k].key = job[k].key
  BY DEF Deleting
<1>2. {k \in Jobs : Deleting(k)'} = {k \in Jobs : Deleting(k)}
  BY <1>1
<1>3. hidden' = {job'[k].key : k \in {i \in Jobs : Deleting(i)'}}
  BY <1>1, <1>2 DEF RowsInv, HiddenWhileDeleting
<1>4. KeysDiffer'
  BY <1>1 DEF RowsInv, KeysDiffer
<1>5. AddsNamePorts'
  BY DEF RowsInv, AddsNamePorts
<1>. QED
  BY <1>3, <1>4, <1>5 DEF RowsInv, HiddenWhileDeleting

(* What List, Show and the operations assign to their job. *)
LEMMA UpdateType ==
    ASSUME job \in [Jobs -> JobState], NEW j \in Jobs, NEW tk,
           tk \in JobState, tk.pc # "free",
           tk.kind = job[j].kind, tk.key = job[j].key,
           job' = [job EXCEPT ![j] = tk]
    PROVE  /\ job' \in [Jobs -> JobState]
           /\ job'[j].pc # "free"
           /\ job'[j].kind = job[j].kind /\ job'[j].key = job[j].key
           /\ \A k \in Jobs \ {j} : job'[k] = job[k]
OBVIOUS

LEMMA FinishKeeps ==
    ASSUME RowsInv, NEW j \in Jobs, job[j].pc # "free",
           NEW ok \in BOOLEAN, NEW acc \in SUBSET Row, Finish(j, ok, acc),
           UNCHANGED <<serviceVars, uiVars>>
    PROVE  RowsInv'
<1>. DEFINE tk == [job[j] EXCEPT !.pc = "sent", !.ok = ok, !.acc = acc]
<1>1. job \in [Jobs -> JobState] /\ job[j] \in JobState
  BY DEF RowsInv, RowTypeOK
<1>2. tk \in JobState /\ tk.pc = "sent" /\ tk.kind = job[j].kind /\ tk.key = job[j].key
  BY <1>1 DEF JobState
<1>3. job' = [job EXCEPT ![j] = tk]
  BY <1>1 DEF Finish
<1>. HIDE DEF tk
<1>4. /\ job' \in [Jobs -> JobState]
      /\ job'[j].pc # "free"
      /\ job'[j].kind = job[j].kind /\ job'[j].key = job[j].key
      /\ \A k \in Jobs \ {j} : job'[k] = job[k]
  BY <1>1, <1>2, <1>3, UpdateType
<1>5. rx' \in Seq(Jobs) /\ clean' \in SUBSET Jobs
  BY DEF Finish, StillClean, RowsInv, RowTypeOK
<1>6. RowTypeOK'
  BY <1>4, <1>5 DEF RowsInv, RowTypeOK, serviceVars, uiVars
<1>. QED
  BY <1>4, <1>6, WorkKeeps DEF uiVars

LEMMA GotoKeeps ==
    ASSUME RowsInv, NEW j \in Jobs, job[j].pc # "free",
           NEW pc \in {"op", "list"}, Goto(j, pc),
           exists' \in SUBSET Tunnels, ports' \in SUBSET (Tunnels \X Ports),
           UNCHANGED <<rx, uiVars, clean>>
    PROVE  RowsInv'
<1>. DEFINE tk == [job[j] EXCEPT !.pc = pc]
<1>1. job \in [Jobs -> JobState] /\ job[j] \in JobState
  BY DEF RowsInv, RowTypeOK
<1>2. tk \in JobState /\ tk.pc # "free" /\ tk.kind = job[j].kind /\ tk.key = job[j].key
  BY <1>1 DEF JobState
<1>3. job' = [job EXCEPT ![j] = tk]
  BY <1>1 DEF Goto
<1>. HIDE DEF tk
<1>4. /\ job' \in [Jobs -> JobState]
      /\ job'[j].pc # "free"
      /\ job'[j].kind = job[j].kind /\ job'[j].key = job[j].key
      /\ \A k \in Jobs \ {j} : job'[k] = job[k]
  BY <1>1, <1>2, <1>3, UpdateType
<1>5. RowTypeOK'
  BY <1>4 DEF RowsInv, RowTypeOK, uiVars
<1>. QED
  BY <1>4, <1>5, WorkKeeps DEF uiVars

LEMMA ThreadKeeps ==
    ASSUME RowsInv, NEW j \in Jobs, Thread(j)
    PROVE  RowsInv'
<1>. DEFINE r == job[j].key
<1>1. /\ job \in [Jobs -> JobState] /\ job[j] \in JobState
      /\ exists \in SUBSET Tunnels /\ ports \in SUBSET (Tunnels \X Ports)
      /\ r \in Row
  BY DEF RowsInv, RowTypeOK, JobState
<1>2. r[1] \in Tunnels /\ r = <<r[1], r[2]>> /\ r[2] \in Ports \cup {0}
  BY <1>1 DEF Row
<1>. HIDE DEF r
<1>3. CASE Create(j)
  <2>1. exists' \in SUBSET Tunnels /\ ports' = ports
    BY <1>1, <1>2, <1>3 DEF Create, r
  <2>. QED
    BY <1>1, <1>3, <2>1, GotoKeeps DEF Create
<1>4. CASE CreatePort(j)
  <2>1. /\ job[j].pc = "op" /\ Goto(j, "list")
        /\ ports' = ports \cup {r} /\ exists' = exists
        /\ UNCHANGED <<rx, uiVars, clean>>
    BY <1>4 DEF CreatePort, r
  <2>2. r \in Tunnels \X Ports
    BY <1>4 DEF CreatePort, RowsInv, AddsNamePorts, r
  <2>. QED
    BY <1>1, <2>1, <2>2, GotoKeeps
<1>5. CASE Delete(j)
  <2>1. exists' \in SUBSET Tunnels /\ ports' \in SUBSET (Tunnels \X Ports)
    BY <1>1, <1>5 DEF Delete
  <2>. QED
    BY <1>5, <2>1, GotoKeeps DEF Delete
<1>6. ASSUME job[j].pc # "free", Fails(j) PROVE RowsInv'
  BY <1>6, FinishKeeps DEF Fails
<1>7. CASE OpFails(j)
  BY <1>6, <1>7 DEF OpFails
<1>8. CASE ListFails(j)
  BY <1>6, <1>8 DEF ListFails
<1>9. CASE List(j)
  <2>1. CASE exists = {}
    BY <1>9, <2>1, FinishKeeps DEF List
  <2>2. CASE exists # {}
    <3>. DEFINE tk == [job[j] EXCEPT !.pc = "show", !.left = exists]
    <3>1. /\ job[j].pc = "list" /\ job' = [job EXCEPT ![j] = tk]
          /\ UNCHANGED <<rx, clean, serviceVars, uiVars>>
      BY <1>1, <1>9, <2>2 DEF List
    <3>2. tk \in JobState /\ tk.pc # "free" /\ tk.kind = job[j].kind /\ tk.key = job[j].key
      BY <1>1 DEF JobState
    <3>. HIDE DEF tk
    <3>3. /\ job' \in [Jobs -> JobState]
          /\ job'[j].pc # "free"
          /\ job'[j].kind = job[j].kind /\ job'[j].key = job[j].key
          /\ \A k \in Jobs \ {j} : job'[k] = job[k]
      BY <1>1, <3>1, <3>2, UpdateType
    <3>4. RowTypeOK'
      BY <3>1, <3>3 DEF RowsInv, RowTypeOK, serviceVars, uiVars
    <3>. QED
      BY <3>1, <3>3, <3>4, WorkKeeps DEF uiVars
  <2>. QED
    BY <2>1, <2>2
<1>10. CASE Show(j)
  <2>1. PICK t \in job[j].left, works \in BOOLEAN :
          LET more == job[j].left \ {t}
              acc == job[j].acc \cup (IF works THEN RowsOf({t}) ELSE {<<t, 0>>})
          IN  /\ job' = [job EXCEPT ![j].left = more, ![j].acc = acc,
                                    ![j].pc = IF more = {} THEN "sent" ELSE "show"]
              /\ rx' = IF more = {} THEN Append(rx, j) ELSE rx
              /\ StillClean(j, works)
    BY <1>10 DEF Show
  <2>. DEFINE more == job[j].left \ {t}
              acc == job[j].acc \cup (IF works THEN RowsOf({t}) ELSE {<<t, 0>>})
              tk == [job[j] EXCEPT !.left = more, !.acc = acc,
                                   !.pc = IF more = {} THEN "sent" ELSE "show"]
  <2>2. job' = [job EXCEPT ![j] = tk]
    BY <1>1, <2>1
  <2>3. job[j].pc = "show" /\ UNCHANGED <<serviceVars, uiVars>>
    BY <1>10 DEF Show
  <2>4. t \in Tunnels
    BY <1>1 DEF JobState
  <2>5. acc \in SUBSET Row
    BY <1>1, <2>4, RowTypes DEF JobState, Row
  <2>6. rx' \in Seq(Jobs) /\ clean' \in SUBSET Jobs
    BY <2>1 DEF StillClean, RowsInv, RowTypeOK
  <2>. HIDE DEF acc
  <2>7. tk \in JobState /\ tk.pc # "free" /\ tk.kind = job[j].kind /\ tk.key = job[j].key
    BY <1>1, <2>5 DEF JobState
  <2>. HIDE DEF tk
  <2>8. /\ job' \in [Jobs -> JobState]
        /\ job'[j].pc # "free"
        /\ job'[j].kind = job[j].kind /\ job'[j].key = job[j].key
        /\ \A k \in Jobs \ {j} : job'[k] = job[k]
    BY <1>1, <2>2, <2>7, UpdateType
  <2>9. RowTypeOK'
    BY <2>3, <2>6, <2>8 DEF RowsInv, RowTypeOK, serviceVars, uiVars
  <2>. QED
    BY <2>3, <2>8, <2>9, WorkKeeps DEF uiVars
<1>. QED
  BY <1>3, <1>4, <1>5, <1>7, <1>8, <1>9, <1>10 DEF Thread

-----------------------------------------------------------------------------
(* A tick of the pump clears the keys of the deletes it settles, and no    *)
(* other delete has one of them. *)
LEMMA PumpKeeps ==
    ASSUME RowsInv, Pump
    PROVE  RowsInv'
<1>1. RowTypeOK'
  BY PumpType DEF RowsInv
<1>2. /\ job' = [j \in Jobs |-> IF j \in Applied THEN Free ELSE job[j]]
      /\ hidden' = hidden \ Settled
  BY DEF Pump
<1>3. \A j \in Jobs : /\ j \in Applied => ~Deleting(j)' /\ job'[j].kind = "Load"
                      /\ j \notin Applied => job'[j] = job[j] /\ (Deleting(j)' <=> Deleting(j))
  BY <1>2 DEF Deleting, Free, NewJob
<1>4. \A j, k \in Jobs : Deleting(j) /\ Deleting(k) /\ job[j].key = job[k].key => j = k
  BY DEF RowsInv, KeysDiffer
<1>5. hidden = {job[j].key : j \in {k \in Jobs : Deleting(k)}}
  BY DEF RowsInv, HiddenWhileDeleting
<1>6. HiddenWhileDeleting'
  <2>1. Applied \subseteq Jobs
    BY DEF Applied, RowsInv, RowTypeOK
  <2>2. \A r : r \in hidden' <=> \E j \in Jobs : Deleting(j) /\ j \notin Applied /\ r = job[j].key
    BY <1>2, <1>4, <1>5, <2>1 DEF Settled
  <2>3. \A r : r \in hidden' <=> \E j \in Jobs : Deleting(j)' /\ r = job'[j].key
    BY <1>3, <2>2
  <2>4. hidden' = {job'[j].key : j \in {k \in Jobs : Deleting(k)'}}
    BY <2>3
  <2>. QED
    BY <2>4 DEF HiddenWhileDeleting
<1>7. KeysDiffer'
  BY <1>3, <1>4 DEF KeysDiffer
<1>8. AddsNamePorts'
  BY <1>3 DEF RowsInv, AddsNamePorts
<1>. QED
  BY <1>1, <1>6, <1>7, <1>8 DEF RowsInv

LEMMA RowsInvHolds == Spec => []RowsInv
<1>1. Init => RowsInv
  <2>. SUFFICES ASSUME Init PROVE RowsInv
    OBVIOUS
  <2>1. \A j \in Jobs : job[j] = Free
    BY DEF Init
  <2>2. \A j \in Jobs : ~Deleting(j) /\ job[j].kind = "Load"
    BY <2>1 DEF Deleting, Free, NewJob
  <2>3. HiddenWhileDeleting /\ KeysDiffer /\ AddsNamePorts
    BY <2>2 DEF Init, HiddenWhileDeleting, KeysDiffer, AddsNamePorts
  <2>4. ports \in SUBSET (Tunnels \X Ports) /\ exists \in SUBSET Tunnels
    BY DEF Init
  <2>5. rows \in SUBSET Row
    BY <2>4, RowTypes DEF Init, ServiceRows
  <2>6. job \in [Jobs -> JobState]
    BY RowTypes DEF Init
  <2>7. RowTypeOK
    BY <2>4, <2>5, <2>6 DEF Init, RowTypeOK
  <2>. QED
    BY <2>3, <2>7 DEF RowsInv
<1>2. RowsInv /\ [Next]_vars => RowsInv'
  <2>. SUFFICES ASSUME RowsInv, [Next]_vars PROVE RowsInv'
    OBVIOUS
  <2>1. CASE Next
    BY <2>1, UserKeeps, ThreadKeeps, PumpKeeps DEF Next
  <2>2. CASE UNCHANGED vars
    <3>1. \A j \in Jobs : job'[j] = job[j] /\ (Deleting(j)' <=> Deleting(j))
      BY <2>2 DEF vars, Deleting
    <3>2. RowTypeOK' /\ KeysDiffer' /\ AddsNamePorts'
      BY <2>2, <3>1 DEF vars, RowsInv, RowTypeOK, KeysDiffer, AddsNamePorts
    <3>3. HiddenWhileDeleting'
      BY <2>2, <3>1 DEF vars, RowsInv, HiddenWhileDeleting
    <3>. QED
      BY <3>2, <3>3 DEF RowsInv
  <2>. QED
    BY <2>1, <2>2
<1>. QED
  BY <1>1, <1>2, PTL DEF Spec

(* The types of RowList.tla hold in every reachable state. *)
THEOREM RowTypeCorrect == Spec => []RowTypeOK
<1>1. RowsInv => RowTypeOK
  BY DEF RowsInv
<1>. QED
  BY <1>1, RowsInvHolds, PTL

(* A row is hidden exactly while its delete is under way, for any number   *)
(* of operations at once and whatever order their results arrive in. *)
THEOREM HiddenRows == Spec => []HiddenWhileDeleting
<1>1. RowsInv => HiddenWhileDeleting
  BY DEF RowsInv
<1>. QED
  BY <1>1, RowsInvHolds, PTL

-----------------------------------------------------------------------------
(* A job that runs alone sees nothing change but what it changes itself,   *)
(* before it lists: what it has gathered are the rows of the tunnels it    *)
(* has asked for so far, as the service has them now.                      *)
Gathered(j) ==
    /\ job[j].ok
    /\ job[j].pc \in {"create", "op", "list"} => job[j].acc = {}
    /\ job[j].pc = "show" => /\ job[j].left \subseteq exists
                             /\ job[j].acc = RowsOf(exists \ job[j].left)
    /\ job[j].pc = "sent" => job[j].acc = ServiceRows

CleanIsAlone == \A j \in clean : /\ job[j].pc # "free"
                                 /\ \A k \in Jobs \ {j} : job[k].pc = "free"
                                 /\ Gathered(j)

OnlySentInChannel == \A i \in DOMAIN rx : job[rx[i]].pc = "sent"

AloneInv == CleanIsAlone /\ OnlySentInChannel /\ AloneCatchesUp

(* One more `show` adds the rows of that tunnel. *)
LEMMA RowsOfGrows ==
    ASSUME NEW ts, NEW t
    PROVE  RowsOf(ts \cup {t}) = RowsOf(ts) \cup RowsOf({t})
BY DEF RowsOf

LEMMA RowsOfNone == RowsOf({}) = {}
BY DEF RowsOf

LEMMA StartKeepsAlone ==
    ASSUME RowTypeOK, AloneInv, NEW j \in Jobs, NEW pc, NEW kind, NEW key,
           pc \in {"create", "op", "list"},
           Start(j, pc, kind, key)
    PROVE  AloneInv'
<1>. DEFINE new == NewJob(pc, kind, key)
<1>1. job \in [Jobs -> JobState] /\ rx \in Seq(Jobs)
  BY DEF RowTypeOK
<1>2. /\ job[j].pc = "free"
      /\ job' = [job EXCEPT ![j] = new]
      /\ rx' = rx
      /\ clean' = IF \A k \in Jobs : job[k].pc = "free" THEN {j} ELSE {}
  BY DEF Start
<1>3. new.pc = pc /\ new.acc = {} /\ new.ok
  BY DEF NewJob
<1>. HIDE DEF new
<1>4. job'[j] = new /\ \A k \in Jobs \ {j} : job'[k] = job[k]
  BY <1>1, <1>2
<1>5. CleanIsAlone'
  <2>. SUFFICES ASSUME NEW i \in clean'
                PROVE  /\ job'[i].pc # "free"
                       /\ \A k \in Jobs \ {i} : job'[k].pc = "free"
                       /\ Gathered(i)'
    BY DEF CleanIsAlone
  <2>1. i = j /\ \A k \in Jobs : job[k].pc = "free"
    BY <1>2
  <2>2. Gathered(j)'
    BY <1>3, <1>4 DEF Gathered
  <2>. QED
    BY <1>3, <1>4, <2>1, <2>2
<1>6. OnlySentInChannel'
  <2>. SUFFICES ASSUME NEW i \in DOMAIN rx PROVE job'[rx[i]].pc = "sent"
    BY <1>2 DEF OnlySentInChannel
  <2>1. rx[i] \in Jobs /\ job[rx[i]].pc = "sent"
    BY <1>1 DEF AloneInv, OnlySentInChannel
  <2>. QED
    BY <1>2, <1>4, <2>1
<1>7. AloneCatchesUp'
  BY <1>3, <1>4 DEF AloneCatchesUp
<1>. QED
  BY <1>5, <1>6, <1>7 DEF AloneInv

(* A step of a thread that is not done: it has to keep what the thread has *)
(* gathered, should it still be alone. *)
LEMMA StepKeepsAlone ==
    ASSUME RowTypeOK, AloneInv, NEW j \in Jobs,
           job[j].pc \notin {"free", "sent"}, job'[j].pc # "free",
           \A k \in Jobs \ {j} : job'[k] = job[k],
           \/ rx' = rx
           \/ rx' = Append(rx, j) /\ job'[j].pc = "sent",
           clean' \subseteq clean,
           j \in clean' => Gathered(j)'
    PROVE  AloneInv'
<1>1. job \in [Jobs -> JobState] /\ rx \in Seq(Jobs)
  BY DEF RowTypeOK
<1>2. CleanIsAlone'
  <2>. SUFFICES ASSUME NEW i \in clean'
                PROVE  /\ job'[i].pc # "free"
                       /\ \A k \in Jobs \ {i} : job'[k].pc = "free"
                       /\ Gathered(i)'
    BY DEF CleanIsAlone
  <2>1. /\ i \in clean
        /\ \A k \in Jobs \ {i} : job[k].pc = "free"
    BY DEF AloneInv, CleanIsAlone
  <2>2. i = j
    BY <2>1
  <2>. QED
    BY <2>1, <2>2
<1>3. \A i \in DOMAIN rx : rx[i] \in Jobs \ {j} /\ job[rx[i]].pc = "sent"
  BY <1>1 DEF AloneInv, OnlySentInChannel
<1>4. OnlySentInChannel'
  <2>1. CASE rx' = rx
    BY <1>3, <2>1 DEF OnlySentInChannel
  <2>2. CASE rx' = Append(rx, j) /\ job'[j].pc = "sent"
    <3>. SUFFICES ASSUME NEW i \in DOMAIN rx' PROVE job'[rx'[i]].pc = "sent"
      BY DEF OnlySentInChannel
    <3>1. i \in DOMAIN rx \/ rx'[i] = j
      BY <1>1, <2>2
    <3>2. i \in DOMAIN rx => rx'[i] = rx[i]
      BY <1>1, <2>2
    <3>. QED
      BY <1>3, <2>2, <3>1, <3>2
  <2>. QED
    BY <2>1, <2>2
<1>5. AloneCatchesUp'
  BY DEF AloneCatchesUp
<1>. QED
  BY <1>2, <1>4, <1>5 DEF AloneInv

LEMMA GotoKeepsAlone ==
    ASSUME RowTypeOK, AloneInv, NEW j \in Jobs, job[j].pc \in {"create", "op"},
           NEW pc \in {"op", "list"}, Goto(j, pc),
           UNCHANGED <<rx, clean>>
    PROVE  AloneInv'
<1>1. job \in [Jobs -> JobState] /\ job[j] \in JobState
  BY DEF RowTypeOK
<1>2. job'[j] = [job[j] EXCEPT !.pc = pc] /\ \A k \in Jobs \ {j} : job'[k] = job[k]
  BY <1>1 DEF Goto
<1>3. job'[j].pc = pc /\ job'[j].ok = job[j].ok /\ job'[j].acc = job[j].acc
  BY <1>1, <1>2 DEF JobState
<1>4. j \in clean => Gathered(j)
  BY DEF AloneInv, CleanIsAlone
<1>5. j \in clean' => Gathered(j)'
  BY <1>3, <1>4 DEF Gathered
<1>. QED
  BY <1>2, <1>3, <1>5, StepKeepsAlone

LEMMA FinishKeepsAlone ==
    ASSUME RowTypeOK, AloneInv, NEW j \in Jobs, job[j].pc \notin {"free", "sent"},
           NEW ok \in BOOLEAN, NEW acc, Finish(j, ok, acc),
           ok => acc = ServiceRows,
           UNCHANGED serviceVars
    PROVE  AloneInv'
<1>1. job \in [Jobs -> JobState] /\ job[j] \in JobState
  BY DEF RowTypeOK
<1>2. /\ job'[j] = [job[j] EXCEPT !.pc = "sent", !.ok = ok, !.acc = acc]
      /\ \A k \in Jobs \ {j} : job'[k] = job[k]
  BY <1>1 DEF Finish
<1>3. job'[j].pc = "sent" /\ job'[j].ok = ok /\ job'[j].acc = acc
  BY <1>1, <1>2 DEF JobState
<1>4. ServiceRows' = ServiceRows
  BY DEF serviceVars, ServiceRows, RowsOf
<1>5. j \in clean' => ok
  BY DEF Finish, StillClean
<1>6. j \in clean' => Gathered(j)'
  BY <1>3, <1>4, <1>5 DEF Gathered
<1>7. rx' = Append(rx, j) /\ clean' \subseteq clean
  BY DEF Finish, StillClean
<1>. QED
  BY <1>2, <1>3, <1>6, <1>7, StepKeepsAlone

(* The last `show` completes the rows of all tunnels. *)
LEMMA ShowKeepsAlone ==
    ASSUME RowTypeOK, AloneInv, NEW j \in Jobs, Show(j)
    PROVE  AloneInv'
<1>1. PICK t \in job[j].left, works \in BOOLEAN :
        LET more == job[j].left \ {t}
            acc == job[j].acc \cup (IF works THEN RowsOf({t}) ELSE {<<t, 0>>})
        IN  /\ job' = [job EXCEPT ![j].left = more, ![j].acc = acc,
                                  ![j].pc = IF more = {} THEN "sent" ELSE "show"]
            /\ rx' = IF more = {} THEN Append(rx, j) ELSE rx
            /\ StillClean(j, works)
  BY DEF Show
<1>. DEFINE more == job[j].left \ {t}
            acc == job[j].acc \cup (IF works THEN RowsOf({t}) ELSE {<<t, 0>>})
<1>2. job[j].pc = "show" /\ UNCHANGED <<exists, ports>>
  BY DEF Show, serviceVars
<1>3. job \in [Jobs -> JobState] /\ job[j] \in JobState
  BY DEF RowTypeOK
<1>4. /\ job'[j] = [job[j] EXCEPT !.left = more, !.acc = acc,
                                  !.pc = IF more = {} THEN "sent" ELSE "show"]
      /\ \A k \in Jobs \ {j} : job'[k] = job[k]
  BY <1>1, <1>3
<1>5. clean' = IF works THEN clean ELSE clean \ {j}
  BY <1>1 DEF StillClean
<1>6. rx' = IF more = {} THEN Append(rx, j) ELSE rx
  BY <1>1
<1>7. j \in clean' => acc = RowsOf(exists \ more) /\ more \subseteq exists /\ job[j].ok
  <2>. SUFFICES ASSUME j \in clean'
                PROVE  acc = RowsOf(exists \ more) /\ more \subseteq exists /\ job[j].ok
    OBVIOUS
  <2>1. works /\ j \in clean
    BY <1>5
  <2>2. Gathered(j)
    BY <2>1 DEF AloneInv, CleanIsAlone
  <2>3. /\ job[j].left \subseteq exists
        /\ job[j].acc = RowsOf(exists \ job[j].left)
        /\ job[j].ok
    BY <2>2, <1>2 DEF Gathered
  <2>4. exists \ more = (exists \ job[j].left) \cup {t}
    BY <2>3
  <2>5. RowsOf(exists \ more) = RowsOf(exists \ job[j].left) \cup RowsOf({t})
    BY <2>4, RowsOfGrows
  <2>. QED
    BY <2>1, <2>3, <2>5
<1>8. \A ts : RowsOf(ts)' = RowsOf(ts)
  BY <1>2 DEF RowsOf
<1>. HIDE DEF acc
<1>9. /\ job'[j].left = more /\ job'[j].acc = acc /\ job'[j].ok = job[j].ok
      /\ job'[j].pc = IF more = {} THEN "sent" ELSE "show"
  BY <1>3, <1>4 DEF JobState
<1>. HIDE DEF more
<1>10. j \in clean' => Gathered(j)'
  <2>. SUFFICES ASSUME j \in clean' PROVE Gathered(j)'
    OBVIOUS
  <2>1. acc = RowsOf(exists \ more) /\ more \subseteq exists /\ job'[j].ok
    BY <1>7, <1>9
  <2>2. CASE more = {}
    <3>1. exists \ more = exists
      BY <2>2
    <3>2. acc = ServiceRows'
      BY <1>2, <2>1, <3>1 DEF ServiceRows, RowsOf
    <3>. QED
      BY <1>9, <2>1, <2>2, <3>2 DEF Gathered
  <2>3. CASE more # {}
    <3>1. /\ job'[j].left \subseteq exists'
          /\ job'[j].acc = RowsOf(exists \ job[j].left)'
      BY <1>2, <1>9, <2>1 DEF RowsOf
    <3>. QED
      BY <1>9, <2>1, <2>3, <3>1 DEF Gathered
  <2>. QED
    BY <2>2, <2>3
<1>11. /\ job'[j].pc # "free" /\ clean' \subseteq clean
       /\ \/ rx' = rx
          \/ rx' = Append(rx, j) /\ job'[j].pc = "sent"
  BY <1>5, <1>6, <1>9
<1>. QED
  BY <1>2, <1>4, <1>10, <1>11, StepKeepsAlone

LEMMA ThreadKeepsAlone ==
    ASSUME RowTypeOK, AloneInv, NEW j \in Jobs, Thread(j)
    PROVE  AloneInv'
<1>1. CASE Create(j)
  BY <1>1, GotoKeepsAlone DEF Create
<1>2. CASE CreatePort(j)
  BY <1>2, GotoKeepsAlone DEF CreatePort
<1>3. CASE Delete(j)
  BY <1>3, GotoKeepsAlone DEF Delete
<1>4. ASSUME job[j].pc \notin {"free", "sent"}, Fails(j) PROVE AloneInv'
  BY <1>4, FinishKeepsAlone DEF Fails
<1>5. CASE OpFails(j)
  BY <1>4, <1>5 DEF OpFails
<1>6. CASE ListFails(j)
  BY <1>4, <1>6 DEF ListFails
<1>7. CASE List(j)
  <2>1. CASE exists = {}
    <3>1. ServiceRows = {}
      BY <2>1, RowsOfNone DEF ServiceRows
    <3>. QED
      BY <1>7, <2>1, <3>1, FinishKeepsAlone DEF List
  <2>2. CASE exists # {}
    <3>1. /\ job[j].pc = "list"
          /\ job' = [job EXCEPT ![j].pc = "show", ![j].left = exists]
          /\ UNCHANGED <<rx, clean, exists, ports>>
      BY <1>7, <2>2 DEF List, serviceVars
    <3>2. job \in [Jobs -> JobState] /\ job[j] \in JobState
      BY DEF RowTypeOK
    <3>3. /\ job'[j].pc = "show" /\ job'[j].left = exists
          /\ job'[j].acc = job[j].acc /\ job'[j].ok = job[j].ok
          /\ \A k \in Jobs \ {j} : job'[k] = job[k]
      BY <3>1, <3>2 DEF JobState
    <3>4. j \in clean => job[j].acc = {} /\ job[j].ok
      BY <3>1 DEF AloneInv, CleanIsAlone, Gathered
    <3>5. j \in clean' => Gathered(j)'
      <4>1. RowsOf({})' = {}
        BY DEF RowsOf
      <4>2. exists' \ job'[j].left = {}
        BY <3>1, <3>3
      <4>. QED
        BY <3>1, <3>3, <3>4, <4>1, <4>2 DEF Gathered
    <3>. QED
      BY <3>1, <3>3, <3>5, StepKeepsAlone
  <2>. QED
    BY <2>1, <2>2
<1>8. CASE Show(j)
  BY <1>8, ShowKeepsAlone
<1>. QED
  BY <1>1, <1>2, <1>3, <1>5, <1>6, <1>7, <1>8 DEF Thread

(* What the pump applies of a lone job is what the service has. *)
LEMMA PumpKeepsAlone ==
    ASSUME RowTypeOK, AloneInv, Pump
    PROVE  AloneInv'
<1>1. /\ rx # <<>> /\ rx' = <<>>
      /\ job' = [j \in Jobs |-> IF j \in Applied THEN Free ELSE job[j]]
      /\ clean' = clean \ Applied
      /\ rows' = NewRows
      /\ basis' = IF Applied \subseteq clean THEN "clean"
                  ELSE IF basis = "cache" /\ Worked = {} THEN "cache"
                  ELSE "mixed"
      /\ UNCHANGED <<exists, ports>>
  BY DEF Pump, serviceVars
<1>2. rx \in Seq(Jobs) /\ clean \subseteq Jobs /\ job \in [Jobs -> JobState]
  BY DEF RowTypeOK
<1>3. Free.pc = "free"
  BY DEF Free, NewJob
<1>4. ServiceRows' = ServiceRows /\ \A ts : RowsOf(ts)' = RowsOf(ts)
  BY <1>1 DEF ServiceRows, RowsOf
<1>5. CleanIsAlone'
  <2>. SUFFICES ASSUME NEW i \in clean'
                PROVE  /\ job'[i].pc # "free"
                       /\ \A k \in Jobs \ {i} : job'[k].pc = "free"
                       /\ Gathered(i)'
    BY DEF CleanIsAlone
  <2>1. i \in clean /\ i \in Jobs /\ job'[i] = job[i]
    BY <1>1, <1>2
  <2>2. /\ job[i].pc # "free" /\ Gathered(i)
        /\ \A k \in Jobs \ {i} : job[k].pc = "free"
    BY <2>1 DEF AloneInv, CleanIsAlone
  <2>3. Gathered(i)'
    BY <1>1, <1>4, <2>1, <2>2 DEF Gathered, RowsOf
  <2>. QED
    BY <1>1, <1>3, <2>1, <2>2, <2>3
<1>6. OnlySentInChannel'
  BY <1>1 DEF OnlySentInChannel
<1>7. ASSUME Applied \subseteq clean PROVE rows' = ServiceRows
  <2>1. DOMAIN rx = 1 .. Len(rx) /\ 1 \in DOMAIN rx
    BY <1>1, <1>2
  <2>2. \A i \in DOMAIN rx : rx[i] \in clean /\ job[rx[i]].pc = "sent"
    BY <1>7 DEF Applied, AloneInv, OnlySentInChannel
  <2>3. \A i \in DOMAIN rx : job[rx[i]].ok /\ job[rx[i]].acc = ServiceRows
    BY <2>2 DEF AloneInv, CleanIsAlone, Gathered
  <2>4. Worked # {}
    BY <2>1, <2>3 DEF Worked
  <2>5. LastWorked \in DOMAIN rx
    BY <1>2, <2>4, LastExists DEF Worked
  <2>. QED
    BY <1>1, <2>3, <2>4, <2>5 DEF NewRows
<1>8. AloneCatchesUp'
  BY <1>1, <1>4, <1>7 DEF AloneCatchesUp
<1>. QED
  BY <1>5, <1>6, <1>8 DEF AloneInv

LEMMA AloneInvariant == Spec => []AloneInv
<1>1. Init => AloneInv
  <2>. SUFFICES ASSUME Init PROVE AloneInv
    OBVIOUS
  <2>1. clean = {} /\ rx = <<>> /\ basis = "cache"
    BY DEF Init
  <2>. QED
    BY <2>1 DEF AloneInv, CleanIsAlone, OnlySentInChannel, AloneCatchesUp
<1>2. RowTypeOK /\ AloneInv /\ [Next]_vars => AloneInv'
  <2>. SUFFICES ASSUME RowTypeOK, AloneInv, [Next]_vars PROVE AloneInv'
    OBVIOUS
  <2>1. ASSUME NEW j \in Jobs, User(j) PROVE AloneInv'
    <3>1. ASSUME NEW pc \in {"create", "op", "list"}, NEW kind, NEW key, Start(j, pc, kind, key)
          PROVE  AloneInv'
      BY <3>1, StartKeepsAlone
    <3>2. CASE Refresh(j)
      BY <3>1, <3>2 DEF Refresh
    <3>3. CASE OnCreateGroup(j)
      BY <3>1, <3>3 DEF OnCreateGroup
    <3>4. CASE OnAddPort(j)
      BY <3>1, <3>4 DEF OnAddPort
    <3>5. CASE OnDelete(j)
      BY <3>1, <3>5 DEF OnDelete
    <3>. QED
      BY <2>1, <3>2, <3>3, <3>4, <3>5 DEF User
  <2>2. CASE UNCHANGED vars
    <3>1. /\ CleanIsAlone' /\ OnlySentInChannel'
      BY <2>2 DEF vars, AloneInv, CleanIsAlone, OnlySentInChannel, Gathered,
                  ServiceRows, RowsOf
    <3>2. AloneCatchesUp'
      BY <2>2 DEF vars, AloneInv, AloneCatchesUp, ServiceRows, RowsOf
    <3>. QED
      BY <3>1, <3>2 DEF AloneInv
  <2>. QED
    BY <2>1, <2>2, ThreadKeepsAlone, PumpKeepsAlone DEF Next
<1>. QED
  BY <1>1, <1>2, RowTypeCorrect, PTL DEF Spec

(* An operation that runs with no other at its side, and whose calls all   *)
(* work, leaves the list as the service has it: its placeholder or hidden  *)
(* row gives way to the real one. *)
THEOREM AloneCaughtUp == Spec => []AloneCatchesUp
<1>1. AloneInv => AloneCatchesUp
  BY DEF AloneInv
<1>. QED
  BY <1>1, AloneInvariant, PTL

=============================================================================
