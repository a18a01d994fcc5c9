---------------------------- MODULE RecordProofs -----------------------------
(***************************************************************************)
(* Proofs about what the runtime records and reports: the state files of   *)
(* StateStore, for any number of calls, kills and power losses, the        *)
(* settings that RunSettings records and the reports of SeccompReport.     *)
(***************************************************************************)
EXTENDS StateStore, RunSettings, SeccompReport, TLAPS

USE NobodyAssumption, TasksAssumption

\* The contents that the actions put into files are contents.
LEMMA ContentsFact ==
  /\ Absent \in Contents
  /\ \A p \in Proc : /\ Torn(p) \in Contents
                     /\ Composed(p, "running") \in Contents
                     /\ Composed(p, "stopped") \in Contents
  BY Zenon DEF Contents, Absent, Torn, Composed

LEMMA RefreshFact ==
  ASSUME NEW f \in Contents
  PROVE  /\ RefreshLiveness(f) \in Contents
         /\ f.status \in {"running", "stopped"} =>
                RefreshLiveness(f).status \in {"running", "stopped"}
         /\ [RefreshLiveness(f) EXCEPT !.flushed = FALSE] \in Contents
         /\ [RefreshLiveness(f) EXCEPT !.flushed = FALSE].status = RefreshLiveness(f).status
  <1>1. /\ RefreshLiveness(f) \in Contents
        /\ f.status \in {"running", "stopped"} =>
                RefreshLiveness(f).status \in {"running", "stopped"}
    BY Zenon DEF RefreshLiveness, Contents
  <1> DEFINE g == RefreshLiveness(f)
  <1>2. g \in Contents
    BY <1>1, Zenon
  <1> HIDE DEF g
  <1>3. [g EXCEPT !.flushed = FALSE] \in Contents /\ [g EXCEPT !.flushed = FALSE].status = g.status
    BY <1>2, Zenon DEF Contents
  <1> QED
    BY <1>1, <1>3, Zenon DEF g

-----------------------------------------------------------------------------
(* The temporary files. *)

LEMMA InitWhole == Init => WholeInv
  <1> SUFFICES ASSUME Init PROVE WholeInv
    BY Zenon
  <1> USE DEF Init
  <1>1. mem \in [Proc -> Contents] /\ task \in [Proc -> Task]
    BY Zenon
  <1>2. TypeOK
    BY <1>1, ContentsFact, Zenon DEF TypeOK, Label
  <1>3. \A p \in Proc : mem[p].status \in {"running", "stopped"}
    BY DEF Composed
  <1>4. \A p \in Proc : TmpInv(p)
    BY <1>3, Zenon DEF TmpInv
  <1>5. NeverTorn /\ file.flushed
    BY Zenon DEF NeverTorn, Absent
  <1> QED
    BY <1>2, <1>4, <1>5, Zenon DEF WholeInv

\* A call that touches no file contents but its own.
LEMMA WholeStep ==
  ASSUME WholeInv, TypeOK', NEW p \in Proc,
         UNCHANGED task,
         \A q \in Proc \ {p} : pc'[q] = pc[q] /\ mem'[q] = mem[q],
         \A q \in Proc \ {p} : tmp'[q] = tmp[q] \/ tmp'[q] = Absent,
         file' = file \/ file' = Absent \/ (file'.status # "torn" /\ file'.flushed),
         TmpInv(p)'
  PROVE  WholeInv'
  <1>1. Absent.status # "torn" /\ Absent.flushed
    BY Zenon DEF Absent
  <1>2. NeverTorn' /\ file'.flushed
    BY <1>1, Zenon DEF WholeInv, NeverTorn
  <1>3. ASSUME NEW q \in Proc, q # p PROVE TmpInv(q)'
    BY <1>1, <1>3, Zenon DEF WholeInv, TmpInv, Locked
  <1> QED
    BY <1>2, <1>3, Zenon DEF WholeInv

LEMMA CallKeepsWhole ==
  ASSUME WholeInv, NEW p \in Proc, Call(p) \/ Crash(p)
  PROVE  WholeInv'
  <1>0. TypeOK /\ TmpInv(p) /\ NeverTorn /\ file.flushed /\ file \in Contents
    BY Zenon DEF WholeInv, TypeOK
  <1> USE DEF Label, Ended
  <1>1. CASE CreateDir(p)
    <2>1. TypeOK'
      BY <1>0, <1>1, Zenon DEF CreateDir, Goto, TypeOK, files
    <2>2. TmpInv(p)'
      BY <1>0, <1>1, Zenon DEF CreateDir, Goto, TypeOK, files, TmpInv, Locked
    <2> QED
      BY <1>0, <1>1, <2>1, <2>2, WholeStep, Zenon DEF CreateDir, Goto, TypeOK, files
  <1>2. CASE OpenLock(p)
    <2>1. TypeOK'
      BY <1>0, <1>2 DEF OpenLock, Goto, TypeOK, files
    <2>2. TmpInv(p)'
      BY <1>0, <1>2, Zenon DEF OpenLock, Goto, TypeOK, files, TmpInv, Locked
    <2> QED
      BY <1>0, <1>2, <2>1, <2>2, WholeStep, Zenon DEF OpenLock, Goto, TypeOK, files
  <1>3. CASE Flock(p)
    <2>1. TypeOK'
      BY <1>0, <1>3, Zenon DEF Flock, Goto, TypeOK, files
    <2>2. TmpInv(p)'
      BY <1>0, <1>3, Zenon DEF Flock, Goto, TypeOK, files, TmpInv, Locked
    <2> QED
      BY <1>0, <1>3, <2>1, <2>2, WholeStep, Zenon DEF Flock, Goto, TypeOK, files
  <1>4. CASE LoadFrom(p)
    <2>1. TypeOK'
      BY <1>0, <1>4, RefreshFact DEF LoadFrom, Goto, Return, Unlock, AfterLoad, TypeOK, files
    <2>2. TmpInv(p)'
      <3>1. mem'[p].status = RefreshLiveness(file).status
        BY <1>0, <1>4, RefreshFact, Zenon DEF LoadFrom, TypeOK
      <3>2. file.status \in {"running", "stopped"} \/ file.status \in {"absent", "torn"}
        BY <1>0, Zenon DEF Contents
      <3>3. \/ pc'[p] \in {"err", "ok", "scan"}
            \/ pc'[p] = "mkdir" /\ file.status \in {"running", "stopped"}
        BY <1>0, <1>4, <3>2, Zenon DEF LoadFrom, Goto, Return, AfterLoad, TypeOK
      <3> QED
        BY <1>0, <3>1, <3>3, RefreshFact, Zenon DEF TmpInv, Locked
    <2> QED
      BY <1>0, <1>4, <2>1, <2>2, WholeStep DEF LoadFrom, Goto, Return, TypeOK, files
  <1>5. CASE ListRaw(p)
    <2>1. TypeOK'
      BY <1>0, <1>5, Zenon DEF ListRaw, Goto, TypeOK, files
    <2>2. TmpInv(p)'
      BY <1>0, <1>5, Zenon DEF ListRaw, Goto, TypeOK, files, TmpInv, Locked
    <2> QED
      BY <1>0, <1>5, <2>1, <2>2, WholeStep, Zenon DEF ListRaw, Goto, TypeOK, files
  <1>6. CASE CreateDirAgain(p)
    <2>1. TypeOK'
      BY <1>0, <1>6, Zenon DEF CreateDirAgain, Goto, TypeOK, files
    <2>2. TmpInv(p)'
      BY <1>0, <1>6, Zenon DEF CreateDirAgain, Goto, TypeOK, files, TmpInv, Locked
    <2> QED
      BY <1>0, <1>6, <2>1, <2>2, WholeStep, Zenon DEF CreateDirAgain, Goto, TypeOK, files
  <1>7. CASE CreateTmp(p)
    <2>1. TypeOK'
      BY <1>0, <1>7, ContentsFact DEF CreateTmp, Goto, Return, Unlock, TypeOK, files
    <2>2. TmpInv(p)'
      BY <1>0, <1>7, ContentsFact, Zenon DEF CreateTmp, Goto, Return, TypeOK, files, TmpInv, Locked
    <2> QED
      BY <1>0, <1>7, <2>1, <2>2, WholeStep, Zenon DEF CreateTmp, Goto, Return, TypeOK, files
  <1>8. CASE WriteTmp(p)
    <2>1. TypeOK'
      BY <1>0, <1>8, ContentsFact, Zenon DEF WriteTmp, Goto, TypeOK, files
    <2>2. TmpInv(p)'
      BY <1>0, <1>8, ContentsFact DEF WriteTmp, Goto, TypeOK, files, TmpInv, Locked, Absent
    <2> QED
      BY <1>0, <1>8, <2>1, <2>2, WholeStep, Zenon DEF WriteTmp, Goto, TypeOK, files
  <1>9. CASE FlushTmp(p)
    <2>0. [tmp[p] EXCEPT !.flushed = TRUE] \in Contents
          /\ [tmp[p] EXCEPT !.flushed = TRUE].status = tmp[p].status
          /\ [tmp[p] EXCEPT !.flushed = TRUE].flushed
      BY <1>0, Zenon DEF TypeOK, Contents
    <2>1. TypeOK'
      BY <1>0, <1>9, <2>0, Zenon DEF FlushTmp, Goto, TypeOK, files
    <2>2. TmpInv(p)'
      BY <1>0, <1>9, <2>0, Zenon DEF FlushTmp, Goto, TypeOK, files, TmpInv, Locked
    <2> QED
      BY <1>0, <1>9, <2>1, <2>2, WholeStep, Zenon DEF FlushTmp, Goto, TypeOK, files
  <1>10. CASE Rename(p)
    <2>1. TypeOK'
      BY <1>0, <1>10, ContentsFact DEF Rename, Goto, Return, Unlock, AfterLoad, TypeOK, files
    <2>2. TmpInv(p)'
      BY <1>0, <1>10, ContentsFact, Zenon DEF Rename, Goto, Return, AfterLoad, TypeOK, files, TmpInv, Locked
    <2>3. \/ UNCHANGED file
          \/ file'.status # "torn" /\ file'.flushed
      BY <1>0, <1>10, Zenon DEF Rename, TmpInv
    <2> QED
      BY <1>0, <1>10, <2>1, <2>2, <2>3, WholeStep, Zenon DEF Rename, Goto, Return, TypeOK, files
  <1>11. CASE ScanDir(p)
    <2>0. Entries \subseteq Entry
      BY Zenon DEF Entries, Entry
    <2>1. TypeOK'
      BY <1>0, <1>11, <2>0 DEF ScanDir, Goto, TypeOK, files
    <2>2. TmpInv(p)'
      BY <1>0, <1>11, <2>0 DEF ScanDir, Goto, TypeOK, files, TmpInv, Locked
    <2> QED
      BY <1>0, <1>11, <2>1, <2>2, WholeStep, Zenon DEF ScanDir, Goto, TypeOK, files
  <1>12. CASE UnlinkEntry(p)
    <2>1. TypeOK'
      BY <1>0, <1>12, ContentsFact DEF UnlinkEntry, TypeOK, files
    <2>2. TmpInv(p)'
      BY <1>0, <1>12, ContentsFact, Zenon DEF UnlinkEntry, TypeOK, files, TmpInv, Locked, Absent
    <2> QED
      BY <1>0, <1>12, <2>1, <2>2, WholeStep, Zenon DEF UnlinkEntry, TypeOK, files
  <1>13. CASE RemoveDir(p)
    <2>1. TypeOK'
      BY <1>0, <1>13, Zenon DEF RemoveDir, Goto, TypeOK, files
    <2>2. TmpInv(p)'
      BY <1>0, <1>13 DEF RemoveDir, Goto, TypeOK, files, TmpInv, Locked
    <2> QED
      BY <1>0, <1>13, <2>1, <2>2, WholeStep, Zenon DEF RemoveDir, Goto, TypeOK, files
  <1>14. CASE Crash(p)
    <2>1. TypeOK'
      BY <1>0, <1>14, Zenon DEF Crash, Goto, Return, Unlock, TypeOK, files
    <2>2. TmpInv(p)'
      BY <1>0, <1>14, Zenon DEF Crash, Goto, Return, TypeOK, files, TmpInv, Locked
    <2> QED
      BY <1>0, <1>14, <2>1, <2>2, WholeStep, Zenon DEF Crash, Goto, Return, TypeOK, files
  <1> QED
    BY <1>1, <1>2, <1>3, <1>4, <1>5, <1>6, <1>7, <1>8, <1>9, <1>10, <1>11, <1>12, <1>13, <1>14, Zenon DEF Call

LEMMA NextKeepsWhole == WholeInv /\ [Next]_vars => WholeInv'
  <1> SUFFICES ASSUME WholeInv, [Next]_vars PROVE WholeInv'
    BY Zenon
  <1>1. CASE UNCHANGED vars \/ ContainerDies
    BY <1>1, Zenon DEF vars, files, ContainerDies, WholeInv, TypeOK, TmpInv, Locked, NeverTorn
  <1>2. CASE PowerLoss
    <2>1. UNCHANGED file
      BY <1>2, Zenon DEF PowerLoss, AfterLoss, WholeInv
    <2>2. tmp' \in [Proc -> Contents]
      BY <1>2, ContentsFact DEF PowerLoss, WholeInv, TypeOK
    <2>3. pc' \in [Proc -> Label] /\ \A p \in Proc : pc'[p] \in Ended \cup {"idle"}
      BY <1>2, Zenon DEF PowerLoss, Active, WholeInv, TypeOK, Label, Ended
    <2>4. TypeOK'
      BY <1>2, <2>1, <2>2, <2>3, Zenon DEF PowerLoss, WholeInv, TypeOK
    <2>5. ASSUME NEW p \in Proc PROVE TmpInv(p)'
      <3>1. TmpInv(p) /\ pc'[p] \in Ended \cup {"idle"} /\ UNCHANGED <<task, mem>>
        BY <1>2, <2>3, Zenon DEF PowerLoss, WholeInv
      <3>2. pc'[p] = "idle" => pc[p] = "idle"
        BY <1>2, Zenon DEF PowerLoss, WholeInv, TypeOK
      <3> QED
        BY <3>1, <3>2, Zenon DEF TmpInv, Locked, Ended
    <2> QED
      BY <2>1, <2>4, <2>5, Zenon DEF WholeInv, NeverTorn
  <1> QED
    BY <1>1, <1>2, CallKeepsWhole, Zenon DEF Next

\* What write_state_atomic renames is complete and flushed, at every moment and
\* through every kill, delete and power loss.
THEOREM WholeInvariant == Spec => []WholeInv
  BY InitWhole, NextKeepsWhole, PTL DEF Spec

\* state.json always parses.
THEOREM NeverTornSafety == Spec => []NeverTorn
  <1>1. WholeInv => NeverTorn
    BY Zenon DEF WholeInv
  <1> QED
    BY <1>1, WholeInvariant, PTL

-----------------------------------------------------------------------------
(* The lock, for callers that never delete. *)

\* A process keeps its task.
LEMMA TaskKept == [Next]_vars => UNCHANGED task
  <1> SUFFICES ASSUME [Next]_vars PROVE UNCHANGED task
    BY Zenon
  <1>1. ASSUME NEW p \in Proc, Call(p) \/ Crash(p) PROVE UNCHANGED task
    BY <1>1, Zenon DEF Call, Crash, CreateDir, OpenLock, Flock, LoadFrom, ListRaw, CreateDirAgain,
                CreateTmp, WriteTmp, FlushTmp, Rename, ScanDir, UnlinkEntry, RemoveDir
  <1> QED
    BY <1>1, Zenon DEF Next, ContainerDies, PowerLoss, vars

LEMMA InitLock == NoDelete /\ Init => LockHeld
  <1> SUFFICES ASSUME NoDelete, Init PROVE LockHeld
    BY Zenon
  <1>1. TypeOK
    BY InitWhole, Zenon DEF WholeInv
  <1> QED
    BY <1>1, Zenon DEF NoDelete, Init, LockHeld, Locked

\* The part of LockHeld about one call.
HoldsLock(p) ==
    /\ task[p] # "delete" /\ pc[p] \notin {"scan", "unlink"}
    /\ pc[p] = "flock" \/ Locked(p) => fd[p] = lockfile /\ fd[p] # Nobody
    /\ Locked(p) => holder[fd[p]] = p

LEMMA CallKeepsLock ==
  ASSUME LockHeld, WholeInv', NEW p \in Proc, Call(p) \/ Crash(p)
  PROVE  LockHeld'
  <1>0. TypeOK /\ TypeOK' /\ \A q \in Proc : HoldsLock(q)
    BY Zenon DEF LockHeld, WholeInv, HoldsLock
  <1>1. SUFFICES ASSUME NEW q \in Proc PROVE HoldsLock(q)'
    BY <1>0, Zenon DEF LockHeld, HoldsLock
  <1> USE DEF HoldsLock, Locked, TypeOK
  <1>2. CASE CreateDir(p)
    BY <1>0, <1>2, Zenon DEF CreateDir, Goto, files
  <1>3. CASE OpenLock(p)
    BY <1>0, <1>3 DEF OpenLock, Goto, files
  <1>4. CASE Flock(p)
    BY <1>0, <1>4 DEF Flock, Goto, files
  <1>5. CASE LoadFrom(p)
    BY <1>0, <1>5 DEF LoadFrom, Goto, Return, Unlock, AfterLoad, files
  <1>6. CASE ListRaw(p)
    BY <1>0, <1>6, Zenon DEF ListRaw, Goto, files
  <1>7. CASE CreateDirAgain(p)
    BY <1>0, <1>7, Zenon DEF CreateDirAgain, Goto, files
  <1>8. CASE CreateTmp(p)
    BY <1>0, <1>8 DEF CreateTmp, Goto, Return, Unlock, files
  <1>9. CASE WriteTmp(p)
    BY <1>0, <1>9, Zenon DEF WriteTmp, Goto, files
  <1>10. CASE FlushTmp(p)
    BY <1>0, <1>10, Zenon DEF FlushTmp, Goto, files
  <1>11. CASE Rename(p)
    BY <1>0, <1>11 DEF Rename, Goto, Return, Unlock, AfterLoad, files
  <1>12. CASE ScanDir(p)
    BY <1>0, <1>12, Zenon DEF ScanDir, Goto, files
  <1>13. CASE UnlinkEntry(p)
    BY <1>0, <1>13, Zenon DEF UnlinkEntry, files
  <1>14. CASE RemoveDir(p)
    BY <1>0, <1>14, Zenon DEF RemoveDir, Goto, files
  <1>15. CASE Crash(p)
    BY <1>0, <1>15, Zenon DEF Crash, Goto, Return, Unlock, files
  <1> QED
    BY <1>2, <1>3, <1>4, <1>5, <1>6, <1>7, <1>8, <1>9, <1>10, <1>11, <1>12, <1>13, <1>14, <1>15, Zenon DEF Call

LEMMA NextKeepsLock == LockHeld /\ WholeInv /\ WholeInv' /\ [Next]_vars => LockHeld'
  <1> SUFFICES ASSUME LockHeld, WholeInv, WholeInv', [Next]_vars PROVE LockHeld'
    BY Zenon
  <1>0. TypeOK'
    BY Zenon DEF WholeInv
  <1>1. CASE UNCHANGED vars \/ ContainerDies
    BY <1>0, <1>1, Zenon DEF vars, files, ContainerDies, LockHeld, Locked
  <1>2. CASE PowerLoss
    <2>1. \A p \in Proc : pc'[p] \in Ended \cup {"idle"}
      BY <1>2, Zenon DEF PowerLoss, Active, LockHeld, TypeOK, Ended
    <2> QED
      BY <1>0, <1>2, <2>1, Zenon DEF PowerLoss, LockHeld, Locked, Ended
  <1> QED
    BY <1>1, <1>2, CallKeepsLock, Zenon DEF Next

\* Unless there is a delete every call locks the one lock file that there is.
THEOREM LockInvariant == Spec => []LockInv
  <1>1. Init => LockInv
    BY InitLock, Zenon DEF LockInv
  <1>2. LockInv /\ WholeInv /\ WholeInv' /\ [Next]_vars => LockInv'
    BY NextKeepsLock, TaskKept, Zenon DEF LockInv, NoDelete
  <1> QED
    BY <1>1, <1>2, WholeInvariant, PTL DEF Spec

\* As long as nobody deletes the container, flock makes the read, the refresh
\* and the write of a call exclude those of every other call.
THEOREM UpdateSafety == Spec => []ExclusiveUpdate
  <1>1. LockInv => ExclusiveUpdate
    BY Zenon DEF LockInv, LockHeld, ExclusiveUpdate
  <1> QED
    BY <1>1, LockInvariant, PTL

-----------------------------------------------------------------------------
(* The refinement of AtomicStore. *)

LEMMA InitUpdate == Init => \A p \in Proc : UpdateInv(p)
  BY DEF Init, UpdateInv, Locked, Composed, Ended

LEMMA CallKeepsUpdate ==
  ASSUME LockHeld, WholeInv, WholeInv', \A q \in Proc : UpdateInv(q),
         NEW p \in Proc, Call(p) \/ Crash(p), NEW q \in Proc
  PROVE  UpdateInv(q)'
  <1>0. /\ TypeOK /\ TypeOK' /\ HoldsLock(p) /\ HoldsLock(q) /\ UpdateInv(p) /\ UpdateInv(q)
        /\ task' = task
    BY TaskKept, Zenon DEF LockHeld, WholeInv, HoldsLock, Next
  <1>a. Locked(p) /\ Locked(q) => p = q
    BY Zenon DEF LockHeld
  <1>b. pc \in [Proc -> Label] /\ tmp \in [Proc -> Contents]
    BY <1>0, Zenon DEF TypeOK
  <1> USE DEF UpdateInv, HoldsLock, Locked, TypeOK, Ended
  <1>2. CASE CreateDir(p)
    BY <1>0, <1>2 DEF CreateDir, Goto
  <1>3. CASE OpenLock(p)
    BY <1>0, <1>3 DEF OpenLock, Goto
  <1>4. CASE Flock(p)
    BY <1>0, <1>4 DEF Flock, Goto, files
  <1>5. CASE LoadFrom(p)
    <2>1. CASE q = p
      <3>1. \/ pc'[p] \in {"err", "ok", "scan"}
            \/ pc'[p] = "mkdir" /\ RefreshLiveness(file) # file
        BY <1>0, <1>5 DEF LoadFrom, Goto, Return, AfterLoad
      <3>2. mem'[p] = [RefreshLiveness(file) EXCEPT !.flushed = FALSE]
        BY <1>0, <1>5 DEF LoadFrom
      <3>3. RefreshLiveness(file) # file =>
                /\ dead /\ file.status = "running"
                /\ mem'[p].status = "stopped" /\ mem'[p].by = file.by
        BY <1>0, <3>2, Zenon DEF RefreshLiveness, Contents
      <3>4. task[p] # "save" /\ dead' = dead /\ file' = file
        BY <1>0, <1>5, Zenon DEF LoadFrom, files
      <3> QED
        BY <1>0, <2>1, <3>1, <3>3, <3>4, Zenon
    <2>2. CASE q # p
      BY <1>0, <1>5, <2>2 DEF LoadFrom, Goto, Return, AfterLoad, files
    <2> QED
      BY <2>1, <2>2, Zenon
  <1>6. CASE ListRaw(p)
    BY <1>0, <1>6 DEF ListRaw, Goto, files
  <1>7. CASE CreateDirAgain(p)
    BY <1>0, <1>7, Zenon DEF CreateDirAgain, Goto
  <1>8. CASE CreateTmp(p)
    <2>1. pc[p] = "create" /\ UNCHANGED <<file, mem, dead>>
      BY <1>8, Zenon DEF CreateTmp
    <2>2. \E l \in {"write", "err"} : pc' = [pc EXCEPT ![p] = l]
      BY <1>8, Zenon DEF CreateTmp, Goto, Return
    <2>3. tmp' \in {tmp, [tmp EXCEPT ![p] = Torn(p)]}
      BY <1>8, Zenon DEF CreateTmp
    <2>4. CASE q = p
      <3>1. pc'[q] \in {"write", "err"}
        BY <1>b, <2>2, <2>4, Zenon
      <3> QED
        BY <1>0, <2>1, <2>4, <3>1, Zenon
    <2>5. CASE q # p
      <3>1. pc'[q] = pc[q] /\ tmp'[q] = tmp[q]
        BY <1>b, <2>2, <2>3, <2>5, Zenon
      <3> QED
        BY <1>0, <2>1, <3>1, Zenon
    <2> QED
      BY <2>4, <2>5, Zenon
  <1>9. CASE WriteTmp(p)
    BY <1>0, <1>9, Zenon DEF WriteTmp, Goto
  <1>10. CASE FlushTmp(p)
    <2>1. tmp[p] = Absent => tmp'[p] = Absent
      <3>1. [Absent EXCEPT !.flushed = TRUE] = Absent
        <4> DEFINE f == Absent
        <4>1. f \in Contents /\ f.flushed = TRUE
          BY ContentsFact, Zenon DEF Absent
        <4> HIDE DEF f
        <4>2. [f EXCEPT !.flushed = TRUE] = f
          BY <4>1 DEF Contents
        <4> QED
          BY <4>2, Zenon DEF f
      <3>2. tmp'[p] = [tmp[p] EXCEPT !.flushed = TRUE]
        BY <1>0, <1>10 DEF FlushTmp
      <3> QED
        BY <3>1, <3>2, Zenon
    <2>2. tmp'[p].status = tmp[p].status /\ tmp'[p].by = tmp[p].by
      BY <1>0, <1>10 DEF FlushTmp, Contents
    <2> QED
      BY <1>0, <1>10, <2>1, <2>2 DEF FlushTmp, Goto
  <1>11. CASE Rename(p)
    <2>1. /\ pc[p] = "rename" /\ UNCHANGED <<mem, dead>>
          /\ file' \in {file, tmp[p]} /\ tmp' \in {tmp, [tmp EXCEPT ![p] = Absent]}
      BY <1>11, Zenon DEF Rename
    <2>2. \E l \in {"ok", "err"} : pc' = [pc EXCEPT ![p] = l]
      BY <1>0, <1>11, Zenon DEF Rename, Goto, Return, AfterLoad
    <2>3. CASE q = p
      <3>1. pc'[q] \in {"ok", "err"}
        BY <1>b, <2>2, <2>3, Zenon
      <3> QED
        BY <1>0, <3>1, Zenon
    <2>4. CASE q # p
      <3>1. pc'[q] = pc[q] /\ tmp'[q] = tmp[q] /\ ~Locked(q)
        BY <1>a, <1>b, <2>1, <2>2, <2>4, Zenon
      <3> QED
        BY <1>0, <2>1, <3>1, Zenon
    <2> QED
      BY <2>3, <2>4, Zenon
  <1>12. CASE ScanDir(p) \/ UnlinkEntry(p) \/ RemoveDir(p)
    BY <1>0, <1>12, Zenon DEF ScanDir, UnlinkEntry, RemoveDir
  <1>13. CASE Crash(p)
    <2>1. pc' = [pc EXCEPT ![p] = "crashed"] /\ UNCHANGED <<file, tmp, mem, dead>>
      BY <1>13, Zenon DEF Crash, Goto, Return, files
    <2>2. pc'[q] \in {pc[q], "crashed"}
      BY <1>b, <2>1, Zenon
    <2> QED
      BY <1>0, <2>1, <2>2, Zenon
  <1> QED
    BY <1>2, <1>3, <1>4, <1>5, <1>6, <1>7, <1>8, <1>9, <1>10, <1>11, <1>12, <1>13, Zenon DEF Call

LEMMA NextKeepsUpdate ==
  ASSUME LockHeld, WholeInv, WholeInv', \A q \in Proc : UpdateInv(q), [Next]_vars,
         NEW q \in Proc
  PROVE  UpdateInv(q)'
  <1>0. UpdateInv(q)
    BY Zenon
  <1>1. CASE UNCHANGED vars \/ ContainerDies
    BY <1>0, <1>1, Zenon DEF vars, files, ContainerDies, UpdateInv, Locked
  <1>2. CASE PowerLoss
    <2>1. pc'[q] \in Ended \cup {"idle"}
      BY <1>2, Zenon DEF PowerLoss, Active, LockHeld, TypeOK, Ended
    <2>2. pc'[q] = "idle" => pc[q] = "idle"
      BY <1>2, Zenon DEF PowerLoss, LockHeld, TypeOK
    <2> QED
      BY <1>0, <1>2, <2>1, <2>2, Zenon DEF PowerLoss, UpdateInv, Locked, Ended
  <1> QED
    BY <1>1, <1>2, CallKeepsUpdate, Zenon DEF Next

\* Without a delete a refresh writes the record that is in the file, marked as
\* stopped, and a save its own: nobody else has written in between.
THEOREM RefineInvariant == Spec => []RefineInv
  <1>1. Init => RefineInv
    BY InitUpdate, Zenon DEF RefineInv
  <1>2. RefineInv /\ LockInv /\ WholeInv /\ WholeInv' /\ [Next]_vars => RefineInv'
    BY NextKeepsUpdate, TaskKept, Zenon DEF RefineInv, LockInv, NoDelete
  <1> QED
    BY <1>1, <1>2, LockInvariant, WholeInvariant, PTL DEF Spec

\* A step of a call renames, or it leaves the record and the saves alone.
LEMMA OtherCalls ==
  ASSUME NoDelete, LockHeld, \A q \in Proc : UpdateInv(q),
         NEW p \in Proc, Call(p) \/ Crash(p), ~Rename(p)
  PROVE  UNCHANGED <<Record, Written, dead>>
  <1>0. /\ TypeOK /\ HoldsLock(p) /\ UpdateInv(p) /\ task' = task /\ NoDelete'
    BY TaskKept, Zenon DEF LockHeld, HoldsLock, Next, NoDelete
  <1>1. ~ScanDir(p) /\ ~UnlinkEntry(p) /\ ~RemoveDir(p)
    BY <1>0, Zenon DEF HoldsLock, ScanDir, UnlinkEntry, RemoveDir
  <1>2. file' = file /\ dead' = dead
    BY <1>1, Zenon DEF Call, Crash, CreateDir, OpenLock, Flock, LoadFrom, ListRaw, CreateDirAgain,
                CreateTmp, WriteTmp, FlushTmp, files
  <1>3. \E l \in Label : pc' = [pc EXCEPT ![p] = l] /\ (l = "ok" => task[p] # "save")
    <2> USE DEF Label, Ended, Goto, Return, AfterLoad, HoldsLock
    <2>1. CASE CreateDir(p) \/ OpenLock(p) \/ Flock(p)
      BY <2>1, Zenon DEF CreateDir, OpenLock, Flock
    <2>2. CASE LoadFrom(p)
      BY <1>0, <2>2, Zenon DEF LoadFrom, UpdateInv
    <2>3. CASE ListRaw(p)
      BY <2>3, Zenon DEF ListRaw
    <2>4. CASE CreateDirAgain(p) \/ CreateTmp(p) \/ WriteTmp(p) \/ FlushTmp(p)
      BY <2>4, Zenon DEF CreateDirAgain, CreateTmp, WriteTmp, FlushTmp
    <2>5. CASE Crash(p)
      BY <2>5 DEF Crash
    <2> QED
      BY <1>1, <2>1, <2>2, <2>3, <2>4, <2>5, Zenon DEF Call
  <1>4. pc[p] = "ok" => task[p] # "save" \/ ~(Call(p) \/ Crash(p))
    BY Zenon DEF Call, Crash, Active, Ended, CreateDir, OpenLock, Flock, LoadFrom, ListRaw, CreateDirAgain,
           CreateTmp, WriteTmp, FlushTmp, Rename, ScanDir, UnlinkEntry, RemoveDir
  <1>5. Written' = Written
    BY <1>0, <1>3, <1>4, Zenon DEF Written, TypeOK
  <1> QED
    BY <1>0, <1>2, <1>5, Zenon DEF Record

\* A rename that succeeds is a save or a refresh of the record that is there.
LEMMA RenameRefines ==
  ASSUME NoDelete, LockHeld, WholeInv, \A q \in Proc : UpdateInv(q),
         NEW p \in Proc, Rename(p)
  PROVE  (\E q \in Proc : Store!Save(q)) \/ Store!Refresh \/ UNCHANGED <<Record, Written, dead>>
  <1>0. /\ TypeOK /\ HoldsLock(p) /\ UpdateInv(p) /\ TmpInv(p) /\ task' = task /\ NoDelete'
        /\ pc[p] = "rename" /\ dead' = dead
    BY TaskKept, Zenon DEF LockHeld, HoldsLock, Next, NoDelete, WholeInv, Rename, Call
  <1>1. CASE tmp[p] = Absent
    <2>1. file' = file /\ pc' = [pc EXCEPT ![p] = "err"]
      BY <1>1, Zenon DEF Rename, Return, Goto
    <2> QED
      BY <1>0, <2>1, Zenon DEF Record, Written, TypeOK
  <1>2. CASE tmp[p] # Absent
    <2>1. /\ file' = tmp[p]
          /\ pc' = [pc EXCEPT ![p] = IF task[p] = "save" THEN "ok" ELSE AfterLoad(p, mem[p])]
      BY <1>2, Zenon DEF Rename, Return, Goto
    <2>2. Record' = [status |-> mem[p].status, by |-> mem[p].by]
      BY <1>0, <1>2, <2>1, Zenon DEF Record, UpdateInv
    <2>3. CASE task[p] = "save"
      <3>1. Written' = Written \cup {p} /\ p \notin Written
        BY <1>0, <2>1, <2>3 DEF Written, TypeOK
      <3>2. mem[p].by = p /\ mem[p].status \in {"running", "stopped"}
        BY <1>0, <2>3, Zenon DEF UpdateInv, Ended
      <3>3. Store!Save(p)
        BY <1>0, <2>2, <3>1, <3>2, Zenon DEF Store!Save
      <3> QED
        BY <3>3, Zenon
    <2>4. CASE task[p] # "save"
      <3>1. Written' = Written
        BY <1>0, <2>1, <2>4, Zenon DEF Written, TypeOK
      <3>2. /\ dead /\ file.status = "running"
            /\ mem[p].status = "stopped" /\ mem[p].by = file.by
        BY <1>0, <2>4, Zenon DEF UpdateInv, Locked
      <3>3. Record = [status |-> "running", by |-> file.by]
        BY <3>2, Zenon DEF Record
      <3>4. Record' = [Record EXCEPT !.status = "stopped"]
        BY <2>2, <3>2, <3>3
      <3>5. Store!Refresh
        BY <1>0, <3>1, <3>2, <3>3, <3>4, Zenon DEF Store!Refresh
      <3> QED
        BY <3>5, Zenon
    <2> QED
      BY <2>3, <2>4, Zenon
  <1> QED
    BY <1>1, <1>2, Zenon

LEMMA NextRefines ==
  ASSUME LockInv, WholeInv, RefineInv, [Next]_vars
  PROVE  [Store!Next]_<<Record, Written, dead>>
  <1>0. task' = task /\ NoDelete' = NoDelete
    BY TaskKept, Zenon DEF NoDelete
  <1>1. CASE UNCHANGED vars
    BY <1>1, Zenon DEF vars, files, Record, Written, NoDelete
  <1>2. CASE ContainerDies
    <2>1. UNCHANGED <<Record, Written>>
      BY <1>2, Zenon DEF ContainerDies, files, Record, Written, NoDelete
    <2> QED
      BY <1>2, <2>1, Zenon DEF ContainerDies, Store!Next, Store!Die
  <1>3. CASE PowerLoss
    <2>1. file' = file
      BY <1>3, Zenon DEF PowerLoss, AfterLoss, WholeInv
    <2>2. \A p \in Proc : pc'[p] = "ok" <=> pc[p] = "ok"
      BY <1>3, Zenon DEF PowerLoss, Active, Ended, WholeInv, TypeOK
    <2>3. UNCHANGED <<Record, Written>>
      BY <1>0, <2>1, <2>2, Zenon DEF Record, Written
    <2>4. dead' = TRUE /\ dead \in BOOLEAN
      BY <1>3, Zenon DEF PowerLoss, WholeInv, TypeOK
    <2> QED
      BY <2>3, <2>4, Zenon DEF Store!Next, Store!Die
  <1>4. ASSUME NEW p \in Proc, Call(p) \/ Crash(p)
        PROVE  [Store!Next]_<<Record, Written, dead>>
    <2>1. CASE NoDelete
      <3>1. LockHeld /\ \A q \in Proc : UpdateInv(q)
        BY <2>1, Zenon DEF LockInv, RefineInv
      <3>2. CASE Rename(p)
        BY <2>1, <3>1, <3>2, RenameRefines, Zenon DEF Store!Next
      <3>3. CASE ~Rename(p)
        BY <1>4, <2>1, <3>1, <3>3, OtherCalls, Zenon
      <3> QED
        BY <3>2, <3>3, Zenon
    <2>2. CASE ~NoDelete
      <3>1. dead' = dead
        BY <1>4, Zenon DEF Call, Crash, CreateDir, OpenLock, Flock, LoadFrom, ListRaw, CreateDirAgain,
                    CreateTmp, WriteTmp, FlushTmp, Rename, ScanDir, UnlinkEntry, RemoveDir
      <3> QED
        BY <1>0, <2>2, <3>1, Zenon DEF Record, Written
    <2> QED
      BY <2>1, <2>2, Zenon
  <1> QED
    BY <1>1, <1>2, <1>3, <1>4, Zenon DEF Next

\* For callers that never delete, state/mod.rs is an atomic store: the lock, the
\* temporary file and the rename show as one save or one refresh each, whatever
\* number of processes call it and whoever of them is killed.
THEOREM StoreRefinement == Spec => ImplementsAtomicStore
  <1>1. Init => Store!Init
    BY DEF Init, Store!Init, Record, Written, Absent
  <1>2. LockInv /\ WholeInv /\ RefineInv /\ [Next]_vars => [Store!Next]_<<Record, Written, dead>>
    BY NextRefines, Zenon
  <1> QED
    BY <1>1, <1>2, LockInvariant, WholeInvariant, RefineInvariant, PTL
    DEF Spec, ImplementsAtomicStore, Store!Spec



-----------------------------------------------------------------------------
(* SeccompReport *)

\* A smaller set of allowed syscalls mitigates more (is_mitigated is antitone).
LEMMA MitigationAntitone ==
    ASSUME NEW e, NEW M, NEW N, M \subseteq N, IsMitigated(e, N)
    PROVE  IsMitigated(e, M)
  BY Zenon DEF IsMitigated

\* For any rules, capabilities and entries, and whatever the profile allows: each
\* difference between the two columns of a report is borne out by a path of the entry
\* and a syscall of over_allowed or newly_blocked (compare, cve_coverage).
THEOREM ReportExplained == ReportSpec => []ReportIsExplained
<1>1. ASSUME NEW e \in MitigatedByBaseline(Baseline) \ MitigatedByProfile(allowed)
      PROVE  \E path \in e.paths :
                 path \subseteq allowed /\ path \cap OverAllowed(allowed, Baseline) # {}
  <2>1. PICK path \in e.paths : \A s \in path : s \in allowed
    BY Zenon DEF MitigatedByBaseline, MitigatedByProfile, IsMitigated
  <2>2. Baseline # {} /\ \E s \in path : s \notin Baseline
    BY Zenon DEF MitigatedByBaseline, IsMitigated
  <2>3. against
    BY <2>2, Zenon DEF Baseline
  <2> QED BY <2>1, <2>2, <2>3, Zenon DEF OverAllowed
<1>2. ASSUME Baseline # {}, NEW e \in NewlyMitigated(allowed, Baseline)
      PROVE  \E path \in e.paths :
                 path \subseteq Baseline /\ path \cap NewlyBlocked(allowed, Baseline) # {}
  <2>1. /\ e.paths # {} /\ \A path \in e.paths : \E s \in path : s \notin allowed
        /\ ~IsMitigated(e, Baseline)
    BY <1>2, Zenon DEF NewlyMitigated, MitigatedByBaseline, MitigatedByProfile, IsMitigated
  <2>2. PICK path \in e.paths : \A s \in path : s \in Baseline
    BY <2>1, Zenon DEF IsMitigated
  <2> QED BY <2>1, <2>2, Zenon DEF NewlyBlocked
<1>3. ReportIsExplained
  BY <1>1, <1>2, Zenon DEF ReportIsExplained
<1> QED BY <1>3, PTL

\* In every behaviour, merging runs never makes a reachable entry mitigated.
THEOREM Reopens == ReportSpec => GrowthReopens
<1>1. ASSUME [ReportNext]_reportVars
      PROVE  allowed \subseteq allowed'
  BY <1>1, Zenon DEF ReportNext, GrowProfile, reportVars
<1>2. ASSUME allowed \subseteq allowed'
      PROVE  StillReachable(allowed) \subseteq StillReachable(allowed')
  <2>1. SUFFICES ASSUME NEW e \in Relevant, IsMitigated(e, allowed')
                 PROVE  IsMitigated(e, allowed)
    BY Zenon DEF StillReachable, MitigatedByProfile
  <2> QED
    BY <1>2, <2>1, MitigationAntitone, Zenon
<1>3. [ReportNext]_reportVars => [StillReachable(allowed) \subseteq StillReachable(allowed')]_reportVars
  BY <1>1, <1>2, Zenon
<1> QED
  BY <1>3, PTL DEF ReportSpec, GrowthReopens

-----------------------------------------------------------------------------
(* RunSettings. *)

(***************************************************************************)
(* The policy of a bundle may be applied to its own result (policy.rs):    *)
(* `create` stores resolved settings and `start` resolves them again.      *)
(***************************************************************************)
LEMMA PolicyIdempotent ==
    ASSUME NEW o \in Options, NEW c \in Configs
    PROVE  /\ ApplySecurity(ApplySecurity(o.security, c.policy), c.policy)
                = ApplySecurity(o.security, c.policy)
           /\ ApplyLogMode(ApplyLogMode(o.log, c.policy), c.policy)
                = ApplyLogMode(o.log, c.policy)
BY Zenon DEF ApplySecurity, ApplyLogMode, Options, Configs

(***************************************************************************)
(* The options `start` rebuilds from a created state lead to the settings  *)
(* and the log decision of the options `create` was given.                 *)
(***************************************************************************)
LEMMA RoundTrip ==
    ASSUME NEW o \in Options, NEW c \in Configs, NEW isRoot \in BOOLEAN, NEW capture,
           NEW s, s = FromState(CreatedRecord(o, c), o.terminal)
    PROVE  /\ ShouldCapture(s, c) = ShouldCapture(o, c)
           /\ WithoutCapture(Settings(s, c, isRoot, capture))
                = WithoutCapture(Settings(o, c, isRoot, capture))
<1>1. /\ s.network = o.network /\ s.userns = o.userns /\ s.tty = o.tty
      /\ s.terminal = o.terminal /\ s.mode = o.mode /\ s.profile = o.profile
      /\ s.security = ApplySecurity(o.security, c.policy)
      /\ s.log = ApplyLogMode(o.log, c.policy)
  BY Zenon DEF FromState, CreatedRecord
<1>2. ShouldCapture(s, c) = ShouldCapture(o, c)
  BY <1>1, PolicyIdempotent, Zenon DEF ShouldCapture
<1>3. WithoutCapture(Settings(s, c, isRoot, capture))
        = WithoutCapture(Settings(o, c, isRoot, capture))
  BY <1>1, PolicyIdempotent DEF WithoutCapture, Settings
<1> QED BY <1>2, <1>3, Zenon

\* Until config.json is rewritten, what is stored and what is executed come from the
\* command line and the config.
SettingsInv ==
    /\ asked \in Options /\ spec \in Configs /\ edits \in Nat /\ root \in BOOLEAN
    /\ edits = 0 =>
        /\ spc \in {"created", "running-created"} => record = CreatedRecord(asked, spec)
        /\ spc = "running-created" => options = FromState(record, asked.terminal)
        /\ spc = "running-new" => options = asked
        /\ spc \in {"running-new", "running-created"} =>
              capturing = ShouldCapture(options, spec)

(***************************************************************************)
(* For any set of options and configurations: a created and started        *)
(* container gets the settings of a `run` (main.rs 778-867), and its state *)
(* tells them truly.                                                       *)
(***************************************************************************)
THEOREM SettingsAgree == SettingsSpec => []SettingsHold
<1> DEFINE Inv == SettingsInv /\ StartIsRun /\ RecordTellsTruth
<1>1. SettingsInit => Inv
  BY SettingsAssumption
     DEF SettingsInit, SettingsState, SettingsInv, StartIsRun, RecordTellsTruth
<1>2. Inv /\ [SettingsNext]_settingsVars => Inv'
  <2> SUFFICES ASSUME SettingsInv, StartIsRun, RecordTellsTruth, [SettingsNext]_settingsVars
               PROVE  (SettingsInv /\ StartIsRun /\ RecordTellsTruth)'
    BY Zenon
  <2>1. CASE CreateContainer
    BY <2>1, Zenon DEF CreateContainer, SettingsInv, StartIsRun, RecordTellsTruth
  <2>2. CASE RunContainer
    BY <2>2, Zenon DEF RunContainer, Execute, SettingsInv, StartIsRun, RecordTellsTruth
  <2>3. CASE StartContainer
    BY <2>3, Zenon DEF StartContainer, Execute, SettingsInv, StartIsRun, RecordTellsTruth
  <2>4. CASE RunContainerProcess
    <3>1. SettingsInv'
      BY <2>4, Zenon DEF RunContainerProcess, SettingsInv
    <3>2. StartIsRun'
      <4> SUFFICES ASSUME spc = "running-created", edits = 0
                   PROVE  WithoutCapture(Settings(options, spec, root, capturing))
                            = WithoutCapture(Settings(asked, spec, root,
                                                      ShouldCapture(asked, spec)))
        BY <2>4, Zenon DEF RunContainerProcess, StartIsRun
      <4>1. options = FromState(CreatedRecord(asked, spec), asked.terminal)
        BY Zenon DEF SettingsInv
      <4>2. capturing = ShouldCapture(asked, spec)
        BY <4>1, RoundTrip, Zenon DEF SettingsInv
      <4> QED BY <4>1, <4>2, RoundTrip DEF SettingsInv
    <3>3. RecordTellsTruth'
      <4> SUFFICES ASSUME edits = 0 PROVE RecordTellsTruth'
        BY <2>4, Zenon DEF RunContainerProcess, RecordTellsTruth
      <4>1. CASE spc = "running-created"
        <5>1. /\ record = CreatedRecord(asked, spec)
              /\ options = FromState(CreatedRecord(asked, spec), asked.terminal)
              /\ capturing = ShouldCapture(options, spec)
          BY <4>1, Zenon DEF SettingsInv
        <5>2. /\ record' = MarkRunning(record, ApplyLogMode(options.log, spec.policy))
              /\ applied' = Settings(options, spec, root, capturing)
              /\ spc' = "started" /\ UNCHANGED <<spec, root>>
          BY <2>4, <4>1, Zenon DEF RunContainerProcess
        <5>3. /\ applied'.security = record'.security /\ record'.policy = spec.policy
              /\ record'.userns = applied'.userns /\ record'.mode = applied'.mode
              /\ record'.log = ApplyLogMode(options.log, spec.policy)
              /\ applied'.log = capturing /\ applied'.tty = options.tty
          BY <5>1, <5>2, PolicyIdempotent
             DEF SettingsInv, MarkRunning, Settings, CreatedRecord, FromState
        <5>4. root => record'.network = applied'.network
          BY <5>1, <5>2, Zenon
             DEF MarkRunning, Settings, CreatedRecord, FromState, ToEffective
        <5> QED BY <5>1, <5>2, <5>3, <5>4, Zenon DEF RecordTellsTruth, ShouldCapture
      <4>2. CASE spc = "running-new"
        <5>1. options = asked /\ capturing = ShouldCapture(options, spec)
          BY <4>2, Zenon DEF SettingsInv
        <5>2. /\ record' = RunningRecord(options, spec, ToEffective(options.network, root))
              /\ applied' = Settings(options, spec, root, capturing)
              /\ spc' = "run" /\ UNCHANGED <<spec, root>>
          BY <2>4, <4>2, Zenon DEF RunContainerProcess
        <5>3. /\ applied'.security = record'.security /\ record'.policy = spec.policy
              /\ record'.userns = applied'.userns /\ record'.mode = applied'.mode
              /\ record'.log = ApplyLogMode(options.log, spec.policy)
              /\ applied'.log = capturing /\ applied'.tty = options.tty
              /\ record'.network = applied'.network
          BY <5>2, Zenon DEF RunningRecord, Settings, CreatedRecord
        <5> QED BY <5>1, <5>2, <5>3, Zenon DEF RecordTellsTruth, ShouldCapture
      <4> QED BY <2>4, <4>1, <4>2, Zenon DEF RunContainerProcess
    <3> QED BY <3>1, <3>2, <3>3, Zenon
  <2>5. CASE RunRefused
    BY <2>5, Zenon DEF RunRefused, SettingsInv, StartIsRun, RecordTellsTruth
  <2>6. CASE EditConfig
    BY <2>6, SettingsAssumption DEF EditConfig, SettingsInv, StartIsRun, RecordTellsTruth
  <2>7. CASE UNCHANGED settingsVars
    BY <2>7, Zenon DEF settingsVars, SettingsInv, StartIsRun, RecordTellsTruth
  <2> QED BY <2>1, <2>2, <2>3, <2>4, <2>5, <2>6, <2>7, Zenon DEF SettingsNext
<1>3. Inv => SettingsHold
  BY Zenon DEF SettingsHold
<1> QED BY <1>1, <1>2, <1>3, PTL DEF SettingsSpec
=============================================================================
