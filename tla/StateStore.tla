------------------------------ MODULE StateStore ------------------------------
(***************************************************************************)
(* The directory of one container id and the calls of state/mod.rs that    *)
(* read and write state.json in it, one system call per step.  A call is   *)
(* made by a process of its own and made once, so the inode of a lock file *)
(* is named by the process that created it.  The lock is an flock on that  *)
(* inode: the kernel frees it when its holder ends, and a lock file that   *)
(* was unlinked stays locked by who opened it.                             *)
(*                                                                         *)
(* A write counts as whole once it is complete, and survives a power loss  *)
(* once it is flushed.  Directory operations are taken to be journalled.   *)
(***************************************************************************)
EXTENDS Naturals, FiniteSets

CONSTANTS
    Proc,     \* calls, each by a process of its own
    Nobody,   \* no process
    Tasks,    \* Tasks[p]: which functions p may call
    Mortal,   \* processes that may be killed half way
    Power     \* whether the power may fail

Task == {"save", "load", "list", "delete"}

ASSUME NobodyAssumption == Nobody \notin Proc
ASSUME TasksAssumption == Tasks \in [Proc -> SUBSET Task]

VARIABLES
    dir,       \* whether the container's directory exists
    lockfile,  \* the inode of state.lock in it, Nobody when there is none
    file,      \* state.json
    tmp,       \* tmp[p]: state.json.tmp.<pid of p>
    holder,    \* holder[i]: who has the flock on inode i
    fd,        \* fd[p]: the inode that p opened
    mem,       \* mem[p]: the record p read or is about to write
    pc,
    task,
    todo,      \* todo[p]: the directory entries p has yet to remove
    dead       \* whether the container process ended

files == <<dir, lockfile, file, tmp>>
vars == <<files, holder, fd, mem, pc, task, todo, dead>>

\* The contents of a file: its status, "torn" when it does not parse, the call
\* that composed it, and whether it was flushed.
Contents == [status : {"absent", "torn", "running", "stopped"},
             by : Proc \cup {Nobody}, flushed : BOOLEAN]
Absent == [status |-> "absent", by |-> Nobody, flushed |-> TRUE]
Torn(p) == [status |-> "torn", by |-> p, flushed |-> FALSE]
Composed(p, s) == [status |-> s, by |-> p, flushed |-> FALSE]

Ended == {"ok", "err", "crashed"}
Label == Ended \cup {"idle", "open", "flock", "read", "mkdir", "create", "write",
                     "flush", "rename", "scan", "unlink"}
Entry == {"lock", "state"} \cup Proc

\* Every variable holds a value of its kind.
TypeOK ==
    /\ dir \in BOOLEAN
    /\ lockfile \in Proc \cup {Nobody}
    /\ file \in Contents
    /\ tmp \in [Proc -> Contents]
    /\ holder \in [Proc -> Proc \cup {Nobody}]
    /\ fd \in [Proc -> Proc \cup {Nobody}]
    /\ mem \in [Proc -> Contents]
    /\ pc \in [Proc -> Label]
    /\ task \in [Proc -> Task]
    /\ todo \in [Proc -> SUBSET Entry]
    /\ dead \in BOOLEAN

Init ==
    /\ dir = FALSE /\ lockfile = Nobody /\ file = Absent
    /\ tmp = [p \in Proc |-> Absent]
    /\ holder = [p \in Proc |-> Nobody]
    /\ fd = [p \in Proc |-> Nobody]
    /\ pc = [p \in Proc |-> "idle"]
    /\ task \in {t \in [Proc -> Task] : \A p \in Proc : t[p] \in Tasks[p]}
    /\ mem \in {m \in [Proc -> Contents] : \A p \in Proc :
                   m[p] \in {Composed(p, "running"), Composed(p, "stopped")}}
    /\ todo = [p \in Proc |-> {}]
    /\ dead = FALSE

Goto(p, l) == pc' = [pc EXCEPT ![p] = l]

\* The guard of p is dropped, or the kernel closes its files.
Unlock(p) == holder' = [i \in Proc |-> IF holder[i] = p THEN Nobody ELSE holder[i]]

\* Mutant: the guard is not dropped.
ReturnLocked(p, l) == Goto(p, l) /\ UNCHANGED holder

\* Return from the part of a call that holds the lock.
Return(p, l) == Goto(p, l) /\ Unlock(p)

-----------------------------------------------------------------------------
(* lock_state. *)

CreateDir(p) ==
    /\ pc[p] = "idle" /\ task[p] # "list"
    /\ dir' = TRUE
    /\ Goto(p, "open")
    /\ UNCHANGED <<lockfile, file, tmp, holder, fd, mem, task, todo, dead>>

\* A delete may have removed the directory again.
OpenLock(p) ==
    /\ pc[p] = "open"
    /\ IF dir
       THEN /\ lockfile' = IF lockfile = Nobody THEN p ELSE lockfile
            /\ fd' = [fd EXCEPT ![p] = lockfile']
            /\ Goto(p, "flock")
       ELSE Goto(p, "err") /\ UNCHANGED <<lockfile, fd>>
    /\ UNCHANGED <<dir, file, tmp, holder, mem, task, todo, dead>>

\* Mutant: a shared lock.
FlockShared(p) ==
    /\ pc[p] = "flock"
    /\ Goto(p, IF task[p] = "save" THEN "mkdir" ELSE "read")
    /\ UNCHANGED <<files, holder, fd, mem, task, todo, dead>>

Flock(p) ==
    /\ pc[p] = "flock"
    /\ holder[fd[p]] = Nobody
    /\ holder' = [holder EXCEPT ![fd[p]] = p]
    /\ Goto(p, IF task[p] = "save" THEN "mkdir" ELSE "read")
    /\ UNCHANGED <<files, fd, mem, task, todo, dead>>

-----------------------------------------------------------------------------
(* load_current, and the load of delete. *)

\* refresh_liveness on the record that was read.
RefreshLiveness(s) == IF s.status = "running" /\ dead THEN [s EXCEPT !.status = "stopped"] ELSE s

\* Where a call goes with a record that is up to date.
AfterLoad(p, s) ==
    IF task[p] # "delete" THEN "ok" ELSE IF s.status = "running" THEN "err" ELSE "scan"

LoadFrom(p) ==
    /\ pc[p] = "read"
    /\ mem' = [mem EXCEPT ![p] = [RefreshLiveness(file) EXCEPT !.flushed = FALSE]]
    /\ IF file.status \in {"absent", "torn"} THEN Return(p, "err")
       ELSE IF RefreshLiveness(file) # file THEN Goto(p, "mkdir") /\ UNCHANGED holder
       ELSE Return(p, AfterLoad(p, file))
    /\ UNCHANGED <<files, fd, task, todo, dead>>

\* exists and list_raw look at the file without the lock.
ListRaw(p) ==
    /\ pc[p] = "idle" /\ task[p] = "list"
    /\ mem' = [mem EXCEPT ![p] = file]
    /\ Goto(p, IF file.status = "torn" THEN "err" ELSE "ok")
    /\ UNCHANGED <<files, holder, fd, task, todo, dead>>

-----------------------------------------------------------------------------
(* write_state_atomic. *)

CreateDirAgain(p) ==
    /\ pc[p] = "mkdir"
    /\ dir' = TRUE
    /\ Goto(p, "create")
    /\ UNCHANGED <<lockfile, file, tmp, holder, fd, mem, task, todo, dead>>

CreateTmp(p) ==
    /\ pc[p] = "create"
    /\ IF dir
       THEN tmp' = [tmp EXCEPT ![p] = Torn(p)] /\ Goto(p, "write") /\ UNCHANGED holder
       ELSE Return(p, "err") /\ UNCHANGED tmp
    /\ UNCHANGED <<dir, lockfile, file, fd, mem, task, todo, dead>>

\* A write to a file that was unlinked succeeds and shows nowhere.
WriteTmp(p) ==
    /\ pc[p] = "write"
    /\ tmp' = [tmp EXCEPT ![p] = IF @ = Absent THEN @ ELSE mem[p]]
    /\ Goto(p, "flush")
    /\ UNCHANGED <<dir, lockfile, file, holder, fd, mem, task, todo, dead>>

\* Mutant: no sync_all.
SkipFlush(p) ==
    /\ pc[p] = "flush"
    /\ Goto(p, "rename")
    /\ UNCHANGED <<files, holder, fd, mem, task, todo, dead>>

FlushTmp(p) ==
    /\ pc[p] = "flush"
    /\ tmp' = [tmp EXCEPT ![p] = [tmp[p] EXCEPT !.flushed = TRUE]]
    /\ Goto(p, "rename")
    /\ UNCHANGED <<dir, lockfile, file, holder, fd, mem, task, todo, dead>>

\* The call returns; the delete whose load it was goes on.
Rename(p) ==
    /\ pc[p] = "rename"
    /\ IF tmp[p] = Absent
       THEN Return(p, "err") /\ UNCHANGED <<file, tmp>>
       ELSE /\ file' = tmp[p]
            /\ tmp' = [tmp EXCEPT ![p] = Absent]
            /\ Return(p, IF task[p] = "save" THEN "ok" ELSE AfterLoad(p, mem[p]))
    /\ UNCHANGED <<dir, lockfile, fd, mem, task, todo, dead>>

-----------------------------------------------------------------------------
(* remove_dir_all of delete, which no longer holds the lock. *)

Entries == {p \in Proc : tmp[p] # Absent}
           \cup (IF lockfile # Nobody THEN {"lock"} ELSE {})
           \cup (IF file # Absent THEN {"state"} ELSE {})

ScanDir(p) ==
    /\ pc[p] = "scan"
    /\ IF dir
       THEN todo' = [todo EXCEPT ![p] = Entries] /\ Goto(p, "unlink")
       ELSE Goto(p, "err") /\ UNCHANGED todo
    /\ UNCHANGED <<files, holder, fd, mem, task, dead>>

\* readdir may also return what was created after the scan began.
UnlinkEntry(p) ==
    /\ pc[p] = "unlink"
    /\ \E e \in todo[p] \cup Entries :
           /\ todo' = [todo EXCEPT ![p] = @ \ {e}]
           /\ lockfile' = IF e = "lock" THEN Nobody ELSE lockfile
           /\ file' = IF e = "state" THEN Absent ELSE file
           /\ tmp' = [q \in Proc |-> IF q = e THEN Absent ELSE tmp[q]]
    /\ UNCHANGED <<dir, holder, fd, mem, pc, task, dead>>

\* rmdir fails when something was created since the scan.
RemoveDir(p) ==
    /\ pc[p] = "unlink" /\ todo[p] = {}
    /\ IF dir /\ Entries = {}
       THEN dir' = FALSE /\ Goto(p, "ok")
       ELSE Goto(p, "err") /\ UNCHANGED dir
    /\ UNCHANGED <<lockfile, file, tmp, holder, fd, mem, task, todo, dead>>

-----------------------------------------------------------------------------
(* The environment. *)

ContainerDies ==
    /\ ~dead
    /\ dead' = TRUE
    /\ UNCHANGED <<files, holder, fd, mem, pc, task, todo>>

Active(p) == pc[p] \notin Ended \cup {"idle"}

Crash(p) ==
    /\ p \in Mortal
    /\ Active(p)
    /\ Return(p, "crashed")
    /\ UNCHANGED <<files, fd, mem, task, todo, dead>>

\* What was not flushed may be lost.
AfterLoss(f) == IF f.flushed THEN {f} ELSE {f, Torn(f.by)}

PowerLoss ==
    /\ Power
    /\ \E p \in Proc : Active(p)
    /\ file' \in AfterLoss(file)
    /\ \E lost \in SUBSET {p \in Proc : ~tmp[p].flushed} :
           tmp' = [p \in Proc |-> IF p \in lost THEN Torn(p) ELSE tmp[p]]
    /\ pc' = [p \in Proc |-> IF Active(p) THEN "crashed" ELSE pc[p]]
    /\ holder' = [i \in Proc |-> Nobody]
    /\ dead' = TRUE
    /\ UNCHANGED <<dir, lockfile, fd, mem, task, todo>>

Call(p) ==
    \/ CreateDir(p) \/ OpenLock(p) \/ Flock(p) \/ LoadFrom(p) \/ ListRaw(p)
    \/ CreateDirAgain(p) \/ CreateTmp(p) \/ WriteTmp(p) \/ FlushTmp(p) \/ Rename(p)
    \/ ScanDir(p) \/ UnlinkEntry(p) \/ RemoveDir(p)

Next == (\E p \in Proc : Call(p) \/ Crash(p)) \/ ContainerDies \/ PowerLoss

Spec == Init /\ [][Next]_vars

\* A process that made a call is scheduled until it returns.
FairSpec == Spec /\ \A p \in Proc : WF_vars(Call(p))

-----------------------------------------------------------------------------
\* state.json parses at all times, whichever process is killed or wherever the
\* power fails: write_state_atomic renames only what is complete and flushed.
NeverTorn == file.status # "torn"

\* The steps that lock_state protects.
Locked(p) == pc[p] \in {"read", "mkdir", "create", "write", "flush", "rename"}

\* Nobody deletes the container: a delete unlinks the lock file that others hold.
NoDelete == \A p \in Proc : task[p] # "delete"

\* Without a delete the read, refresh and write of one call exclude those of
\* every other call.
ExclusiveUpdate == NoDelete => \A p, q \in Proc : Locked(p) /\ Locked(q) => p = q

\* The record of a container that is never deleted, and the saves that made it.
Record ==
    IF NoDelete THEN [status |-> file.status, by |-> file.by]
                ELSE [status |-> "absent", by |-> Nobody]
Written == {p \in Proc : NoDelete /\ task[p] = "save" /\ pc[p] = "ok"}

Store == INSTANCE AtomicStore WITH rec <- Record, written <- Written

\* Without a delete saves and refreshes take effect one at a time: a refresh marks
\* the record that is there and never brings back one that a save has replaced.
ImplementsAtomicStore == Store!Spec

\* Every call returns, also when a process that held the lock was killed.
CallsReturn == \A p \in Proc : Active(p) ~> pc[p] \in Ended

-----------------------------------------------------------------------------
(* Inductive invariants. *)

\* How far the temporary file of p is.
TmpInv(p) ==
    /\ \/ task[p] = "save" /\ pc[p] \in {"idle", "open", "flock"}
       \/ Locked(p) /\ pc[p] # "read"
       => mem[p].status \in {"running", "stopped"}
    /\ pc[p] = "flush" => tmp[p].status # "torn"
    /\ pc[p] = "rename" => tmp[p].status # "torn" /\ tmp[p].flushed

\* What is renamed is whole and flushed, and so is what was renamed.
WholeInv ==
    /\ TypeOK
    /\ \A p \in Proc : TmpInv(p)
    /\ NeverTorn /\ file.flushed

\* There is one lock file, and who is past the flock holds it.
LockHeld ==
    /\ TypeOK
    /\ \A p \in Proc :
           /\ task[p] # "delete" /\ pc[p] \notin {"scan", "unlink"}
           /\ pc[p] = "flock" \/ Locked(p) => fd[p] = lockfile /\ fd[p] # Nobody
           /\ Locked(p) => holder[fd[p]] = p

\* So it is unless there is a delete.
LockInv == NoDelete => LockHeld

\* What p holds in memory and in its temporary file: a save its own record, a
\* refresh the record that is still in the file, marked as stopped.
UpdateInv(p) ==
    /\ task[p] = "save" => pc[p] # "read"
    /\ task[p] = "save" /\ pc[p] \notin Ended
       => mem[p].by = p /\ mem[p].status \in {"running", "stopped"}
    /\ task[p] # "save" /\ Locked(p) /\ pc[p] # "read"
       => /\ dead /\ file.status = "running"
          /\ mem[p].status = "stopped" /\ mem[p].by = file.by
    /\ pc[p] \in {"flush", "rename"} /\ tmp[p] # Absent
       => tmp[p].status = mem[p].status /\ tmp[p].by = mem[p].by

\* So it is unless there is a delete.
RefineInv == NoDelete => \A p \in Proc : UpdateInv(p)
=============================================================================
