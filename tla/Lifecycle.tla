------------------------------ MODULE Lifecycle ------------------------------
(***************************************************************************)
(* The life of one container id: the state record (state/mod.rs), the      *)
(* container processes, the host resources kept for them (cgroup, veth,    *)
(* NAT rules, bridge allocation) and the minicrun commands that act on     *)
(* them, each a process of its own (lifecycle.rs, container/process.rs,    *)
(* health.rs, doctor.rs).  A command takes one step per access to the      *)
(* record, to a process or to one kind of host resource, and a cleanup     *)
(* routine is one step; the steps of different commands interleave.        *)
(*                                                                         *)
(* A run of the container is named by the command that forked it, so a     *)
(* (pid, starttime) pair is a member of Cmd (ProcessIdentity justifies     *)
(* that a pair reaches no other process).  state.json is replaced          *)
(* atomically under a lock (StateStore), so a load or a save is one step.  *)
(***************************************************************************)
EXTENDS Naturals, FiniteSets

CONSTANTS
    Cmd,         \* invocations of minicrun on this container id
    NoRun,       \* no process
    Repertoire,  \* Repertoire[c]: the subcommands invocation c may be
    Serial,      \* subcommands that the operator runs one at a time
    Networks,    \* whether the container uses --net bridge: the cases considered
    Faulty,      \* invocations whose system calls may fail
    Mortal       \* invocations that may be killed half way

Op == {"create", "run", "start", "kill", "stop", "inspect", "health",
       "delete", "doctor"}

ASSUME NoRunAssumption == NoRun \notin Cmd
ASSUME RepertoireAssumption == Repertoire \in [Cmd -> SUBSET Op]
ASSUME NetworksAssumption == Networks \subseteq BOOLEAN

VARIABLES
    file,     \* the state record, status "absent" when there is none
    proc,     \* proc[c]: the container process that c forked
    sig,      \* sig[c]: the strongest signal sent to that process
    pipe,     \* pipe[c]: the sync pipe the process waits on before exec
    cgroups,  \* the runs whose cgroup directory exists
    veth,     \* the run that created the host end named after the id
    linked,   \* the runs whose network namespace holds the peer
    nat,      \* whether the NAT rules for the id's subnet are installed
    lease,    \* lease[c]: run c installed those rules itself
    alloc,    \* whether allocations.json has the id
    bridge,   \* whether the id's containers use --net bridge, chosen once
    pc,       \* pc[c]: the next step of invocation c
    op,       \* op[c]: its subcommand
    snap      \* snap[c]: the record it loaded

host == <<cgroups, veth, linked, nat, alloc>>
vars == <<file, proc, sig, pipe, host, lease, bridge, pc, op, snap>>

Status == {"absent", "created", "running", "stopped"}
Process == {"none", "forked", "waiting", "running", "zombie", "gone"}
Alive == {"forked", "waiting", "running"}
Dead == {"zombie", "gone"}
Ended == {"ok", "err", "crashed"}
Label == Ended \cup
    {"idle", "check", "savecreated", "load", "fork", "cgroup", "network",
     "link", "nat", "record", "release", "wait", "cleanup", "savestopped",
     "send", "poll", "reload", "resend", "repoll", "watch", "probe", "savehealth",
     "free", "remove", "list", "stale", "mark", "orphans", "leases", "links",
     "report"}

\* ContainerState.  run stands for pid, starttime, cgroup_path and nat_lease,
\* which the file holds while the status is running; mark_stopped erases them
\* and the model keeps run to say whose record it was.
State == [status : Status, run : Cmd \cup {NoRun},
          exit : {"none", "reported", "stale"},
          health : {"none", "healthy", "unhealthy"}]

Absent == [status |-> "absent", run |-> NoRun, exit |-> "none", health |-> "none"]
Created == [Absent EXCEPT !.status = "created"]
Running(c) == [Absent EXCEPT !.status = "running", !.run = c]
MarkStopped(s, e) == [s EXCEPT !.status = "stopped", !.exit = e]

\* Every variable holds a value of its kind.
TypeOK ==
    /\ file \in State
    /\ proc \in [Cmd -> Process]
    /\ sig \in [Cmd -> {"none", "term", "kill"}]
    /\ pipe \in [Cmd -> {"none", "held", "sent", "closed"}]
    /\ cgroups \subseteq Cmd
    /\ veth \in Cmd \cup {NoRun}
    /\ linked \subseteq Cmd
    /\ nat \in BOOLEAN
    /\ lease \in [Cmd -> BOOLEAN]
    /\ alloc \in BOOLEAN
    /\ bridge \in BOOLEAN
    /\ pc \in [Cmd -> Label]
    /\ op \in [Cmd -> Op]
    /\ snap \in [Cmd -> State]

Init ==
    /\ file = Absent
    /\ proc = [c \in Cmd |-> "none"]
    /\ sig = [c \in Cmd |-> "none"]
    /\ pipe = [c \in Cmd |-> "none"]
    /\ cgroups = {} /\ veth = NoRun /\ linked = {} /\ nat = FALSE /\ alloc = FALSE
    /\ lease = [c \in Cmd |-> FALSE]
    /\ bridge \in Networks
    /\ pc = [c \in Cmd |-> "idle"]
    /\ op = [c \in Cmd |-> "inspect"]
    /\ snap = [c \in Cmd |-> Absent]

Active(c) == pc[c] \notin Ended \cup {"idle"}

\* The first step of a subcommand.
First(o) ==
    CASE o \in {"create", "run"} -> {"check"}
      [] o = "health" -> {"load", "watch"}
      [] o = "doctor" -> {"list"}
      [] OTHER -> {"load"}

Begin(c) ==
    /\ pc[c] = "idle"
    /\ \E o \in Repertoire[c] :
           /\ o \in Serial => \A d \in Cmd : Active(d) => op[d] \notin Serial
           /\ op' = [op EXCEPT ![c] = o]
           /\ \E l \in First(o) : pc' = [pc EXCEPT ![c] = l]
    /\ UNCHANGED <<file, proc, sig, pipe, host, lease, bridge, snap>>

Goto(c, l) ==
    /\ pc' = [pc EXCEPT ![c] = l]
    /\ UNCHANGED <<op, snap>>

\* The end of a process closes the write end of the sync pipe.
CloseSyncPipe(c) ==
    pipe' = [pipe EXCEPT ![c] = IF @ = "held" THEN "closed" ELSE @]

-----------------------------------------------------------------------------
(* load_current: refresh_liveness under the state lock. *)

\* Mutant: a child that has not reached its exec is taken for dead.
StaleUnlessExecuted(s) ==
    s.status = "running" /\ proc[s.run] \in Dead \cup {"waiting"}

\* pid_is_alive is false for a zombie; a pid that is alive again has another
\* starttime.  A record without a starttime (STALE_IDENTITY_MISSING) does not occur:
\* the runner reads it of a child that it has not reaped.
Stale(s) == s.status = "running" /\ proc[s.run] \in Dead

\* cleanup_stale_resources and release_state_network_allocation.  The veth is
\* left alone when the pid has been reused; iptables errors go to the record.
CleanUpStale(r, owned) ==
    /\ cgroups' = cgroups \ {r}
    /\ nat' = (nat /\ ~lease[r])
    /\ veth' = IF owned THEN NoRun ELSE veth
    /\ linked' = IF owned THEN {} ELSE linked
    /\ alloc' = FALSE

\* Mutant: the refreshed record is not written back.
LoadWithoutSave ==
    \/ /\ ~Stale(file)
       /\ UNCHANGED <<file, host>>
    \/ /\ Stale(file)
       /\ \E owned \in BOOLEAN :
              /\ proc[file.run] = "zombie" => owned
              /\ CleanUpStale(file.run, owned)
       /\ UNCHANGED file

LoadCurrent ==
    \/ /\ ~Stale(file)
       /\ UNCHANGED <<file, host>>
    \/ /\ Stale(file)
       /\ \E owned \in BOOLEAN :
              /\ proc[file.run] = "zombie" => owned
              /\ CleanUpStale(file.run, owned)
       /\ file' = MarkStopped(file, "stale")

\* Load, keep the record, go on to step next if its status is wanted.
LoadThen(c, wanted, next, otherwise) ==
    /\ LoadCurrent
    /\ snap' = [snap EXCEPT ![c] = file']
    /\ pc' = [pc EXCEPT ![c] = IF file'.status \in wanted THEN next
                               ELSE IF file'.status = "absent" THEN "err"
                               ELSE otherwise]
    /\ UNCHANGED <<proc, sig, pipe, lease, bridge, op>>

-----------------------------------------------------------------------------
(* create, and the first steps of run and start. *)

\* Mutant: the id is not checked.
ContainerMayExist(c) ==
    /\ pc[c] = "check"
    /\ Goto(c, IF op[c] = "create" THEN "savecreated" ELSE "fork")
    /\ UNCHANGED <<file, proc, sig, pipe, host, lease, bridge>>

EnsureContainerAbsent(c) ==
    /\ pc[c] = "check"
    /\ Goto(c, IF file.status # "absent" THEN "err"
               ELSE IF op[c] = "create" THEN "savecreated" ELSE "fork")
    /\ UNCHANGED <<file, proc, sig, pipe, host, lease, bridge>>

SaveCreated(c) ==
    /\ pc[c] = "savecreated"
    /\ file' = Created
    /\ Goto(c, "ok")
    /\ UNCHANGED <<proc, sig, pipe, host, lease, bridge>>

LoadCreated(c) ==
    /\ pc[c] = "load" /\ op[c] = "start"
    /\ LoadThen(c, {"created"}, "fork", "err")

-----------------------------------------------------------------------------
(* run_process: the runner of a container. *)

Fork(c) ==
    /\ pc[c] = "fork"
    /\ proc' = [proc EXCEPT ![c] = "forked"]
    /\ pipe' = [pipe EXCEPT ![c] = "held"]
    /\ Goto(c, "cgroup")
    /\ UNCHANGED <<file, sig, host, lease, bridge>>

\* A runner holds what it acquired so far: release_bridge_allocation and
\* bridge_network are set once allocate_bridge_network returned.
HoldsNetwork(c) ==
    bridge /\ pc[c] \in {"link", "nat", "record", "release", "wait", "cleanup"}

\* ParentResources::cleanup.  The veth is deleted by name and the allocation by
\* container id; rmdir of the cgroup fails while the child lives.
ParentCleanup(c) ==
    /\ nat' = (nat /\ ~(HoldsNetwork(c) /\ lease[c]))
    /\ veth' = IF HoldsNetwork(c) THEN NoRun ELSE veth
    /\ linked' = IF HoldsNetwork(c) THEN {} ELSE linked
    /\ alloc' = (alloc /\ ~HoldsNetwork(c))
    /\ cgroups' = IF proc[c] \in Alive THEN cgroups ELSE cgroups \ {c}

\* An error return from run_process: Drop cleans up, the child is left.
Abandon(c) ==
    /\ ParentCleanup(c)
    /\ CloseSyncPipe(c)
    /\ Goto(c, "err")
    /\ UNCHANGED <<file, proc, sig, lease, bridge>>

AddCgroup(c) ==
    /\ pc[c] = "cgroup"
    /\ cgroups' = cgroups \cup {c}
    /\ Goto(c, IF bridge THEN "network" ELSE "record")
    /\ UNCHANGED <<file, proc, sig, pipe, veth, linked, nat, alloc, lease, bridge>>

\* Cgroup::new or add_process fails: the child is killed and reaped.
CgroupFails(c) ==
    /\ c \in Faulty
    /\ pc[c] = "cgroup"
    /\ proc' = [proc EXCEPT ![c] = "gone"]
    /\ CloseSyncPipe(c)
    /\ Goto(c, "err")
    /\ UNCHANGED <<file, sig, host, lease, bridge>>

AllocateBridgeNetwork(c) ==
    /\ pc[c] = "network"
    /\ alloc' = TRUE
    /\ Goto(c, "link")
    /\ UNCHANGED <<file, proc, sig, pipe, cgroups, veth, linked, nat, lease, bridge>>

\* `ip link add` fails when the name is taken, `ip link set netns` when the
\* child is dead; the peer stays on the host if the child has not unshared.
SetupVethParent(c) ==
    /\ pc[c] = "link"
    /\ IF veth # NoRun \/ proc[c] \in Dead
       THEN Abandon(c)
       ELSE /\ veth' = c
            /\ linked' = IF proc[c] = "forked" THEN {} ELSE {c}
            /\ Goto(c, "nat")
            /\ UNCHANGED <<file, proc, sig, pipe, cgroups, nat, alloc, lease, bridge>>

\* ensure_iptables_rule: rules found in place are not owned.
SetupNat(c) ==
    /\ pc[c] = "nat"
    /\ lease' = [lease EXCEPT ![c] = ~nat]
    /\ nat' = TRUE
    /\ Goto(c, "record")
    /\ UNCHANGED <<file, proc, sig, pipe, cgroups, veth, linked, alloc, bridge>>

\* on_started: save the running record.
SaveStartedState(c) ==
    /\ pc[c] = "record"
    /\ file' = Running(c)
    /\ Goto(c, "release")
    /\ UNCHANGED <<proc, sig, pipe, host, lease, bridge>>

\* The write to the sync pipe; a bridge runner gets EPIPE from a dead child.
SignalChild(c) ==
    /\ pc[c] = "release"
    /\ IF bridge /\ proc[c] \in Dead
       THEN Abandon(c)
       ELSE /\ pipe' = [pipe EXCEPT ![c] = "sent"]
            /\ Goto(c, "wait")
            /\ UNCHANGED <<file, proc, sig, host, lease, bridge>>

WaitChild(c) ==
    /\ pc[c] = "wait"
    /\ proc[c] = "zombie"
    /\ proc' = [proc EXCEPT ![c] = "gone"]
    /\ Goto(c, "cleanup")
    /\ UNCHANGED <<file, sig, pipe, host, lease, bridge>>

\* resources.cleanup()?: deleting rules that are gone is an error, and the
\* runner returns before it saves the exit status.
CleanupResources(c) ==
    /\ pc[c] = "cleanup"
    /\ ParentCleanup(c)
    /\ Goto(c, IF bridge /\ lease[c] /\ ~nat THEN "err" ELSE "savestopped")
    /\ UNCHANGED <<file, proc, sig, pipe, lease, bridge>>

\* The record kept since the start, marked stopped: health is what it was then.
SaveStopped(c) ==
    /\ pc[c] = "savestopped"
    /\ file' = MarkStopped(Running(c), "reported")
    /\ Goto(c, "ok")
    /\ UNCHANGED <<proc, sig, pipe, host, lease, bridge>>

\* Any other step of the runner fails (configuration, fork, allocation, ip,
\* iptables, save, the maps of a user namespace or the collector while it waits,
\* log helper).
RunnerFails(c) ==
    /\ c \in Faulty
    /\ pc[c] \in {"fork", "network", "link", "nat", "record", "release", "wait", "cleanup",
                  "savestopped"}
    /\ Abandon(c)

-----------------------------------------------------------------------------
(* kill and stop. *)

LoadTarget(c) ==
    /\ pc[c] = "load" /\ op[c] \in {"kill", "stop"}
    /\ LoadThen(c, {"running"}, "send", "err")

\* ProcessIdentity::open and send_signal: a zombie still accepts a signal.
Deliver(c, s, next) ==
    LET t == snap[c].run IN
    /\ IF proc[t] = "gone"
       THEN Goto(c, "err") /\ UNCHANGED sig
       ELSE /\ sig' = [sig EXCEPT ![t] = IF proc[t] \in Dead \/ @ = "kill" THEN @ ELSE s]
            /\ Goto(c, next)
    /\ UNCHANGED <<file, proc, pipe, host, lease, bridge>>

Send(c) ==
    /\ pc[c] = "send"
    /\ \/ op[c] = "kill" /\ \E s \in {"term", "kill"} : Deliver(c, s, "ok")
       \/ op[c] = "stop" /\ Deliver(c, "term", "poll")

\* One round of wait_for_stopped: load, then look at the deadline.
Poll(c, label, late) ==
    /\ pc[c] = label
    /\ LoadCurrent
    /\ \E expired \in BOOLEAN :
           Goto(c, CASE file'.status = "absent" -> "err"
                     [] file'.status = "stopped" -> "ok"
                     [] OTHER -> IF expired THEN late ELSE label)
    /\ UNCHANGED <<proc, sig, pipe, lease, bridge>>

\* Mutant: wait_for_stopped never looks at its deadline.
PollForever(c) == Poll(c, "poll", "poll")

PollTerm(c) == Poll(c, "poll", "reload")

\* The second send_container_signal of stop: a container that stopped by
\* itself after the deadline is ContainerNotRunning, an error.
ReloadTarget(c) ==
    /\ pc[c] = "reload"
    /\ LoadThen(c, {"running"}, "resend", "err")

SendKill(c) == pc[c] = "resend" /\ Deliver(c, "kill", "repoll")

\* Mutant: stop takes the end of the last wait for success.
PollKillThenOk(c) == Poll(c, "repoll", "ok")

PollKill(c) == Poll(c, "repoll", "err")

-----------------------------------------------------------------------------
(* state, ps, logs, exec and the other commands that only load the record. *)

Inspect(c) ==
    /\ pc[c] = "load" /\ op[c] = "inspect"
    /\ LoadThen(c, {"created", "running", "stopped"}, "ok", "err")

-----------------------------------------------------------------------------
(* health, once or with --watch. *)

HealthWatch(c) ==
    /\ pc[c] = "watch"
    /\ LoadThen(c, {"running"}, "load", "ok")

HealthLoad(c) ==
    /\ pc[c] = "load" /\ op[c] = "health"
    /\ LoadThen(c, {"running"}, "probe", "err")

\* exec_in_container: an error when the cgroup is gone, exit code 1 when the
\* process is.
HealthProbe(c) ==
    /\ pc[c] = "probe"
    /\ IF snap[c].run \notin cgroups
       THEN Goto(c, "err")
       ELSE /\ \E h \in IF proc[snap[c].run] \in Alive
                        THEN {"healthy", "unhealthy"} ELSE {"unhealthy"} :
                   snap' = [snap EXCEPT ![c] = [snap[c] EXCEPT !.health = h]]
            /\ pc' = [pc EXCEPT ![c] = "savehealth"]
            /\ UNCHANGED op
    /\ UNCHANGED <<file, proc, sig, pipe, host, lease, bridge>>

\* mark_health and save of the record that was loaded before the probe.
SaveHealth(c) ==
    /\ pc[c] = "savehealth"
    /\ file' = snap[c]
    /\ \E l \in {"watch", "ok"} : Goto(c, l)
    /\ UNCHANGED <<proc, sig, pipe, host, lease, bridge>>

-----------------------------------------------------------------------------
(* delete. *)

\* Mutant: delete accepts a running container.
DeleteLoadAny(c) ==
    /\ pc[c] = "load" /\ op[c] = "delete"
    /\ LoadThen(c, {"created", "running", "stopped"}, "free", "err")

DeleteLoad(c) ==
    /\ pc[c] = "load" /\ op[c] = "delete"
    /\ LoadThen(c, {"created", "stopped"}, "free", "err")

DeleteRelease(c) ==
    /\ pc[c] = "free"
    /\ alloc' = FALSE
    /\ Goto(c, "remove")
    /\ UNCHANGED <<file, proc, sig, pipe, cgroups, veth, linked, nat, lease, bridge>>

\* remove_dir_all of the container directory, without the state lock; an error
\* when another delete removed it.
DeleteRemove(c) ==
    /\ pc[c] = "remove"
    /\ file' = Absent
    /\ \/ Goto(c, "ok")
       \/ file.status = "absent" /\ Goto(c, "err")
    /\ UNCHANGED <<proc, sig, pipe, host, lease, bridge>>

-----------------------------------------------------------------------------
(* doctor --fix. *)

\* is_stale_process: ProcessIdentity::open succeeds for a zombie.
IsStaleProcess(s) == s.status = "running" /\ proc[s.run] = "gone"

DoctorList(c) ==
    /\ pc[c] = "list"
    /\ snap' = [snap EXCEPT ![c] = file]
    /\ pc' = [pc EXCEPT ![c] = "stale"]
    /\ UNCHANGED <<file, proc, sig, pipe, host, lease, bridge, op>>

\* check_stale_running_states: the record is marked only if no cleanup failed.
DoctorCleansStale(c) ==
    LET r == snap[c].run IN
    /\ pc[c] = "stale"
    /\ IF IsStaleProcess(snap[c])
       THEN /\ CleanUpStale(r, TRUE)
            /\ Goto(c, IF lease[r] /\ ~nat THEN "orphans" ELSE "mark")
       ELSE Goto(c, "orphans") /\ UNCHANGED host
    /\ UNCHANGED <<file, proc, sig, pipe, lease, bridge>>

\* mark_stale_state_stopped saves the record that was listed.
DoctorMarksStopped(c) ==
    /\ pc[c] = "mark"
    /\ file' = MarkStopped(snap[c], "stale")
    /\ Goto(c, "orphans")
    /\ UNCHANGED <<proc, sig, pipe, host, lease, bridge>>

\* check_orphan_cgroups: rmdir fails for a cgroup with a live process.
DoctorOrphanCgroups(c) ==
    /\ pc[c] = "orphans"
    /\ cgroups' = {r \in cgroups : \/ snap[c].status = "running" /\ snap[c].run = r
                                   \/ proc[r] \in Alive}
    /\ Goto(c, "leases")
    /\ UNCHANGED <<file, proc, sig, pipe, veth, linked, nat, alloc, lease, bridge>>

\* Mutant: an allocation without a state is kept.
DoctorKeepsAllocations(c) ==
    /\ pc[c] = "leases"
    /\ Goto(c, "links")
    /\ UNCHANGED <<file, proc, sig, pipe, host, lease, bridge>>

\* check_stale_network_allocations.
DoctorAllocations(c) ==
    /\ pc[c] = "leases"
    /\ alloc' = (alloc /\ snap[c].status = "running" /\ ~IsStaleProcess(snap[c]))
    /\ Goto(c, "links")
    /\ UNCHANGED <<file, proc, sig, pipe, cgroups, veth, linked, nat, lease, bridge>>

\* check_orphan_veth_links expects links named after a pid, and the link is
\* named after the container id: no link is expected.
DoctorOrphanVeths(c) ==
    /\ pc[c] = "links"
    /\ veth' = NoRun
    /\ linked' = {}
    /\ Goto(c, "report")
    /\ UNCHANGED <<file, proc, sig, pipe, cgroups, nat, alloc, lease, bridge>>

DoctorReports(c) ==
    /\ pc[c] = "report"
    /\ Goto(c, "ok")
    /\ UNCHANGED <<file, proc, sig, pipe, host, lease, bridge>>

-----------------------------------------------------------------------------
(* The container process and the kernel. *)

ChildUnshares(c) ==
    /\ proc[c] = "forked"
    /\ proc' = [proc EXCEPT ![c] = "waiting"]
    /\ UNCHANGED <<file, sig, pipe, host, lease, bridge, pc, op, snap>>

\* Mutant: the child does not need the network of the parent's message.
ChildIgnoresTheMessage(c) ==
    /\ proc[c] = "waiting"
    /\ pipe[c] \in {"sent", "closed"}
    /\ proc' = [proc EXCEPT ![c] = "running"]
    /\ UNCHANGED <<file, sig, pipe, host, lease, bridge, pc, op, snap>>

\* run_child after read_parent_signal: a bridge container needs the network in
\* the message and the peer in its namespace, any other one starts on EOF too.
ChildProceeds(c) ==
    /\ proc[c] = "waiting"
    /\ pipe[c] \in {"sent", "closed"}
    /\ proc' = [proc EXCEPT ![c] =
           IF bridge => pipe[c] = "sent" /\ c \in linked THEN "running" ELSE "zombie"]
    /\ UNCHANGED <<file, sig, pipe, host, lease, bridge, pc, op, snap>>

\* The workload ends or a signal takes it; set-up fails only in Faulty runs.
ChildExits(c) ==
    /\ proc[c] \in Alive
    /\ proc[c] = "running" \/ sig[c] # "none" \/ c \in Faulty
    /\ proc' = [proc EXCEPT ![c] = "zombie"]
    /\ UNCHANGED <<file, sig, pipe, host, lease, bridge, pc, op, snap>>

\* The child of a runner that ended is reaped by init.
InitReaps(c) ==
    /\ proc[c] = "zombie"
    /\ pc[c] \in Ended
    /\ proc' = [proc EXCEPT ![c] = "gone"]
    /\ UNCHANGED <<file, sig, pipe, host, lease, bridge, pc, op, snap>>

\* A network namespace without processes takes the veth pair with it.
NetnsGone(c) ==
    /\ proc[c] \in Dead
    /\ c \in linked
    /\ linked' = linked \ {c}
    /\ veth' = NoRun
    /\ UNCHANGED <<file, proc, sig, pipe, cgroups, nat, alloc, lease, bridge, pc, op, snap>>

\* A minicrun process is killed: no Drop runs.
Crash(c) ==
    /\ c \in Mortal
    /\ Active(c)
    /\ CloseSyncPipe(c)
    /\ Goto(c, "crashed")
    /\ UNCHANGED <<file, proc, sig, host, lease, bridge>>

Runner(c) ==
    \/ Fork(c) \/ AddCgroup(c) \/ AllocateBridgeNetwork(c) \/ SetupVethParent(c)
    \/ SetupNat(c) \/ SaveStartedState(c) \/ SignalChild(c) \/ WaitChild(c)
    \/ CleanupResources(c) \/ SaveStopped(c)

Doctor(c) ==
    \/ DoctorList(c) \/ DoctorCleansStale(c) \/ DoctorMarksStopped(c)
    \/ DoctorOrphanCgroups(c) \/ DoctorAllocations(c) \/ DoctorOrphanVeths(c)
    \/ DoctorReports(c)

\* A step of an invocation that has begun, no system call failing.
Command(c) ==
    \/ EnsureContainerAbsent(c) \/ SaveCreated(c) \/ LoadCreated(c) \/ Runner(c)
    \/ LoadTarget(c) \/ Send(c) \/ PollTerm(c) \/ ReloadTarget(c) \/ SendKill(c)
    \/ PollKill(c) \/ Inspect(c)
    \/ HealthWatch(c) \/ HealthLoad(c) \/ HealthProbe(c) \/ SaveHealth(c)
    \/ DeleteLoad(c) \/ DeleteRelease(c) \/ DeleteRemove(c)
    \/ Doctor(c)

Failure(c) == CgroupFails(c) \/ RunnerFails(c) \/ Crash(c)

Child(c) ==
    \/ ChildUnshares(c) \/ ChildProceeds(c) \/ ChildExits(c) \/ InitReaps(c)
    \/ NetnsGone(c)

Next == \E c \in Cmd : Begin(c) \/ Command(c) \/ Failure(c) \/ Child(c)

Spec == Init /\ [][Next]_vars

\* minicrun processes and the child are scheduled, SIGKILL kills, and init
\* reaps.  Nothing makes a user begin a command or a workload end.
Fairness ==
    \A c \in Cmd :
        /\ WF_vars(Command(c))
        /\ WF_vars(ChildUnshares(c))
        /\ WF_vars(ChildProceeds(c))
        /\ WF_vars(sig[c] = "kill" /\ ChildExits(c))
        /\ WF_vars(InitReaps(c))

FairSpec == Spec /\ Fairness

-----------------------------------------------------------------------------
\* A record that says stopped is about a process that is dead: neither
\* refresh_liveness, nor doctor, nor the runner's last save ever writes it for
\* a live container, whatever commands race.
StoppedOnlyAfterDeath ==
    file.status = "stopped" => proc[file.run] \in Dead

\* The runner let the container start, and it has not ended yet.
Supervised(c) == proc[c] = "running" /\ pipe[c] = "sent"

\* A container that was started stays the one the state file calls running
\* until it is dead, also after its runner crashed.
LiveIsRecorded ==
    \A c \in Cmd : Supervised(c) => file.status = "running" /\ file.run = c

\* A started container keeps its cgroup, and a bridge container its veth pair, its
\* NAT rules and its subnet unless its own runner returns an error while it waits:
\* no cleanup of an earlier run or of another command hits them, also after the
\* runner was killed (doctor --fix, which looks for links of its own, is
\* DoctorSparesLinks).
LiveKeepsResources ==
    \A c \in Cmd : Supervised(c) /\ (\A d \in Cmd : op[d] # "doctor") =>
        /\ c \in cgroups
        /\ bridge /\ pc[c] # "err" => veth = c /\ c \in linked /\ nat /\ alloc

\* minicrun stop succeeds only when the process it signalled is dead.
StopMeansDead ==
    \A c \in Cmd : op[c] = "stop" /\ pc[c] = "ok" => proc[snap[c].run] \in Dead

\* A stopped record is final until delete, and the exit status the runner
\* reported is never replaced by the guess of a refresh.
StoppedIsFinal ==
    [][file.status = "stopped" =>
           \/ file'.status = "absent"
           \/ file'.status = "stopped" /\ (file.exit = "reported" => file' = file)]_vars

\* An up-to-date list that says running, of a container that runs.
ListedLive(c) ==
    /\ snap[c] = file /\ file.status = "running"
    /\ Supervised(file.run) /\ veth = file.run

\* The links that doctor --fix deletes as orphans are not owned by a running
\* bridge container.
DoctorSparesLinks ==
    [][\A c \in Cmd : pc[c] = "links" /\ ListedLive(c) => veth' = veth]_vars

\* Every container process is over when c begins to look.
NothingRuns(c) == pc[c] = "list" /\ \A d \in Cmd : proc[d] \in {"none", "gone"}

\* doctor --fix that no other command disturbs frees the cgroups, the link and
\* the allocation of every run, wherever its runner failed or was killed.
DoctorFreesHost ==
    \A c \in Cmd :
        [](NothingRuns(c) =>
               [](pc[c] = "report" => cgroups = {} /\ veth = NoRun /\ ~alloc))

Abstract == INSTANCE ContainerLifecycle WITH
    status <- file.status,
    live <- file.status = "running" /\ proc[file.run] \in Alive

\* The commands together implement the lifecycle of ContainerLifecycle.
ImplementsLifecycle == Abstract!Spec

\* stop returns, whatever the container and the other commands do.
StopReturns ==
    \A c \in Cmd : (op[c] = "stop" /\ pc[c] = "load") ~> pc[c] \in Ended

\* A started container that gets SIGKILL is reaped and its record leaves the
\* running status, also when a refresh and the runner clean up at the same time.
KilledIsStopped ==
    \A c \in Cmd :
        (sig[c] = "kill" /\ pipe[c] = "sent") ~>
            (proc[c] = "gone" /\ ~(file.status = "running" /\ file.run = c))

-----------------------------------------------------------------------------
(* The inductive invariant behind StoppedOnlyAfterDeath. *)

\* A record that names a run names one that was forked.
Names(s) == s.status \in {"running", "stopped"} => s.run \in Cmd /\ proc[s.run] # "none"

Unreaped == {"cgroup", "network", "link", "nat", "record", "release", "wait"}
Reaped == {"cleanup", "savestopped"}

\* Where a runner is and what it did to its child agree.
RunnerInv(c) ==
    /\ pc[c] \notin Unreaped \cup Reaped \cup Ended => proc[c] = "none"
    /\ pc[c] \in Unreaped => proc[c] \in Alive \cup {"zombie"}
    /\ pc[c] \in Reaped => proc[c] = "gone"

\* What a command is about to save from its copy of the record is true of the
\* process, although the file may have changed since.
SnapInv(c) ==
    /\ Names(snap[c])
    /\ pc[c] \in {"send", "resend", "probe", "savehealth", "mark"} =>
           snap[c].status = "running"
    /\ pc[c] = "mark" => proc[snap[c].run] = "gone"

\* The processes, the runners, the loaded copies and the file agree on which
\* runs are dead, whatever commands race.
LifecycleInv ==
    /\ TypeOK
    /\ Names(file)
    /\ \A c \in Cmd : RunnerInv(c) /\ SnapInv(c)
    /\ StoppedOnlyAfterDeath
=============================================================================
