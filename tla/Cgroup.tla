-------------------------------- MODULE Cgroup --------------------------------
(***************************************************************************)
(* The cgroups of containers (cgroup/mod.rs).  All are children of one     *)
(* parent, whose cgroup.subtree_control says which controllers they have.  *)
(* Cgroup::new_at enables the controllers it needs, makes the cgroup and   *)
(* writes its limits, or undoes the cgroup when a write fails; delete      *)
(* polls for the cgroup to be empty and removes it.  Containers are        *)
(* started and deleted concurrently; a write to a file is a step.          *)
(***************************************************************************)
EXTENDS Naturals, FiniteSetsExt

CONSTANTS
    Ids,          \* containers
    Needs,        \* the sets of controllers that configs require
    MaxPolls      \* the polls of delete

\* memory, cpu and pids, in the order in which their limits are written.
Controllers == 1..3

VARIABLES
    need,      \* need[i]: required_controllers of its config
    avail,     \* cgroup.controllers of the parent
    subtree,   \* cgroup.subtree_control of the parent
    added,     \* added[i]: the controllers that i found disabled and enables
    dirs,      \* the containers that have a cgroup
    limits,    \* limits[i]: the limits in force in its cgroup
    procs,     \* the containers that have a process in their cgroup
    cpc,       \* cpc[i]: the next step
    polls      \* polls[i]: the polls of its delete

cgroupVars == <<need, avail, subtree, added, dirs, limits, procs, cpc, polls>>

CgroupState(step) ==
    /\ subtree \in SUBSET avail
    /\ added = [i \in Ids |-> {}] /\ limits = [i \in Ids |-> {}]
    /\ dirs = {} /\ procs = {} /\ cpc = [i \in Ids |-> step] /\ polls = [i \in Ids |-> 0]

CgroupInit ==
    /\ need \in [Ids -> Needs]
    /\ avail \in {Controllers} \cup {Controllers \ {c} : c \in Controllers}
    /\ CgroupState("idle")

CgroupAbsent ==
    /\ need = [i \in Ids |-> {}] /\ avail = {} /\ CgroupState("over")

Turn(i, step) == cpc' = [cpc EXCEPT ![i] = step]

-----------------------------------------------------------------------------
(* new_at. *)

\* enable_required_controllers, up to the write.
ReadControllers(i) ==
    /\ cpc[i] = "idle"
    /\ IF need[i] \subseteq avail
       THEN added' = [added EXCEPT ![i] = need[i] \ subtree] /\ Turn(i, "enable")
       ELSE Turn(i, "over") /\ UNCHANGED added
    /\ UNCHANGED <<need, avail, subtree, dirs, limits, procs, polls>>

EnableControllers(i) ==
    /\ cpc[i] = "enable"
    /\ \/ subtree' = subtree \cup added[i] /\ Turn(i, "mkdir")
       \/ added[i] # {} /\ Turn(i, "over") /\ UNCHANGED subtree
    /\ UNCHANGED <<need, avail, added, dirs, limits, procs, polls>>

MakeCgroup(i) ==
    /\ cpc[i] = "mkdir"
    /\ dirs' = dirs \cup {i}
    /\ Turn(i, "limit")
    /\ UNCHANGED <<need, avail, subtree, added, limits, procs, polls>>

\* A limit file exists while its controller is enabled.
WriteLimit(i) ==
    /\ cpc[i] = "limit" /\ limits[i] # need[i]
    /\ LET c == Min(need[i] \ limits[i])
       IN  c \in subtree /\ limits' = [limits EXCEPT ![i] = @ \cup {c}]
    /\ UNCHANGED <<need, avail, subtree, added, dirs, procs, cpc, polls>>

\* Mutant: what was added is disabled again, with the limits of other
\* containers that have come to rely on it.
DisableAdded(i) == subtree \ added[i]

\* rollback_enabled_controllers writes the names that were enabled before, with
\* no sign before them, which the kernel refuses: the error is logged.
RollbackControllers(i) == subtree

DropCgroup(i) == dirs \ {i}

NewFails(i) ==
    /\ cpc[i] = "mkdir" \/ (cpc[i] = "limit" /\ limits[i] # need[i])
    /\ dirs' = DropCgroup(i)
    /\ subtree' = RollbackControllers(i)
    /\ limits' = [j \in Ids |-> IF j = i THEN {} ELSE limits[j] \cap subtree']
    /\ Turn(i, "over")
    /\ UNCHANGED <<need, avail, added, procs, polls>>

AddProcess(i) ==
    /\ cpc[i] = "limit" /\ limits[i] = need[i]
    /\ procs' = procs \cup {i}
    /\ Turn(i, "running")
    /\ UNCHANGED <<need, avail, subtree, added, dirs, limits, polls>>

-----------------------------------------------------------------------------
(* delete. *)

\* The container has ended, or is about to: delete polls.
BeginDelete(i) ==
    /\ cpc[i] = "running" /\ Turn(i, "poll")
    /\ UNCHANGED <<need, avail, subtree, added, dirs, limits, procs, polls>>

PollProcs(i) ==
    /\ cpc[i] = "poll"
    /\ IF i \in procs /\ polls[i] < MaxPolls
       THEN polls' = [polls EXCEPT ![i] = @ + 1] /\ UNCHANGED cpc
       ELSE Turn(i, "rmdir") /\ UNCHANGED polls
    /\ UNCHANGED <<need, avail, subtree, added, dirs, limits, procs>>

\* rmdir fails while there is a process.
RemoveCgroup(i) ==
    /\ cpc[i] = "rmdir"
    /\ dirs' = IF i \in procs THEN dirs ELSE dirs \ {i}
    /\ Turn(i, IF i \in procs THEN "busy" ELSE "over")
    /\ UNCHANGED <<need, avail, subtree, added, limits, procs, polls>>

ProcessesEnd(i) ==
    /\ i \in procs /\ procs' = procs \ {i}
    /\ UNCHANGED <<need, avail, subtree, added, dirs, limits, cpc, polls>>

CgroupNext ==
    \E i \in Ids :
        \/ ReadControllers(i) \/ EnableControllers(i) \/ MakeCgroup(i) \/ WriteLimit(i)
        \/ NewFails(i) \/ AddProcess(i) \/ BeginDelete(i) \/ PollProcs(i) \/ RemoveCgroup(i)
        \/ ProcessesEnd(i)

CgroupSpec == CgroupInit /\ [][CgroupNext]_cgroupVars

-----------------------------------------------------------------------------
\* A container never runs without a limit that its config asks for, whatever
\* controllers other containers enable or fail to keep meanwhile.
LimitsInForce == \A i \in procs : limits[i] = need[i]

\* A start that failed and a delete that succeeded leave no cgroup.
NoCgroupLeft == \A i \in Ids : cpc[i] = "over" => i \notin dirs

\* A cgroup follows its container: the limits are in force as long as it runs,
\* and the directory goes with it.
CgroupFollowsContainer == LimitsInForce /\ NoCgroupLeft
=============================================================================
