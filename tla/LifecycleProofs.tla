--------------------------- MODULE LifecycleProofs ---------------------------
(***************************************************************************)
(* Proofs about Lifecycle: first for any set of invocations, any mix of    *)
(* subcommands and any failures; then for an operator who creates, runs,   *)
(* starts, deletes and repairs one container id one command at a time,     *)
(* while any number of kill, stop and inspecting commands race with them.  *)
(***************************************************************************)
EXTENDS Lifecycle, TLAPS

USE NoRunAssumption, RepertoireAssumption, NetworksAssumption

\* The labels at which a command holds a copy that says running.
Holding == {"send", "resend", "probe", "savehealth", "mark"}

\* The steps between labels that leave the child alone.
Follows(k, l) ==
    /\ k \notin Unreaped \cup Reaped \cup Ended => l \notin Unreaped \cup Reaped
    /\ k \in Unreaped => l \in Unreaped \cup Ended
    /\ k \in Reaped => l \in Reaped \cup Ended
    /\ k \in Ended => l \in Ended

-----------------------------------------------------------------------------
\* A step of c that leaves the processes alone keeps the invariant if what it
\* saves and what it keeps are true of them.
LEMMA CommandStep ==
  ASSUME LifecycleInv, TypeOK',
         NEW c \in Cmd, NEW l \in Label, NEW s \in State,
         proc' = proc,
         pc' = [pc EXCEPT ![c] = l],
         snap' = [snap EXCEPT ![c] = s],
         Names(file'),
         file'.status = "stopped" => proc[file'.run] \in Dead,
         Names(s),
         l \in Holding => s.status = "running",
         l = "mark" => proc[s.run] = "gone",
         Follows(pc[c], l)
  PROVE  LifecycleInv'
  <1>1. Names(file)' /\ StoppedOnlyAfterDeath'
    BY Zenon DEF Names, StoppedOnlyAfterDeath
  <1>2. ASSUME NEW d \in Cmd PROVE RunnerInv(d)' /\ SnapInv(d)'
    <2>1. RunnerInv(d) /\ SnapInv(d)
      BY Zenon DEF LifecycleInv
    <2>2. CASE d = c
      <3>1. pc'[c] = l /\ snap'[c] = s
        BY DEF LifecycleInv, TypeOK
      <3>2. RunnerInv(c)'
        BY <2>1, <2>2, <3>1 DEF RunnerInv, Follows, Unreaped, Reaped, Ended
      <3>3. SnapInv(c)'
        BY <3>1, Zenon DEF SnapInv, Names, Holding
      <3> QED
        BY <2>2, <3>2, <3>3, Zenon
    <2>3. CASE d # c
      <3>1. pc'[d] = pc[d] /\ snap'[d] = snap[d]
        BY <2>3 DEF LifecycleInv, TypeOK
      <3> QED
        BY <2>1, <3>1, Zenon DEF RunnerInv, SnapInv, Names
    <2> QED
      BY <2>2, <2>3, Zenon
  <1> QED
    BY <1>1, <1>2, Zenon DEF LifecycleInv

\* A step that changes one process keeps the invariant if the process only
\* moves towards its end and its runner, if it takes the step, knows of it.
LEMMA ProcessStep ==
  ASSUME LifecycleInv, TypeOK',
         NEW c \in Cmd, NEW l \in Label, NEW v \in Process,
         proc' = [proc EXCEPT ![c] = v],
         pc' = [pc EXCEPT ![c] = l],
         UNCHANGED <<file, snap>>,
         v # "none",
         proc[c] \in Dead => v \in Dead,
         proc[c] = "gone" => v = "gone",
         l = pc[c] \/ l \notin Holding,
         l \in Unreaped \cup Reaped \cup Ended,
         l \in Unreaped => v \in Alive \cup {"zombie"},
         l \in Reaped => v = "gone"
  PROVE  LifecycleInv'
  <1>0. \A d \in Cmd : /\ proc[d] # "none" => proc'[d] # "none"
                       /\ proc[d] \in Dead => proc'[d] \in Dead
                       /\ proc[d] = "gone" => proc'[d] = "gone"
    BY Zenon DEF LifecycleInv, TypeOK
  <1>1. Names(file)' /\ StoppedOnlyAfterDeath'
    BY <1>0, Zenon DEF LifecycleInv, Names, StoppedOnlyAfterDeath
  <1>2. ASSUME NEW d \in Cmd PROVE RunnerInv(d)' /\ SnapInv(d)'
    <2>1. RunnerInv(d) /\ SnapInv(d)
      BY Zenon DEF LifecycleInv
    <2>2. Names(snap[d])'
      BY <2>1, <1>0, Zenon DEF SnapInv, Names
    <2>3. CASE d = c
      <3>1. pc'[c] = l /\ proc'[c] = v
        BY Zenon DEF LifecycleInv, TypeOK
      <3>2. RunnerInv(c)'
        BY <3>1, Zenon DEF RunnerInv
      <3>3. SnapInv(c)'
        BY <3>1, <2>1, <2>2, <2>3, <1>0, Zenon DEF SnapInv, Holding, Names
      <3> QED
        BY <2>3, <3>2, <3>3, Zenon
    <2>4. CASE d # c
      <3>1. pc'[d] = pc[d] /\ proc'[d] = proc[d]
        BY <2>4, Zenon DEF LifecycleInv, TypeOK
      <3> QED
        BY <2>1, <2>2, <3>1, <1>0, Zenon DEF RunnerInv, SnapInv, Names
    <2> QED
      BY <2>3, <2>4, Zenon
  <1> QED
    BY <1>1, <1>2, Zenon DEF LifecycleInv

-----------------------------------------------------------------------------
(* Records. *)

LEMMA MarkStoppedFact ==
  ASSUME NEW s \in State, NEW e \in {"none", "reported", "stale"}
  PROVE  /\ MarkStopped(s, e) \in State
         /\ MarkStopped(s, e).status = "stopped"
         /\ MarkStopped(s, e).run = s.run
  BY Zenon DEF MarkStopped, State, Status

LEMMA RecordsFact ==
  /\ Absent \in State /\ Absent.status = "absent"
  /\ Created \in State /\ Created.status = "created"
  /\ \A c \in Cmd : /\ Running(c) \in State
                    /\ Running(c).status = "running" /\ Running(c).run = c
  BY Zenon DEF Absent, Created, Running, State, Status

\* load_current changes the record only from running to stopped, for a process
\* that is dead.
LEMMA LoadCurrentFact ==
  ASSUME LifecycleInv, LoadCurrent
  PROVE  /\ file' \in State
         /\ cgroups' \subseteq Cmd /\ veth' \in Cmd \cup {NoRun} /\ linked' \subseteq Cmd
         /\ nat' \in BOOLEAN /\ alloc' \in BOOLEAN
         /\ Names(file')
         /\ file'.status = "stopped" => proc[file'.run] \in Dead
  <1>1. CASE ~Stale(file) /\ UNCHANGED <<file, host>>
    BY <1>1, Zenon DEF LifecycleInv, TypeOK, host, StoppedOnlyAfterDeath
  <1>2. CASE /\ Stale(file)
             /\ \E owned \in BOOLEAN :
                    /\ proc[file.run] = "zombie" => owned
                    /\ CleanUpStale(file.run, owned)
             /\ file' = MarkStopped(file, "stale")
    <2>1. file \in State /\ Names(file)
      BY Zenon DEF LifecycleInv, TypeOK
    <2>2. file' \in State /\ file'.status = "stopped" /\ file'.run = file.run
      BY <1>2, <2>1, MarkStoppedFact, Zenon
    <2>3. file.run \in Cmd /\ proc[file.run] \in Dead /\ proc[file.run] # "none"
      BY <1>2, <2>1, Zenon DEF Stale, Names
    <2>4. PICK owned \in BOOLEAN : CleanUpStale(file.run, owned)
      BY <1>2, Zenon
    <2>5. /\ cgroups' \subseteq Cmd /\ veth' \in Cmd \cup {NoRun} /\ linked' \subseteq Cmd
          /\ nat' \in BOOLEAN /\ alloc' \in BOOLEAN
      BY <2>4, Zenon DEF CleanUpStale, LifecycleInv, TypeOK
    <2> QED
      BY <2>2, <2>3, <2>5, Zenon DEF Names
  <1> QED
    BY <1>1, <1>2, Zenon DEF LoadCurrent

\* A command that loads the record before it forks anything.
LEMMA LoadThenStep ==
  ASSUME LifecycleInv, NEW c \in Cmd,
         NEW wanted, NEW next \in Label, NEW otherwise \in Label,
         LoadThen(c, wanted, next, otherwise),
         pc[c] \notin Unreaped \cup Reaped \cup Ended,
         next \notin Unreaped \cup Reaped, otherwise \notin Unreaped \cup Reaped,
         next \in Holding => wanted = {"running"}, next # "mark",
         otherwise \notin Holding
  PROVE  LifecycleInv'
  <1> DEFINE l == IF file'.status \in wanted THEN next
                  ELSE IF file'.status = "absent" THEN "err" ELSE otherwise
  <1>1. /\ LoadCurrent
        /\ snap' = [snap EXCEPT ![c] = file']
        /\ pc' = [pc EXCEPT ![c] = l]
        /\ UNCHANGED <<proc, sig, pipe, lease, bridge, op>>
    BY Zenon DEF LoadThen
  <1>2. /\ file' \in State
        /\ cgroups' \subseteq Cmd /\ veth' \in Cmd \cup {NoRun} /\ linked' \subseteq Cmd
        /\ nat' \in BOOLEAN /\ alloc' \in BOOLEAN
        /\ Names(file')
        /\ file'.status = "stopped" => proc[file'.run] \in Dead
    BY <1>1, LoadCurrentFact, Zenon
  <1>3. l \in Label /\ l \notin Unreaped \cup Reaped /\ l # "mark"
    BY DEF Label, Ended, Unreaped, Reaped, Holding
  <1>4. l \in Holding => file'.status = "running"
    BY Zenon DEF Holding
  <1>5. TypeOK'
    <2>1. pc' \in [Cmd -> Label] /\ snap' \in [Cmd -> State]
      BY <1>1, <1>2, <1>3, Zenon DEF LifecycleInv, TypeOK
    <2> QED
      BY <1>1, <1>2, <2>1, Zenon DEF LifecycleInv, TypeOK
  <1>6. Follows(pc[c], l)
    BY <1>3, Zenon DEF Follows
  <1> HIDE DEF l
  <1> QED
    BY <1>1, <1>2, <1>3, <1>4, <1>5, <1>6, CommandStep, Zenon

-----------------------------------------------------------------------------
(* The actions. *)

\* A step that saves file', keeps its copy and moves on.
LEMMA GotoStep ==
  ASSUME LifecycleInv, TypeOK', NEW c \in Cmd, NEW l \in Label,
         UNCHANGED <<proc, snap>>,
         pc' = [pc EXCEPT ![c] = l],
         Names(file'),
         file'.status = "stopped" => proc[file'.run] \in Dead,
         l \in Holding => snap[c].status = "running",
         l = "mark" => proc[snap[c].run] = "gone",
         Follows(pc[c], l)
  PROVE  LifecycleInv'
  <1>1. snap[c] \in State /\ Names(snap[c])
    BY Zenon DEF LifecycleInv, TypeOK, SnapInv
  <1>2. snap' = [snap EXCEPT ![c] = snap[c]]
    BY Zenon DEF LifecycleInv, TypeOK
  <1> QED
    BY <1>1, <1>2, CommandStep, Zenon

\* The same for a step that leaves the record alone as well.
LEMMA MoveStep ==
  ASSUME LifecycleInv, TypeOK', NEW c \in Cmd, NEW l \in Label,
         UNCHANGED <<file, proc, snap>>,
         pc' = [pc EXCEPT ![c] = l],
         l \in Holding => snap[c].status = "running",
         l = "mark" => proc[snap[c].run] = "gone",
         Follows(pc[c], l)
  PROVE  LifecycleInv'
  BY GotoStep, Zenon DEF LifecycleInv, StoppedOnlyAfterDeath

LEMMA LoadsKeepInv ==
  ASSUME LifecycleInv, NEW c \in Cmd,
         \/ LoadCreated(c) \/ LoadTarget(c) \/ ReloadTarget(c) \/ Inspect(c)
         \/ HealthWatch(c) \/ HealthLoad(c) \/ DeleteLoad(c)
  PROVE  LifecycleInv'
  <1> USE DEF Label, Ended, Unreaped, Reaped, Holding
  <1>1. CASE LoadCreated(c)
    BY <1>1, LoadThenStep, Zenon DEF LoadCreated
  <1>2. CASE LoadTarget(c)
    BY <1>2, LoadThenStep, Zenon DEF LoadTarget
  <1>3. CASE ReloadTarget(c)
    BY <1>3, LoadThenStep, Zenon DEF ReloadTarget
  <1>4. CASE Inspect(c)
    <2>1. /\ pc[c] = "load"
          /\ LoadThen(c, {"created", "running", "stopped"}, "ok", "err")
      BY <1>4, Zenon DEF Inspect
    <2>2. "ok" \in Label /\ "err" \in Label /\ "load" \notin Unreaped \cup Reaped \cup Ended
      BY Zenon
    <2>3. {"ok", "err"} \cap (Unreaped \cup Reaped \cup Holding) = {}
      BY Zenon
    <2> HIDE DEF Label, Ended, Unreaped, Reaped, Holding
    <2> QED
      BY <2>1, <2>2, <2>3, LoadThenStep, "ok" # "mark", Zenon
  <1>5. CASE HealthWatch(c)
    BY <1>5, LoadThenStep, Zenon DEF HealthWatch
  <1>6. CASE HealthLoad(c)
    BY <1>6, LoadThenStep, Zenon DEF HealthLoad
  <1>7. CASE DeleteLoad(c)
    BY <1>7, LoadThenStep, Zenon DEF DeleteLoad
  <1> QED
    BY <1>1, <1>2, <1>3, <1>4, <1>5, <1>6, <1>7, Zenon

LEMMA PollStep ==
  ASSUME LifecycleInv, NEW c \in Cmd,
         NEW label \in {"poll", "repoll"}, NEW late \in {"reload", "err"},
         Poll(c, label, late)
  PROVE  LifecycleInv'
  <1>1. PICK l \in {"err", "ok", late, label} :
            /\ pc' = [pc EXCEPT ![c] = l]
            /\ UNCHANGED <<proc, sig, pipe, lease, bridge, op, snap>>
    BY Zenon DEF Poll, Goto
  <1>2. /\ file' \in State
        /\ cgroups' \subseteq Cmd /\ veth' \in Cmd \cup {NoRun} /\ linked' \subseteq Cmd
        /\ nat' \in BOOLEAN /\ alloc' \in BOOLEAN
        /\ Names(file')
        /\ file'.status = "stopped" => proc[file'.run] \in Dead
    BY LoadCurrentFact, Zenon DEF Poll
  <1>3. l \in Label /\ l \notin Unreaped \cup Reaped \cup Holding
    BY DEF Label, Ended, Unreaped, Reaped, Holding
  <1>4. TypeOK'
    <2>1. pc' \in [Cmd -> Label]
      BY <1>1, <1>3, Zenon DEF LifecycleInv, TypeOK
    <2> QED
      BY <1>1, <1>2, <2>1, Zenon DEF LifecycleInv, TypeOK
  <1>5. pc[c] \notin Unreaped \cup Reaped \cup Ended
    BY Zenon DEF Poll, Unreaped, Reaped, Ended
  <1>6. Follows(pc[c], l) /\ l # "mark"
    BY <1>3, <1>5, Zenon DEF Follows, Holding
  <1> QED
    BY <1>1, <1>2, <1>3, <1>4, <1>6, GotoStep, Zenon

LEMMA DeliverStep ==
  ASSUME LifecycleInv, NEW c \in Cmd, pc[c] \in {"send", "resend"},
         NEW s \in {"term", "kill"}, NEW next \in {"ok", "poll", "repoll"},
         Deliver(c, s, next)
  PROVE  LifecycleInv'
  <1>1. PICK l \in {"err", next} :
            /\ pc' = [pc EXCEPT ![c] = l]
            /\ UNCHANGED <<file, proc, pipe, host, lease, bridge, op, snap>>
    BY Zenon DEF Deliver, Goto
  <1>2. l \in Label /\ l \notin Unreaped \cup Reaped \cup Holding
    BY Zenon DEF Label, Ended, Unreaped, Reaped, Holding
  <1>3. sig' \in [Cmd -> {"none", "term", "kill"}]
    BY DEF Deliver, LifecycleInv, TypeOK
  <1>4. TypeOK'
    <2>1. pc' \in [Cmd -> Label]
      BY <1>1, <1>2, Zenon DEF LifecycleInv, TypeOK
    <2> QED
      BY <1>1, <1>3, <2>1, Zenon DEF LifecycleInv, TypeOK, host
  <1>5. Follows(pc[c], l) /\ l # "mark"
    BY <1>2, Zenon DEF Follows, Holding, Unreaped, Reaped, Ended
  <1> QED
    BY <1>1, <1>2, <1>4, <1>5, MoveStep, Zenon

LEMMA StopKeepsInv ==
  ASSUME LifecycleInv, NEW c \in Cmd,
         Send(c) \/ PollTerm(c) \/ SendKill(c) \/ PollKill(c)
  PROVE  LifecycleInv'
  <1>1. CASE Send(c)
    BY <1>1, DeliverStep, Zenon DEF Send
  <1>2. CASE PollTerm(c)
    BY <1>2, PollStep, Zenon DEF PollTerm
  <1>3. CASE SendKill(c)
    BY <1>3, DeliverStep, Zenon DEF SendKill
  <1>4. CASE PollKill(c)
    BY <1>4, PollStep, Zenon DEF PollKill
  <1> QED
    BY <1>1, <1>2, <1>3, <1>4, Zenon

\* create, and the run that finds its id free.
LEMMA CreateKeepsInv ==
  ASSUME LifecycleInv, NEW c \in Cmd, EnsureContainerAbsent(c) \/ SaveCreated(c)
  PROVE  LifecycleInv'
  <1> USE DEF Label, Ended, Unreaped, Reaped, Holding, Follows
  <1>1. CASE EnsureContainerAbsent(c)
    <2>1. PICK l \in {"err", "savecreated", "fork"} :
              /\ pc' = [pc EXCEPT ![c] = l]
              /\ UNCHANGED <<file, proc, sig, pipe, host, lease, bridge, op, snap>>
      BY <1>1, Zenon DEF EnsureContainerAbsent, Goto
    <2>2. TypeOK'
      BY <2>1 DEF LifecycleInv, TypeOK, host
    <2> QED
      BY <1>1, <2>1, <2>2, MoveStep, Zenon DEF EnsureContainerAbsent
  <1>2. CASE SaveCreated(c)
    <2>1. /\ pc' = [pc EXCEPT ![c] = "ok"] /\ file' = Created
          /\ UNCHANGED <<proc, sig, pipe, host, lease, bridge, op, snap>>
      BY <1>2, Zenon DEF SaveCreated, Goto
    <2>2. TypeOK'
      BY <2>1, RecordsFact, Zenon DEF LifecycleInv, TypeOK, host
    <2>3. Names(file') /\ file'.status # "stopped"
      BY <2>1, RecordsFact, Zenon DEF Names
    <2> QED
      BY <1>2, <2>1, <2>2, <2>3, GotoStep, Zenon DEF SaveCreated
  <1> QED
    BY <1>1, <1>2, Zenon

\* What ParentResources::cleanup leaves is of the right kind.
LEMMA ParentCleanupFact ==
  ASSUME LifecycleInv, NEW c \in Cmd, ParentCleanup(c)
  PROVE  /\ cgroups' \subseteq Cmd /\ veth' \in Cmd \cup {NoRun} /\ linked' \subseteq Cmd
         /\ nat' \in BOOLEAN /\ alloc' \in BOOLEAN
  BY Zenon DEF ParentCleanup, LifecycleInv, TypeOK

\* An error return leaves the child to its own fate.
LEMMA AbandonStep ==
  ASSUME LifecycleInv, NEW c \in Cmd, Abandon(c)
  PROVE  LifecycleInv'
  <1> USE DEF Label, Ended, Unreaped, Reaped, Holding, Follows
  <1>1. /\ pc' = [pc EXCEPT ![c] = "err"]
        /\ UNCHANGED <<file, proc, sig, lease, bridge, op, snap>>
    BY Zenon DEF Abandon, Goto
  <1>2. pipe' \in [Cmd -> {"none", "held", "sent", "closed"}]
    BY Zenon DEF Abandon, CloseSyncPipe, LifecycleInv, TypeOK
  <1>3. /\ cgroups' \subseteq Cmd /\ veth' \in Cmd \cup {NoRun} /\ linked' \subseteq Cmd
        /\ nat' \in BOOLEAN /\ alloc' \in BOOLEAN
    BY ParentCleanupFact, Zenon DEF Abandon
  <1>4. TypeOK'
    BY <1>1, <1>2, <1>3 DEF LifecycleInv, TypeOK
  <1> QED
    BY <1>1, <1>4, MoveStep, Zenon

\* The runner from the fork to the wait for its child.
LEMMA StartKeepsInv ==
  ASSUME LifecycleInv, NEW c \in Cmd,
         \/ Fork(c) \/ AddCgroup(c) \/ AllocateBridgeNetwork(c) \/ SetupVethParent(c)
         \/ SetupNat(c) \/ SaveStartedState(c) \/ SignalChild(c)
  PROVE  LifecycleInv'
  <1> USE DEF Label, Ended, Unreaped, Reaped, Holding, Follows
  <1>1. CASE Fork(c)
    <2>1. /\ pc[c] = "fork" /\ pc' = [pc EXCEPT ![c] = "cgroup"]
          /\ proc' = [proc EXCEPT ![c] = "forked"]
          /\ UNCHANGED <<file, sig, host, lease, bridge, op, snap>>
      BY <1>1, Zenon DEF Fork, Goto
    <2>2. TypeOK'
      BY <1>1, <2>1 DEF Fork, LifecycleInv, TypeOK, host, Process
    <2>3. proc[c] = "none"
      BY <2>1, Zenon DEF LifecycleInv, RunnerInv
    <2> QED
      BY <2>1, <2>2, <2>3, ProcessStep, Zenon DEF Process, Alive, Dead
  <1>2. CASE AddCgroup(c)
    <2>1. PICK l \in {"network", "record"} :
              /\ pc' = [pc EXCEPT ![c] = l]
              /\ UNCHANGED <<file, proc, sig, pipe, veth, linked, nat, alloc, lease, bridge, op, snap>>
      BY <1>2, Zenon DEF AddCgroup, Goto
    <2>2. TypeOK'
      BY <1>2, <2>1 DEF AddCgroup, LifecycleInv, TypeOK
    <2> QED
      BY <1>2, <2>1, <2>2, MoveStep, Zenon DEF AddCgroup
  <1>3. CASE AllocateBridgeNetwork(c)
    <2>1. TypeOK'
      BY <1>3, Zenon DEF AllocateBridgeNetwork, Goto, LifecycleInv, TypeOK
    <2> QED
      BY <1>3, <2>1, MoveStep, Zenon DEF AllocateBridgeNetwork, Goto
  <1>4. CASE SetupVethParent(c)
    <2>1. CASE veth # NoRun \/ proc[c] \in Dead
      BY <1>4, <2>1, AbandonStep, Zenon DEF SetupVethParent
    <2>2. CASE ~(veth # NoRun \/ proc[c] \in Dead)
      <3>1. /\ pc[c] = "link" /\ pc' = [pc EXCEPT ![c] = "nat"]
            /\ veth' = c /\ linked' \in {{}, {c}}
            /\ UNCHANGED <<file, proc, sig, pipe, cgroups, nat, alloc, lease, bridge, op, snap>>
        BY <1>4, <2>2, Zenon DEF SetupVethParent, Goto
      <3>2. TypeOK'
        BY <3>1 DEF LifecycleInv, TypeOK
      <3> QED
        BY <3>1, <3>2, MoveStep, Zenon
    <2> QED
      BY <2>1, <2>2, Zenon
  <1>5. CASE SetupNat(c)
    <2>1. /\ pc[c] = "nat" /\ pc' = [pc EXCEPT ![c] = "record"]
          /\ lease' \in [Cmd -> BOOLEAN] /\ nat' = TRUE
          /\ UNCHANGED <<file, proc, sig, pipe, cgroups, veth, linked, alloc, bridge, op, snap>>
      BY <1>5, Zenon DEF SetupNat, Goto, LifecycleInv, TypeOK
    <2>2. TypeOK'
      BY <2>1, Zenon DEF LifecycleInv, TypeOK
    <2> QED
      BY <2>1, <2>2, MoveStep, Zenon
  <1>6. CASE SaveStartedState(c)
    <2>1. /\ pc[c] = "record" /\ pc' = [pc EXCEPT ![c] = "release"] /\ file' = Running(c)
          /\ UNCHANGED <<proc, sig, pipe, host, lease, bridge, op, snap>>
      BY <1>6, Zenon DEF SaveStartedState, Goto
    <2>2. TypeOK'
      BY <2>1, RecordsFact, Zenon DEF LifecycleInv, TypeOK, host
    <2>3. proc[c] # "none"
      BY <2>1, Zenon DEF LifecycleInv, RunnerInv, Alive
    <2>4. Names(file') /\ file'.status # "stopped"
      BY <2>1, <2>3, RecordsFact, Zenon DEF Names
    <2> QED
      BY <2>1, <2>2, <2>4, GotoStep, Zenon
  <1>7. CASE SignalChild(c)
    <2>1. CASE bridge /\ proc[c] \in Dead
      BY <1>7, <2>1, AbandonStep, Zenon DEF SignalChild
    <2>2. CASE ~(bridge /\ proc[c] \in Dead)
      <3>1. /\ pc[c] = "release" /\ pc' = [pc EXCEPT ![c] = "wait"]
            /\ pipe' = [pipe EXCEPT ![c] = "sent"]
            /\ UNCHANGED <<file, proc, sig, host, lease, bridge, op, snap>>
        BY <1>7, <2>2, Zenon DEF SignalChild, Goto
      <3>2. TypeOK'
        BY <3>1, Zenon DEF LifecycleInv, TypeOK, host
      <3> QED
        BY <3>1, <3>2, MoveStep, Zenon
    <2> QED
      BY <2>1, <2>2, Zenon
  <1> QED
    BY <1>1, <1>2, <1>3, <1>4, <1>5, <1>6, <1>7, Zenon

\* The runner from the end of its child to its last save.
LEMMA FinishKeepsInv ==
  ASSUME LifecycleInv, NEW c \in Cmd,
         WaitChild(c) \/ CleanupResources(c) \/ SaveStopped(c)
  PROVE  LifecycleInv'
  <1> USE DEF Label, Ended, Unreaped, Reaped, Holding, Follows
  <1>1. CASE WaitChild(c)
    <2>1. /\ pc' = [pc EXCEPT ![c] = "cleanup"]
          /\ proc' = [proc EXCEPT ![c] = "gone"]
          /\ UNCHANGED <<file, sig, pipe, host, lease, bridge, op, snap>>
      BY <1>1, Zenon DEF WaitChild, Goto
    <2>2. TypeOK'
      BY <2>1 DEF LifecycleInv, TypeOK, host, Process
    <2> QED
      BY <2>1, <2>2, ProcessStep, Zenon DEF Process, Dead
  <1>2. CASE CleanupResources(c)
    <2>1. PICK l \in {"err", "savestopped"} :
              /\ pc' = [pc EXCEPT ![c] = l]
              /\ UNCHANGED <<file, proc, sig, pipe, lease, bridge, op, snap>>
      BY <1>2, Zenon DEF CleanupResources, Goto
    <2>2. /\ cgroups' \subseteq Cmd /\ veth' \in Cmd \cup {NoRun} /\ linked' \subseteq Cmd
          /\ nat' \in BOOLEAN /\ alloc' \in BOOLEAN
      BY <1>2, ParentCleanupFact, Zenon DEF CleanupResources
    <2>3. TypeOK'
      BY <2>1, <2>2, Zenon DEF LifecycleInv, TypeOK
    <2> QED
      BY <1>2, <2>1, <2>3, MoveStep, Zenon DEF CleanupResources
  <1>3. CASE SaveStopped(c)
    <2>1. /\ pc[c] = "savestopped" /\ pc' = [pc EXCEPT ![c] = "ok"]
          /\ file' = MarkStopped(Running(c), "reported")
          /\ UNCHANGED <<proc, sig, pipe, host, lease, bridge, op, snap>>
      BY <1>3, Zenon DEF SaveStopped, Goto
    <2>2. file' \in State /\ file'.status = "stopped" /\ file'.run = c
      BY <2>1, RecordsFact, MarkStoppedFact
    <2>3. TypeOK'
      BY <2>1, <2>2, Zenon DEF LifecycleInv, TypeOK, host
    <2>4. proc[c] = "gone"
      BY <2>1, Zenon DEF LifecycleInv, RunnerInv
    <2> QED
      BY <2>1, <2>2, <2>3, <2>4, GotoStep, Zenon DEF Names, Dead
  <1> QED
    BY <1>1, <1>2, <1>3, Zenon

\* health saves a copy that may be old, but never one that says stopped.
LEMMA HealthKeepsInv ==
  ASSUME LifecycleInv, NEW c \in Cmd, HealthProbe(c) \/ SaveHealth(c)
  PROVE  LifecycleInv'
  <1> USE DEF Label, Ended, Unreaped, Reaped, Holding, Follows
  <1>0. snap[c] \in State /\ Names(snap[c])
    BY Zenon DEF LifecycleInv, TypeOK, SnapInv
  <1>1. CASE HealthProbe(c)
    <2>0. pc[c] = "probe" /\ snap[c].status = "running"
      BY <1>1, Zenon DEF HealthProbe, LifecycleInv, SnapInv
    <2>1. CASE snap[c].run \notin cgroups
      <3>1. /\ pc' = [pc EXCEPT ![c] = "err"]
            /\ UNCHANGED <<file, proc, sig, pipe, host, lease, bridge, op, snap>>
        BY <1>1, <2>1, Zenon DEF HealthProbe, Goto
      <3>2. TypeOK'
        BY <3>1, Zenon DEF LifecycleInv, TypeOK, host
      <3> QED
        BY <2>0, <3>1, <3>2, MoveStep, Zenon
    <2>2. CASE snap[c].run \in cgroups
      <3>1. PICK h \in {"healthy", "unhealthy"} :
                snap' = [snap EXCEPT ![c] = [snap[c] EXCEPT !.health = h]]
        BY <1>1, <2>2, Zenon DEF HealthProbe
      <3> DEFINE s == [snap[c] EXCEPT !.health = h]
      <3>2. s \in State /\ s.status = "running" /\ s.run = snap[c].run
        BY <1>0, <2>0, Zenon DEF State
      <3>3. Names(s)
        BY <1>0, <2>0, <3>2, Zenon DEF Names
      <3>4. /\ pc' = [pc EXCEPT ![c] = "savehealth"] /\ snap' = [snap EXCEPT ![c] = s]
            /\ UNCHANGED <<file, proc, sig, pipe, host, lease, bridge, op>>
        BY <1>1, <2>2, <3>1, Zenon DEF HealthProbe
      <3> HIDE DEF s
      <3>5. TypeOK'
        BY <3>2, <3>4 DEF LifecycleInv, TypeOK, host
      <3>6. Names(file') /\ (file'.status = "stopped" => proc[file'.run] \in Dead)
        BY <3>4, Zenon DEF LifecycleInv, StoppedOnlyAfterDeath
      <3> QED
        BY <2>0, <3>2, <3>3, <3>4, <3>5, <3>6, CommandStep, Zenon
    <2> QED
      BY <2>1, <2>2, Zenon
  <1>2. CASE SaveHealth(c)
    <2>0. pc[c] = "savehealth" /\ snap[c].status = "running"
      BY <1>2, Zenon DEF SaveHealth, LifecycleInv, SnapInv
    <2>1. PICK l \in {"watch", "ok"} :
              /\ pc' = [pc EXCEPT ![c] = l] /\ file' = snap[c]
              /\ UNCHANGED <<proc, sig, pipe, host, lease, bridge, op, snap>>
      BY <1>2, Zenon DEF SaveHealth, Goto
    <2>2. TypeOK'
      BY <1>0, <2>1 DEF LifecycleInv, TypeOK, host
    <2> QED
      BY <1>0, <2>0, <2>1, <2>2, GotoStep, Zenon
  <1> QED
    BY <1>1, <1>2, Zenon

LEMMA DeleteKeepsInv ==
  ASSUME LifecycleInv, NEW c \in Cmd, DeleteRelease(c) \/ DeleteRemove(c)
  PROVE  LifecycleInv'
  <1> USE DEF Label, Ended, Unreaped, Reaped, Holding, Follows
  <1>1. CASE DeleteRelease(c)
    <2>1. TypeOK'
      BY <1>1, Zenon DEF DeleteRelease, Goto, LifecycleInv, TypeOK
    <2> QED
      BY <1>1, <2>1, MoveStep, Zenon DEF DeleteRelease, Goto
  <1>2. CASE DeleteRemove(c)
    <2>1. PICK l \in {"ok", "err"} :
              /\ pc' = [pc EXCEPT ![c] = l] /\ file' = Absent
              /\ UNCHANGED <<proc, sig, pipe, host, lease, bridge, op, snap>>
      BY <1>2, Zenon DEF DeleteRemove, Goto
    <2>2. TypeOK'
      BY <2>1, RecordsFact DEF LifecycleInv, TypeOK, host
    <2>3. Names(file') /\ file'.status # "stopped"
      BY <2>1, RecordsFact, Zenon DEF Names
    <2> QED
      BY <1>2, <2>1, <2>2, <2>3, GotoStep, Zenon DEF DeleteRemove
  <1> QED
    BY <1>1, <1>2, Zenon

\* doctor marks its listed copy: the run it names is gone for good.
LEMMA DoctorKeepsInv ==
  ASSUME LifecycleInv, NEW c \in Cmd, Doctor(c)
  PROVE  LifecycleInv'
  <1> USE DEF Label, Ended, Unreaped, Reaped, Holding, Follows
  <1>0. /\ snap[c] \in State /\ Names(snap[c])
        /\ file \in State /\ Names(file)
        /\ file.status = "stopped" => proc[file.run] \in Dead
    BY Zenon DEF LifecycleInv, TypeOK, SnapInv, StoppedOnlyAfterDeath
  <1>1. CASE DoctorList(c)
    <2>1. /\ pc[c] = "list" /\ pc' = [pc EXCEPT ![c] = "stale"]
          /\ snap' = [snap EXCEPT ![c] = file]
          /\ UNCHANGED <<file, proc, sig, pipe, host, lease, bridge, op>>
      BY <1>1, Zenon DEF DoctorList
    <2>2. TypeOK'
      BY <1>0, <2>1 DEF LifecycleInv, TypeOK, host
    <2> QED
      BY <1>0, <2>1, <2>2, CommandStep, Zenon
  <1>2. CASE DoctorCleansStale(c)
    <2>1. PICK l \in {"orphans", "mark"} :
              /\ pc' = [pc EXCEPT ![c] = l]
              /\ UNCHANGED <<file, proc, sig, pipe, lease, bridge, op, snap>>
              /\ l = "mark" => IsStaleProcess(snap[c])
      BY <1>2, Zenon DEF DoctorCleansStale, Goto
    <2>2. /\ cgroups' \subseteq Cmd /\ veth' \in Cmd \cup {NoRun} /\ linked' \subseteq Cmd
          /\ nat' \in BOOLEAN /\ alloc' \in BOOLEAN
      BY <1>2, Zenon DEF DoctorCleansStale, CleanUpStale, LifecycleInv, TypeOK, host
    <2>3. TypeOK'
      BY <2>1, <2>2, Zenon DEF LifecycleInv, TypeOK
    <2> QED
      BY <1>2, <2>1, <2>3, MoveStep, Zenon DEF DoctorCleansStale, IsStaleProcess
  <1>3. CASE DoctorMarksStopped(c)
    <2>1. /\ pc[c] = "mark" /\ pc' = [pc EXCEPT ![c] = "orphans"]
          /\ file' = MarkStopped(snap[c], "stale")
          /\ UNCHANGED <<proc, sig, pipe, host, lease, bridge, op, snap>>
      BY <1>3, Zenon DEF DoctorMarksStopped, Goto
    <2>2. file' \in State /\ file'.status = "stopped" /\ file'.run = snap[c].run
      BY <1>0, <2>1, MarkStoppedFact
    <2>3. TypeOK'
      BY <2>1, <2>2, Zenon DEF LifecycleInv, TypeOK, host
    <2>4. snap[c].status = "running" /\ proc[snap[c].run] = "gone"
      BY <2>1, Zenon DEF LifecycleInv, SnapInv
    <2>5. Names(file')
      BY <1>0, <2>2, <2>4, Zenon DEF Names
    <2> QED
      BY <2>1, <2>2, <2>3, <2>4, <2>5, GotoStep, Zenon DEF Dead
  <1>4. CASE DoctorOrphanCgroups(c)
    <2>1. TypeOK'
      BY <1>4, Zenon DEF DoctorOrphanCgroups, Goto, LifecycleInv, TypeOK
    <2> QED
      BY <1>4, <2>1, MoveStep, Zenon DEF DoctorOrphanCgroups, Goto
  <1>5. CASE DoctorAllocations(c)
    <2>1. TypeOK'
      BY <1>5, Zenon DEF DoctorAllocations, Goto, LifecycleInv, TypeOK
    <2> QED
      BY <1>5, <2>1, MoveStep, Zenon DEF DoctorAllocations, Goto
  <1>6. CASE DoctorOrphanVeths(c)
    <2>1. TypeOK'
      BY <1>6, Zenon DEF DoctorOrphanVeths, Goto, LifecycleInv, TypeOK
    <2> QED
      BY <1>6, <2>1, MoveStep, Zenon DEF DoctorOrphanVeths, Goto
  <1>7. CASE DoctorReports(c)
    <2>1. TypeOK'
      BY <1>7, Zenon DEF DoctorReports, Goto, LifecycleInv, TypeOK, host
    <2> QED
      BY <1>7, <2>1, MoveStep, Zenon DEF DoctorReports, Goto
  <1> QED
    BY <1>1, <1>2, <1>3, <1>4, <1>5, <1>6, <1>7, Zenon DEF Doctor

\* A failure or a kill of a runner at any step.
LEMMA FailureKeepsInv ==
  ASSUME LifecycleInv, NEW c \in Cmd, Failure(c)
  PROVE  LifecycleInv'
  <1> USE DEF Label, Ended, Unreaped, Reaped, Holding, Follows
  <1>1. CASE CgroupFails(c)
    <2>1. /\ pc[c] = "cgroup" /\ pc' = [pc EXCEPT ![c] = "err"]
          /\ proc' = [proc EXCEPT ![c] = "gone"]
          /\ UNCHANGED <<file, sig, host, lease, bridge, op, snap>>
      BY <1>1, Zenon DEF CgroupFails, Goto
    <2>2. pipe' \in [Cmd -> {"none", "held", "sent", "closed"}]
      BY <1>1, Zenon DEF CgroupFails, CloseSyncPipe, LifecycleInv, TypeOK
    <2>3. TypeOK'
      BY <2>1, <2>2, Zenon DEF LifecycleInv, TypeOK, host, Process
    <2> QED
      BY <2>1, <2>3, ProcessStep, Zenon DEF Process, Dead
  <1>2. CASE RunnerFails(c)
    BY <1>2, AbandonStep, Zenon DEF RunnerFails
  <1>3. CASE Crash(c)
    <2>1. /\ pc' = [pc EXCEPT ![c] = "crashed"]
          /\ UNCHANGED <<file, proc, sig, host, lease, bridge, op, snap>>
      BY <1>3, Zenon DEF Crash, Goto
    <2>2. pipe' \in [Cmd -> {"none", "held", "sent", "closed"}]
      BY <1>3 DEF Crash, CloseSyncPipe, LifecycleInv, TypeOK
    <2>3. TypeOK'
      BY <2>1, <2>2, Zenon DEF LifecycleInv, TypeOK, host
    <2> QED
      BY <2>1, <2>3, MoveStep, Zenon
  <1> QED
    BY <1>1, <1>2, <1>3, Zenon DEF Failure

\* The container process moves towards its end and is reaped only by the runner
\* that waits for it, or by init once that runner ended.
LEMMA ChildKeepsInv ==
  ASSUME LifecycleInv, NEW c \in Cmd, Child(c)
  PROVE  LifecycleInv'
  <1>0. pc[c] \in Label /\ pc' = pc => pc' = [pc EXCEPT ![c] = pc[c]]
    BY Zenon DEF LifecycleInv, TypeOK
  <1>1. ASSUME NEW v \in Process,
               proc' = [proc EXCEPT ![c] = v],
               UNCHANGED <<file, sig, pipe, host, lease, bridge, pc, op, snap>>,
               proc[c] \in Alive \cup {"zombie"}, v # "none",
               proc[c] = "zombie" => v = "gone" /\ pc[c] \in Ended,
               v \notin Alive \cup {"zombie"} => pc[c] \in Ended
        PROVE  LifecycleInv'
    <2>1. TypeOK'
      BY <1>1, Zenon DEF LifecycleInv, TypeOK, host
    <2>2. pc[c] \in Label
      BY Zenon DEF LifecycleInv, TypeOK
    <2>3. /\ pc[c] \in Unreaped \cup Ended
          /\ pc[c] \notin Reaped
      BY <1>1, Zenon DEF LifecycleInv, RunnerInv, Alive
    <2>4. pc[c] \in Unreaped => v \in Alive \cup {"zombie"}
      BY <1>1, Zenon DEF Unreaped, Ended
    <2>5. /\ proc[c] \in Dead => v \in Dead
          /\ proc[c] = "gone" => v = "gone"
      BY <1>1, Zenon DEF Alive, Dead
    <2> QED
      BY <1>0, <1>1, <2>1, <2>2, <2>3, <2>4, <2>5, ProcessStep, Zenon
  <1>2. CASE ChildUnshares(c)
    BY <1>1, <1>2, Zenon DEF ChildUnshares, Process, Alive
  <1>3. CASE ChildProceeds(c)
    <2>1. PICK v \in {"running", "zombie"} : proc' = [proc EXCEPT ![c] = v]
      BY <1>3, Zenon DEF ChildProceeds
    <2> QED
      BY <1>1, <1>3, <2>1, Zenon DEF ChildProceeds, Process, Alive
  <1>4. CASE ChildExits(c)
    BY <1>1, <1>4, Zenon DEF ChildExits, Process, Alive
  <1>5. CASE InitReaps(c)
    BY <1>1, <1>5, Zenon DEF InitReaps, Process, Alive
  <1>6. CASE NetnsGone(c)
    <2>1. /\ linked' \subseteq Cmd /\ veth' = NoRun
          /\ UNCHANGED <<file, proc, sig, pipe, cgroups, nat, alloc, lease, bridge, pc, op, snap>>
      BY <1>6, Zenon DEF NetnsGone, LifecycleInv, TypeOK
    <2>2. TypeOK'
      BY <2>1, Zenon DEF LifecycleInv, TypeOK
    <2> QED
      BY <2>1, <2>2, Zenon DEF LifecycleInv, RunnerInv, SnapInv, Names, StoppedOnlyAfterDeath
  <1> QED
    BY <1>2, <1>3, <1>4, <1>5, <1>6, Zenon DEF Child

LEMMA BeginKeepsInv ==
  ASSUME LifecycleInv, NEW c \in Cmd, Begin(c)
  PROVE  LifecycleInv'
  <1> USE DEF Label, Ended, Unreaped, Reaped, Holding, Follows
  <1>1. PICK o \in Repertoire[c] :
            /\ op' = [op EXCEPT ![c] = o]
            /\ \E l \in First(o) : pc' = [pc EXCEPT ![c] = l]
    BY Zenon DEF Begin
  <1>2. o \in Op /\ First(o) \subseteq {"check", "load", "watch", "list"}
    BY Zenon DEF First, Op
  <1>3. PICK l \in {"check", "load", "watch", "list"} : pc' = [pc EXCEPT ![c] = l]
    BY <1>1, <1>2, Zenon
  <1>4. pc[c] = "idle" /\ UNCHANGED <<file, proc, sig, pipe, host, lease, bridge, snap>>
    BY Zenon DEF Begin
  <1>5. TypeOK'
    BY <1>1, <1>2, <1>3, <1>4 DEF LifecycleInv, TypeOK, host
  <1> QED
    BY <1>3, <1>4, <1>5, MoveStep, Zenon

LEMMA InitLifecycleInv == Init => LifecycleInv
  <1> SUFFICES ASSUME Init PROVE LifecycleInv
    BY Zenon
  <1> USE DEF Init
  <1>1. TypeOK
    BY RecordsFact, Zenon DEF TypeOK, Process, Label, Op
  <1>2. Names(file) /\ StoppedOnlyAfterDeath
    BY RecordsFact, Zenon DEF Names, StoppedOnlyAfterDeath
  <1>3. \A c \in Cmd : RunnerInv(c) /\ SnapInv(c)
    BY RecordsFact, Zenon DEF RunnerInv, SnapInv, Names, Unreaped, Reaped, Ended
  <1> QED
    BY <1>1, <1>2, <1>3, Zenon DEF LifecycleInv

LEMMA NextKeepsInv == LifecycleInv /\ [Next]_vars => LifecycleInv'
  <1> SUFFICES ASSUME LifecycleInv, [Next]_vars PROVE LifecycleInv'
    BY Zenon
  <1>1. CASE UNCHANGED vars
    BY <1>1 DEF vars, host, LifecycleInv, TypeOK, Names, RunnerInv, SnapInv,
                StoppedOnlyAfterDeath
  <1>2. ASSUME NEW c \in Cmd, Command(c) PROVE LifecycleInv'
    BY <1>2, CreateKeepsInv, LoadsKeepInv, StartKeepsInv, FinishKeepsInv,
       StopKeepsInv, HealthKeepsInv, DeleteKeepsInv, DoctorKeepsInv, Zenon DEF Command, Runner
  <1> QED
    BY <1>1, <1>2, BeginKeepsInv, FailureKeepsInv, ChildKeepsInv, Zenon DEF Next

-----------------------------------------------------------------------------
\* Whatever invocations of minicrun race, fail or are killed, the record, the
\* copies that commands hold and the runners agree on which processes are dead.
THEOREM LifecycleInvariant == Spec => []LifecycleInv
  BY InitLifecycleInv, NextKeepsInv, PTL DEF Spec

\* A record never says stopped of a container whose process is alive.
THEOREM StopSafety == Spec => []StoppedOnlyAfterDeath
  <1>1. LifecycleInv => StoppedOnlyAfterDeath
    BY Zenon DEF LifecycleInv
  <1> QED
    BY <1>1, LifecycleInvariant, PTL

\* Every variable of the lifecycle keeps its type.
THEOREM TypeCorrect == Spec => []TypeOK
  <1>1. LifecycleInv => TypeOK
    BY Zenon DEF LifecycleInv
  <1> QED
    BY <1>1, LifecycleInvariant, PTL

-----------------------------------------------------------------------------
(* Orderly use: one command at a time that replaces the record. *)

Exclusive == {"create", "run", "start", "delete", "doctor"}

\* The commands that replace the record are run one at a time, and nobody probes
\* the health: SaveHealth writes back a record that may be out of date.
OrderlyUse ==
    /\ Exclusive \subseteq Serial
    /\ \A c \in Cmd : "health" \notin Repertoire[c]

-----------------------------------------------------------------------------
(* The invariants. *)

Starting == {"savecreated", "fork", "cgroup", "network", "link", "nat", "record"}
Started == {"release", "wait", "cleanup", "savestopped"}
Deleting == {"free", "remove"}
Doctoring == {"list", "stale", "mark", "orphans", "leases", "links", "report"}
ExclusiveLabel == {"check"} \cup Starting \cup Started \cup Deleting \cup Doctoring
Stopping == {"send", "poll", "reload", "resend", "repoll"}

\* Which command is at which step.
OpInv(c) ==
    /\ pc[c] \in ExclusiveLabel => op[c] \in Exclusive
    /\ pc[c] \in Doctoring => op[c] = "doctor"
    /\ pc[c] \in Stopping => op[c] \in {"kill", "stop"}
    /\ op[c] # "health" /\ pc[c] \notin {"watch", "probe", "savehealth"}
    /\ pc[c] = "idle" => op[c] = "inspect"

Alone ==
    \A c, d \in Cmd :
        Active(c) /\ Active(d) /\ op[c] \in Exclusive /\ op[d] \in Exclusive => c = d

TurnInv == Alone /\ \A c \in Cmd : OpInv(c)

Recorded(c) == file.status = "running" /\ file.run = c

\* What the file says while c is at work, and of the processes c is about.
RecordInv(c) ==
    /\ pc[c] \in Starting => file.status \in {"absent", "created"}
    /\ pc[c] \in Deleting => file.status \in {"absent", "created", "stopped"}
    /\ pc[c] \in Started => file.run = c /\ file.status \in {"running", "stopped"}
    /\ pc[c] \in {"stale", "mark"} /\ snap[c].status = "running"
       => file.run = snap[c].run /\ file.status \in {"running", "stopped"}
    /\ pipe[c] = "sent" /\ proc[c] \in Alive => Recorded(c)
    /\ op[c] = "stop" /\ pc[c] \in Stopping
       => /\ snap[c].status = "running"
          /\ proc[snap[c].run] \in Alive => Recorded(snap[c].run)
    /\ op[c] = "stop" /\ pc[c] = "ok" => snap[c].run \in Cmd /\ proc[snap[c].run] \in Dead

\* The runner c has its process, or the process was let go.
Engaged(c, labels) == proc[c] \in Alive /\ (pc[c] \in labels \/ pipe[c] = "sent")

NoDoctor == \A c \in Cmd : op[c] # "doctor"

\* What the run c holds, from the step that acquires it on.
ResourceInv(c) ==
    /\ pipe[c] = "sent" => pc[c] \in {"wait", "cleanup", "savestopped"} \cup Ended
    /\ pc[c] \in Unreaped \ {"wait"} => pipe[c] = "held"
    /\ proc[c] = "running" => pipe[c] \in {"sent", "closed"}
    /\ Engaged(c, {"network", "link", "nat", "record", "release", "wait"}) => c \in cgroups
    /\ NoDoctor /\ bridge /\ pc[c] # "err" =>
           /\ Engaged(c, {"link", "nat", "record", "release", "wait"}) => alloc
           /\ Engaged(c, {"nat", "record", "release", "wait"}) => veth = c
           /\ Engaged(c, {"record", "release", "wait"}) => nat
           /\ Supervised(c) => c \in linked

OrderlyInv ==
    /\ TurnInv
    /\ \A c \in Cmd : RecordInv(c) /\ ResourceInv(c)
    /\ linked \subseteq {veth}

-----------------------------------------------------------------------------
(* Turns. *)

\* c has begun, and goes on within its subcommand.
Advances(c) ==
    \E l \in Label \ {"idle", "watch", "probe", "savehealth"} :
        /\ pc' = [pc EXCEPT ![c] = l]
        /\ UNCHANGED op
        /\ Active(c)
        /\ l \in ExclusiveLabel => op[c] \in Exclusive
        /\ l \in Doctoring => op[c] = "doctor"
        /\ l \in Stopping => op[c] \in {"kill", "stop"}

LEMMA LoadAdvances ==
  ASSUME TypeOK, NEW c \in Cmd, NEW wanted, NEW next \in Label, NEW otherwise \in {"err", "ok"},
         LoadThen(c, wanted, next, otherwise), Active(c),
         next \notin {"idle", "watch", "probe", "savehealth"} \cup Doctoring,
         next \in ExclusiveLabel => op[c] \in Exclusive,
         next \in Stopping => op[c] \in {"kill", "stop"}
  PROVE  Advances(c)
  <1> DEFINE l == IF file'.status \in wanted THEN next
                  ELSE IF file'.status = "absent" THEN "err" ELSE otherwise
  <1>1. pc' = [pc EXCEPT ![c] = l] /\ UNCHANGED op
    BY Zenon DEF LoadThen
  <1>2. l = next \/ l \in {"err", "ok"}
    BY Zenon
  <1> HIDE DEF l
  <1>3. l \in Label \ {"idle", "watch", "probe", "savehealth"}
    BY <1>2 DEF Label, Ended
  <1>4. {"err", "ok"} \cap (ExclusiveLabel \cup Doctoring \cup Stopping) = {}
    BY Zenon DEF ExclusiveLabel, Starting, Started, Deleting, Doctoring, Stopping
  <1> QED
    BY <1>1, <1>2, <1>3, <1>4, Zenon DEF Advances

LEMMA CommandAdvances ==
  ASSUME TypeOK, NEW c \in Cmd, OpInv(c), Command(c) \/ Failure(c)
  PROVE  Advances(c)
  <1> USE DEF ExclusiveLabel, Starting, Started, Deleting, Doctoring, Stopping, Exclusive
  <1>1. CASE LoadCreated(c) \/ LoadTarget(c) \/ Inspect(c) \/ DeleteLoad(c) \/ ReloadTarget(c)
    BY <1>1, LoadAdvances, Zenon DEF LoadCreated, LoadTarget, Inspect, DeleteLoad, ReloadTarget,
                              Active, Ended, Label, OpInv
  <1>2. CASE EnsureContainerAbsent(c) \/ SaveCreated(c) \/ DeleteRelease(c) \/ DeleteRemove(c)
    BY <1>2 DEF EnsureContainerAbsent, SaveCreated, DeleteRelease, DeleteRemove,
                Goto, Active, Advances, Ended, Label, OpInv
  <1>3. CASE Runner(c)
    <2>1. CASE Fork(c) \/ AddCgroup(c) \/ AllocateBridgeNetwork(c)
      BY <2>1 DEF Fork, AddCgroup, AllocateBridgeNetwork, Abandon,
                  Goto, Active, Advances, Ended, Label, OpInv
    <2>2. CASE SetupVethParent(c) \/ SetupNat(c) \/ SaveStartedState(c)
      BY <2>2 DEF SetupVethParent, SetupNat, SaveStartedState, Abandon,
                  Goto, Active, Advances, Ended, Label, OpInv
    <2>3. CASE SignalChild(c) \/ WaitChild(c) \/ CleanupResources(c) \/ SaveStopped(c)
      BY <2>3 DEF SignalChild, WaitChild, CleanupResources, SaveStopped, Abandon,
                  Goto, Active, Advances, Ended, Label, OpInv
    <2> QED
      BY <1>3, <2>1, <2>2, <2>3, Zenon DEF Runner
  <1>4. CASE Send(c) \/ SendKill(c)
    BY <1>4, Zenon DEF Send, SendKill, Deliver, Goto, Active, Advances, Ended, Label, OpInv
  <1>5. CASE PollTerm(c) \/ PollKill(c)
    BY <1>5, Zenon DEF PollTerm, PollKill, Poll, Goto, Active, Advances, Ended, Label, OpInv
  <1>6. CASE Doctor(c)
    <2>1. CASE DoctorList(c) \/ DoctorMarksStopped(c) \/ DoctorReports(c)
      BY <2>1 DEF DoctorList, DoctorMarksStopped, DoctorReports,
                  Goto, Active, Advances, Ended, Label, OpInv
    <2>2. CASE DoctorCleansStale(c)
      <3>1. \E l \in {"orphans", "mark"} : Goto(c, l)
        BY <2>2, Zenon DEF DoctorCleansStale
      <3>2. pc[c] = "stale"
        BY <2>2, Zenon DEF DoctorCleansStale
      <3> QED
        BY <3>1, <3>2 DEF Goto, Active, Advances, Ended, Label, OpInv
    <2>3. CASE DoctorOrphanCgroups(c) \/ DoctorAllocations(c) \/ DoctorOrphanVeths(c)
      BY <2>3 DEF DoctorOrphanCgroups, DoctorAllocations, DoctorOrphanVeths,
                  Goto, Active, Advances, Ended, Label, OpInv
    <2> QED
      BY <1>6, <2>1, <2>2, <2>3, Zenon DEF Doctor
  <1>7. CASE Failure(c)
    BY <1>7 DEF Failure, CgroupFails, RunnerFails, Crash, Abandon,
                Goto, Active, Advances, Ended, Label, OpInv
  <1>8. ~(HealthWatch(c) \/ HealthLoad(c) \/ HealthProbe(c) \/ SaveHealth(c))
    BY Zenon DEF OpInv, HealthWatch, HealthLoad, HealthProbe, SaveHealth
  <1> QED
    BY <1>1, <1>2, <1>3, <1>4, <1>5, <1>6, <1>7, <1>8, Zenon DEF Command

LEMMA BeginTurn ==
  ASSUME OrderlyUse, TypeOK, TurnInv, NEW c \in Cmd, Begin(c)
  PROVE  TurnInv'
  <1>1. PICK o \in Repertoire[c] :
            /\ o \in Serial => \A d \in Cmd : Active(d) => op[d] \notin Serial
            /\ op' = [op EXCEPT ![c] = o]
            /\ \E l \in First(o) : pc' = [pc EXCEPT ![c] = l]
    BY Zenon DEF Begin
  <1>2. o \in Op \ {"health"}
    BY RepertoireAssumption, Zenon DEF OrderlyUse
  <1>3. o \in Exclusive => \A d \in Cmd : Active(d) => op[d] \notin Exclusive
    BY <1>1, Zenon DEF OrderlyUse
  <1>4. PICK l \in First(o) : pc' = [pc EXCEPT ![c] = l]
    BY <1>1, Zenon
  <1>5. /\ l \in {"check", "load", "list"}
        /\ l = "check" => o \in Exclusive
        /\ l = "list" => o = "doctor" /\ o \in Exclusive
    BY <1>2, <1>4, Zenon DEF First, Op, Exclusive
  <1>6. \A d \in Cmd : OpInv(d)'
    BY <1>1, <1>2, <1>4, <1>5
    DEF TurnInv, OpInv, TypeOK, ExclusiveLabel, Starting, Started, Deleting, Doctoring, Stopping
  <1>7. \A d \in Cmd \ {c} : Active(d)' = Active(d) /\ op'[d] = op[d]
    BY <1>1, <1>4, Zenon DEF TypeOK, Active
  <1>8. op'[c] = o
    BY <1>1, Zenon DEF TypeOK
  <1>9. Alone'
    BY <1>3, <1>7, <1>8, Zenon DEF TurnInv, Alone
  <1> QED
    BY <1>6, <1>9, Zenon DEF TurnInv

LEMMA AdvanceTurn ==
  ASSUME TypeOK, TurnInv, NEW c \in Cmd, Advances(c)
  PROVE  TurnInv'
  <1>1. PICK l \in Label \ {"idle", "watch", "probe", "savehealth"} :
            /\ pc' = [pc EXCEPT ![c] = l]
            /\ UNCHANGED op
            /\ Active(c)
            /\ l \in ExclusiveLabel => op[c] \in Exclusive
            /\ l \in Doctoring => op[c] = "doctor"
            /\ l \in Stopping => op[c] \in {"kill", "stop"}
    BY Zenon DEF Advances
  <1>2. \A d \in Cmd : OpInv(d)'
    BY <1>1, Zenon DEF TurnInv, OpInv, TypeOK
  <1>3. \A d \in Cmd : Active(d)' => Active(d)
    BY <1>1, Zenon DEF TypeOK, Active
  <1>4. Alone'
    BY <1>1, <1>3, Zenon DEF TurnInv, Alone
  <1> QED
    BY <1>2, <1>4, Zenon DEF TurnInv

LEMMA NextTurn ==
  ASSUME OrderlyUse, TypeOK, TurnInv, [Next]_vars
  PROVE  TurnInv'
  <1>1. CASE UNCHANGED vars
    BY <1>1, Zenon DEF vars, TurnInv, OpInv, Alone, Active
  <1>2. ASSUME NEW c \in Cmd, Child(c) PROVE TurnInv'
    <2>1. UNCHANGED <<pc, op>>
      BY <1>2, Zenon DEF Child, ChildUnshares, ChildProceeds, ChildExits, InitReaps, NetnsGone
    <2> QED
      BY <2>1, Zenon DEF TurnInv, OpInv, Alone, Active
  <1>3. ASSUME NEW c \in Cmd, Command(c) \/ Failure(c) PROVE TurnInv'
    BY <1>3, CommandAdvances, AdvanceTurn, Zenon DEF TurnInv
  <1> QED
    BY <1>1, <1>2, <1>3, BeginTurn, Zenon DEF Next

-----------------------------------------------------------------------------
(* What a step of c does to the others. *)

\* The step is one of c and of the process it forked: the others keep what is
\* theirs, and a process only moves towards its end.
Frame(c) ==
    /\ \A d \in Cmd \ {c} : /\ pc'[d] = pc[d] /\ op'[d] = op[d] /\ snap'[d] = snap[d]
                            /\ pipe'[d] = pipe[d] /\ proc'[d] = proc[d]
    /\ proc[c] \in Dead => proc'[c] \in Dead
    /\ proc'[c] \in Alive => proc[c] \in Alive \cup {"none"}
    /\ bridge' = bridge

\* The record of a live process is not touched.
LiveRecord == file.status = "running" /\ proc[file.run] \in Alive

\* The record is kept, refreshed, or replaced by the one command whose turn it is.
FileStep(c) ==
    \/ file' = file
    \/ Stale(file) /\ file'.status = "stopped" /\ file'.run = file.run
    \/ pc[c] \in ExclusiveLabel /\ ~LiveRecord

AllHeld == {"network", "link", "nat", "record", "release", "wait"}

\* What d holds is left to it.
Spared(d) ==
    Engaged(d, AllHeld) =>
        /\ d \in cgroups => d \in cgroups'
        /\ NoDoctor =>
               /\ alloc => alloc'
               /\ veth = d => veth' = d
               /\ nat => nat'
               /\ d \in linked => d \in linked'

LEMMA OthersRecord ==
  ASSUME LifecycleInv, TurnInv, \A d \in Cmd : RecordInv(d),
         NEW c \in Cmd, Frame(c), FileStep(c), NEW d \in Cmd, d # c
  PROVE  RecordInv(d)'
  <1>0. RecordInv(d) /\ Names(snap[d]) /\ Names(file) /\ StoppedOnlyAfterDeath
    BY Zenon DEF LifecycleInv, SnapInv
  <1>1. \A e \in Cmd : /\ proc'[e] \in Alive => proc[e] \in Alive \/ proc[e] = "none"
                       /\ proc[e] \in Dead => proc'[e] \in Dead
    BY Zenon DEF Frame
  <1>2. /\ pc'[d] = pc[d] /\ op'[d] = op[d] /\ snap'[d] = snap[d]
        /\ pipe'[d] = pipe[d] /\ proc'[d] = proc[d]
    BY Zenon DEF Frame
  <1>3. pc[d] \in Starting \cup Deleting \cup Started \cup {"stale", "mark"}
        => file' = file \/ (Stale(file) /\ file'.status = "stopped" /\ file'.run = file.run)
    <2>1. pc[c] \in ExclusiveLabel /\ pc[d] \in ExclusiveLabel => c = d
      BY DEF TurnInv, Alone, OpInv, Active, Ended, ExclusiveLabel, Starting, Started, Deleting, Doctoring
    <2> QED
      BY <2>1, Zenon DEF FileStep, ExclusiveLabel, Doctoring
  <1>4. LiveRecord => file' = file
    BY Zenon DEF FileStep, LiveRecord, Stale, Alive, Dead
  <1>5. pipe[d] = "sent" /\ proc[d] \in Alive => Recorded(d)'
    BY <1>0, <1>2, <1>4, Zenon DEF RecordInv, Recorded, LiveRecord
  <1>6. op[d] = "stop" /\ pc[d] \in Stopping
        => /\ snap[d].status = "running"
           /\ proc'[snap[d].run] \in Alive => file'.status = "running" /\ file'.run = snap[d].run
    BY <1>0, <1>1, <1>4, Zenon DEF RecordInv, Recorded, LiveRecord, Names
  <1>7. op[d] = "stop" /\ pc[d] = "ok" => proc'[snap[d].run] \in Dead
    BY <1>0, <1>1, Zenon DEF RecordInv
  <1> QED
    BY <1>0, <1>2, <1>3, <1>5, <1>6, <1>7, Zenon DEF RecordInv, Recorded, Stale

\* Nobody else's process is engaged while c creates, starts or deletes.
LEMMA Undisturbed ==
  ASSUME TurnInv, \A d \in Cmd : RecordInv(d),
         NEW c \in Cmd, pc[c] \in Starting \cup Started \cup Deleting, NEW d \in Cmd, d # c
  PROVE  ~Engaged(d, AllHeld)
  <1>1. pc[d] \notin AllHeld
    BY DEF TurnInv, Alone, OpInv, Active, Ended, ExclusiveLabel, Starting, Started, Deleting, AllHeld
  <1>2. ~Recorded(d)
    BY Zenon DEF RecordInv, Recorded, Starting, Started, Deleting
  <1> QED
    BY <1>1, <1>2, Zenon DEF Engaged, RecordInv

\* A refresh finds nothing to clean up while somebody's process is engaged.
LEMMA LoadSpares ==
  ASSUME \A d \in Cmd : RecordInv(d), LoadCurrent, NEW d \in Cmd
  PROVE  Spared(d)
  <1>1. Engaged(d, AllHeld) => ~Stale(file)
    BY Zenon DEF Engaged, AllHeld, RecordInv, Recorded, Stale, Starting, Started, Alive, Dead
  <1> QED
    BY <1>1, Zenon DEF Spared, LoadCurrent, host

LEMMA OthersResource ==
  ASSUME TurnInv, \A d \in Cmd : ResourceInv(d), linked \subseteq {veth},
         NEW c \in Cmd, Frame(c), NoDoctor' => NoDoctor, NEW d \in Cmd, d # c, Spared(d)
  PROVE  ResourceInv(d)'
  <1>1. /\ pc'[d] = pc[d] /\ pipe'[d] = pipe[d] /\ proc'[d] = proc[d] /\ bridge' = bridge
    BY Zenon DEF Frame
  <1>2. ResourceInv(d)
    BY Zenon
  <1>3. /\ Engaged(d, {"network", "link", "nat", "record", "release", "wait"})
              = Engaged(d, {"network", "link", "nat", "record", "release", "wait"})'
        /\ Engaged(d, {"link", "nat", "record", "release", "wait"})
              = Engaged(d, {"link", "nat", "record", "release", "wait"})'
        /\ Engaged(d, {"nat", "record", "release", "wait"})
              = Engaged(d, {"nat", "record", "release", "wait"})'
        /\ Engaged(d, {"record", "release", "wait"})
              = Engaged(d, {"record", "release", "wait"})'
        /\ Supervised(d)' = Supervised(d)
    BY <1>1, Zenon DEF Engaged, Supervised
  <1>4. Supervised(d) => Engaged(d, AllHeld)
    BY Zenon DEF Supervised, Engaged, Alive
  <1> QED
    BY <1>1, <1>2, <1>3, <1>4, Zenon DEF ResourceInv, Spared, Engaged, AllHeld

\* The step of c keeps the invariant if it keeps the part of it about c.
LEMMA StepKeeps ==
  ASSUME OrderlyUse, LifecycleInv, OrderlyInv, [Next]_vars,
         NEW c \in Cmd, Frame(c), FileStep(c), NoDoctor' => NoDoctor,
         \A d \in Cmd \ {c} : Spared(d),
         RecordInv(c)', ResourceInv(c)', (linked \subseteq {veth})'
  PROVE  OrderlyInv'
  <1>1. TypeOK /\ TurnInv /\ linked \subseteq {veth} /\ \A d \in Cmd : RecordInv(d) /\ ResourceInv(d)
    BY Zenon DEF LifecycleInv, OrderlyInv
  <1>2. TurnInv'
    BY <1>1, NextTurn, Zenon
  <1>3. ASSUME NEW d \in Cmd, d # c PROVE RecordInv(d)' /\ ResourceInv(d)'
    BY <1>1, <1>3, OthersRecord, OthersResource, Zenon
  <1> QED
    BY <1>2, <1>3, Zenon DEF OrderlyInv

\* A step of the command that creates, starts or deletes.
LEMMA WorkStep ==
  ASSUME OrderlyUse, LifecycleInv, OrderlyInv, [Next]_vars,
         NEW c \in Cmd, pc[c] \in Starting \cup Started \cup Deleting,
         UNCHANGED op, Frame(c), FileStep(c),
         RecordInv(c)', ResourceInv(c)', (linked \subseteq {veth})'
  PROVE  OrderlyInv'
  <1>1. \A d \in Cmd \ {c} : Spared(d)
    BY Undisturbed, Zenon DEF OrderlyInv, Spared
  <1> QED
    BY <1>1, StepKeeps, Zenon DEF NoDoctor

\* A step that touches no host resource.
LEMMA HostKept ==
  ASSUME OrderlyUse, LifecycleInv, OrderlyInv, [Next]_vars,
         NEW c \in Cmd, UNCHANGED <<op, host>>, Frame(c), FileStep(c),
         RecordInv(c)', ResourceInv(c)'
  PROVE  OrderlyInv'
  <1>1. \A d \in Cmd \ {c} : Spared(d)
    BY Zenon DEF Spared, host
  <1>2. (linked \subseteq {veth})'
    BY Zenon DEF OrderlyInv, host
  <1> QED
    BY <1>1, <1>2, StepKeeps, Zenon DEF NoDoctor

\* A step that begins with a refresh.
LEMMA LoadKeeps ==
  ASSUME OrderlyUse, LifecycleInv, OrderlyInv, [Next]_vars,
         NEW c \in Cmd, pc[c] \in {"load", "reload", "poll", "repoll"}, LoadCurrent,
         UNCHANGED <<op, proc, pipe, bridge>>,
         \A d \in Cmd \ {c} : pc'[d] = pc[d] /\ snap'[d] = snap[d],
         pc'[c] \notin Unreaped,
         RecordInv(c)'
  PROVE  OrderlyInv'
  <1>1. Frame(c)
    BY Zenon DEF Frame, Alive, Dead
  <1>2. FileStep(c)
    BY MarkStoppedFact DEF FileStep, LoadCurrent, LifecycleInv, TypeOK
  <1>3. ResourceInv(c) /\ RecordInv(c)
    BY Zenon DEF OrderlyInv
  <1>4. pipe[c] # "sent"
    BY <1>3, Zenon DEF ResourceInv, Ended
  <1>5. ResourceInv(c)'
    BY <1>3, <1>4, Zenon DEF ResourceInv, Engaged, Supervised, Unreaped, AllHeld
  <1>6. (linked \subseteq {veth})'
    BY Zenon DEF OrderlyInv, LoadCurrent, CleanUpStale, host
  <1>7. \A d \in Cmd \ {c} : Spared(d)
    BY LoadSpares, Zenon DEF OrderlyInv
  <1> QED
    BY <1>1, <1>2, <1>5, <1>6, <1>7, StepKeeps, Zenon DEF NoDoctor

-----------------------------------------------------------------------------
(* The actions. *)

\* What a refresh does to the record, and that it spares a live one.
LEMMA LoadFile ==
  ASSUME LifecycleInv, LoadCurrent, UNCHANGED proc
  PROVE  /\ \/ file' = file
            \/ Stale(file) /\ file'.status = "stopped" /\ file'.run = file.run
         /\ LiveRecord => file' = file
         /\ file'.status = "running" => file' = file /\ file.run \in Cmd /\ LiveRecord
         /\ file'.status = "stopped" => file'.run \in Cmd /\ proc[file'.run] \in Dead
  <1>1. \/ file' = file /\ ~Stale(file)
        \/ Stale(file) /\ file'.status = "stopped" /\ file'.run = file.run
    BY MarkStoppedFact DEF LoadCurrent, LifecycleInv, TypeOK
  <1>2. /\ file.status \in {"running", "stopped"} => file.run \in Cmd /\ proc[file.run] # "none"
        /\ file.status = "stopped" => proc[file.run] \in Dead
    BY Zenon DEF LifecycleInv, Names, StoppedOnlyAfterDeath
  <1>3. file.run \in Cmd => proc[file.run] \in Process
    BY Zenon DEF LifecycleInv, TypeOK
  <1> QED
    BY <1>1, <1>2, <1>3, Zenon DEF Stale, LiveRecord, Alive, Dead, Process

LEMMA LoadThenKeeps ==
  ASSUME OrderlyUse, LifecycleInv, OrderlyInv, [Next]_vars,
         NEW c \in Cmd, pc[c] \in {"load", "reload"}, NEW wanted, NEW next \in Label,
         LoadThen(c, wanted, next, "err"),
         \/ next = "fork" /\ wanted = {"created"}
         \/ next = "free" /\ wanted = {"created", "stopped"}
         \/ next \in {"send", "resend"} /\ wanted = {"running"}
         \/ next = "ok" /\ op[c] # "stop"
  PROVE  OrderlyInv'
  <1> DEFINE l == IF file'.status \in wanted THEN next ELSE "err"
  <1>1. /\ LoadCurrent /\ UNCHANGED <<op, proc, pipe, bridge>>
        /\ pc' = [pc EXCEPT ![c] = l] /\ snap' = [snap EXCEPT ![c] = file']
    BY Zenon DEF LoadThen
  <1>2. /\ pc'[c] = l /\ snap'[c] = file'
        /\ \A d \in Cmd \ {c} : pc'[d] = pc[d] /\ snap'[d] = snap[d]
    BY <1>1, Zenon DEF LifecycleInv, TypeOK
  <1>3. pipe[c] # "sent"
    BY Zenon DEF OrderlyInv, ResourceInv, Ended
  <1>4. RecordInv(c)'
    BY <1>1, <1>2, <1>3, LoadFile
    DEF RecordInv, Recorded, Starting, Started, Deleting, Stopping
  <1>5. pc'[c] \notin Unreaped
    BY <1>2, Zenon DEF Unreaped
  <1> QED
    BY <1>1, <1>2, <1>4, <1>5, LoadKeeps, Zenon

LEMMA PollKeeps ==
  ASSUME OrderlyUse, LifecycleInv, OrderlyInv, [Next]_vars,
         NEW c \in Cmd, NEW label \in {"poll", "repoll"}, NEW late \in {"reload", "err"},
         Poll(c, label, late)
  PROVE  OrderlyInv'
  <1>0. RecordInv(c) /\ OpInv(c) /\ Names(snap[c])
    BY Zenon DEF OrderlyInv, TurnInv, LifecycleInv, SnapInv
  <1>1. PICK l \in {"err", "ok", late, label} :
            /\ pc' = [pc EXCEPT ![c] = l]
            /\ l = "ok" => file'.status = "stopped"
    BY Zenon DEF Poll, Goto
  <1>2. LoadCurrent /\ UNCHANGED <<op, proc, pipe, bridge, snap>> /\ pc[c] = label
    BY Zenon DEF Poll, Goto
  <1>3. pc'[c] = l /\ \A d \in Cmd \ {c} : pc'[d] = pc[d]
    BY <1>1, Zenon DEF LifecycleInv, TypeOK
  <1>4. pipe[c] # "sent"
    BY <1>2, Zenon DEF OrderlyInv, ResourceInv, Ended
  <1>5. LiveRecord => file' = file
    BY <1>2, LoadFile, Zenon
  <1>6. /\ op[c] = "stop" => /\ snap[c].status = "running" /\ snap[c].run \in Cmd
                             /\ proc[snap[c].run] \in Process \ {"none"}
        /\ op[c] = "stop" /\ proc[snap[c].run] \in Alive => LiveRecord /\ Recorded(snap[c].run)
    BY <1>0, <1>2, Zenon DEF RecordInv, Recorded, LiveRecord, Stopping, Names, LifecycleInv, TypeOK
  <1>7. op[c] = "stop" /\ l = "ok" => proc[snap[c].run] \in Dead
    BY <1>1, <1>5, <1>6, Zenon DEF LiveRecord, Process, Alive, Dead
  <1>8. RecordInv(c)'
    BY <1>2, <1>3, <1>4, <1>5, <1>6, <1>7, Zenon
    DEF RecordInv, Recorded, Starting, Started, Deleting, Stopping
  <1>9. pc'[c] \notin Unreaped
    BY <1>3, Zenon DEF Unreaped
  <1> QED
    BY <1>2, <1>3, <1>8, <1>9, LoadKeeps, Zenon

LEMMA LoadsOrderly ==
  ASSUME OrderlyUse, LifecycleInv, OrderlyInv, [Next]_vars, NEW c \in Cmd,
         \/ LoadCreated(c) \/ LoadTarget(c) \/ ReloadTarget(c) \/ Inspect(c) \/ DeleteLoad(c)
         \/ PollTerm(c) \/ PollKill(c)
  PROVE  OrderlyInv'
  <1>1. CASE LoadCreated(c)
    BY <1>1, LoadThenKeeps, Zenon DEF LoadCreated, Label
  <1>2. CASE LoadTarget(c)
    BY <1>2, LoadThenKeeps, Zenon DEF LoadTarget, Label
  <1>3. CASE ReloadTarget(c)
    BY <1>3, LoadThenKeeps, Zenon DEF ReloadTarget, Label
  <1>4. CASE Inspect(c)
    BY <1>4, LoadThenKeeps, Zenon DEF Inspect, Label, Ended
  <1>5. CASE DeleteLoad(c)
    BY <1>5, LoadThenKeeps, Zenon DEF DeleteLoad, Label
  <1>6. CASE PollTerm(c) \/ PollKill(c)
    BY <1>6, PollKeeps, Zenon DEF PollTerm, PollKill
  <1> QED
    BY <1>1, <1>2, <1>3, <1>4, <1>5, <1>6, Zenon

LEMMA DeliverKeeps ==
  ASSUME OrderlyUse, LifecycleInv, OrderlyInv, [Next]_vars, NEW c \in Cmd, Send(c) \/ SendKill(c)
  PROVE  OrderlyInv'
  <1>0. RecordInv(c) /\ ResourceInv(c) /\ TypeOK
    BY Zenon DEF OrderlyInv, LifecycleInv
  <1>1. PICK l \in {"err", "ok", "poll", "repoll"} :
            pc' = [pc EXCEPT ![c] = l] /\ (l = "ok" => op[c] # "stop")
    BY Zenon DEF Send, SendKill, Deliver, Goto
  <1>2. UNCHANGED <<file, proc, pipe, host, bridge, op, snap>> /\ pc[c] \in {"send", "resend"}
    BY Zenon DEF Send, SendKill, Deliver, Goto
  <1>3. pc'[c] = l /\ \A d \in Cmd \ {c} : pc'[d] = pc[d]
    BY <1>0, <1>1, Zenon DEF TypeOK
  <1>4. Frame(c) /\ FileStep(c)
    BY <1>2, <1>3, Zenon DEF Frame, FileStep, Alive, Dead
  <1>5. RecordInv(c)'
    BY <1>0, <1>1, <1>2, <1>3, Zenon DEF RecordInv, Recorded, Starting, Started, Deleting, Stopping
  <1>6. ResourceInv(c)'
    BY <1>0, <1>2, <1>3, Zenon DEF ResourceInv, Engaged, Supervised, Unreaped, Ended
  <1> QED
    BY <1>2, <1>4, <1>5, <1>6, HostKept, Zenon

\* A runner that acts on the record of a live process acts on its own.
LEMMA NotLive ==
  ASSUME LifecycleInv, NEW c \in Cmd, RecordInv(c),
         \/ pc[c] \in Starting \cup Deleting
         \/ pc[c] \in Started /\ proc[c] \notin Alive
         \/ pc[c] = "mark"
  PROVE  ~LiveRecord
  <1>1. CASE pc[c] \in Starting \cup Deleting
    BY <1>1, Zenon DEF RecordInv, LiveRecord
  <1>2. CASE pc[c] \in Started /\ proc[c] \notin Alive
    BY <1>2, Zenon DEF RecordInv, LiveRecord
  <1>3. CASE pc[c] = "mark"
    BY <1>3, Zenon DEF RecordInv, LiveRecord, LifecycleInv, SnapInv, Alive
  <1> QED
    BY <1>1, <1>2, <1>3, Zenon

LEMMA CreateOrderly ==
  ASSUME OrderlyUse, LifecycleInv, OrderlyInv, [Next]_vars, NEW c \in Cmd,
         EnsureContainerAbsent(c) \/ SaveCreated(c)
  PROVE  OrderlyInv'
  <1>0. RecordInv(c) /\ ResourceInv(c) /\ OpInv(c) /\ TypeOK
    BY Zenon DEF OrderlyInv, TurnInv, LifecycleInv
  <1> USE DEF Starting, Started, Deleting, Stopping, Ended
  <1>1. CASE EnsureContainerAbsent(c)
    <2>1. /\ UNCHANGED <<file, proc, pipe, host, bridge, op, snap>> /\ pc[c] = "check"
          /\ \E l \in {"err", "savecreated", "fork"} :
                 pc' = [pc EXCEPT ![c] = l] /\ (l # "err" => file.status = "absent")
      BY <1>1, Zenon DEF EnsureContainerAbsent, Goto
    <2>2. Frame(c) /\ FileStep(c)
      BY <1>0, <2>1, Zenon DEF Frame, FileStep, TypeOK, Alive, Dead
    <2>3. RecordInv(c)'
      BY <1>0, <2>1, Zenon DEF RecordInv, Recorded, TypeOK
    <2>4. ResourceInv(c)'
      BY <1>0, <2>1, Zenon DEF ResourceInv, Engaged, Supervised, Unreaped, TypeOK
    <2> QED
      BY <2>1, <2>2, <2>3, <2>4, HostKept, Zenon
  <1>2. CASE SaveCreated(c)
    <2>1. /\ UNCHANGED <<proc, pipe, host, bridge, op, snap>> /\ pc[c] = "savecreated"
          /\ pc' = [pc EXCEPT ![c] = "ok"]
      BY <1>2, Zenon DEF SaveCreated, Goto
    <2>2. Frame(c)
      BY <1>0, <2>1, Zenon DEF Frame, TypeOK, Alive, Dead
    <2>3. FileStep(c)
      BY <1>0, <2>1, NotLive, Zenon DEF FileStep, ExclusiveLabel
    <2>4. op[c] # "stop"
      BY <1>0, <2>1, Zenon DEF OpInv, ExclusiveLabel, Exclusive
    <2>5. RecordInv(c)'
      BY <1>0, <2>1, <2>4, Zenon DEF RecordInv, Recorded, TypeOK, ResourceInv
    <2>6. ResourceInv(c)'
      BY <1>0, <2>1, Zenon DEF ResourceInv, Engaged, Supervised, Unreaped, TypeOK
    <2> QED
      BY <2>1, <2>2, <2>3, <2>5, <2>6, HostKept, Zenon
  <1> QED
    BY <1>1, <1>2, Zenon

LEMMA DeleteOrderly ==
  ASSUME OrderlyUse, LifecycleInv, OrderlyInv, [Next]_vars, NEW c \in Cmd,
         DeleteRelease(c) \/ DeleteRemove(c)
  PROVE  OrderlyInv'
  <1>0. RecordInv(c) /\ ResourceInv(c) /\ OpInv(c) /\ TypeOK
    BY Zenon DEF OrderlyInv, TurnInv, LifecycleInv
  <1>1. /\ UNCHANGED <<proc, pipe, bridge, op, snap, veth, linked>> /\ pc[c] \in Deleting
        /\ \E l \in {"remove", "ok", "err"} :
               pc' = [pc EXCEPT ![c] = l] /\ (l = "remove" => file' = file)
    BY Zenon DEF DeleteRelease, DeleteRemove, Goto, Deleting, host
  <1>2. Frame(c)
    BY <1>0, <1>1, Zenon DEF Frame, TypeOK, Alive, Dead
  <1>3. FileStep(c)
    BY <1>0, <1>1, NotLive, Zenon DEF FileStep, ExclusiveLabel
  <1>4. op[c] # "stop" /\ pipe[c] # "sent"
    BY <1>0, <1>1, Zenon DEF OpInv, ExclusiveLabel, Exclusive, Deleting, ResourceInv, Ended
  <1> USE DEF Starting, Started, Deleting, Stopping, Ended
  <1>5. RecordInv(c)'
    BY <1>0, <1>1, <1>4, Zenon DEF RecordInv, Recorded, TypeOK
  <1>6. ResourceInv(c)'
    BY <1>0, <1>1, <1>4, Zenon DEF ResourceInv, Engaged, Supervised, Unreaped, TypeOK
  <1>7. (linked \subseteq {veth})'
    BY <1>1, Zenon DEF OrderlyInv
  <1> QED
    BY <1>1, <1>2, <1>3, <1>5, <1>6, <1>7, WorkStep, Zenon

\* An error return: the process is left alone, and keeps its cgroup while it is alive.
LEMMA AbandonOrderly ==
  ASSUME OrderlyUse, LifecycleInv, OrderlyInv, [Next]_vars, NEW c \in Cmd,
         pc[c] \in Starting \cup Started, Abandon(c)
  PROVE  OrderlyInv'
  <1>0. RecordInv(c) /\ ResourceInv(c) /\ RunnerInv(c) /\ TypeOK
    BY Zenon DEF OrderlyInv, LifecycleInv
  <1>1. /\ UNCHANGED <<file, proc, bridge, op, snap>> /\ pc' = [pc EXCEPT ![c] = "err"]
        /\ pipe' = [pipe EXCEPT ![c] = IF @ = "held" THEN "closed" ELSE @]
    BY Zenon DEF Abandon, CloseSyncPipe, Goto
  <1>2. Frame(c) /\ FileStep(c)
    BY <1>0, <1>1, Zenon DEF Frame, FileStep, TypeOK, Alive, Dead
  <1>3. /\ pc'[c] = "err" /\ (pipe'[c] = "sent" => pipe[c] = "sent")
        /\ pipe[c] \in {"sent", "closed"} => pipe'[c] \in {"sent", "closed"}
        /\ proc[c] \in Alive => cgroups' = cgroups
    BY <1>0, <1>1, Zenon DEF TypeOK, Abandon, ParentCleanup
  <1> USE DEF Starting, Started, Deleting, Stopping, Ended
  <1>4. RecordInv(c)'
    BY <1>0, <1>1, <1>3, Zenon DEF RecordInv, Recorded
  <1>5. ResourceInv(c)'
    BY <1>0, <1>1, <1>3, Zenon DEF ResourceInv, Engaged, Supervised, Unreaped
  <1>6. (linked \subseteq {veth})'
    BY Zenon DEF OrderlyInv, Abandon, ParentCleanup
  <1> QED
    BY <1>1, <1>2, <1>4, <1>5, <1>6, WorkStep, Zenon

\* The steps up to the record.
LEMMA StartOrderly ==
  ASSUME OrderlyUse, LifecycleInv, OrderlyInv, [Next]_vars, NEW c \in Cmd,
         \/ Fork(c) \/ AddCgroup(c) \/ AllocateBridgeNetwork(c) \/ SetupVethParent(c)
         \/ SetupNat(c) \/ SaveStartedState(c)
  PROVE  OrderlyInv'
  <1>0. /\ RecordInv(c) /\ ResourceInv(c) /\ OpInv(c) /\ RunnerInv(c) /\ TypeOK
        /\ linked \subseteq {veth}
    BY Zenon DEF OrderlyInv, TurnInv, LifecycleInv
  <1> USE DEF Starting, Started, Deleting, Stopping, Ended
  <1>1. CASE Fork(c)
    <2>1. /\ UNCHANGED <<file, host, bridge, op, snap>> /\ pc[c] = "fork"
          /\ pc' = [pc EXCEPT ![c] = "cgroup"] /\ proc' = [proc EXCEPT ![c] = "forked"]
          /\ pipe' = [pipe EXCEPT ![c] = "held"]
      BY <1>1, Zenon DEF Fork, Goto
    <2>2. proc[c] = "none"
      BY <1>0, <2>1, Zenon DEF RunnerInv, Unreaped, Reaped
    <2>3. Frame(c) /\ FileStep(c)
      BY <1>0, <2>1, <2>2, Zenon DEF Frame, FileStep, TypeOK, Alive, Dead
    <2>4. RecordInv(c)'
      BY <1>0, <2>1, Zenon DEF RecordInv, TypeOK
    <2>5. ResourceInv(c)'
      BY <1>0, <2>1, Zenon DEF ResourceInv, Engaged, Supervised, TypeOK
    <2> QED
      BY <2>1, <2>3, <2>4, <2>5, HostKept, Zenon
  <1>2. CASE AddCgroup(c)
    <2>1. /\ UNCHANGED <<file, proc, pipe, veth, linked, nat, alloc, bridge, op, snap>>
          /\ pc[c] = "cgroup" /\ cgroups' = cgroups \cup {c}
          /\ pc' = [pc EXCEPT ![c] = IF bridge THEN "network" ELSE "record"]
      BY <1>2, Zenon DEF AddCgroup, Goto
    <2>2. Frame(c) /\ FileStep(c)
      BY <1>0, <2>1, Zenon DEF Frame, FileStep, TypeOK, Alive, Dead
    <2>3. pipe[c] # "sent" /\ pc'[c] \in {"network", "record"} /\ (bridge => pc'[c] = "network")
      BY <1>0, <2>1, Zenon DEF ResourceInv, TypeOK
    <2>4. RecordInv(c)'
      BY <1>0, <2>1, <2>3, Zenon DEF RecordInv
    <2>5. ResourceInv(c)'
      BY <1>0, <2>1, <2>3, Zenon DEF ResourceInv, Engaged, Supervised, Unreaped
    <2> QED
      BY <1>0, <2>1, <2>2, <2>4, <2>5, WorkStep, Zenon
  <1>3. CASE AllocateBridgeNetwork(c)
    <2>1. /\ UNCHANGED <<file, proc, pipe, cgroups, veth, linked, nat, bridge, op, snap>>
          /\ pc[c] = "network" /\ alloc' = TRUE /\ pc' = [pc EXCEPT ![c] = "link"]
      BY <1>3, Zenon DEF AllocateBridgeNetwork, Goto
    <2>2. Frame(c) /\ FileStep(c)
      BY <1>0, <2>1, Zenon DEF Frame, FileStep, TypeOK, Alive, Dead
    <2>3. pipe[c] # "sent" /\ pc'[c] = "link"
      BY <1>0, <2>1, Zenon DEF ResourceInv, TypeOK
    <2>4. RecordInv(c)'
      BY <1>0, <2>1, <2>3, Zenon DEF RecordInv
    <2>5. ResourceInv(c)'
      BY <1>0, <2>1, <2>3, Zenon DEF ResourceInv, Engaged, Supervised, Unreaped
    <2> QED
      BY <1>0, <2>1, <2>2, <2>4, <2>5, WorkStep, Zenon
  <1>4. CASE SetupVethParent(c)
    <2>1. pc[c] = "link"
      BY <1>4, Zenon DEF SetupVethParent
    <2>2. CASE Abandon(c)
      BY <2>1, <2>2, AbandonOrderly, Zenon
    <2>3. CASE ~Abandon(c)
      <3>1. /\ UNCHANGED <<file, proc, pipe, cgroups, nat, alloc, bridge, op, snap>>
            /\ veth' = c /\ linked' \subseteq {c} /\ pc' = [pc EXCEPT ![c] = "nat"]
        BY <1>4, <2>3, Zenon DEF SetupVethParent, Goto
      <3>2. Frame(c) /\ FileStep(c)
        BY <1>0, <3>1, Zenon DEF Frame, FileStep, TypeOK, Alive, Dead
      <3>3. pipe[c] # "sent" /\ pc'[c] = "nat"
        BY <1>0, <2>1, <3>1, Zenon DEF ResourceInv, TypeOK
      <3>4. RecordInv(c)'
        BY <1>0, <2>1, <3>1, <3>3, Zenon DEF RecordInv
      <3>5. ResourceInv(c)'
        BY <1>0, <2>1, <3>1, <3>3, Zenon DEF ResourceInv, Engaged, Supervised, Unreaped, NoDoctor
      <3> QED
        BY <2>1, <3>1, <3>2, <3>4, <3>5, WorkStep, Zenon
    <2> QED
      BY <2>2, <2>3, Zenon
  <1>5. CASE SetupNat(c)
    <2>1. /\ UNCHANGED <<file, proc, pipe, cgroups, veth, linked, alloc, bridge, op, snap>>
          /\ pc[c] = "nat" /\ nat' = TRUE /\ pc' = [pc EXCEPT ![c] = "record"]
      BY <1>5, Zenon DEF SetupNat, Goto
    <2>2. Frame(c) /\ FileStep(c)
      BY <1>0, <2>1, Zenon DEF Frame, FileStep, TypeOK, Alive, Dead
    <2>3. pipe[c] # "sent" /\ pc'[c] = "record"
      BY <1>0, <2>1, Zenon DEF ResourceInv, TypeOK
    <2>4. RecordInv(c)'
      BY <1>0, <2>1, <2>3, Zenon DEF RecordInv
    <2>5. ResourceInv(c)'
      BY <1>0, <2>1, <2>3, Zenon DEF ResourceInv, Engaged, Supervised, Unreaped, NoDoctor
    <2> QED
      BY <1>0, <2>1, <2>2, <2>4, <2>5, WorkStep, Zenon
  <1>6. CASE SaveStartedState(c)
    <2>1. /\ UNCHANGED <<proc, pipe, host, bridge, op, snap>>
          /\ pc[c] = "record" /\ file' = Running(c) /\ pc' = [pc EXCEPT ![c] = "release"]
      BY <1>6, Zenon DEF SaveStartedState, Goto
    <2>2. Frame(c)
      BY <1>0, <2>1, Zenon DEF Frame, TypeOK, Alive, Dead
    <2>3. FileStep(c)
      BY <1>0, <2>1, NotLive, Zenon DEF FileStep, ExclusiveLabel
    <2>4. pc'[c] = "release" /\ file'.status = "running" /\ file'.run = c
      BY <1>0, <2>1, RecordsFact, Zenon DEF TypeOK
    <2>5. RecordInv(c)'
      BY <2>4, Zenon DEF RecordInv, Recorded
    <2>6. ResourceInv(c)'
      BY <1>0, <2>1, <2>4, Zenon DEF ResourceInv, Engaged, Supervised, Unreaped, NoDoctor, host
    <2> QED
      BY <2>1, <2>2, <2>3, <2>5, <2>6, HostKept, Zenon
  <1> QED
    BY <1>1, <1>2, <1>3, <1>4, <1>5, <1>6, Zenon

\* The steps after the record.
LEMMA FinishOrderly ==
  ASSUME OrderlyUse, LifecycleInv, OrderlyInv, [Next]_vars, NEW c \in Cmd,
         SignalChild(c) \/ WaitChild(c) \/ CleanupResources(c) \/ SaveStopped(c)
  PROVE  OrderlyInv'
  <1>0. /\ RecordInv(c) /\ ResourceInv(c) /\ OpInv(c) /\ RunnerInv(c) /\ TypeOK
        /\ linked \subseteq {veth} /\ StoppedOnlyAfterDeath
    BY Zenon DEF OrderlyInv, TurnInv, LifecycleInv
  <1> USE DEF Starting, Started, Deleting, Stopping, Ended
  <1>1. CASE SignalChild(c)
    <2>1. pc[c] = "release"
      BY <1>1, Zenon DEF SignalChild
    <2>2. CASE Abandon(c)
      BY <2>1, <2>2, AbandonOrderly, Zenon
    <2>3. CASE ~Abandon(c)
      <3>1. /\ UNCHANGED <<file, proc, host, bridge, op, snap>>
            /\ pipe' = [pipe EXCEPT ![c] = "sent"] /\ pc' = [pc EXCEPT ![c] = "wait"]
        BY <1>1, <2>3, Zenon DEF SignalChild, Goto
      <3>2. Frame(c) /\ FileStep(c)
        BY <1>0, <3>1, Zenon DEF Frame, FileStep, TypeOK, Alive, Dead
      <3>3. pc'[c] = "wait" /\ pipe'[c] = "sent"
        BY <1>0, <3>1, Zenon DEF TypeOK
      <3>4. proc[c] \in Alive => Recorded(c)
        BY <1>0, <2>1, Zenon DEF RecordInv, Recorded, StoppedOnlyAfterDeath, Alive, Dead
      <3>5. RecordInv(c)'
        BY <1>0, <2>1, <3>1, <3>3, <3>4, Zenon DEF RecordInv, Recorded
      <3>6. proc[c] # "running"
        BY <1>0, <2>1, Zenon DEF ResourceInv, Unreaped
      <3>7. ResourceInv(c)'
        BY <1>0, <2>1, <3>1, <3>3, <3>6, Zenon DEF ResourceInv, Engaged, Supervised, Unreaped, NoDoctor, host
      <3> QED
        BY <3>1, <3>2, <3>5, <3>7, HostKept, Zenon
    <2> QED
      BY <2>2, <2>3, Zenon
  <1>2. CASE WaitChild(c)
    <2>1. /\ UNCHANGED <<file, pipe, host, bridge, op, snap>> /\ pc[c] = "wait"
          /\ proc' = [proc EXCEPT ![c] = "gone"] /\ pc' = [pc EXCEPT ![c] = "cleanup"]
      BY <1>2, Zenon DEF WaitChild, Goto
    <2>2. Frame(c) /\ FileStep(c)
      BY <1>0, <2>1, Zenon DEF Frame, FileStep, TypeOK, Alive, Dead
    <2>3. pc'[c] = "cleanup" /\ proc'[c] = "gone"
      BY <1>0, <2>1, Zenon DEF TypeOK
    <2>4. RecordInv(c)'
      BY <1>0, <2>1, <2>3, Zenon DEF RecordInv, Alive
    <2>5. ResourceInv(c)'
      BY <1>0, <2>1, <2>3, Zenon DEF ResourceInv, Engaged, Supervised, Unreaped, Alive
    <2> QED
      BY <2>1, <2>2, <2>4, <2>5, HostKept, Zenon
  <1>3. CASE CleanupResources(c)
    <2>1. /\ UNCHANGED <<file, proc, pipe, bridge, op, snap>> /\ pc[c] = "cleanup"
          /\ \E l \in {"err", "savestopped"} : pc' = [pc EXCEPT ![c] = l]
      BY <1>3, Zenon DEF CleanupResources, Goto
    <2>2. Frame(c) /\ FileStep(c)
      BY <1>0, <2>1, Zenon DEF Frame, FileStep, TypeOK, Alive, Dead
    <2>3. pc'[c] \in {"err", "savestopped"} /\ proc[c] = "gone"
      BY <1>0, <2>1, Zenon DEF TypeOK, RunnerInv, Reaped
    <2>4. RecordInv(c)'
      BY <1>0, <2>1, <2>3, Zenon DEF RecordInv, Alive
    <2>5. ResourceInv(c)'
      BY <1>0, <2>1, <2>3, Zenon DEF ResourceInv, Engaged, Supervised, Unreaped, Alive
    <2>6. (linked \subseteq {veth})'
      BY <1>0, <1>3, Zenon DEF CleanupResources, ParentCleanup
    <2> QED
      BY <2>1, <2>2, <2>4, <2>5, <2>6, WorkStep, Zenon
  <1>4. CASE SaveStopped(c)
    <2>1. /\ UNCHANGED <<proc, pipe, host, bridge, op, snap>> /\ pc[c] = "savestopped"
          /\ pc' = [pc EXCEPT ![c] = "ok"]
      BY <1>4, Zenon DEF SaveStopped, Goto
    <2>2. pc'[c] = "ok" /\ proc[c] = "gone" /\ op[c] # "stop"
      BY <1>0, <2>1, Zenon DEF TypeOK, RunnerInv, Reaped, OpInv, ExclusiveLabel, Exclusive
    <2>3. Frame(c)
      BY <1>0, <2>1, Zenon DEF Frame, TypeOK, Alive, Dead
    <2>4. FileStep(c)
      BY <1>0, <2>1, <2>2, NotLive, Zenon DEF FileStep, ExclusiveLabel, Alive
    <2>5. RecordInv(c)'
      BY <2>1, <2>2, Zenon DEF RecordInv, Alive
    <2>6. ResourceInv(c)'
      BY <1>0, <2>1, <2>2, Zenon DEF ResourceInv, Engaged, Supervised, Unreaped, Alive
    <2> QED
      BY <2>1, <2>3, <2>4, <2>5, <2>6, HostKept, Zenon
  <1> QED
    BY <1>1, <1>2, <1>3, <1>4, Zenon

LEMMA FailureOrderly ==
  ASSUME OrderlyUse, LifecycleInv, OrderlyInv, [Next]_vars, NEW c \in Cmd, Failure(c)
  PROVE  OrderlyInv'
  <1>0. RecordInv(c) /\ ResourceInv(c) /\ OpInv(c) /\ RunnerInv(c) /\ TypeOK
    BY Zenon DEF OrderlyInv, TurnInv, LifecycleInv
  <1> USE DEF Starting, Started, Deleting, Stopping, Ended
  <1>1. CASE CgroupFails(c)
    <2>1. /\ UNCHANGED <<file, host, bridge, op, snap>> /\ pc[c] = "cgroup"
          /\ proc' = [proc EXCEPT ![c] = "gone"] /\ pc' = [pc EXCEPT ![c] = "err"]
          /\ pipe' = [pipe EXCEPT ![c] = IF @ = "held" THEN "closed" ELSE @]
      BY <1>1, Zenon DEF CgroupFails, CloseSyncPipe, Goto
    <2>2. Frame(c) /\ FileStep(c)
      BY <1>0, <2>1, Zenon DEF Frame, FileStep, TypeOK, Alive, Dead
    <2>3. pc'[c] = "err" /\ proc'[c] = "gone"
      BY <1>0, <2>1, Zenon DEF TypeOK
    <2>4. RecordInv(c)'
      BY <2>3, Zenon DEF RecordInv, Alive
    <2>5. ResourceInv(c)'
      BY <2>3, Zenon DEF ResourceInv, Engaged, Supervised, Unreaped, Alive
    <2> QED
      BY <2>1, <2>2, <2>4, <2>5, HostKept, Zenon
  <1>2. CASE RunnerFails(c)
    BY <1>2, AbandonOrderly, Zenon DEF RunnerFails
  <1>3. CASE Crash(c)
    <2>1. /\ UNCHANGED <<file, proc, host, bridge, op, snap>> /\ pc' = [pc EXCEPT ![c] = "crashed"]
          /\ pipe' = [pipe EXCEPT ![c] = IF @ = "held" THEN "closed" ELSE @]
          /\ pc[c] # "err"
      BY <1>3, Zenon DEF Crash, CloseSyncPipe, Goto, Active
    <2>2. Frame(c) /\ FileStep(c)
      BY <1>0, <2>1, Zenon DEF Frame, FileStep, TypeOK, Alive, Dead
    <2>3. /\ pc'[c] = "crashed"
          /\ pipe'[c] = "sent" => pipe[c] = "sent"
          /\ pipe[c] \in {"sent", "closed"} => pipe'[c] \in {"sent", "closed"}
      BY <1>0, <2>1, Zenon DEF TypeOK
    <2>4. RecordInv(c)'
      BY <1>0, <2>1, <2>3, Zenon DEF RecordInv, Recorded
    <2>5. ResourceInv(c)'
      BY <1>0, <2>1, <2>3, Zenon DEF ResourceInv, Engaged, Supervised, Unreaped, NoDoctor, host
    <2> QED
      BY <2>1, <2>2, <2>4, <2>5, HostKept, Zenon
  <1> QED
    BY <1>1, <1>2, <1>3, Zenon DEF Failure

\* doctor keeps the cgroups of live processes; of the rest ResourceInv says
\* nothing while there is a doctor.
LEMMA DoctorOrderly ==
  ASSUME OrderlyUse, LifecycleInv, OrderlyInv, [Next]_vars, NEW c \in Cmd, Doctor(c)
  PROVE  OrderlyInv'
  <1>0. /\ RecordInv(c) /\ ResourceInv(c) /\ OpInv(c) /\ RunnerInv(c) /\ SnapInv(c) /\ TypeOK
        /\ linked \subseteq {veth}
    BY Zenon DEF OrderlyInv, TurnInv, LifecycleInv
  <1>1. pc[c] \in Doctoring /\ UNCHANGED <<proc, pipe, bridge, op>>
    BY Zenon DEF Doctor, DoctorList, DoctorCleansStale, DoctorMarksStopped, DoctorOrphanCgroups,
           DoctorAllocations, DoctorOrphanVeths, DoctorReports, Goto, Doctoring
  <1>2. \E l \in (Doctoring \cup {"ok"}) \ {"list"} :
            /\ pc' = [pc EXCEPT ![c] = l]
            /\ pc[c] = "list" => l = "stale" /\ file' = file /\ snap' = [snap EXCEPT ![c] = file]
            /\ pc[c] # "list" => UNCHANGED snap
            /\ pc[c] # "mark" => file' = file
            /\ l \in {"stale", "mark"} => pc[c] \in {"list", "stale"}
    <2> USE DEF Goto, Doctoring
    <2>1. CASE DoctorList(c)
      BY <2>1, Zenon DEF DoctorList
    <2>2. CASE DoctorCleansStale(c)
      BY <2>2, Zenon DEF DoctorCleansStale
    <2>3. CASE DoctorMarksStopped(c)
      <3>1. pc[c] = "mark" /\ pc' = [pc EXCEPT ![c] = "orphans"] /\ UNCHANGED snap
        BY <2>3, Zenon DEF DoctorMarksStopped
      <3>2. "orphans" \in (Doctoring \cup {"ok"}) \ {"list"} /\ "orphans" \notin {"stale", "mark"}
        BY Zenon
      <3> QED
        BY <3>1, <3>2, Zenon
    <2>4. CASE DoctorOrphanCgroups(c) \/ DoctorAllocations(c)
      BY <2>4, Zenon DEF DoctorOrphanCgroups, DoctorAllocations
    <2>5. CASE DoctorOrphanVeths(c) \/ DoctorReports(c)
      BY <2>5, Zenon DEF DoctorOrphanVeths, DoctorReports
    <2> QED
      BY <2>1, <2>2, <2>3, <2>4, <2>5, Zenon DEF Doctor
  <1>3. PICK l \in (Doctoring \cup {"ok"}) \ {"list"} :
            /\ pc' = [pc EXCEPT ![c] = l]
            /\ pc[c] = "list" => l = "stale" /\ file' = file /\ snap' = [snap EXCEPT ![c] = file]
            /\ pc[c] # "list" => UNCHANGED snap
            /\ pc[c] # "mark" => file' = file
            /\ l \in {"stale", "mark"} => pc[c] \in {"list", "stale"}
    BY <1>2, Zenon
  <1>4. op[c] = "doctor" /\ proc[c] = "none" /\ pipe[c] # "sent" /\ pc'[c] = l
    BY <1>0, <1>1, <1>3, Zenon DEF OpInv, RunnerInv, ResourceInv, Unreaped, Reaped, Ended, Doctoring, TypeOK
  <1>5. Frame(c)
    BY <1>0, <1>1, <1>3, Zenon DEF Frame, TypeOK, Alive, Dead
  <1>6. FileStep(c)
    BY <1>0, <1>1, <1>3, NotLive, Zenon DEF FileStep, ExclusiveLabel
  <1>7. RecordInv(c)'
    <2>1. pc[c] = "list" => snap'[c] = file' /\ file' = file
      BY <1>0, <1>3, Zenon DEF TypeOK
    <2>2. l \in {"stale", "mark"} /\ snap'[c].status = "running"
          => file'.run = snap'[c].run /\ file'.status \in {"running", "stopped"}
      BY <1>0, <1>3, <2>1, Zenon DEF RecordInv
    <2> QED
      BY <1>1, <1>3, <1>4, <2>2, Zenon
      DEF RecordInv, Starting, Started, Deleting, Doctoring, Stopping
  <1>8. ResourceInv(c)'
    BY <1>1, <1>3, <1>4, Zenon DEF ResourceInv, Engaged, Supervised, Unreaped, Alive, Doctoring
  <1>9. (linked \subseteq {veth})'
    BY <1>0, Zenon DEF Doctor, DoctorList, DoctorCleansStale, DoctorMarksStopped, DoctorOrphanCgroups,
           DoctorAllocations, DoctorOrphanVeths, DoctorReports, CleanUpStale, host
  <1>10. \A d \in Cmd : proc[d] \in Alive /\ d \in cgroups => d \in cgroups'
    BY Zenon DEF Doctor, DoctorList, DoctorCleansStale, DoctorMarksStopped, DoctorOrphanCgroups,
           DoctorAllocations, DoctorOrphanVeths, DoctorReports, CleanUpStale, IsStaleProcess, host, Alive
  <1>11. \A d \in Cmd \ {c} : Spared(d)
    BY <1>4, <1>10, Zenon DEF Spared, Engaged, NoDoctor
  <1> QED
    BY <1>1, <1>5, <1>6, <1>7, <1>8, <1>9, <1>11, StepKeeps, Zenon DEF NoDoctor

LEMMA ChildOrderly ==
  ASSUME OrderlyUse, LifecycleInv, OrderlyInv, [Next]_vars, NEW c \in Cmd, Child(c)
  PROVE  OrderlyInv'
  <1>0. RecordInv(c) /\ ResourceInv(c) /\ TypeOK /\ linked \subseteq {veth}
    BY Zenon DEF OrderlyInv, LifecycleInv
  <1>1. CASE NetnsGone(c)
    <2>1. /\ UNCHANGED <<file, proc, pipe, cgroups, nat, alloc, bridge, pc, op, snap>>
          /\ proc[c] \in Dead /\ c \in linked /\ linked' = linked \ {c} /\ veth' = NoRun
      BY <1>1, Zenon DEF NetnsGone
    <2>2. veth = c /\ linked' = {}
      BY <1>0, <2>1, Zenon
    <2>3. Frame(c) /\ FileStep(c)
      BY <2>1, Zenon DEF Frame, FileStep
    <2>4. RecordInv(c)'
      BY <1>0, <2>1, Zenon DEF RecordInv, Recorded
    <2>5. ResourceInv(c)'
      BY <1>0, <2>1, Zenon DEF ResourceInv, Engaged, Supervised, Alive, Dead
    <2>6. \A d \in Cmd \ {c} : Spared(d)
      BY <1>0, <2>1, <2>2, Zenon DEF Spared
    <2> QED
      BY <2>1, <2>2, <2>3, <2>4, <2>5, <2>6, StepKeeps, Zenon DEF NoDoctor
  <1>2. CASE ~NetnsGone(c)
    <2>1. /\ UNCHANGED <<file, pipe, host, bridge, pc, op, snap>>
          /\ \E v \in Process :
                 /\ proc' = [proc EXCEPT ![c] = v]
                 /\ \/ proc[c] = "forked" /\ v = "waiting"
                    \/ /\ proc[c] = "waiting" /\ v = "running" /\ pipe[c] \in {"sent", "closed"}
                       /\ bridge => pipe[c] = "sent" /\ c \in linked
                    \/ proc[c] \in Alive /\ v = "zombie"
                    \/ proc[c] = "zombie" /\ v = "gone"
      BY <1>2, Zenon DEF Child, ChildUnshares, ChildProceeds, ChildExits, InitReaps, Process, Alive
    <2>2. PICK v \in Process :
                 /\ proc' = [proc EXCEPT ![c] = v]
                 /\ \/ proc[c] = "forked" /\ v = "waiting"
                    \/ /\ proc[c] = "waiting" /\ v = "running" /\ pipe[c] \in {"sent", "closed"}
                       /\ bridge => pipe[c] = "sent" /\ c \in linked
                    \/ proc[c] \in Alive /\ v = "zombie"
                    \/ proc[c] = "zombie" /\ v = "gone"
      BY <2>1, Zenon
    <2>3. /\ proc'[c] = v
          /\ proc[c] \in Dead => v \in Dead
          /\ v \in Alive => proc[c] \in Alive
      BY <1>0, <2>2, Zenon DEF TypeOK, Alive, Dead
    <2>4. Frame(c) /\ FileStep(c)
      BY <1>0, <2>1, <2>2, <2>3, Zenon DEF Frame, FileStep, TypeOK
    <2>5. RecordInv(c)'
      <3>1. \A d \in Cmd : /\ proc'[d] \in Alive => proc[d] \in Alive
                           /\ proc[d] \in Dead => proc'[d] \in Dead
        BY <2>3, <2>4, Zenon DEF Frame
      <3>2. pc[c] \in Stopping /\ op[c] = "stop" => snap[c].run \in Cmd
        BY <1>0, Zenon DEF RecordInv, LifecycleInv, SnapInv, Names
      <3> QED
        BY <1>0, <2>1, <3>1, <3>2, Zenon DEF RecordInv, Recorded
    <2>6. ResourceInv(c)'
      BY <1>0, <2>1, <2>2, <2>3, Zenon DEF ResourceInv, Engaged, Supervised, NoDoctor, host
    <2> QED
      BY <2>1, <2>4, <2>5, <2>6, HostKept, Zenon
  <1> QED
    BY <1>1, <1>2, Zenon

LEMMA BeginOrderly ==
  ASSUME OrderlyUse, LifecycleInv, OrderlyInv, [Next]_vars, NEW c \in Cmd, Begin(c)
  PROVE  OrderlyInv'
  <1>0. RecordInv(c) /\ ResourceInv(c) /\ OpInv(c) /\ RunnerInv(c) /\ TypeOK
    BY Zenon DEF OrderlyInv, TurnInv, LifecycleInv
  <1>1. /\ UNCHANGED <<file, proc, pipe, host, bridge, snap>> /\ pc[c] = "idle"
        /\ \E o \in Op : op' = [op EXCEPT ![c] = o]
        /\ \E l \in {"check", "load", "list", "watch"} : pc' = [pc EXCEPT ![c] = l]
    BY RepertoireAssumption, Zenon DEF Begin, First
  <1>2. pipe[c] # "sent" /\ proc[c] # "running" /\ pc'[c] \in {"check", "load", "list", "watch"}
    BY <1>0, <1>1, Zenon DEF ResourceInv, RunnerInv, Unreaped, Reaped, Ended, TypeOK
  <1>3. Frame(c) /\ FileStep(c)
    BY <1>0, <1>1, Zenon DEF Frame, FileStep, TypeOK, Alive, Dead
  <1>4. NoDoctor' => NoDoctor
    BY <1>0, <1>1, <1>3, Zenon DEF NoDoctor, OpInv, Frame
  <1>5. RecordInv(c)'
    BY <1>1, <1>2, Zenon DEF RecordInv, Starting, Started, Deleting, Stopping
  <1>6. ResourceInv(c)'
    BY <1>1, <1>2, Zenon DEF ResourceInv, Engaged, Supervised, Unreaped
  <1>7. \A d \in Cmd \ {c} : Spared(d)
    BY <1>1, Zenon DEF Spared, host
  <1>8. (linked \subseteq {veth})'
    BY <1>1, Zenon DEF OrderlyInv, host
  <1> QED
    BY <1>3, <1>4, <1>5, <1>6, <1>7, <1>8, StepKeeps, Zenon

LEMMA InitOrderly == Init => OrderlyInv
  <1> SUFFICES ASSUME Init PROVE OrderlyInv
    BY Zenon
  <1> USE DEF Init
  <1>1. TurnInv
    BY Zenon DEF TurnInv, Alone, OpInv, Active, ExclusiveLabel, Starting, Started, Deleting, Doctoring, Stopping
  <1>2. ASSUME NEW c \in Cmd PROVE RecordInv(c) /\ ResourceInv(c)
    BY Zenon DEF RecordInv, ResourceInv, Engaged, Supervised, Alive, Unreaped,
           Starting, Started, Deleting, Stopping
  <1> QED
    BY <1>1, <1>2, Zenon DEF OrderlyInv

LEMMA NextOrderly ==
  ASSUME OrderlyUse, LifecycleInv, OrderlyInv, [Next]_vars
  PROVE  OrderlyInv'
  <1>1. CASE UNCHANGED vars
    <2>1. TurnInv'
      BY <1>1, Zenon DEF vars, OrderlyInv, TurnInv, Alone, OpInv, Active
    <2>2. \A c \in Cmd : RecordInv(c)'
      BY <1>1, Zenon DEF vars, OrderlyInv, RecordInv, Recorded
    <2>3. \A c \in Cmd : ResourceInv(c)'
      BY <1>1, Zenon DEF vars, host, OrderlyInv, ResourceInv, Engaged, Supervised, NoDoctor
    <2>4. (linked \subseteq {veth})'
      BY <1>1, Zenon DEF vars, host, OrderlyInv
    <2> QED
      BY <2>1, <2>2, <2>3, <2>4, Zenon DEF OrderlyInv
  <1>2. ASSUME NEW c \in Cmd, Command(c) PROVE OrderlyInv'
    <2>1. ~(HealthWatch(c) \/ HealthLoad(c) \/ HealthProbe(c) \/ SaveHealth(c))
      BY Zenon DEF OrderlyInv, TurnInv, OpInv, HealthWatch, HealthLoad, HealthProbe, SaveHealth
    <2> QED
      BY <1>2, <2>1, LoadsOrderly, DeliverKeeps, CreateOrderly, DeleteOrderly, StartOrderly,
         FinishOrderly, DoctorOrderly, Zenon DEF Command, Runner
  <1> QED
    BY <1>1, <1>2, BeginOrderly, FailureOrderly, ChildOrderly, Zenon DEF Next

-----------------------------------------------------------------------------
(* The results. *)

\* The commands that an orderly operator runs one at a time keep, together with
\* whatever kills, stops and inspects the container, the record, the runners and
\* the host resources in agreement.
THEOREM OrderlyInvariant ==
  ASSUME OrderlyUse
  PROVE  Spec => []OrderlyInv
  <1>1. LifecycleInv /\ OrderlyInv /\ [Next]_vars => OrderlyInv'
    BY NextOrderly, Zenon
  <1> QED
    BY <1>1, InitOrderly, LifecycleInvariant, PTL DEF Spec

\* Save, refresh, delete and doctor never take the running record from a
\* container that was let go, also after its runner was killed.
THEOREM RecordSafety ==
  ASSUME OrderlyUse
  PROVE  Spec => []LiveIsRecorded
  <1>1. OrderlyInv => LiveIsRecorded
    BY Zenon DEF OrderlyInv, RecordInv, Recorded, LiveIsRecorded, Supervised, Alive
  <1> QED
    BY <1>1, OrderlyInvariant, PTL

\* Of a container that runs, ParentResources::cleanup, cleanup_stale_resources and
\* delete never take the cgroup, and take the veth pair, the NAT rules or the subnet
\* only when its own runner returns an error.
THEOREM ResourceSafety ==
  ASSUME OrderlyUse
  PROVE  Spec => []LiveKeepsResources
  <1>1. OrderlyInv => LiveKeepsResources
    BY Zenon DEF OrderlyInv, ResourceInv, LiveKeepsResources, Engaged, Supervised, NoDoctor, Alive
  <1> QED
    BY <1>1, OrderlyInvariant, PTL

\* A stop that returns success leaves the process it signalled dead: the stopped
\* record that wait_for_stopped saw is about that process and no other.
THEOREM StopReachesItsTarget ==
  ASSUME OrderlyUse
  PROVE  Spec => []StopMeansDead
  <1>1. OrderlyInv => StopMeansDead
    BY Zenon DEF OrderlyInv, RecordInv, StopMeansDead
  <1> QED
    BY <1>1, OrderlyInvariant, PTL

-----------------------------------------------------------------------------
(* The refinement of ContainerLifecycle. *)

\* A step that leaves the record alone: at most the process in it dies.
LEMMA ProcessRefines ==
  ASSUME LifecycleInv, file' = file, NEW c \in Cmd,
         \A d \in Cmd \ {c} : proc'[d] = proc[d],
         proc[c] \in Dead => proc'[c] \in Dead,
         proc'[c] \in Alive => proc[c] \in Alive \/ proc[c] = "none"
  PROVE  [Abstract!Next]_<<file.status, LiveRecord>>
  <1>1. file.status = "running" => file.run \in Cmd /\ proc[file.run] # "none"
    BY Zenon DEF LifecycleInv, Names
  <1>2. LiveRecord' => LiveRecord
    BY <1>1, Zenon DEF LiveRecord
  <1>3. LiveRecord \in BOOLEAN /\ LiveRecord' \in BOOLEAN
    BY Zenon DEF LiveRecord
  <1>4. CASE LiveRecord /\ ~LiveRecord'
    BY <1>4, Zenon DEF Abstract!Next, Abstract!Die, LiveRecord
  <1>5. CASE LiveRecord = LiveRecord'
    BY <1>5, Zenon
  <1> QED
    BY <1>2, <1>3, <1>4, <1>5, Zenon

\* A refresh is a stop.
LEMMA RefreshRefines ==
  ASSUME LifecycleInv, LoadCurrent, UNCHANGED proc
  PROVE  [Abstract!Next]_<<file.status, LiveRecord>>
  <1>1. CASE file' = file
    BY <1>1, Zenon DEF LiveRecord
  <1>2. CASE Stale(file) /\ file'.status = "stopped" /\ file'.run = file.run
    <2>1. LiveRecord = FALSE /\ LiveRecord' = FALSE /\ file.status = "running"
      BY <1>2, Zenon DEF LiveRecord, Stale, Alive, Dead
    <2> QED
      BY <1>2, <2>1, Zenon DEF Abstract!Next, Abstract!Stop, LiveRecord
  <1> QED
    BY <1>1, <1>2, LoadFile, Zenon

\* The saves and the delete.
LEMMA SaveRefines ==
  ASSUME LifecycleInv, OrderlyInv, NEW c \in Cmd,
         \/ SaveCreated(c) \/ SaveStartedState(c) \/ SaveStopped(c)
         \/ DoctorMarksStopped(c) \/ DeleteRemove(c)
  PROVE  [Abstract!Next]_<<file.status, LiveRecord>>
  <1>0. RecordInv(c) /\ RunnerInv(c) /\ SnapInv(c) /\ TypeOK /\ Names(file) /\ proc' = proc
    BY Zenon DEF OrderlyInv, LifecycleInv, SaveCreated, SaveStartedState, SaveStopped,
           DoctorMarksStopped, DeleteRemove
  <1>1. ~LiveRecord
    BY <1>0, NotLive, Zenon DEF SaveCreated, SaveStartedState, SaveStopped, DoctorMarksStopped, DeleteRemove,
                         Starting, Started, Deleting, RunnerInv, Reaped, Alive
  <1>2. CASE SaveCreated(c)
    <2>1. file.status \in {"absent", "created"} /\ file'.status = "created"
      BY <1>0, <1>2, RecordsFact, Zenon DEF RecordInv, Starting, SaveCreated
    <2>2. LiveRecord' = FALSE /\ LiveRecord = FALSE
      BY <1>1, <2>1, Zenon DEF LiveRecord
    <2> QED
      BY <2>1, <2>2, Zenon DEF Abstract!Next, Abstract!Create, LiveRecord
  <1>3. CASE SaveStartedState(c)
    <2>1. file.status \in {"absent", "created"} /\ file'.status = "running"
      BY <1>0, <1>3, RecordsFact, Zenon DEF RecordInv, Starting, SaveStartedState
    <2> QED
      BY <2>1, Zenon DEF Abstract!Next, Abstract!Start
  <1>4. CASE SaveStopped(c) \/ DoctorMarksStopped(c)
    <2>1. file'.status = "stopped"
      BY <1>0, <1>4, MarkStoppedFact, RecordsFact DEF SaveStopped, DoctorMarksStopped, TypeOK
    <2>2. file.status \in {"running", "stopped"}
      BY <1>0, <1>4, Zenon DEF SaveStopped, DoctorMarksStopped, RecordInv, Started, SnapInv
    <2>3. LiveRecord' = FALSE /\ LiveRecord = FALSE
      BY <1>1, <2>1, Zenon DEF LiveRecord
    <2> QED
      BY <2>1, <2>2, <2>3, Zenon DEF Abstract!Next, Abstract!Stop, LiveRecord
  <1>5. CASE DeleteRemove(c)
    <2>1. file.status \in {"absent", "created", "stopped"} /\ file'.status = "absent"
      BY <1>0, <1>5, RecordsFact, Zenon DEF RecordInv, Deleting, DeleteRemove
    <2>2. LiveRecord' = FALSE /\ LiveRecord = FALSE
      BY <1>1, <2>1, Zenon DEF LiveRecord
    <2> QED
      BY <2>1, <2>2, Zenon DEF Abstract!Next, Abstract!Delete, LiveRecord
  <1> QED
    BY <1>2, <1>3, <1>4, <1>5, Zenon

LEMMA StepRefines ==
  ASSUME LifecycleInv, OrderlyInv, [Next]_vars
  PROVE  [Abstract!Next]_<<file.status, LiveRecord>>
  <1>1. CASE UNCHANGED <<file, proc>>
    BY <1>1, Zenon DEF LiveRecord
  <1>2. ASSUME NEW c \in Cmd, Begin(c) \/ Command(c) \/ Failure(c) \/ Child(c)
        PROVE  [Abstract!Next]_<<file.status, LiveRecord>>
    <2>0. TypeOK /\ RunnerInv(c)
      BY Zenon DEF LifecycleInv
    <2>1. CASE \/ SaveCreated(c) \/ SaveStartedState(c) \/ SaveStopped(c)
               \/ DoctorMarksStopped(c) \/ DeleteRemove(c)
      BY <2>1, SaveRefines, Zenon
    <2>2. CASE \/ LoadCreated(c) \/ LoadTarget(c) \/ ReloadTarget(c) \/ Inspect(c) \/ DeleteLoad(c)
               \/ PollTerm(c) \/ PollKill(c)
      BY <2>2, RefreshRefines, Zenon DEF LoadCreated, LoadTarget, ReloadTarget, Inspect, DeleteLoad,
                                  PollTerm, PollKill, Poll, LoadThen
    <2>3. CASE Fork(c) \/ WaitChild(c) \/ CgroupFails(c)
      <3>1. file' = file /\ \E v \in {"forked", "gone"} :
                /\ proc' = [proc EXCEPT ![c] = v]
                /\ v = "forked" => proc[c] = "none"
        BY <2>0, <2>3, Zenon DEF Fork, WaitChild, CgroupFails, RunnerInv, Unreaped, Reaped, Ended
      <3> QED
        BY <2>0, <3>1, ProcessRefines DEF TypeOK, Alive, Dead
    <2>4. CASE Child(c)
      <3>1. file' = file
        BY <2>4, Zenon DEF Child, ChildUnshares, ChildProceeds, ChildExits, InitReaps, NetnsGone
      <3>2. \A d \in Cmd \ {c} : proc'[d] = proc[d]
        BY <2>0, <2>4, Zenon DEF Child, ChildUnshares, ChildProceeds, ChildExits, InitReaps, NetnsGone, TypeOK
      <3>3. /\ proc[c] \in Dead => proc'[c] \in Dead
            /\ proc'[c] \in Alive => proc[c] \in Alive \/ proc[c] = "none"
        BY <2>0, <2>4, Zenon DEF Child, ChildUnshares, ChildProceeds, ChildExits, InitReaps, NetnsGone,
                          TypeOK, Alive, Dead
      <3> QED
        BY <3>1, <3>2, <3>3, ProcessRefines, Zenon
    <2>5. ~(HealthWatch(c) \/ HealthLoad(c) \/ HealthProbe(c) \/ SaveHealth(c))
      BY Zenon DEF OrderlyInv, TurnInv, OpInv, HealthWatch, HealthLoad, HealthProbe, SaveHealth
    <2>6. CASE \/ Begin(c) \/ EnsureContainerAbsent(c) \/ AddCgroup(c) \/ AllocateBridgeNetwork(c)
               \/ SetupVethParent(c) \/ SetupNat(c) \/ SignalChild(c) \/ CleanupResources(c)
               \/ Send(c) \/ SendKill(c) \/ DeleteRelease(c) \/ RunnerFails(c) \/ Crash(c)
      BY <1>1, <2>6, Zenon DEF Begin, EnsureContainerAbsent, AddCgroup, AllocateBridgeNetwork,
                        SetupVethParent, SetupNat, SignalChild, CleanupResources, Send, SendKill,
                        Deliver, DeleteRelease, RunnerFails, Crash, Abandon
    <2>7. CASE \/ DoctorList(c) \/ DoctorCleansStale(c) \/ DoctorOrphanCgroups(c)
               \/ DoctorAllocations(c) \/ DoctorOrphanVeths(c) \/ DoctorReports(c)
      BY <1>1, <2>7, Zenon DEF DoctorList, DoctorCleansStale, DoctorOrphanCgroups, DoctorAllocations,
                        DoctorOrphanVeths, DoctorReports
    <2> QED
      BY <1>2, <2>1, <2>2, <2>3, <2>4, <2>5, <2>6, <2>7, Zenon DEF Command, Runner, Doctor, Failure
  <1> QED
    BY <1>1, <1>2, Zenon DEF Next, vars

\* The commands implement ContainerLifecycle: whatever kills, stops, fails and is
\* killed, the status that is reported moves along created, running and stopped.
THEOREM LifecycleRefinement ==
  ASSUME OrderlyUse
  PROVE  Spec => ImplementsLifecycle
  <1>1. Init => Abstract!Init
    BY DEF Init, Abstract!Init, Absent
  <1>2. LifecycleInv /\ OrderlyInv /\ [Next]_vars => [Abstract!Next]_(Abstract!vars)
    BY StepRefines, Zenon DEF Abstract!vars, LiveRecord
  <1> QED
    BY <1>1, <1>2, OrderlyInvariant, LifecycleInvariant, PTL
    DEF Spec, ImplementsLifecycle, Abstract!Spec

-----------------------------------------------------------------------------
(* doctor --fix after every process ended. *)

\* How far the doctor c is, once it began with no process left.
Freed(c) ==
    /\ pc[c] \in Doctoring \cup Ended
    /\ pc[c] \in Doctoring =>
           /\ \A d \in Cmd : proc[d] \in {"none", "gone"}
           /\ pc[c] \notin {"list", "stale"} /\ snap[c].status = "running" => snap[c].run \notin cgroups
           /\ pc[c] \in {"leases", "links", "report"} => cgroups = {}
           /\ pc[c] \in {"links", "report"} => ~alloc
           /\ pc[c] = "report" => veth = NoRun

\* A step of somebody else adds nothing while c is at it.
LEMMA OthersAddNothing ==
  ASSUME LifecycleInv, OrderlyInv, NEW c \in Cmd, pc[c] \in Doctoring, Freed(c),
         NEW d \in Cmd, d # c, Begin(d) \/ Command(d) \/ Failure(d) \/ Child(d)
  PROVE  /\ cgroups' \subseteq cgroups /\ (alloc' => alloc) /\ veth' \in {veth, NoRun}
         /\ UNCHANGED proc /\ pc'[c] = pc[c] /\ snap'[c] = snap[c]
  <1>0. TypeOK /\ OpInv(d) /\ Freed(c)
    BY Zenon DEF LifecycleInv, OrderlyInv, TurnInv
  <1>1. pc[d] \notin ExclusiveLabel
    <2>1. \A l \in ExclusiveLabel : l \notin Ended \cup {"idle"}
      BY Zenon DEF Ended, ExclusiveLabel, Starting, Started, Deleting, Doctoring
    <2>2. pc[c] \in ExclusiveLabel
      BY Zenon DEF ExclusiveLabel
    <2>3. \A e \in {c, d} : pc[e] \in ExclusiveLabel => Active(e) /\ op[e] \in Exclusive
      BY <2>1, Zenon DEF OrderlyInv, TurnInv, OpInv, Active
    <2> QED
      BY <2>2, <2>3, Zenon DEF OrderlyInv, TurnInv, Alone
  <1>2. proc[d] \in {"none", "gone"}
    BY Zenon DEF Freed
  <1>3. CASE Begin(d) \/ Crash(d) \/ Send(d) \/ SendKill(d)
    <2>1. UNCHANGED host /\ UNCHANGED <<proc, snap>>
      BY <1>3, Zenon DEF Begin, Crash, Send, SendKill, Deliver, Goto
    <2>2. \E l : pc' = [pc EXCEPT ![d] = l]
      <3>1. CASE Begin(d)
        BY <3>1, Zenon DEF Begin
      <3>2. CASE Crash(d) \/ Send(d) \/ SendKill(d)
        BY <3>2, Zenon DEF Crash, Send, SendKill, Deliver, Goto
      <3> QED
        BY <1>3, <3>1, <3>2, Zenon
    <2>3. pc'[c] = pc[c]
      BY <1>0, <2>2, Zenon DEF TypeOK
    <2> QED
      BY <2>1, <2>3, Zenon DEF host
  <1>4. CASE \/ LoadCreated(d) \/ LoadTarget(d) \/ ReloadTarget(d) \/ Inspect(d) \/ DeleteLoad(d)
             \/ PollTerm(d) \/ PollKill(d)
    <2>1. /\ LoadCurrent /\ UNCHANGED proc
          /\ pc'[c] = pc[c] /\ snap'[c] = snap[c]
      BY <1>0, <1>4, Zenon DEF LoadCreated, LoadTarget, ReloadTarget, Inspect, DeleteLoad,
                        PollTerm, PollKill, Poll, LoadThen, Goto, TypeOK
    <2>2. cgroups' \subseteq cgroups /\ (alloc' => alloc) /\ veth' \in {veth, NoRun}
      <3>1. CASE UNCHANGED host
        BY <3>1, Zenon DEF host
      <3>2. ASSUME NEW owned \in BOOLEAN, CleanUpStale(file.run, owned)
            PROVE  cgroups' \subseteq cgroups /\ (alloc' => alloc) /\ veth' \in {veth, NoRun}
        BY <3>2, Zenon DEF CleanUpStale
      <3> QED
        BY <2>1, <3>1, <3>2, Zenon DEF LoadCurrent
    <2> QED
      BY <2>1, <2>2, Zenon
  <1>5. CASE Child(d)
    <2>1. NetnsGone(d)
      BY <1>2, <1>5, Zenon DEF Child, ChildUnshares, ChildProceeds, ChildExits, InitReaps, Alive
    <2> QED
      BY <2>1, Zenon DEF NetnsGone
  <1>6. ~(HealthWatch(d) \/ HealthLoad(d) \/ HealthProbe(d) \/ SaveHealth(d))
    BY <1>0, Zenon DEF OpInv, HealthWatch, HealthLoad, HealthProbe, SaveHealth
  <1>7. ~(\/ EnsureContainerAbsent(d) \/ SaveCreated(d) \/ Runner(d) \/ DeleteRelease(d)
          \/ DeleteRemove(d) \/ Doctor(d) \/ CgroupFails(d) \/ RunnerFails(d))
    BY <1>1, Zenon DEF ExclusiveLabel, Starting, Started, Deleting, Doctoring,
           EnsureContainerAbsent, SaveCreated, Runner, Fork, AddCgroup, AllocateBridgeNetwork,
           SetupVethParent, SetupNat, SaveStartedState, SignalChild, WaitChild, CleanupResources,
           SaveStopped, DeleteRelease, DeleteRemove, Doctor, DoctorList, DoctorCleansStale,
           DoctorMarksStopped, DoctorOrphanCgroups, DoctorAllocations, DoctorOrphanVeths,
           DoctorReports, CgroupFails, RunnerFails
  <1> QED
    BY <1>3, <1>4, <1>5, <1>6, <1>7, Zenon DEF Command, Failure

LEMMA DoctorFrees ==
  ASSUME LifecycleInv, OrderlyInv, NEW c \in Cmd, pc[c] \in Doctoring, Freed(c), Doctor(c)
  PROVE  Freed(c)'
  <1>0. TypeOK /\ SnapInv(c) /\ Freed(c) /\ Names(file)
    BY Zenon DEF LifecycleInv
  <1>1. UNCHANGED proc
    BY Zenon DEF Doctor, DoctorList, DoctorCleansStale, DoctorMarksStopped, DoctorOrphanCgroups,
           DoctorAllocations, DoctorOrphanVeths, DoctorReports
  <1>2. snap[c].status = "running" => IsStaleProcess(snap[c])
    BY <1>0, Zenon DEF SnapInv, Names, Freed, IsStaleProcess
  <1> USE DEF Freed, Doctoring, Ended, TypeOK
  <1>3. CASE DoctorList(c)
    BY <1>0, <1>1, <1>3, Zenon DEF DoctorList
  <1>4. CASE DoctorCleansStale(c)
    <2>1. /\ pc' = [pc EXCEPT ![c] = "orphans"] \/ pc' = [pc EXCEPT ![c] = "mark"]
          /\ UNCHANGED snap
      BY <1>4, Zenon DEF DoctorCleansStale, Goto
    <2>2. pc'[c] \in {"orphans", "mark"} /\ snap'[c] = snap[c]
      BY <1>0, <2>1
    <2>3. snap[c].status = "running" => cgroups' = cgroups \ {snap[c].run}
      BY <1>2, <1>4, Zenon DEF DoctorCleansStale, CleanUpStale
    <2> QED
      BY <1>0, <1>1, <2>2, <2>3
  <1>5. CASE DoctorMarksStopped(c)
    BY <1>0, <1>1, <1>5, Zenon DEF DoctorMarksStopped, Goto, host
  <1>6. CASE DoctorOrphanCgroups(c)
    <2>1. cgroups' = {}
      BY <1>0, <1>6, Zenon DEF DoctorOrphanCgroups, Alive
    <2> QED
      BY <1>0, <1>1, <1>6, <2>1, Zenon DEF DoctorOrphanCgroups, Goto
  <1>7. CASE DoctorAllocations(c)
    <2>1. alloc' = FALSE
      BY <1>0, <1>2, <1>7, Zenon DEF DoctorAllocations
    <2> QED
      BY <1>0, <1>1, <1>7, <2>1, Zenon DEF DoctorAllocations, Goto
  <1>8. CASE DoctorOrphanVeths(c)
    BY <1>0, <1>1, <1>8, Zenon DEF DoctorOrphanVeths, Goto
  <1>9. CASE DoctorReports(c)
    BY <1>0, <1>1, <1>9, Zenon DEF DoctorReports, Goto, host
  <1> QED
    BY <1>3, <1>4, <1>5, <1>6, <1>7, <1>8, <1>9, Zenon DEF Doctor

\* A command that ended takes no step.
LEMMA EndedStays ==
  ASSUME LifecycleInv, OrderlyInv, NEW c \in Cmd, pc[c] \in Ended,
         NEW d \in Cmd, Begin(d) \/ Command(d) \/ Failure(d) \/ Child(d)
  PROVE  pc'[c] = pc[c]
  <1>0. TypeOK /\ OpInv(d)
    BY Zenon DEF LifecycleInv, OrderlyInv, TurnInv
  <1>1. CASE Begin(d)
    BY <1>0, <1>1, Zenon DEF Begin, Ended, TypeOK
  <1>2. CASE Command(d) \/ Failure(d)
    BY <1>0, <1>2, CommandAdvances, Zenon DEF Advances, Active, TypeOK
  <1>3. CASE Child(d)
    BY <1>3, Zenon DEF Child, ChildUnshares, ChildProceeds, ChildExits, InitReaps, NetnsGone
  <1> QED
    BY <1>1, <1>2, <1>3, Zenon

LEMMA NextFrees ==
  ASSUME LifecycleInv, OrderlyInv, [Next]_vars, NEW c \in Cmd, Freed(c)
  PROVE  Freed(c)'
  <1>0. TypeOK /\ OpInv(c)
    BY Zenon DEF LifecycleInv, OrderlyInv, TurnInv
  <1>1. CASE UNCHANGED vars
    BY <1>1, Zenon DEF vars, host, Freed
  <1>2. ASSUME NEW d \in Cmd, Begin(d) \/ Command(d) \/ Failure(d) \/ Child(d)
        PROVE  Freed(c)'
    <2>1. CASE pc[c] \in Ended
      BY <1>2, <2>1, EndedStays, Zenon DEF Freed, Ended, Doctoring
    <2>2. CASE pc[c] \in Doctoring /\ d # c
      BY <1>2, <2>2, OthersAddNothing, Zenon DEF Freed
    <2>3. CASE pc[c] \in Doctoring /\ d = c
      <3>1. CASE Doctor(c)
        BY <2>3, <3>1, DoctorFrees, Zenon
      <3>2. CASE Crash(c)
        BY <1>0, <3>2, Zenon DEF Crash, Goto, Freed, Doctoring, Ended, TypeOK
      <3>3. CASE Child(c)
        <4>1. proc[c] \in {"none", "gone"}
          BY <2>3, Zenon DEF Freed
        <4>2. NetnsGone(c)
          BY <3>3, <4>1, Zenon DEF Child, ChildUnshares, ChildProceeds, ChildExits, InitReaps, Alive
        <4> QED
          BY <4>2, Zenon DEF NetnsGone, Freed
      <3>4. ~Begin(c) /\ ~CgroupFails(c) /\ ~RunnerFails(c)
        BY <2>3, Zenon DEF Begin, CgroupFails, RunnerFails, Doctoring
      <3>5. Command(c) => Doctor(c)
        BY <2>3, Zenon DEF Command, Doctoring, EnsureContainerAbsent, SaveCreated, LoadCreated, Runner,
             Fork, AddCgroup, AllocateBridgeNetwork, SetupVethParent, SetupNat, SaveStartedState,
             SignalChild, WaitChild, CleanupResources, SaveStopped, LoadTarget, Send, PollTerm,
             ReloadTarget, SendKill, PollKill, Poll, Inspect, HealthWatch, HealthLoad, HealthProbe,
             SaveHealth, DeleteLoad, DeleteRelease, DeleteRemove
      <3> QED
        BY <1>2, <2>3, <3>1, <3>2, <3>3, <3>4, <3>5, Zenon DEF Failure
    <2> QED
      BY <2>1, <2>2, <2>3, Zenon DEF Freed
  <1> QED
    BY <1>1, <1>2, Zenon DEF Next

\* doctor --fix that begins when every process has ended leaves no cgroup, link
\* or allocation behind, wherever the runners failed or were killed.
THEOREM DoctorSafety ==
  ASSUME OrderlyUse
  PROVE  Spec => DoctorFreesHost
  <1> SUFFICES ASSUME NEW c \in Cmd
               PROVE  Spec => [](NothingRuns(c) =>
                          [](pc[c] = "report" => cgroups = {} /\ veth = NoRun /\ ~alloc))
    BY Zenon DEF DoctorFreesHost
  <1>1. NothingRuns(c) => Freed(c)
    BY Zenon DEF NothingRuns, Freed, Doctoring
  <1>2. LifecycleInv /\ OrderlyInv /\ [Next]_vars /\ Freed(c) => Freed(c)'
    BY NextFrees, Zenon
  <1>3. Freed(c) => (pc[c] = "report" => cgroups = {} /\ veth = NoRun /\ ~alloc)
    BY Zenon DEF Freed, Doctoring
  <1> QED
    BY <1>1, <1>2, <1>3, OrderlyInvariant, LifecycleInvariant, PTL DEF Spec
=============================================================================
