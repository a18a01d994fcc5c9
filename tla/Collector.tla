------------------------------ MODULE Collector ------------------------------
(***************************************************************************)
(* The ptrace supervisor of learn mode (seccomp/collector.rs): one loop    *)
(* around waitpid(-1) that serves the stops of every traced process, in    *)
(* whatever order the kernel reports them, and takes the exit statuses of  *)
(* the container process and of the runtime's own helpers.                 *)
(*                                                                         *)
(* trace[p] is what the kernel would report of p.  A fork is three reports *)
(* in any order: the seccomp stop of the clone, the fork event of the      *)
(* parent and the attach stop of the child.                                *)
(***************************************************************************)
EXTENDS FiniteSets, Naturals

CONSTANTS Root,     \* the container process
          Kids,     \* the processes it and its descendants may create
          Aides     \* the log helper and the pty proxy: exclude_pids

VARIABLES
    trace,         \* trace[p]: unborn, a running or a stopped state, zombie or gone
    bornOf,        \* bornOf[k]: the process whose fork event will announce k, or k
    tracees,       \* the collector's set
    attached,      \* every process that ever was in it
    optionsSet,    \* whether the root's first stop was served
    rootStatus,    \* CollectorOutcome::root_status
    reapedOthers,  \* CollectorOutcome::reaped_others
    lostSignal,    \* processes a signal of which was not passed on
    loop           \* "waiting", "returned" or "absent"

colVars == <<trace, bornOf, tracees, attached, optionsSet, rootStatus, reapedOthers,
             lostSignal, loop>>

Workload == {Root} \cup Kids

ASSUME PidAssumption == Root \notin Kids /\ Workload \cap Aides = {}

Stops == {"attach", "syscall", "clone", "forked", "signal", "group"}
Unstopped == {"untraced", "raising", "running", "cloning"}
Dead == {"unborn", "zombie", "gone"}

CollectorInit ==
    /\ trace = [p \in Workload \cup Aides |->
           IF p = Root THEN "untraced" ELSE IF p \in Aides THEN "running" ELSE "unborn"]
    /\ bornOf = [k \in Kids |-> k]
    /\ tracees = {} /\ attached = {} /\ reapedOthers = {} /\ lostSignal = {}
    /\ optionsSet = FALSE /\ rootStatus = "StillAlive" /\ loop = "waiting"

-----------------------------------------------------------------------------
(* The workload and the kernel. *)

Move(p, t) == trace' = [trace EXCEPT ![p] = t]
collectorState == <<tracees, attached, optionsSet, rootStatus, reapedOthers, lostSignal, loop>>

\* PTRACE_TRACEME and raise(SIGSTOP); a signal from outside may come first.
RootStops ==
    /\ trace[Root] = "untraced"
    /\ \E t \in {"attach", "signal"} : Move(Root, t)
    /\ UNCHANGED <<bornOf, collectorState>>

\* A traced process makes a system call, or a signal is sent to it.
TraceeStops(p) ==
    /\ trace[p] = "running" /\ p \in Workload
    /\ \E t \in {"syscall", "clone", "signal"} : Move(p, t)
    /\ UNCHANGED <<bornOf, collectorState>>

\* The clone that the seccomp stop announced happens, or fails.
CloneReturns(p) ==
    /\ trace[p] = "cloning"
    /\ \/ Move(p, "running") /\ UNCHANGED bornOf
       \/ \E k \in Kids :
              /\ trace[k] = "unborn"
              /\ trace' = [trace EXCEPT ![p] = "forked", ![k] = "attach"]
              /\ bornOf' = [bornOf EXCEPT ![k] = p]
    /\ UNCHANGED collectorState

\* A process exits, or is killed in whatever stop it is.
WorkloadEnds(p) ==
    /\ p \in Workload /\ trace[p] \in Unstopped \cup Stops
    /\ Move(p, "zombie")
    /\ UNCHANGED <<bornOf, collectorState>>

\* A helper ends when the workload no longer holds its pipe.
AideEnds(a) ==
    /\ trace[a] = "running" /\ \A p \in Workload : trace[p] \in Dead
    /\ Move(a, "zombie")
    /\ UNCHANGED <<bornOf, collectorState>>

-----------------------------------------------------------------------------
(* The collector. *)

Attach(p) == tracees' = tracees \cup {p} /\ attached' = attached \cup {p}

\* The helpers whose status is handed back.
KeptAides(a) == {a}

\* WaitStatus::Exited or Signaled of an excluded pid.
ReapAide(a) ==
    /\ loop = "waiting" /\ a \in Aides /\ trace[a] = "zombie"
    /\ Move(a, "gone")
    /\ reapedOthers' = reapedOthers \cup KeptAides(a)
    /\ UNCHANGED <<bornOf, tracees, attached, optionsSet, rootStatus, lostSignal, loop>>

\* root_exited && tracees.is_empty().
BreakLoop(status, left) == status = "exited" /\ left = {}

IsRoot(p) == p = Root

\* WaitStatus::Exited or Signaled of the workload.
ReapTracee(p) ==
    /\ loop = "waiting" /\ p \in Workload /\ trace[p] = "zombie"
    /\ Move(p, "gone")
    /\ tracees' = tracees \ {p}
    /\ rootStatus' = IF IsRoot(p) THEN "exited" ELSE rootStatus
    /\ loop' = IF BreakLoop(rootStatus', tracees') THEN "returned" ELSE "waiting"
    /\ UNCHANGED <<bornOf, attached, optionsSet, reapedOthers, lostSignal>>

\* Mutant: an event stop is left as it is.
LeaveStopped(p) == trace[p]

\* Where PTRACE_CONT takes a process from an event stop.
ResumeEvent(p) == IF trace[p] = "clone" THEN "cloning" ELSE "running"

\* WaitStatus::PtraceEvent: a fork event inserts the child it names, which may
\* be dead and reaped already; every event ends with a resume.
HandleEvent(p) ==
    /\ loop = "waiting" /\ p \in Workload
    /\ trace[p] \in {"syscall", "clone", "forked"} /\ Move(p, ResumeEvent(p))
    /\ \/ trace[p] # "forked" /\ UNCHANGED <<bornOf, tracees, attached>>
       \/ /\ trace[p] = "forked"
          /\ \E k \in Kids : /\ k # p /\ bornOf[k] = p /\ Attach(k)
                              /\ bornOf' = [bornOf EXCEPT ![k] = k]
    /\ UNCHANGED <<optionsSet, rootStatus, reapedOthers, lostSignal, loop>>

\* Mutant: every stop of a tracee is resumed without a signal.
Swallowed(p) == TRUE

\* A stop that is resumed without its signal: the root's first one.
Silenced(p) == p = Root /\ ~optionsSet

\* WaitStatus::Stopped.  The root's first stop gets the options, whatever
\* signal it is for.  A SIGSTOP of an unknown pid is its attach stop; one of a
\* pid that a fork event announced is passed on as a signal, and stops the
\* group.  A group stop is resumed.
HandleStop(p) ==
    /\ loop = "waiting" /\ p \in Workload /\ trace[p] \in {"attach", "signal", "group"}
    /\ IF p = Root /\ ~optionsSet
       THEN /\ optionsSet' = TRUE /\ Attach(p)
            /\ Move(p, IF trace[p] = "signal" THEN "raising" ELSE "running")
       ELSE IF trace[p] = "attach" /\ p \notin tracees
       THEN Attach(p) /\ Move(p, "running") /\ UNCHANGED optionsSet
       ELSE /\ Move(p, IF trace[p] = "attach" THEN "group" ELSE "running")
            /\ UNCHANGED <<tracees, attached, optionsSet>>
    /\ lostSignal' = IF trace[p] = "signal" /\ Silenced(p) THEN lostSignal \cup {p} ELSE lostSignal
    /\ UNCHANGED <<bornOf, rootStatus, reapedOthers, loop>>

\* The raise that a signal from outside overtook.
RootRaises ==
    /\ trace[Root] = "raising" /\ Move(Root, "attach")
    /\ UNCHANGED <<bornOf, collectorState>>

\* waitpid fails with ECHILD.
Echild == \A p \in Workload \cup Aides : trace[p] \in {"unborn", "gone"}

NoChildLeft ==
    /\ loop = "waiting" /\ Echild
    /\ loop' = "returned"
    /\ UNCHANGED <<trace, bornOf, tracees, attached, optionsSet, rootStatus, reapedOthers, lostSignal>>

Serve ==
    \/ \E a \in Aides : ReapAide(a)
    \/ \E p \in Workload : ReapTracee(p) \/ HandleEvent(p) \/ HandleStop(p)
    \/ NoChildLeft

CollectorNext ==
    \/ Serve
    \/ RootStops \/ RootRaises
    \/ \E p \in Workload : TraceeStops(p) \/ CloneReturns(p) \/ WorkloadEnds(p)
    \/ \E a \in Aides : AideEnds(a)

\* A run that does not learn.
CollectorAbsent ==
    /\ trace = [p \in Workload \cup Aides |-> "unborn"]
    /\ bornOf = [k \in Kids |-> k]
    /\ tracees = {} /\ attached = {} /\ reapedOthers = {} /\ lostSignal = {}
    /\ optionsSet = FALSE /\ rootStatus = "StillAlive" /\ loop = "absent"

\* waitpid reports every process with something to report sooner or later;
\* helpers read the end of their pipe.
CollectorFairness ==
    /\ \A p \in Workload : WF_colVars(ReapTracee(p) \/ HandleEvent(p) \/ HandleStop(p))
    /\ \A a \in Aides : WF_colVars(ReapAide(a)) /\ WF_colVars(AideEnds(a))
    /\ WF_colVars(NoChildLeft) /\ WF_colVars(RootRaises)

CollectorSpec == CollectorInit /\ [][CollectorNext]_colVars /\ CollectorFairness

-----------------------------------------------------------------------------
\* run never returns WaitStatus::StillAlive: it ends only after the container
\* process has been reaped, also through ECHILD.
RootStatusKnown == loop = "returned" => rootStatus = "exited" /\ trace[Root] = "gone"

\* A helper that the collector reaped is handed back to run_process, which
\* would otherwise wait for it for ever.
AideStatusKept == \A a \in Aides : trace[a] = "gone" => a \in reapedOthers

\* Every process that the collector attached to has ended when it returns.
\* (A child whose parent was killed in its fork event may be unknown to it.)
AttachedAreAwaited == loop = "returned" => \A p \in attached : trace[p] \in Dead

\* Signals for the workload are passed on; only one that reaches the container
\* process between PTRACE_TRACEME and its first stop is lost.
SignalsPassedOn == lostSignal \subseteq {Root}

\* Nothing that waitpid(-1) told the collector, or that a stop told it to pass
\* on, is lost: the statuses of the container process and of the helpers, the
\* processes it attached to, and the signals of the workload.
CollectorLosesNothing ==
    RootStatusKnown /\ AideStatusKept /\ AttachedAreAwaited /\ SignalsPassedOn

\* No traced process stays in a stop while the collector loops.
StopsAreServed ==
    \A p \in Workload :
        (trace[p] \in Stops /\ loop = "waiting") ~> (trace[p] \notin Stops \/ loop = "returned")

\* Once the workload has ended the collector returns, although a fork event
\* that came after the child was reaped leaves that child among the tracees
\* for good: the helpers end and ECHILD ends the loop.
CollectorReturns ==
    (loop = "waiting" /\ trace[Root] \in {"zombie", "gone"} /\ \A p \in Kids : trace[p] \in Dead)
        ~> (loop = "returned")

\* The collector makes progress: the stops of the workload are served, and its
\* end is the end of the loop.
CollectorServes == StopsAreServed /\ CollectorReturns
=============================================================================
