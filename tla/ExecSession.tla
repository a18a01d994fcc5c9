---------------------------- MODULE ExecSession ----------------------------
(***************************************************************************)
(* exec_in_container (container_exec.rs) and the retries of a health probe *)
(* around it (health.rs): the caller forks a helper, which joins the       *)
(* namespaces and forks the program, while the caller moves the helper     *)
(* into the container's cgroup.  The exit status passes through the helper *)
(* and the program may be cut off by a timeout.  The identity check of the *)
(* helper is in ProcessIdentity, the pty proxy in RunProcess.              *)
(***************************************************************************)
EXTENDS Naturals

CONSTANTS MaxRetries,  \* bound on healthcheck.retries
          ExecFaults   \* whether steps of an exec may fail and the helper be killed

ASSUME RetriesAssumption == MaxRetries \in Nat

VARIABLES
    xmode,     \* health probe or exec, tty, cgroup, retries
    caller,    \* idle, forked, waiting, joining, returned or failed
    helper,    \* none, joining, polling or dead
    hstatus,   \* its exit status
    program,   \* none, starting, running or dead
    pstatus,   \* the status of the program of the current attempt
    holders,   \* who keeps the pty slave open: helper, program, its descendant
    attempt,   \* attempts made
    xresult,   \* the ExecExit of the last attempt
    health     \* the verdict of the probe

execVars == <<xmode, caller, helper, hstatus, program, pstatus, holders, attempt,
              xresult, health>>

\* A probe has a timeout and no tty; exec has no timeout.
ExecMode ==
    {m \in [probe : BOOLEAN, tty : BOOLEAN, cgroup : BOOLEAN, retries : 0 .. MaxRetries] :
        m.probe => ~m.tty}

ExecAbsent ==
    /\ xmode = [probe |-> FALSE, tty |-> FALSE, cgroup |-> FALSE, retries |-> 0]
    /\ caller = "returned" /\ helper = "none" /\ program = "none"
    /\ hstatus = "none" /\ pstatus = "none" /\ holders = {}
    /\ attempt = 0 /\ xresult = "none" /\ health = "none"

ExecInit ==
    /\ xmode \in ExecMode
    /\ caller = "idle" /\ helper = "none" /\ program = "none"
    /\ hstatus = "none" /\ pstatus = "none" /\ holders = {}
    /\ attempt = 0 /\ xresult = "none" /\ health = "none"

-----------------------------------------------------------------------------
(* The caller. *)

Attempts == IF xmode.probe THEN xmode.retries + 1 ELSE 1

\* Mutant: the caller keeps the slave open.
SlaveLeftOpen == {"helper", "caller"}

\* close_slave in the caller.
SlaveHolders == {"helper"}

\* The pty, when there is one, and the fork of the helper.
ExecInContainer ==
    /\ caller = "idle" /\ attempt < Attempts
    /\ attempt' = attempt + 1
    /\ caller' = "forked" /\ helper' = "joining" /\ program' = "none"
    /\ hstatus' = "none" /\ pstatus' = "none"
    /\ holders' = IF xmode.tty THEN SlaveHolders ELSE {}
    /\ UNCHANGED <<xmode, xresult, health>>

\* The helper runs meanwhile, and may have forked the program already.
AddToCgroup ==
    /\ caller = "forked"
    /\ caller' = "waiting"
    /\ UNCHANGED <<xmode, helper, hstatus, program, pstatus, holders, attempt, xresult, health>>

\* The cgroup is gone: the helper is killed and waited for, exec fails.
AddToCgroupFails ==
    /\ ExecFaults /\ caller = "forked" /\ xmode.cgroup
    /\ caller' = "failed" /\ helper' = "dead"
    /\ hstatus' = IF helper = "dead" THEN hstatus ELSE "signal"
    /\ holders' = holders \ {"helper"}
    /\ UNCHANGED <<xmode, program, pstatus, attempt, xresult, health>>

\* ExecExit: the code, or the signal.
ExitOf(s) == s

WaitForExecHelper ==
    /\ caller = "waiting" /\ helper = "dead"
    /\ xresult' = ExitOf(hstatus)
    /\ caller' = IF xmode.tty THEN "joining" ELSE "judging"
    /\ UNCHANGED <<xmode, helper, hstatus, program, pstatus, holders, attempt, health>>

\* The proxy ends with the last holder of the slave.
JoinProxy ==
    /\ caller = "joining" /\ holders = {}
    /\ caller' = "judging"
    /\ UNCHANGED <<xmode, helper, hstatus, program, pstatus, holders, attempt, xresult, health>>

\* run_once: the first success ends the attempts, the last one decides.
Judge ==
    /\ caller = "judging"
    /\ IF xresult # "0" /\ attempt < Attempts
       THEN caller' = "idle" /\ UNCHANGED health
       ELSE /\ caller' = "returned"
            /\ health' = IF xmode.probe THEN IF xresult = "0" THEN "healthy" ELSE "unhealthy"
                         ELSE health
    /\ UNCHANGED <<xmode, helper, hstatus, program, pstatus, holders, attempt, xresult>>

-----------------------------------------------------------------------------
(* The helper and the program. *)

HelperExits(s) ==
    /\ helper' = "dead" /\ hstatus' = s /\ holders' = holders \ {"helper"}

\* The identity and the namespaces, then the fork of the program.
RunNamespaceHelper ==
    /\ helper = "joining"
    /\ helper' = "polling" /\ program' = "starting"
    /\ holders' = IF xmode.tty THEN holders \cup {"program"} ELSE holders
    /\ UNCHANGED <<xmode, caller, hstatus, pstatus, attempt, xresult, health>>

\* An error before the fork, or a helper killed from outside.
HelperFails ==
    /\ ExecFaults /\ helper \in {"joining", "polling"}
    /\ \E s \in {"1", "signal"} : (helper = "polling" => s = "signal") /\ HelperExits(s)
    /\ UNCHANGED <<xmode, caller, program, pstatus, attempt, xresult, health>>

ProgramDies(s) ==
    program' = "dead" /\ pstatus' = s

\* exec_command, up to execvp; its error is exit status 1.
ExecCommand ==
    /\ program = "starting"
    /\ \/ program' = "running" /\ UNCHANGED <<pstatus, holders>>
       \/ ExecFaults /\ ProgramDies("1") /\ holders' = holders \ {"program"}
    /\ UNCHANGED <<xmode, caller, helper, hstatus, attempt, xresult, health>>

\* The program ends, and may leave a descendant that keeps its pty.
ExecProgramEnds ==
    /\ program = "running"
    /\ \E s \in {"0", "1", "signal"} : ProgramDies(s)
    /\ \/ holders' = holders \ {"program"}
       \/ "program" \in holders /\ holders' = (holders \ {"program"}) \cup {"descendant"}
    /\ UNCHANGED <<xmode, caller, helper, hstatus, attempt, xresult, health>>

DescendantEnds ==
    /\ "descendant" \in holders /\ holders' = holders \ {"descendant"}
    /\ UNCHANGED <<xmode, caller, helper, hstatus, program, pstatus, attempt, xresult, health>>

\* The exit code of the helper: the program's, or 128 for a signal.
HelperCode(s) == IF s = "signal" THEN "128" ELSE s

\* wait_for_exec_child in the helper: the program has ended.
PollExecChild ==
    /\ helper = "polling" /\ program = "dead"
    /\ HelperExits(HelperCode(pstatus))
    /\ UNCHANGED <<xmode, caller, program, pstatus, attempt, xresult, health>>

\* Mutant: the timed-out program is left alone.
LeaveProgram == UNCHANGED <<program, pstatus>> /\ holders' = holders \ {"helper"}

KillProgram == ProgramDies("signal") /\ holders' = holders \ {"helper", "program"}

\* Only run_once passes a timeout to exec.
Deadline == xmode.probe

\* The deadline passes while the program still runs.
ExecTimeout ==
    /\ helper = "polling" /\ program \in {"starting", "running"} /\ Deadline
    /\ KillProgram /\ helper' = "dead" /\ hstatus' = "128"
    /\ UNCHANGED <<xmode, caller, attempt, xresult, health>>

ExecStep ==
    \/ ExecInContainer \/ AddToCgroup \/ WaitForExecHelper \/ JoinProxy \/ Judge
    \/ RunNamespaceHelper \/ PollExecChild

ExecNext ==
    \/ ExecStep \/ ExecCommand \/ ExecTimeout \/ ExecProgramEnds \/ DescendantEnds
    \/ AddToCgroupFails \/ HelperFails

ExecSpec == ExecInit /\ [][ExecNext]_execVars

\* The caller and the helper are scheduled and time passes; a program owes
\* nobody its end.
ExecFairness ==
    WF_execVars(ExecStep) /\ WF_execVars(ExecCommand) /\ WF_execVars(ExecTimeout)

-----------------------------------------------------------------------------
\* A healthy verdict comes from a program of the last attempt that ran in the
\* container and exited with 0, not from a helper or a timeout.
HealthyMeansZero == health = "healthy" => program = "dead" /\ pstatus = "0"

\* exec reports 0 exactly when its program exited with 0, unless the helper
\* between them was killed.
ExitCodePassesThrough ==
    (caller = "returned" /\ xresult # "none") =>
        /\ xresult = "0" => pstatus = "0"
        /\ (pstatus = "0" /\ hstatus # "signal") => xresult = "0"

\* When an exec or a probe returns a status that is not its helper's death, no
\* program of it is left running in the container.
NoProgramLeft ==
    (caller \in {"returned", "idle"} /\ attempt > 0 /\ hstatus # "signal")
        => program \in {"none", "dead"}

\* What exec and the health probe report is what happened to the program, and
\* the program is over by then, through timeouts, retries and failed helpers.
SessionIsOver == HealthyMeansZero /\ ExitCodePassesThrough /\ NoProgramLeft

\* A probe returns after at most retries + 1 attempts, however long its
\* programs would run: the timeout bounds each.
ProbeReturns == xmode.probe => <>(caller \in {"returned", "failed"})

\* An exec returns unless its program, or a descendant that holds its pty, runs
\* for ever: nobody waits for somebody who has ended.
ExecReturns ==
    \/ <>(caller \in {"returned", "failed"})
    \/ <>[](program = "running" \/ "descendant" \in holders)

\* Neither a probe nor an exec waits for somebody who has ended.
SessionsReturn == ProbeReturns /\ ExecReturns
=============================================================================
