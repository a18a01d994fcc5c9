----------------------------- MODULE RunProcess -----------------------------
(***************************************************************************)
(* run_process (container/process.rs) as the processes it forks: the       *)
(* runner, the log helper (log_helper.rs), the pty proxy and its stdin     *)
(* copier (pty.rs), the container process from fork to execvp (run_child)  *)
(* and, once it runs its program, a descendant that may outlive it.  They  *)
(* meet only through pipes, a pty and waitpid, and a reader sees the end   *)
(* of a pipe when no process holds its write end: ends[q] is that set.     *)
(*                                                                         *)
(* The runner and the child each work through an agenda, the steps of the  *)
(* function in the order of the code.  What the steps do to the host is in *)
(* Lifecycle; here a step has its order, its failure and its descriptors.  *)
(***************************************************************************)
EXTENDS Naturals, Sequences, Functions

CONSTANTS Capacity,   \* chunks of output the log pipe holds
          MaxOutput,  \* bound on the chunks the program writes
          Faults,     \* the processes whose steps may fail or be killed
          Modes       \* the combinations of options and config that are tried

VARIABLES
    mode,      \* what the command line and config.json ask for
    agenda,    \* agenda[p]: the steps p still has to take
    life,      \* life[p]: unborn, live, ended (a zombie) or reaped
    code,      \* code[p]: how p ended; of the runner, what run_process returned
    ends,      \* ends[q]: the processes that hold the write end of q
    sent,      \* the pipes something was written to
    queue,     \* chunks in the log pipe
    out,       \* chunks the program wrote
    logged,    \* chunks in the log file
    terminal,  \* the user's terminal
    result,    \* the ProcessExit under construction
    faulted    \* whether a step failed or a process was killed from outside

runVars == <<mode, agenda, life, code, ends, sent, queue, out, logged,
             terminal, result, faulted>>

RunProcesses == {"runner", "child", "log", "proxy", "copier", "heir"}
Pipe == {"sync", "error", "ready", "mapped", "log", "pts"}

\* A tty run captures no logs, and a rootless one has no bridge.
Mode ==
    {m \in [io : {"plain", "log", "tty"}, userns : {"host", "root", "rootless"},
            bridge : BOOLEAN, newpid : BOOLEAN, learn : BOOLEAN,
            profile : {"denylist", "unconfined"}] :
         m.userns = "rootless" => ~m.bridge}

ASSUME RunAssumption == Capacity \in Nat /\ MaxOutput \in Nat /\ Modes \subseteq Mode

When(c, s) == IF c THEN s ELSE <<>>

\* run_process, in the parent.
RunProcessSteps(m) ==
    <<"pipes">> \o When(m.io = "log", <<"helper">>) \o When(m.newpid, <<"unshare">>)
    \o When(m.io = "tty", <<"pty", "proxy">>)
    \o <<"fork", "cgroup">> \o When(m.bridge, <<"bridge">>) \o <<"started", "signal">>
    \o When(m.userns # "host", <<"ready", "map">>)
    \o <<"wait">> \o When(m.io = "tty", <<"join">>) \o <<"error">>
    \o When(m.io = "log", <<"log">>) \o <<"cleanup">>

\* security::apply.
SecuritySteps(m) ==
    When(m.profile = "denylist", <<"caps", "denylist">>) \o When(m.learn, <<"traceme">>)

\* run_child: a rootless child needs its user namespace before the others, the
\* other one keeps the host's until its mounts are made.
RunChildSteps(m) ==
    <<"stdio">> \o When(m.userns = "rootless", <<"notify", "await">>)
    \o <<"read", "mounts">> \o When(m.userns = "root", <<"notify", "await">>)
    \o <<"user">> \o SecuritySteps(m) \o <<"exec">>

RunInit ==
    /\ mode \in Modes
    /\ agenda = [p \in {"runner", "child"} |->
           IF p = "runner" THEN RunProcessSteps(mode) ELSE RunChildSteps(mode)]
    /\ life = [p \in RunProcesses |-> IF p = "runner" THEN "live" ELSE "unborn"]
    /\ code = [p \in RunProcesses |-> "none"]
    /\ ends = [q \in Pipe |-> {}]
    /\ sent = {} /\ queue = 0 /\ out = 0 /\ logged = 0
    /\ terminal = "cooked" /\ faulted = FALSE
    /\ result = [status |-> "none", error |-> FALSE]

-----------------------------------------------------------------------------
Live(p) == life[p] = "live"
At(p, s) == Live(p) /\ agenda[p] # <<>> /\ Head(agenda[p]) = s
Advance(p) == agenda' = [agenda EXCEPT ![p] = Tail(@)]
ToDo(p, s) == s \in Range(agenda[p])
Executed == life["child"] # "unborn" /\ agenda["child"] = <<>>
Closed(P) == [q \in Pipe |-> ends[q] \ P]

\* Steps of run_child that are behind it.
Passed(s) == s \in Range(RunChildSteps(mode)) /\ ~ToDo("child", s)

\* The first process forked after unshare(CLONE_NEWPID) is the init of the new
\* pid namespace: its end kills the others.  PTRACE_O_EXITKILL does the same
\* to the tracees of a runner.
NamespaceInit == IF mode.io = "tty" THEN "proxy" ELSE "child"
EndingWith(p) ==
    {p} \cup {q \in {"child", "copier", "heir"} :
                 /\ Live(q)
                 /\ \/ mode.newpid /\ p = NamespaceInit
                    \/ p = "runner" /\ Passed("traceme") /\ q # "copier"}

\* P ends, the first member with status how; the kernel closes what it held.
Ends(P, p, how) ==
    /\ life' = [q \in RunProcesses |-> IF q \in P THEN "ended" ELSE life[q]]
    /\ code' = [q \in RunProcesses |->
           IF q = p THEN how ELSE IF q \in P THEN "signal" ELSE code[q]]
    /\ ends' = Closed(P)

\* An error return of run_process drops its descriptors and the raw-mode guard,
\* and waits for nobody.
RunnerErr ==
    /\ Ends(EndingWith("runner"), "runner", "err")
    /\ terminal' = "cooked"
    /\ UNCHANGED <<mode, agenda, sent, queue, out, logged, result>>

-----------------------------------------------------------------------------
(* The runner up to the fork. *)

OpenPipes ==
    /\ At("runner", "pipes") /\ Advance("runner")
    /\ ends' = [q \in Pipe |-> IF q = "pts" \/ (q = "log" /\ mode.io # "log")
                               THEN {} ELSE {"runner"}]
    /\ UNCHANGED <<mode, life, code, sent, queue, out, logged, terminal, result, faulted>>

\* Mutant: a helper keeps the end it reads from open for writing.
HelperKeepsItsOwn == {"log", "pts"}

\* The write ends a helper still holds after it closed what it was told to.
HelperKeeps == {}

Inherit(p) == [q \in Pipe |-> IF q \in HelperKeeps THEN ends[q] \cup {p} ELSE ends[q]]

StartLogHelper ==
    /\ At("runner", "helper") /\ Advance("runner")
    /\ life' = [life EXCEPT !["log"] = "live"]
    /\ ends' = Inherit("log")
    /\ UNCHANGED <<mode, code, sent, queue, out, logged, terminal, result, faulted>>

UnshareParent ==
    /\ At("runner", "unshare") /\ Advance("runner")
    /\ UNCHANGED <<mode, life, code, ends, sent, queue, out, logged, terminal, result, faulted>>

OpenPty ==
    /\ At("runner", "pty") /\ Advance("runner")
    /\ ends' = [ends EXCEPT !["pts"] = {"runner"}]
    /\ terminal' = "raw"
    /\ UNCHANGED <<mode, life, code, sent, queue, out, logged, result, faulted>>

ProxyPty ==
    /\ At("runner", "proxy") /\ Advance("runner")
    /\ life' = [life EXCEPT !["proxy"] = "live"]
    /\ ends' = Inherit("proxy")
    /\ UNCHANGED <<mode, code, sent, queue, out, logged, terminal, result, faulted>>

\* Both sides of the fork close the ends they do not use.  No process can be
\* forked into a pid namespace whose init has ended.
ForkChild ==
    /\ At("runner", "fork")
    /\ IF mode.newpid /\ mode.io = "tty" /\ ~Live("proxy")
       THEN RunnerErr /\ UNCHANGED faulted
       ELSE /\ Advance("runner")
            /\ life' = [life EXCEPT !["child"] = "live"]
            /\ ends' = [q \in Pipe |->
                   IF q \in {"sync", "mapped"} \/ "runner" \notin ends[q] THEN ends[q]
                   ELSE (ends[q] \ {"runner"}) \cup {"child"}]
            /\ UNCHANGED <<mode, code, sent, queue, out, logged, terminal, result, faulted>>

-----------------------------------------------------------------------------
(* The runner after the fork. *)

\* The cgroup and on_started, when they succeed.
PrepareChild ==
    /\ At("runner", "cgroup") \/ At("runner", "started")
    /\ Advance("runner")
    /\ UNCHANGED <<mode, life, code, ends, sent, queue, out, logged, terminal, result, faulted>>

\* The veth end moves into the child's network namespace, if there still is one.
SetupBridge ==
    /\ At("runner", "bridge")
    /\ IF Live("child")
       THEN /\ Advance("runner")
            /\ UNCHANGED <<mode, life, code, ends, sent, queue, out, logged, terminal, result>>
       ELSE RunnerErr
    /\ UNCHANGED faulted

\* Only a bridge run has something to write, and nobody to read it once the
\* child has ended.
SignalChildProcess ==
    /\ At("runner", "signal")
    /\ IF mode.bridge /\ ~Live("child")
       THEN RunnerErr
       ELSE /\ Advance("runner")
            /\ sent' = IF mode.bridge THEN sent \cup {"sync"} ELSE sent
            /\ ends' = [ends EXCEPT !["sync"] = @ \ {"runner"}]
            /\ UNCHANGED <<mode, life, code, queue, out, logged, terminal, result>>
    /\ UNCHANGED faulted

WaitForUsernsReady ==
    /\ At("runner", "ready")
    /\ \/ /\ "ready" \in sent
          /\ Advance("runner")
          /\ UNCHANGED <<mode, life, code, ends, sent, queue, out, logged, terminal, result>>
       \/ "ready" \notin sent /\ ends["ready"] = {} /\ RunnerErr
    /\ UNCHANGED faulted

WriteUidGidMaps ==
    /\ At("runner", "map")
    /\ IF Live("child")
       THEN /\ Advance("runner")
            /\ sent' = sent \cup {"mapped"}
            /\ ends' = [ends EXCEPT !["mapped"] = @ \ {"runner"}]
            /\ UNCHANGED <<mode, life, code, queue, out, logged, terminal, result>>
       ELSE RunnerErr
    /\ UNCHANGED faulted

Reap(P) == life' = [q \in RunProcesses |-> IF q \in P THEN "reaped" ELSE life[q]]

\* waitpid(child), or a collector that also waits for the traced descendants.
WaitForChild ==
    /\ At("runner", "wait") /\ life["child"] = "ended"
    /\ mode.learn => ~Live("heir")
    /\ Reap({"child"}) /\ Advance("runner")
    /\ result' = [result EXCEPT !.status = code["child"]]
    /\ UNCHANGED <<mode, code, ends, sent, queue, out, logged, terminal, faulted>>

\* The collector's waitpid(-1) takes the status of a helper.
CollectorReaps(p) ==
    /\ At("runner", "wait") /\ mode.learn /\ life[p] = "ended"
    /\ Reap({p})
    /\ UNCHANGED <<mode, agenda, code, ends, sent, queue, out, logged, terminal, result, faulted>>

JoinProxyUnlessReaped ==
    /\ At("runner", "join") /\ life["proxy"] \in {"ended", "reaped"}
    /\ Reap({"proxy"}) /\ Advance("runner") /\ terminal' = "cooked"
    /\ UNCHANGED <<mode, code, ends, sent, queue, out, logged, result, faulted>>

\* Mutant: the error pipe is closed unread.
DiscardChildError ==
    /\ At("runner", "error") /\ ends["error"] = {} /\ Advance("runner")
    /\ UNCHANGED <<mode, life, code, ends, sent, queue, out, logged, terminal, result, faulted>>

ReadChildError ==
    /\ At("runner", "error") /\ ends["error"] = {} /\ Advance("runner")
    /\ result' = [result EXCEPT !.error = "error" \in sent]
    /\ UNCHANGED <<mode, life, code, ends, sent, queue, out, logged, terminal, faulted>>

\* Mutant: the status of the log helper is not waited for.
SkipLogHelper ==
    /\ At("runner", "log") /\ Advance("runner")
    /\ UNCHANGED <<mode, life, code, ends, sent, queue, out, logged, terminal, result, faulted>>

WaitForLogHelperStatus ==
    /\ At("runner", "log") /\ life["log"] \in {"ended", "reaped"}
    /\ IF code["log"] = "ok"
       THEN /\ Reap({"log"}) /\ Advance("runner")
            /\ UNCHANGED <<mode, code, ends, sent, queue, out, logged, terminal, result>>
       ELSE RunnerErr
    /\ UNCHANGED faulted

ReturnProcessExit ==
    /\ At("runner", "cleanup")
    /\ Ends({"runner"}, "runner", "ok")
    /\ UNCHANGED <<mode, agenda, sent, queue, out, logged, terminal, result, faulted>>

RunnerStep ==
    \/ OpenPipes \/ StartLogHelper \/ UnshareParent \/ OpenPty \/ ProxyPty \/ ForkChild
    \/ PrepareChild \/ SetupBridge \/ SignalChildProcess \/ WaitForUsernsReady \/ WriteUidGidMaps
    \/ WaitForChild \/ JoinProxyUnlessReaped \/ ReadChildError
    \/ WaitForLogHelperStatus \/ ReturnProcessExit

\* A system call of the runner fails: `?` returns, except that a cgroup that
\* cannot be made kills the child and waits for it.
RunnerFault ==
    /\ "runner" \in Faults /\ Live("runner") /\ faulted' = TRUE
    /\ \/ /\ Head(agenda["runner"]) \in {"pipes", "helper", "unshare", "pty", "proxy", "fork",
                                         "bridge", "started", "map", "cleanup"}
          /\ RunnerErr
       \/ At("runner", "wait") /\ mode.learn /\ RunnerErr
       \/ /\ At("runner", "cgroup")
          /\ LET dead == EndingWith("child") \cup {"runner"} IN
             /\ life' = [q \in RunProcesses |-> IF q = "child" THEN "reaped"
                                                ELSE IF q \in dead THEN "ended" ELSE life[q]]
             /\ code' = [q \in RunProcesses |->
                    IF q = "runner" THEN "err"
                    ELSE IF q = "child" /\ ~Live("child") THEN code[q]
                    ELSE IF q \in dead THEN "signal" ELSE code[q]]
             /\ ends' = Closed(dead)
          /\ terminal' = "cooked"
          /\ UNCHANGED <<mode, agenda, sent, queue, out, logged, result>>

\* SIGKILL: no guard is dropped.
RunnerKilled ==
    /\ "runner" \in Faults /\ Live("runner") /\ faulted' = TRUE
    /\ Ends(EndingWith("runner"), "runner", "signal")
    /\ UNCHANGED <<mode, agenda, sent, queue, out, logged, terminal, result>>

-----------------------------------------------------------------------------
(* The child. *)

\* run_child returns an error: it is written to the error pipe.
ChildErr ==
    /\ Ends(EndingWith("child"), "child", "bad")
    /\ sent' = IF Live("runner") THEN sent \cup {"error"} ELSE sent
    /\ UNCHANGED <<mode, agenda, queue, out, logged, terminal, result>>

\* Behind the denylist filter, or without capabilities, a step fails that needs
\* what these take away.
Permitted(s) ==
    /\ Passed("denylist") => s \notin {"mounts", "notify", "traceme"}
    /\ Passed("caps") => s \notin {"mounts", "user"}

ChildAdvances == Advance("child") /\ UNCHANGED <<mode, life, code, ends, sent, queue, out,
                                                 logged, terminal, result>>

\* A step that waits for nobody.
ChildWorks(s) == At("child", s) /\ IF Permitted(s) THEN ChildAdvances ELSE ChildErr

NotifyUsernsReady ==
    /\ At("child", "notify")
    /\ IF Live("runner") /\ Permitted("notify")
       THEN /\ Advance("child") /\ sent' = sent \cup {"ready"}
            /\ UNCHANGED <<mode, life, code, ends, queue, out, logged, terminal, result>>
       ELSE ChildErr

WaitForUsernsMapped ==
    /\ At("child", "await")
    /\ \/ "mapped" \in sent /\ ChildAdvances
       \/ "mapped" \notin sent /\ ends["mapped"] = {} /\ ChildErr

\* Mutant: the child does not wait for the end of the sync pipe.
ReadSignalAtOnce ==
    At("child", "read") /\ IF mode.bridge /\ "sync" \notin sent THEN ChildErr ELSE ChildAdvances

\* The end of the sync pipe is the signal; a bridge child parses what it read.
ReadParentSignal ==
    /\ At("child", "read") /\ ends["sync"] = {}
    /\ IF mode.bridge /\ "sync" \notin sent THEN ChildErr ELSE ChildAdvances

\* The traced child stops until the collector resumes it.
TraceMe ==
    /\ At("child", "traceme")
    /\ IF ~Permitted("traceme") THEN ChildErr
       ELSE At("runner", "wait") /\ ChildAdvances

\* execvp closes the close-on-exec descriptors.
ExecProgram ==
    /\ At("child", "exec") /\ Advance("child")
    /\ ends' = [q \in Pipe |-> IF q \in {"log", "pts"} THEN ends[q] ELSE ends[q] \ {"child"}]
    /\ UNCHANGED <<mode, life, code, sent, queue, out, logged, terminal, result>>

ChildStep ==
    /\ \/ \E s \in {"stdio", "mounts", "user", "caps", "denylist"} : ChildWorks(s)
       \/ NotifyUsernsReady \/ WaitForUsernsMapped \/ ReadParentSignal \/ TraceMe \/ ExecProgram
    /\ UNCHANGED faulted

\* A step of run_child fails.  Before run_child there is nobody to report to:
\* the error unwinds run_process in the child, which may reset the terminal.
ChildFault ==
    /\ "child" \in Faults /\ Live("child") /\ ~Executed /\ faulted' = TRUE
    /\ \/ ~At("child", "stdio") /\ ChildErr
       \/ /\ At("child", "stdio")
          /\ Ends(EndingWith("child"), "child", "bad")
          /\ terminal' \in {terminal, "cooked"}
          /\ UNCHANGED <<mode, agenda, sent, queue, out, logged, result>>

ChildKilled ==
    /\ "child" \in Faults /\ Live("child") /\ ~Executed /\ faulted' = TRUE
    /\ Ends(EndingWith("child"), "child", "signal")
    /\ UNCHANGED <<mode, agenda, sent, queue, out, logged, terminal, result>>

-----------------------------------------------------------------------------
(* The program, once it runs. *)

ProgramWrites ==
    /\ \E p \in {"child", "heir"} : Live(p) /\ Executed /\ p \in ends["log"]
    /\ Live("log") /\ queue < Capacity /\ out < MaxOutput
    /\ queue' = queue + 1 /\ out' = out + 1
    /\ UNCHANGED <<mode, agenda, life, code, ends, sent, logged, terminal, result, faulted>>

ProgramForks ==
    /\ Live("child") /\ Executed /\ life["heir"] = "unborn"
    /\ life' = [life EXCEPT !["heir"] = "live"]
    /\ ends' = [q \in Pipe |-> IF "child" \in ends[q] THEN ends[q] \cup {"heir"} ELSE ends[q]]
    /\ UNCHANGED <<mode, agenda, code, sent, queue, out, logged, terminal, result, faulted>>

ProgramEnds ==
    /\ \/ /\ Live("child") /\ Executed
          /\ \E how \in {"ok", "bad", "signal"} : Ends(EndingWith("child"), "child", how)
       \/ Live("heir") /\ Ends({"heir"}, "heir", "ok")
    /\ UNCHANGED <<mode, agenda, sent, queue, out, logged, terminal, result, faulted>>

-----------------------------------------------------------------------------
(* The log helper, the pty proxy and the copier. *)

HelperEnds(p, how) ==
    /\ Ends(EndingWith(p), p, how)
    /\ UNCHANGED <<mode, agenda, sent, queue, out, logged, terminal, result>>

PumpLogs ==
    /\ Live("log") /\ UNCHANGED faulted
    /\ \/ /\ queue > 0
          /\ queue' = queue - 1 /\ logged' = logged + 1
          /\ UNCHANGED <<mode, agenda, life, code, ends, sent, out, terminal, result>>
       \/ queue = 0 /\ ends["log"] = {} /\ HelperEnds("log", "ok")

PumpLogsFails ==
    "log" \in Faults /\ Live("log") /\ faulted' = TRUE /\ HelperEnds("log", "bad")

ForkCopier ==
    /\ Live("proxy") /\ life["copier"] = "unborn"
    /\ life' = [life EXCEPT !["copier"] = "live"]
    /\ UNCHANGED <<mode, agenda, code, ends, sent, queue, out, logged, terminal, result, faulted>>

\* The proxy kills the copier, waits for it and exits.
ProxyStops ==
    LET dead == EndingWith("proxy") \cup {"copier"} IN
    /\ life' = [q \in RunProcesses |-> IF q = "copier" THEN "reaped"
                                       ELSE IF q \in dead THEN "ended" ELSE life[q]]
    /\ code' = [q \in RunProcesses |-> IF q = "proxy" THEN "ok"
                                       ELSE IF q \in dead /\ Live(q) THEN "signal" ELSE code[q]]
    /\ ends' = Closed(dead)
    /\ UNCHANGED <<mode, agenda, sent, queue, out, logged, terminal, result>>

\* The master reads the end once nobody holds the slave.
ProxyReadsEnd ==
    /\ Live("proxy") /\ life["copier"] # "unborn" /\ ends["pts"] = {}
    /\ ProxyStops /\ UNCHANGED faulted

\* The proxy's stdout is gone, or its own fork fails.
ProxyFault ==
    /\ "proxy" \in Faults /\ Live("proxy") /\ faulted' = TRUE
    /\ \/ life["copier"] # "unborn" /\ ProxyStops
       \/ life["copier"] = "unborn" /\ HelperEnds("proxy", "bad")

\* The end of the user's input.
CopierEnds ==
    /\ Live("copier") /\ Ends({"copier"}, "copier", "ok")
    /\ UNCHANGED <<mode, agenda, sent, queue, out, logged, terminal, result, faulted>>

HelperStep == PumpLogs \/ ForkCopier \/ ProxyReadsEnd

RunNext ==
    \/ RunnerStep \/ \E p \in {"log", "proxy"} : CollectorReaps(p)
    \/ RunnerFault \/ RunnerKilled
    \/ ChildStep \/ ChildFault \/ ChildKilled
    \/ ProgramWrites \/ ProgramForks \/ ProgramEnds
    \/ HelperStep \/ PumpLogsFails \/ ProxyFault \/ CopierEnds

\* The kernel schedules every process; the program owes nobody its end.
RunFairness ==
    WF_runVars(RunnerStep) /\ WF_runVars(ChildStep) /\ WF_runVars(HelperStep)

RunSpec == RunInit /\ [][RunNext]_runVars /\ RunFairness

-----------------------------------------------------------------------------
\* A run that returns an exit status tells the truth: the error is there
\* exactly when the child wrote one, and a program that was never executed
\* is not reported as one that succeeded.
ResultIsTruthful ==
    code["runner"] = "ok" =>
        /\ result.status = code["child"]
        /\ result.error <=> "error" \in sent
        /\ result.status = "ok" => Executed

\* The program starts only after on_started recorded the container and, in a
\* private user namespace, after the maps were written.  The one exception is
\* a runner that ended first, with neither a bridge nor a user namespace to
\* hold the child back: closing the sync pipe then looks like the signal.
StartedBeforeProgram ==
    Executed => \/ ~ToDo("runner", "started") /\ ~ToDo("runner", "map")
                \/ ~Live("runner") /\ ~mode.bridge /\ mode.userns = "host"

\* When a run that captures logs returns a status, everything that its program
\* and the descendants of it wrote is in the log file.
LogIsComplete == code["runner"] = "ok" => logged = out

\* However run_process returns, the user's terminal is as it was; only a
\* runner that is killed leaves it raw.
TerminalRestored == code["runner"] \in {"ok", "err"} => terminal = "cooked"

\* A run that returns a status has waited for every process it forked.
NobodyLeftBehind ==
    code["runner"] = "ok" =>
        /\ life["child"] = "reaped" /\ ~Live("copier")
        /\ \A p \in {"log", "proxy"} : life[p] \in {"unborn", "reaped"}

\* run_process leaves nothing behind when it returns: no output outside the log
\* file, no process it has not waited for, no terminal in raw mode.
RunEndsCleanly == LogIsComplete /\ NobodyLeftBehind /\ TerminalRestored

\* A run in which no system call fails executes its program.
RunExecutes == (life["child"] \in {"ended", "reaped"} /\ ~faulted) => Executed

ProgramRuns == (Live("child") /\ Executed) \/ Live("heir")

\* run_process returns unless the program runs for ever: the handshakes over
\* the pipes never leave the runner waiting for a process that waits for it.
RunReturns == <>[]ProgramRuns \/ <>(life["runner"] = "ended")

\* A child gets to its program or ends, whatever happens to its runner; only a
\* traced child can be left stopped, by a runner that ended.
ChildSettles ==
    Live("child") ~> \/ Executed \/ ~Live("child")
                     \/ mode.learn /\ ~Live("runner")

\* The helpers end after the runner and the container, also when the runner
\* returned an error or was killed and nobody waits for them.
HelpersEnd ==
    (~Live("runner") /\ ~Live("child") /\ ~Live("heir"))
        ~> \A p \in {"log", "proxy", "copier"} : ~Live(p)

\* Nobody waits for ever: not the runner in its handshakes, not the child for a
\* runner that is gone, not a helper for an end of its pipe that somebody forgot
\* to close (run_process, run_child, start_log_helper).
EveryoneSettles == RunReturns /\ ChildSettles /\ HelpersEnd
=============================================================================
