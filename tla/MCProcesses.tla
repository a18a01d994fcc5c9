----------------------------- MODULE MCProcesses -----------------------------
(* A container run, a collector, an exec session or an external command:   *)
(* whichever starts, the others are absent.                                *)
EXTENDS RunProcess, Collector, ExecSession, ExternalCommand

\* The security profile matters most to a learning run; the others have the
\* default one.
SomeModes ==
    {m \in Mode : IF m.learn THEN m.profile = "unconfined" \/ m.io = "plain"
                             ELSE m.profile = "denylist"}

RunAbsent ==
    /\ mode = CHOOSE m \in Mode : m.io = "plain"
    /\ agenda = [p \in {"runner", "child"} |-> <<"fork">>]
    /\ life = [p \in RunProcesses |-> IF p = "runner" THEN "ended" ELSE "unborn"]
    /\ code = [p \in RunProcesses |-> "none"]
    /\ ends = [q \in Pipe |-> {}]
    /\ sent = {} /\ queue = 0 /\ out = 0 /\ logged = 0
    /\ terminal = "cooked" /\ faulted = FALSE
    /\ result = [status |-> "none", error |-> FALSE]

ProcessesVars == <<runVars, colVars, execVars, commandVars>>

ProcessesInit ==
    \/ RunInit /\ CollectorAbsent /\ ExecAbsent /\ CommandAbsent
    \/ RunAbsent /\ CollectorInit /\ ExecAbsent /\ CommandAbsent
    \/ RunAbsent /\ CollectorAbsent /\ ExecInit /\ CommandAbsent
    \/ RunAbsent /\ CollectorAbsent /\ ExecAbsent /\ CommandInit

ProcessesNext ==
    \/ RunNext /\ UNCHANGED <<colVars, execVars, commandVars>>
    \/ CollectorNext /\ UNCHANGED <<runVars, execVars, commandVars>>
    \/ ExecNext /\ UNCHANGED <<runVars, colVars, commandVars>>
    \/ CommandNext /\ UNCHANGED <<runVars, colVars, execVars>>

ProcessesSpec ==
    /\ ProcessesInit /\ [][ProcessesNext]_ProcessesVars
    /\ RunFairness /\ CollectorFairness /\ ExecFairness /\ CommandFairness
=============================================================================
