--------------------------- MODULE ExternalCommand ---------------------------
(***************************************************************************)
(* command.rs: how ip, iptables, criu and tar are run.  The caller polls   *)
(* the child until it has ended or a deadline passes, then kills it; with  *)
(* piped output, threads read the pipes to their end and are joined after  *)
(* a regular exit.  A descendant of the command may hold the pipes longer. *)
(***************************************************************************)
EXTENDS Naturals

VARIABLES
    piped,     \* output or status
    cmd,       \* the command: none, running, zombie or reaped
    keeper,    \* whether a descendant holds the pipes
    waiter,    \* the caller: polling, joining, returned or absent
    answer     \* status, timed_out or none

commandVars == <<piped, cmd, keeper, waiter, answer>>

CommandAbsent ==
    /\ piped = FALSE /\ cmd = "none" /\ keeper = FALSE
    /\ waiter = "absent" /\ answer = "none"

CommandInit ==
    /\ piped \in BOOLEAN /\ cmd = "running" /\ keeper = FALSE
    /\ waiter = "polling" /\ answer = "none"

\* The command takes forks, and ends.
CommandActs ==
    /\ cmd = "running"
    /\ \/ keeper' = TRUE /\ UNCHANGED cmd
       \/ cmd' = "zombie" /\ UNCHANGED keeper
    /\ UNCHANGED <<piped, waiter, answer>>

KeeperEnds == keeper /\ keeper' = FALSE /\ UNCHANGED <<piped, cmd, waiter, answer>>

\* Ok(Some(status)).
TryWait ==
    /\ waiter = "polling" /\ cmd = "zombie"
    /\ cmd' = "reaped" /\ answer' = "status"
    /\ waiter' = IF piped THEN "joining" ELSE "returned"
    /\ UNCHANGED <<piped, keeper>>

\* Mutant: the command is not waited for after the kill.
KillOnly == "zombie"

\* kill and wait.
KillAndWait == "reaped"

\* The deadline, or an error of try_wait: the command may have ended
\* since the poll.
TimedOut ==
    /\ waiter = "polling" /\ cmd \in {"running", "zombie"}
    /\ cmd' = KillAndWait /\ answer' = "timed_out" /\ waiter' = "returned"
    /\ UNCHANGED <<piped, keeper>>

\* The readers see the end when nobody holds the pipes.
JoinPipe ==
    /\ waiter = "joining" /\ ~keeper
    /\ waiter' = "returned" /\ UNCHANGED <<piped, cmd, keeper, answer>>

CommandNext == CommandActs \/ KeeperEnds \/ TryWait \/ TimedOut \/ JoinPipe

CommandFairness == WF_commandVars(TryWait) /\ WF_commandVars(TimedOut) /\ WF_commandVars(JoinPipe)

-----------------------------------------------------------------------------
\* A command that runs for ever does not keep its caller, and it has been reaped
\* when the caller goes on: no second one of the same kind runs beside it, and no
\* zombie is left.  Only a descendant that holds the output pipes of a command
\* that ended in time keeps the caller (wait_child, join_pipe).
CommandReturns ==
    (waiter = "polling") ~> \/ waiter = "returned" /\ cmd = "reaped"
                            \/ waiter = "joining" /\ keeper
=============================================================================
