--------------------------- MODULE ProcessIdentity ---------------------------
(***************************************************************************)
(* The (pid, starttime) token that names a container process, and the      *)
(* pidfd built from it (process_identity.rs), against a kernel that reuses *)
(* pids.  A client loads a token from a state file, then opens the         *)
(* identity and either signals the process or joins its namespaces         *)
(* (container_exec.rs).  Every access to /proc/<pid> is a step of its own, *)
(* so the process may exit, be reaped and be replaced between any two.     *)
(*                                                                         *)
(* A starttime is abstracted to the number of the incarnation of its pid:  *)
(* the only thing the code does with it is compare it for equality.  The   *)
(* environment assumption is that a pid is not reused within one clock     *)
(* tick, so that two incarnations of a pid differ in their starttime.      *)
(***************************************************************************)
EXTENDS Naturals

CONSTANTS Pid,        \* process ids of the host
          Client,     \* minicrun processes that use a stored token
          Namespace,  \* the namespaces exec joins
          MaxStart    \* bound on the incarnations of one pid

ASSUME MaxStartAssumption == MaxStart \in Nat

VARIABLES
    proc,    \* proc[p]: the last incarnation of p, and whether /proc shows it
    pc,      \* pc[c]: how far client c is
    token,   \* token[c]: the pid and starttime of the state file c loaded
    fd,      \* fd[c]: the incarnation c's pidfd refers to, 0 for none
    nsfd,    \* nsfd[c][n]: the incarnation whose namespace n is open, or 0
    effect   \* effect[c]: the last thing c did to a process

vars == <<proc, pc, token, fd, nsfd, effect>>

Start == 0 .. MaxStart
ProcState == {"free", "alive", "zombie"}
Label == {"idle", "loaded", "checked", "opened", "held", "sending",
          "joining", "setns", "ended"}
Effect == [kind : {"none", "signal", "setns"}, wanted : Start, hit : SUBSET Start]
NoEffect == [kind |-> "none", wanted |-> 0, hit |-> {}]
NoFds == [n \in Namespace |-> 0]

\* Every variable holds a value of its kind.
TypeOK ==
    /\ proc \in [Pid -> [start : Start, state : ProcState]]
    /\ pc \in [Client -> Label]
    /\ token \in [Client -> [pid : Pid, start : Start]]
    /\ fd \in [Client -> Start]
    /\ nsfd \in [Client -> [Namespace -> Start]]
    /\ effect \in [Client -> Effect]

Init ==
    /\ proc = [p \in Pid |-> [start |-> 0, state |-> "free"]]
    /\ pc = [c \in Client |-> "idle"]
    /\ token \in [Client -> [pid : Pid, start : {0}]]
    /\ fd = [c \in Client |-> 0]
    /\ nsfd = [c \in Client |-> NoFds]
    /\ effect = [c \in Client |-> NoEffect]

\* No pid is left and no client comes.
IdentityAbsent ==
    /\ proc = [p \in Pid |-> [start |-> MaxStart, state |-> "free"]]
    /\ pc = [c \in Client |-> "ended"]
    /\ token = [c \in Client |-> [pid |-> CHOOSE p \in Pid : TRUE, start |-> 0]]
    /\ fd = [c \in Client |-> 0]
    /\ nsfd = [c \in Client |-> NoFds]
    /\ effect = [c \in Client |-> NoEffect]

-----------------------------------------------------------------------------
(* The kernel. *)

Spawn(p) ==
    /\ proc[p].state = "free"
    /\ proc[p].start < MaxStart
    /\ proc' = [proc EXCEPT ![p] = [start |-> proc[p].start + 1, state |-> "alive"]]
    /\ UNCHANGED <<pc, token, fd, nsfd, effect>>

Exit(p) ==
    /\ proc[p].state = "alive"
    /\ proc' = [proc EXCEPT ![p].state = "zombie"]
    /\ UNCHANGED <<pc, token, fd, nsfd, effect>>

Reap(p) ==
    /\ proc[p].state = "zombie"
    /\ proc' = [proc EXCEPT ![p].state = "free"]
    /\ UNCHANGED <<pc, token, fd, nsfd, effect>>

\* process_starttime: /proc/<pid>/stat stays readable until the pid is reaped.
ProcessStarttimeIs(p, s) == proc[p].state # "free" /\ proc[p].start = s

-----------------------------------------------------------------------------
(* The client. *)

\* An error return drops the pidfd and the namespace files.
Fail(c) ==
    /\ pc' = [pc EXCEPT ![c] = "idle"]
    /\ fd' = [fd EXCEPT ![c] = 0]
    /\ nsfd' = [nsfd EXCEPT ![c] = NoFds]
    /\ UNCHANGED <<proc, token, effect>>

Goto(c, l) ==
    /\ pc' = [pc EXCEPT ![c] = l]
    /\ UNCHANGED <<proc, token, fd, nsfd, effect>>

\* The state file names a process that runs or ran: any incarnation of a pid
\* up to the last one, or 0 when the file has no starttime.
LoadToken(c) ==
    /\ pc[c] = "idle"
    /\ \E p \in Pid : \E s \in 0 .. proc[p].start :
           token' = [token EXCEPT ![c] = [pid |-> p, start |-> s]]
    /\ pc' = [pc EXCEPT ![c] = "loaded"]
    /\ UNCHANGED <<proc, fd, nsfd, effect>>

\* ProcessIdentity::open up to pidfd_open: a missing token or a starttime that
\* differs is an error.
OpenCheck(c) ==
    /\ pc[c] = "loaded"
    /\ IF token[c].start # 0 /\ ProcessStarttimeIs(token[c].pid, token[c].start)
       THEN Goto(c, "checked")
       ELSE Fail(c)

\* pidfd_open: the descriptor refers to whatever process has the pid now.
PidfdOpen(c) ==
    /\ pc[c] = "checked"
    /\ IF proc[token[c].pid].state = "free"
       THEN Fail(c)
       ELSE /\ fd' = [fd EXCEPT ![c] = proc[token[c].pid].start]
            /\ pc' = [pc EXCEPT ![c] = "opened"]
            /\ UNCHANGED <<proc, token, nsfd, effect>>

\* Mutant: verify only checks that the pid still exists.
VerifyOnlyExists(c) == proc[token[c].pid].state # "free"

\* verify: the pid still has the recorded starttime.
Verify(c) == ProcessStarttimeIs(token[c].pid, token[c].start)

\* The verify that ends ProcessIdentity::open.
OpenVerify(c) ==
    /\ pc[c] = "opened"
    /\ IF Verify(c) THEN Goto(c, "held") ELSE Fail(c)

\* The verify that starts send_signal.
SendVerify(c) ==
    /\ pc[c] = "held"
    /\ IF Verify(c) THEN Goto(c, "sending") ELSE Fail(c)

\* pidfd_send_signal reaches the process of the descriptor, or fails once that
\* process is reaped.
SendSignal(c) ==
    /\ pc[c] = "sending"
    /\ IF ProcessStarttimeIs(token[c].pid, fd[c])
       THEN /\ effect' = [effect EXCEPT ![c] =
                   [kind |-> "signal", wanted |-> token[c].start, hit |-> {fd[c]}]]
            /\ pc' = [pc EXCEPT ![c] = "idle"]
            /\ fd' = [fd EXCEPT ![c] = 0]
            /\ UNCHANGED <<proc, token, nsfd>>
       ELSE Fail(c)

\* join_namespaces opens /proc/<pid>/ns/<n> one by one; a zombie has none.
OpenNamespace(c, n) ==
    /\ pc[c] \in {"held", "joining"}
    /\ nsfd[c][n] = 0
    /\ IF proc[token[c].pid].state = "alive"
       THEN /\ nsfd' = [nsfd EXCEPT ![c][n] = proc[token[c].pid].start]
            /\ pc' = [pc EXCEPT ![c] = "joining"]
            /\ UNCHANGED <<proc, token, fd, effect>>
       ELSE Fail(c)

\* The verify between the opens and the first setns.
JoinVerify(c) ==
    /\ pc[c] = "joining"
    /\ \A n \in Namespace : nsfd[c][n] # 0
    /\ IF Verify(c) THEN Goto(c, "setns") ELSE Fail(c)

\* setns on every file; the files keep the namespaces alive.
JoinNamespaces(c) ==
    /\ pc[c] = "setns"
    /\ effect' = [effect EXCEPT ![c] =
           [kind |-> "setns", wanted |-> token[c].start,
            hit |-> {nsfd[c][n] : n \in Namespace}]]
    /\ pc' = [pc EXCEPT ![c] = "idle"]
    /\ fd' = [fd EXCEPT ![c] = 0]
    /\ nsfd' = [nsfd EXCEPT ![c] = NoFds]
    /\ UNCHANGED <<proc, token>>

Kernel(p) == Spawn(p) \/ Exit(p) \/ Reap(p)

Use(c) ==
    \/ LoadToken(c) \/ OpenCheck(c) \/ PidfdOpen(c) \/ OpenVerify(c)
    \/ SendVerify(c) \/ SendSignal(c)
    \/ \E n \in Namespace : OpenNamespace(c, n)
    \/ JoinVerify(c) \/ JoinNamespaces(c)

Next == (\E p \in Pid : Kernel(p)) \/ (\E c \in Client : Use(c))

Spec == Init /\ [][Next]_vars

-----------------------------------------------------------------------------
\* A signal sent through an identity reaches the recorded process and no other
\* one, however often the pid was reused between the steps of open and
\* send_signal.
SignalsOnlyTheRecordedProcess ==
    \A c \in Client :
        effect[c].kind = "signal" => effect[c].hit = {effect[c].wanted}

\* exec joins the namespaces of the recorded process only: the files opened
\* by pid before the last verify all belong to one incarnation.
JoinsOnlyTheRecordedProcess ==
    \A c \in Client :
        effect[c].kind = "setns" => effect[c].hit \subseteq {effect[c].wanted}

-----------------------------------------------------------------------------
(* The inductive invariant: incarnations only grow, so what was read between *)
(* two reads of the recorded starttime is the recorded incarnation.          *)

Bracketed(c) ==
    /\ pc[c] \notin {"idle", "loaded"} => token[c].start <= proc[token[c].pid].start
    /\ pc[c] = "opened" => /\ token[c].start <= fd[c]
                           /\ fd[c] <= proc[token[c].pid].start
    /\ pc[c] \in {"held", "sending", "joining", "setns"} => fd[c] = token[c].start
    /\ pc[c] = "joining" =>
           \A n \in Namespace : nsfd[c][n] # 0 =>
               /\ token[c].start <= nsfd[c][n]
               /\ nsfd[c][n] <= proc[token[c].pid].start
    /\ pc[c] = "setns" => \A n \in Namespace : nsfd[c][n] = token[c].start
    /\ pc[c] \notin {"joining", "setns"} => nsfd[c] = NoFds

\* What every client has read so far is bracketed by the recorded starttime,
\* and no effect reached another process.
IdentityInv ==
    /\ TypeOK
    /\ \A c \in Client : Bracketed(c)
    /\ SignalsOnlyTheRecordedProcess
    /\ JoinsOnlyTheRecordedProcess
=============================================================================
