----------------------------- MODULE MCLifecycle -----------------------------
(* Small instances of Lifecycle: which subcommands each invocation may be. *)
EXTENDS Lifecycle

CONSTANTS c1, c2, c3, c4

\* Containers are created, run and deleted one after the other, while other
\* invocations stop them and look at them, or doctor --fix cleans up.
Orderly ==
    [c \in Cmd |-> CASE c = c1 -> {"create", "run"}
                     [] c = c2 -> {"start", "delete"}
                     [] c = c3 -> {"run", "stop", "kill"}
                     [] OTHER -> {"stop", "inspect", "doctor"}]

\* Subcommands the orderly operator runs one at a time.
OneAtATime == {"create", "run", "start", "delete", "doctor"}

\* Every invocation may be anything.
Anything == [c \in Cmd |-> Op]

\* The races of single questions.
RunAndHealth == [c \in Cmd |-> IF c = c1 THEN {"run"} ELSE {"health"}]
RunAndDoctor ==
    [c \in Cmd |-> CASE c = c1 -> {"run"} [] c = c2 -> {"doctor"} [] OTHER -> {"kill"}]
RunAndStop ==
    [c \in Cmd |-> CASE c = c1 -> {"run"} [] c = c2 -> {"stop"} [] c = c3 -> {"kill"}
                     [] OTHER -> {"inspect"}]
=============================================================================
