-------------------------- MODULE ContainerLifecycle --------------------------
(***************************************************************************)
(* What minicrun promises about one container id: the status that every    *)
(* command reports moves along created, running, stopped, and only deleting*)
(* the record makes the id free again.                                     *)
(***************************************************************************)

VARIABLES status,  \* the recorded status, "absent" without a record
          live     \* whether the process of a running record is alive

vars == <<status, live>>

Init == status = "absent" /\ live = FALSE

Create == status = "absent" /\ status' = "created" /\ UNCHANGED live

\* run starts from nothing, start from a created record; the process may be
\* dead by the time the record says running.
Start ==
    /\ status \in {"absent", "created"}
    /\ status' = "running"
    /\ live' \in BOOLEAN

Die == live /\ live' = FALSE /\ UNCHANGED status

\* Only a dead container becomes stopped.
Stop == status = "running" /\ ~live /\ status' = "stopped" /\ UNCHANGED live

Delete == status \in {"created", "stopped"} /\ status' = "absent" /\ UNCHANGED live

Next == Create \/ Start \/ Die \/ Stop \/ Delete

Spec == Init /\ [][Next]_vars
=============================================================================
