---------------------------- MODULE MCStateStore ----------------------------
(* Small instances of StateStore. *)
EXTENDS StateStore

CONSTANTS p1, p2, p3

\* Saves and loads of one container, with or without a delete among them, and a
\* reader that takes no lock.
Calls ==
    [p \in Proc |-> CASE p = p1 -> {"save"} [] p = p2 -> {"save", "load", "delete"}
                      [] OTHER -> {"save", "load", "list"}]
=============================================================================
