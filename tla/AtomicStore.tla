----------------------------- MODULE AtomicStore -----------------------------
(* What state/mod.rs promises of one state.json: a record that is replaced as *)
(* a whole, by a save or by the refresh of the record that is in it.          *)
CONSTANTS Proc, Nobody

VARIABLES rec,      \* the record
          written,  \* the calls whose save took effect
          dead      \* whether the container process ended

Init ==
    /\ rec = [status |-> "absent", by |-> Nobody]
    /\ written = {}
    /\ dead = FALSE

Save(p) ==
    /\ p \notin written
    /\ \E s \in {"running", "stopped"} : rec' = [status |-> s, by |-> p]
    /\ written' = written \cup {p}
    /\ UNCHANGED dead

Refresh ==
    /\ rec.status = "running" /\ dead
    /\ rec' = [rec EXCEPT !.status = "stopped"]
    /\ UNCHANGED <<written, dead>>

Die ==
    /\ ~dead /\ dead' = TRUE
    /\ UNCHANGED <<rec, written>>

Next == (\E p \in Proc : Save(p)) \/ Refresh \/ Die

Spec == Init /\ [][Next]_<<rec, written, dead>>
=============================================================================
