------------------------------ MODULE Checkpoint ------------------------------
(***************************************************************************)
(* checkpoint and restore (checkpoint.rs) of a container that may stop at  *)
(* any time.  CRIU dumps into, and restores from, an images directory.     *)
(***************************************************************************)
EXTENDS Naturals

VARIABLES
    status,    \* created, running or stopped
    criu,      \* CRIU is installed
    images,    \* the images directory: none, partial or whole
    cpc,       \* the next step of the command
    outcome    \* how the last command ended

vars == <<status, criu, images, cpc, outcome>>

Init ==
    /\ status \in {"created", "running", "stopped"} /\ criu \in BOOLEAN
    /\ images = "none" /\ cpc = "idle" /\ outcome = "none"

Refuse(why) == cpc' = "idle" /\ outcome' = why
Continue(to) == cpc' = to /\ UNCHANGED outcome

\* reject_running_state.
RejectsRunning == status = "running"

\* load_current and the checks of its result.
LoadForCheckpoint ==
    /\ cpc = "idle"
    /\ IF RejectsRunning THEN Refuse("conflict")
       ELSE IF status # "running" THEN Refuse("not_running")
       ELSE Continue("detect_dump")
    /\ UNCHANGED <<status, criu, images>>

LoadForRestore ==
    /\ cpc = "idle"
    /\ IF RejectsRunning THEN Refuse("conflict") ELSE Continue("detect_restore")
    /\ UNCHANGED <<status, criu, images>>

\* detect_criu and ensure_criu_available.
DetectCriu(to) ==
    /\ IF criu THEN Continue(to) ELSE Refuse("no_criu")
    /\ UNCHANGED <<status, criu, images>>

MakeImages ==
    /\ cpc = "images"
    /\ IF images # "none" THEN Refuse("images_exist") /\ UNCHANGED images
       ELSE images' = "partial" /\ Continue("dump")
    /\ UNCHANGED <<status, criu>>

\* run_criu dump; a failure removes the directory.
Dump ==
    /\ cpc = "dump"
    /\ \/ status = "running" /\ images' = "whole" /\ Refuse("done")
       \/ images' = "none" /\ Refuse("criu_failed")
    /\ UNCHANGED <<status, criu>>

\* run_criu restore.
Restore ==
    /\ cpc = "restore"
    /\ \/ images = "none" /\ Refuse("no_images")
       \/ images = "whole" /\ Refuse("done")
       \/ images # "none" /\ Refuse("criu_failed")
    /\ UNCHANGED <<status, criu, images>>

ContainerRuns == status = "created" /\ status' = "running" /\ UNCHANGED <<criu, images, cpc, outcome>>
ContainerEnds == status = "running" /\ status' = "stopped" /\ UNCHANGED <<criu, images, cpc, outcome>>

Next ==
    \/ LoadForCheckpoint \/ LoadForRestore
    \/ cpc = "detect_dump" /\ DetectCriu("images")
    \/ cpc = "detect_restore" /\ DetectCriu("restore")
    \/ MakeImages \/ Dump \/ Restore \/ ContainerRuns \/ ContainerEnds

Spec == Init /\ [][Next]_vars

-----------------------------------------------------------------------------
\* The roadmap has checkpoint of a running container among what is done and
\* passes: no checkpoint refuses a container because it is running.
RunningIsCheckpointed == [][LoadForCheckpoint /\ status = "running" => outcome' # "conflict"]_vars
=============================================================================
