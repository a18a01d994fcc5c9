------------------------------- MODULE Overlay -------------------------------
(***************************************************************************)
(* The overlay directories of a bundle, and the containers started on it   *)
(* (filesystem/mod.rs, container/process.rs).  The runner looks whether    *)
(* the merged directory is there, and so whether it is its own to remove,  *)
(* before it forks; the child looks again at all three, creates them and   *)
(* mounts the overlay in its own mount namespace, or removes what it found *)
(* missing; the runner removes the merged directory in the end and marks   *)
(* its record stopped.  When it is killed, or returns by an error, the     *)
(* record goes on saying "running": every load (state/mod.rs) and every    *)
(* doctor clean (doctor.rs) that finds the process gone removes the merged *)
(* directory again, until one of them has marked the record.               *)
(***************************************************************************)
EXTENDS Naturals, Sequences

CONSTANTS
    Starters,     \* the runners of containers on the bundle
    Killable      \* those that may be killed

\* In the order in which they are created.
Layers == <<"upper", "work", "merged">>

VARIABLES
    serial,    \* nobody else acts while a container starts or ends
    there,     \* the directories that exist
    filled,    \* those that are not empty
    native,    \* those that were there in the beginning
    owns,      \* the runners that are to remove the merged directory
    saw,       \* saw[r]: the directories that its child found
    opc,       \* opc[r]: the next step of the child of r
    phase,     \* phase[r]: where the runner itself is
    open,      \* the runners whose record says "running"
    lost,      \* the runners that ended without marking their record
    botched    \* a record was marked although the removal had failed

overlayVars == <<serial, there, filled, native, owns, saw, opc, phase, open, lost, botched>>

Dirs == {Layers[n] : n \in 1..3}

OverlayState(step) ==
    /\ there = native /\ filled = {} /\ owns = {} /\ open = {} /\ lost = {} /\ botched = FALSE
    /\ saw = [r \in Starters |-> {}] /\ opc = [r \in Starters |-> step]
    /\ phase = [r \in Starters |-> "none"]

OverlayInit ==
    /\ serial \in BOOLEAN
    /\ native \in SUBSET Dirs
    /\ OverlayState("idle")

OverlayAbsent == serial = TRUE /\ native = {} /\ OverlayState("unused")

\* The container of r is being started, or has ended and its runner has yet to
\* clean up and mark the record.
Busy(r) ==
    \/ opc[r] \in {"check", "mount", "undo"} \cup Dirs
    \/ opc[r] = "ended" /\ phase[r] # "over"

May(r) == serial => \A o \in Starters \ {r} : ~Busy(o)

Move(r, from, to) ==
    /\ opc[r] = from /\ May(r)
    /\ opc' = [opc EXCEPT ![r] = to]

-----------------------------------------------------------------------------
\* OverlayOwnership::from_config, before the fork; the record is saved before
\* the child is told to go on.
FromConfig(r) ==
    /\ Move(r, "idle", "check")
    /\ owns' = IF "merged" \notin there THEN owns \cup {r} ELSE owns
    /\ phase' = [phase EXCEPT ![r] = "waits"]
    /\ open' = open \cup {r}
    /\ UNCHANGED <<serial, there, filled, native, saw, lost, botched>>

\* Mutant: a merged directory that is there is used.
RefusesNothing == FALSE

Refuses == "merged" \in there

\* The child fails before it looks, or setup_overlay_rootfs looks and refuses: it
\* reports its error and ends.
Look(r) ==
    /\ \/ Move(r, "check", "ended") /\ UNCHANGED saw
       \/ /\ Move(r, "check", IF Refuses THEN "ended" ELSE "upper")
          /\ saw' = [saw EXCEPT ![r] = there]
    /\ UNCHANGED <<serial, there, filled, native, owns, phase, open, lost, botched>>

After(d) == IF d = "upper" THEN "work" ELSE IF d = "work" THEN "merged" ELSE "mount"

CreateLayer(r) ==
    \E d \in Dirs :
        /\ \/ Move(r, d, After(d)) /\ there' = there \cup {d}
           \/ Move(r, d, "undo") /\ UNCHANGED there
        /\ UNCHANGED <<serial, filled, native, owns, saw, phase, open, lost, botched>>

\* The overlay file system puts a directory into the work directory.
MountOverlay(r) ==
    /\ \/ /\ Move(r, "mount", "running")
          /\ there = Dirs /\ filled' = filled \cup {"work"}
       \/ Move(r, "mount", "undo") /\ UNCHANGED filled
    /\ UNCHANGED <<serial, there, native, owns, saw, phase, open, lost, botched>>

Created(r) == Dirs \ saw[r]

\* cleanup_created; remove_dir leaves a directory that is not empty.
Undo(r) ==
    /\ Move(r, "undo", "ended")
    /\ there' = there \ (Created(r) \ filled)
    /\ UNCHANGED <<serial, filled, native, owns, saw, phase, open, lost, botched>>

\* The container writes a file.
WriteUpper(r) ==
    /\ opc[r] = "running" /\ "upper" \in there
    /\ filled' = filled \cup {"upper"}
    /\ UNCHANGED <<serial, there, native, owns, saw, opc, phase, open, lost, botched>>

ProgramExits(r) ==
    /\ Move(r, "running", "ended")
    /\ UNCHANGED <<serial, there, filled, native, owns, saw, phase, open, lost, botched>>

-----------------------------------------------------------------------------
\* OverlayOwnership::cleanup; remove_dir succeeds or not.
RemoveMerged(r, ok) == there' = IF ok /\ r \in owns THEN there \ {"merged"} ELSE there

\* ParentResources::cleanup, after the child is reaped.
CleanupOverlay(r) ==
    /\ phase[r] = "waits" /\ opc[r] = "ended" /\ May(r)
    /\ RemoveMerged(r, TRUE)
    /\ phase' = [phase EXCEPT ![r] = "cleaned"]
    /\ UNCHANGED <<serial, filled, native, owns, saw, opc, open, lost, botched>>

\* run_container_process marks the record.
MarkStopped(r) ==
    /\ phase[r] = "cleaned" /\ May(r)
    /\ phase' = [phase EXCEPT ![r] = "over"]
    /\ open' = open \ {r}
    /\ UNCHANGED <<serial, there, filled, native, owns, saw, opc, lost, botched>>

Ends(r) == /\ phase' = [phase EXCEPT ![r] = "over"] /\ lost' = lost \cup {r}
           /\ UNCHANGED <<serial, filled, native, owns, saw, opc, open, botched>>

\* The runner returns by an error: while its child starts or runs, or because
\* something could not be cleaned up.  Dropping its resources cleans up; the
\* record stays as it is.
RunnerReturns(r) ==
    /\ phase[r] = "waits" /\ May(r)
    /\ \E ok \in BOOLEAN : RemoveMerged(r, ok)
    /\ Ends(r)

\* A runner is killed, or cannot save the record; its child goes on.
KillStarter(r) ==
    /\ r \in Killable /\ phase[r] \in {"waits", "cleaned"}
    /\ UNCHANGED there
    /\ Ends(r)

\* refresh_liveness of a load, or doctor clean: the record says "running", and its
\* process is gone.  A load marks the record whatever it could not remove, unless
\* the save fails; doctor marks it when it could remove everything.
RecoverStale(r) ==
    /\ r \in open /\ opc[r] = "ended" /\ May(r)
    /\ \E ok, saved \in BOOLEAN :
           /\ RemoveMerged(r, ok)
           /\ open' = IF saved THEN open \ {r} ELSE open
           /\ botched' = IF saved /\ ~ok THEN TRUE ELSE botched
    /\ UNCHANGED <<serial, filled, native, owns, saw, opc, phase, lost>>

OverlayNext ==
    \E r \in Starters :
        \/ FromConfig(r) \/ Look(r) \/ CreateLayer(r) \/ MountOverlay(r) \/ Undo(r)
        \/ WriteUpper(r) \/ ProgramExits(r) \/ CleanupOverlay(r) \/ MarkStopped(r)
        \/ RunnerReturns(r) \/ KillStarter(r) \/ RecoverStale(r)

OverlaySpec == OverlayInit /\ [][OverlayNext]_overlayVars

-----------------------------------------------------------------------------
\* No start, failed start, exit or repair removes a directory that was there
\* before.
NativeKept == native \subseteq there

\* A running container has the directories of its overlay, when nobody acts while
\* another container starts or ends, and every runner that was to remove the
\* merged directory has marked its record.  Without the latter the code does take
\* the directory away: a load of the record left behind removes the one that the
\* next container on the bundle has made.
RunningHasLayers ==
    (serial /\ lost \cap owns = {}) => \A r \in Starters : opc[r] = "running" => there = Dirs

\* The merged directory that a container created goes with it, so that the next
\* start is not refused: also when its runner was killed or failed, once its
\* record is marked and unless the removal failed.
MergedRemoved ==
    (serial /\ open = {} /\ ~botched) => ("merged" \in there => "merged" \in native)

\* The directories of an overlay belong to whoever created them (OverlayOwnership):
\* foreign ones always stay; those of a running container stay while no ended
\* runner has left its record behind; the merged one goes with the container that
\* created it.
OverlayOwned == NativeKept /\ RunningHasLayers /\ MergedRemoved
=============================================================================
