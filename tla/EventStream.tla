----------------------------- MODULE EventStream -----------------------------
(***************************************************************************)
(* stream_counter_events (events.rs): the counters of a container's cgroup *)
(* are read at intervals and their increases reported.  Between two steps  *)
(* of the stream the counters go on, the container may end, its cgroup go, *)
(* and a container of the same id start with a new cgroup of the same path.*)
(*                                                                         *)
(* "mapped" stands for a counter of memory.events and pids.events, which   *)
(* counts from 0 when it was missing; "paired" for one of cpu.stat, which  *)
(* is reported only when it was there before and is there now.             *)
(***************************************************************************)
EXTENDS Naturals

CONSTANTS
    MaxCount,   \* bound on the increments
    MaxRuns     \* bound on how often the container is run

ASSUME CountAssumption == MaxCount \in Nat

Counter == {"mapped", "paired"}
NoFile == MaxCount + 1     \* no such file

VARIABLES
    status,     \* the status that load_current returns
    counter,    \* counter[k]: the counters of the cgroup, NoFile when it is gone
    runs,       \* how often the container was run
    happened,   \* happened[k]: the increments since the stream began
    stream,     \* the next step of the stream
    previous,   \* the snapshot before
    current,    \* the snapshot being read
    reported    \* reported[k]: the sum of the deltas that were emitted

eventVars == <<status, counter, runs, happened, stream, previous, current, reported>>

Gone == [k \in Counter |-> NoFile]
Zero == [k \in Counter |-> 0]

EventState(step) ==
    /\ runs = 1 /\ happened = Zero /\ stream = step /\ previous = Gone
    /\ current = Gone /\ reported = Zero

EventInit == status = "running" /\ counter = Zero /\ EventState("idle")
EventAbsent == status = "absent" /\ counter = Gone /\ EventState("over")

\* running_cgroup_path.
FindCgroup ==
    /\ stream = "idle"
    /\ stream' = IF status = "running" /\ counter # Gone THEN "baseline_cpu" ELSE "over"
    /\ UNCHANGED <<status, counter, runs, happened, previous, current, reported>>

\* read_stats reads the file of a counter: cpu.stat before the events.  A file
\* that is not there is no error, one that goes while it is read is.
ReadFile(k, from, to) ==
    /\ stream = from
    /\ \/ current' = [current EXCEPT ![k] = counter[k]] /\ stream' = to
       \/ counter[k] = NoFile /\ stream' = "over" /\ UNCHANGED current

\* The first snapshot, from which increases are counted.
ReadBaseline(k, from, to) ==
    /\ ReadFile(k, from, to)
    /\ happened' = [happened EXCEPT ![k] = 0]
    /\ UNCHANGED <<status, counter, runs, previous, reported>>

\* --once ends here.
KeepBaseline ==
    /\ stream = "baseline"
    /\ previous' = current
    /\ stream' \in {"sleeping", "over"}
    /\ UNCHANGED <<status, counter, runs, happened, current, reported>>

Ended == status # "running"

\* load_current after the sleep; the end of the container ends the stream.
LoadStatus ==
    /\ stream = "sleeping"
    /\ stream' = IF Ended THEN "over" ELSE "read_cpu"
    /\ UNCHANGED <<status, counter, runs, happened, previous, current, reported>>

\* append_counter_events, and the pairs of collect_counter_events.
Delta(k, old, new) ==
    IF new = NoFile \/ (k = "paired" /\ old = NoFile) THEN 0
    ELSE IF old = NoFile THEN new ELSE IF new > old THEN new - old ELSE 0

\* Mutant: the snapshot is not replaced.
KeepSnapshot(new) == previous

NextSnapshot(new) == new

ReadStats(k, from, to) ==
    /\ ReadFile(k, from, to)
    /\ UNCHANGED <<status, counter, runs, happened, previous, reported>>

EmitDeltas ==
    /\ stream = "emit"
    /\ reported' = [k \in Counter |-> reported[k] + Delta(k, previous[k], current[k])]
    /\ previous' = NextSnapshot(current)
    /\ stream' = "sleeping"
    /\ UNCHANGED <<status, counter, runs, happened, current>>

-----------------------------------------------------------------------------
(* The container. *)

Count(k) ==
    /\ status = "running" /\ counter[k] # NoFile /\ happened[k] < MaxCount
    /\ counter[k] < MaxCount
    /\ counter' = [counter EXCEPT ![k] = @ + 1]
    /\ happened' = [happened EXCEPT ![k] = @ + 1]
    /\ UNCHANGED <<status, runs, stream, previous, current, reported>>

\* The cgroup goes before the record says so.
CgroupGoes ==
    /\ status = "running" /\ counter # Gone
    /\ counter' = Gone
    /\ UNCHANGED <<status, runs, happened, stream, previous, current, reported>>

ContainerStops ==
    /\ status = "running" /\ counter = Gone
    /\ status' = "stopped"
    /\ UNCHANGED <<counter, runs, happened, stream, previous, current, reported>>

\* The id is deleted and run again.
RunAgain ==
    /\ status = "stopped" /\ runs < MaxRuns
    /\ status' = "running" /\ counter' = Zero /\ runs' = runs + 1
    /\ UNCHANGED <<happened, stream, previous, current, reported>>

StreamStep ==
    \/ FindCgroup
    \/ ReadBaseline("paired", "baseline_cpu", "baseline_events")
    \/ ReadBaseline("mapped", "baseline_events", "baseline")
    \/ KeepBaseline \/ LoadStatus
    \/ ReadStats("paired", "read_cpu", "read_events")
    \/ ReadStats("mapped", "read_events", "emit")
    \/ EmitDeltas

EventNext == StreamStep \/ (\E k \in Counter : Count(k)) \/ CgroupGoes \/ ContainerStops \/ RunAgain

EventSpec == EventInit /\ [][EventNext]_eventVars

-----------------------------------------------------------------------------
\* No increase is invented or counted twice, also when the container was
\* replaced by a new one of the same id between two reads.
ReportsHappened == \A k \in Counter : reported[k] <= happened[k]

\* As long as one container is watched, the reports add up to what was read.
ReportsAddUp ==
    (runs = 1 /\ stream = "sleeping") =>
        \A k \in Counter : previous[k] # NoFile =>
            reported[k] + (counter[k] - previous[k]) = happened[k] \/ counter[k] = NoFile

\* The events of `events --follow' are the increases of the cgroup's counters,
\* each reported once (append_counter_events).
ReportsAreExact == ReportsHappened /\ ReportsAddUp
=============================================================================
