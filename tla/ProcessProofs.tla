---------------------------- MODULE ProcessProofs ----------------------------
(***************************************************************************)
(* Proofs about Collector, ExecSession, ProcessIdentity and EventStream:   *)
(* for any workload and any helpers, any number of retries, any number of  *)
(* pids, clients, namespaces and reuses of a pid, and any readings.        *)
(***************************************************************************)
EXTENDS Collector, ExecSession, ProcessIdentity, EventStream, TLAPS

-----------------------------------------------------------------------------
(* EventStream *)

Reading == 0 .. NoFile

EventTypeOK ==
    /\ counter \in [Counter -> Reading] /\ previous \in [Counter -> Reading]
    /\ current \in [Counter -> Reading]
    /\ happened \in [Counter -> Nat] /\ reported \in [Counter -> Nat]
    /\ runs \in Nat \ {0}
    /\ stream \in {"idle", "baseline_cpu", "baseline_events", "baseline", "sleeping", "read_cpu",
                   "read_events", "emit", "over"}

\* Where counter k has been read into the baseline, and not yet kept; where it
\* is yet to be read again; and where it has been.
BaselineRead(k) == stream \in IF k = "paired" THEN {"baseline_events", "baseline"} ELSE {"baseline"}
YetToRead(k) ==
    stream \in IF k = "paired" THEN {"sleeping", "read_cpu"} ELSE {"sleeping", "read_cpu", "read_events"}
ReadAgain(k) == stream \in IF k = "paired" THEN {"read_events", "emit"} ELSE {"emit"}

\* What was reported, and would be if the stream went on from here, happened.
ReportInv(k) ==
    /\ reported[k] <= happened[k]
    /\ stream \in {"idle", "baseline_cpu", "baseline_events", "baseline"} => reported[k] = 0
    /\ BaselineRead(k) => Delta(k, current[k], counter[k]) <= happened[k]
    /\ YetToRead(k) => reported[k] + Delta(k, previous[k], counter[k]) <= happened[k]
    /\ ReadAgain(k) => reported[k] + Delta(k, previous[k], current[k])
                           + Delta(k, current[k], counter[k]) <= happened[k]

\* For the counters of one cgroup that is still there, exactly that.
ExactInv(k) ==
    (runs = 1 /\ counter[k] # NoFile) =>
        /\ BaselineRead(k) => current[k] <= counter[k] /\ counter[k] = happened[k] + current[k]
        /\ YetToRead(k) => /\ previous[k] <= counter[k]
                           /\ reported[k] + counter[k] = happened[k] + previous[k]
        /\ ReadAgain(k) => /\ previous[k] <= current[k] /\ current[k] <= counter[k]
                           /\ reported[k] + counter[k] = happened[k] + previous[k]

EventInv == EventTypeOK /\ \A k \in Counter : ReportInv(k) /\ ExactInv(k)

LEMMA ReadingFact == NoFile \in Nat /\ NoFile = MaxCount + 1 /\ MaxCount \in Nat /\ Reading = 0 .. (MaxCount + 1)
  BY CountAssumption DEF NoFile, Reading

LEMMA DeltaFact ==
  ASSUME NEW k, NEW a \in Reading, NEW b \in Reading
  PROVE  /\ Delta(k, a, b) \in Nat
         /\ Delta(k, a, NoFile) = 0 /\ Delta(k, a, a) = 0 /\ Delta(k, a, 0) = 0
         /\ b < MaxCount => Delta(k, a, b + 1) <= Delta(k, a, b) + 1
         /\ a <= b /\ b # NoFile => Delta(k, a, b) = b - a
  BY ReadingFact DEF Delta

LEMMA InitEvents == EventInit => EventInv
  BY ReadingFact DEF EventInit, EventState, EventInv, EventTypeOK, ReportInv, ExactInv, Zero, Gone,
                     BaselineRead, YetToRead, ReadAgain, Counter

LEMMA ContainerKeepsEvents ==
  ASSUME EventInv, (\E k \in Counter : Count(k)) \/ CgroupGoes \/ ContainerStops \/ RunAgain
  PROVE  EventInv'
  <1>0. UNCHANGED <<stream, previous, current, reported>> /\ EventTypeOK
    BY Zenon DEF Count, CgroupGoes, ContainerStops, RunAgain, EventInv
  <1>1. ASSUME NEW k \in Counter
        PROVE  /\ BaselineRead(k)' = BaselineRead(k) /\ YetToRead(k)' = YetToRead(k)
               /\ ReadAgain(k)' = ReadAgain(k)
               /\ counter[k] \in Reading /\ previous[k] \in Reading /\ current[k] \in Reading
               /\ happened[k] \in Nat /\ reported[k] \in Nat /\ ReportInv(k) /\ ExactInv(k)
               /\ Delta(k, previous[k], current[k]) \in Nat
    BY <1>0, DeltaFact, Zenon DEF BaselineRead, YetToRead, ReadAgain, EventTypeOK, EventInv
  <1>2. ASSUME NEW j \in Counter, Count(j) PROVE EventInv'
    <2>1. /\ runs' = runs /\ counter[j] < MaxCount
          /\ counter' = [counter EXCEPT ![j] = counter[j] + 1]
          /\ happened' = [happened EXCEPT ![j] = happened[j] + 1]
      BY <1>2, Zenon DEF Count
    <2>2. /\ counter[j] + 1 \in Reading /\ counter[j] + 1 # NoFile /\ counter[j] # NoFile
      BY <1>1, <2>1, ReadingFact
    <2>3. EventTypeOK'
      BY <1>0, <2>1, <2>2 DEF EventTypeOK
    <2>4. ASSUME NEW k \in Counter PROVE ReportInv(k)' /\ ExactInv(k)'
      <3>1. CASE k # j
        <4>1. counter'[k] = counter[k] /\ happened'[k] = happened[k]
          BY <1>0, <2>1, <3>1, Zenon DEF EventTypeOK
        <4> QED
          BY <1>0, <1>1, <2>1, <4>1, Zenon DEF ReportInv, ExactInv
      <3>2. CASE k = j
        <4>1. counter'[k] = counter[k] + 1 /\ happened'[k] = happened[k] + 1
          BY <1>0, <2>1, <3>2, Zenon DEF EventTypeOK
        <4>2. \A a \in Reading : /\ Delta(k, a, counter[k] + 1) <= Delta(k, a, counter[k]) + 1
                                 /\ Delta(k, a, counter[k] + 1) \in Nat /\ Delta(k, a, counter[k]) \in Nat
          BY <1>1, <2>1, <2>2, <3>2, DeltaFact, Zenon
        <4>3. ReportInv(k)'
          BY <1>0, <1>1, <4>1, <4>2 DEF ReportInv
        <4>4. ExactInv(k)'
          <5>1. counter[k] \in Nat /\ previous[k] \in Nat /\ current[k] \in Nat
            BY <1>1, ReadingFact
          <5>2. /\ runs' = runs /\ counter[k] # NoFile /\ previous'[k] = previous[k]
                /\ current'[k] = current[k] /\ reported'[k] = reported[k]
            BY <1>0, <2>1, <2>2, <3>2, Zenon
          <5> QED
            BY <1>1, <4>1, <5>1, <5>2 DEF ExactInv
        <4> QED
          BY <4>3, <4>4, Zenon
      <3> QED
        BY <3>1, <3>2, Zenon
    <2> QED
      BY <2>3, <2>4, Zenon DEF EventInv
  <1>3. CASE CgroupGoes \/ RunAgain
    <2>1. /\ happened' = happened /\ runs' \in Nat \ {0}
          /\ \/ counter' = [k \in Counter |-> NoFile]
             \/ counter' = [k \in Counter |-> 0] /\ runs' # 1
      BY <1>0, <1>3 DEF CgroupGoes, RunAgain, Gone, Zero, EventTypeOK
    <2>2. EventTypeOK'
      <3>1. 0 \in Reading /\ NoFile \in Reading
        BY ReadingFact
      <3> QED
        BY <1>0, <2>1, <3>1, Zenon DEF EventTypeOK
    <2>3. ASSUME NEW k \in Counter PROVE ReportInv(k)' /\ ExactInv(k)'
      <3>1. counter'[k] = NoFile \/ (counter'[k] = 0 /\ runs' # 1)
        BY <2>1, Zenon
      <3>2. \A a \in Reading : /\ Delta(k, a, counter'[k]) = 0
                               /\ Delta(k, a, counter[k]) \in Nat
        BY <1>1, <3>1, DeltaFact, Zenon
      <3>3. ReportInv(k)'
        BY <1>0, <1>1, <2>1, <3>2 DEF ReportInv
      <3> QED
        BY <3>1, <3>3, Zenon DEF ExactInv
    <2> QED
      BY <2>2, <2>3, Zenon DEF EventInv
  <1>4. CASE ContainerStops
    BY <1>0, <1>1, <1>4, Zenon DEF ContainerStops, EventInv, EventTypeOK, ReportInv, ExactInv
  <1> QED
    BY <1>2, <1>3, <1>4, Zenon

\* What a step of the stream does with one counter.
StreamStepKeeps(k) ==
    /\ counter'[k] = counter[k] /\ runs' = runs
    /\ \/ /\ ~BaselineRead(k)' /\ ~YetToRead(k)' /\ ~ReadAgain(k)'
          /\ reported'[k] = reported[k]
          /\ \/ happened'[k] = happened[k]
             \/ happened'[k] = 0 /\ reported[k] = 0
       \/ /\ BaselineRead(k)' /\ ~YetToRead(k)' /\ ~ReadAgain(k)'
          /\ reported'[k] = reported[k] /\ reported[k] = 0
          /\ \/ current'[k] = counter[k] /\ happened'[k] = 0
             \/ BaselineRead(k) /\ UNCHANGED <<current[k], happened[k]>>
       \/ /\ ~BaselineRead(k)' /\ YetToRead(k)' /\ ~ReadAgain(k)'
          /\ happened'[k] = happened[k]
          /\ \/ YetToRead(k) /\ UNCHANGED <<previous[k], reported[k]>>
             \/ BaselineRead(k) /\ reported[k] = 0 /\ reported'[k] = reported[k] /\ previous'[k] = current[k]
             \/ /\ ReadAgain(k) /\ previous'[k] = current[k]
                /\ reported'[k] = reported[k] + Delta(k, previous[k], current[k])
       \/ /\ ~BaselineRead(k)' /\ ~YetToRead(k)' /\ ReadAgain(k)'
          /\ UNCHANGED <<happened[k], previous[k], reported[k]>>
          /\ \/ YetToRead(k) /\ current'[k] = counter[k]
             \/ ReadAgain(k) /\ current'[k] = current[k]

LEMMA StreamStepKeepsInv ==
  ASSUME EventTypeOK, NEW k \in Counter, ReportInv(k), ExactInv(k), StreamStepKeeps(k),
         stream' \in {"idle", "baseline_cpu", "baseline_events", "baseline"} => reported'[k] = 0
  PROVE  ReportInv(k)' /\ ExactInv(k)'
  <1> DEFINE c == counter[k]  p == previous[k]  u == current[k]  h == happened[k]  r == reported[k]
  <1>1. /\ c \in Reading /\ p \in Reading /\ u \in Reading /\ h \in Nat /\ r \in Nat
        /\ c \in Nat /\ p \in Nat /\ u \in Nat
    BY ReadingFact DEF EventTypeOK
  <1>2. /\ \A a, b \in Reading : Delta(k, a, b) \in Nat
        /\ Delta(k, c, c) = 0
    BY <1>1, DeltaFact, Zenon
  <1>2a. Delta(k, p, c) \in Nat /\ Delta(k, p, u) \in Nat /\ Delta(k, u, c) \in Nat
    BY <1>1, <1>2, Zenon
  <1>3. p <= u /\ u <= c /\ c # NoFile => Delta(k, p, u) = u - p
    <2>1. p <= u /\ u <= c /\ c # NoFile => u # NoFile
      BY <1>1, ReadingFact
    <2> QED
      BY <1>1, <2>1, DeltaFact, Zenon
  <1>4. /\ r <= h
        /\ BaselineRead(k) => Delta(k, u, c) <= h
        /\ YetToRead(k) => r + Delta(k, p, c) <= h
        /\ ReadAgain(k) => r + Delta(k, p, u) + Delta(k, u, c) <= h
    BY Zenon DEF ReportInv
  <1>5. (runs = 1 /\ c # NoFile) =>
            /\ BaselineRead(k) => u <= c /\ c = h + u
            /\ YetToRead(k) => p <= c /\ r + c = h + p
            /\ ReadAgain(k) => p <= u /\ u <= c /\ r + c = h + p
    BY Zenon DEF ExactInv
  <1>6. counter'[k] = c /\ runs' = runs
    BY Zenon DEF StreamStepKeeps
  <1>7. CASE /\ ~BaselineRead(k)' /\ ~YetToRead(k)' /\ ~ReadAgain(k)'
             /\ reported'[k] = reported[k]
             /\ \/ happened'[k] = happened[k]
                \/ happened'[k] = 0 /\ reported[k] = 0
    <2>1. reported'[k] <= happened'[k]
      BY <1>1, <1>4, <1>7
    <2> QED
      BY <1>7, <2>1, Zenon DEF ReportInv, ExactInv
  <1>8. CASE /\ BaselineRead(k)' /\ ~YetToRead(k)' /\ ~ReadAgain(k)'
             /\ reported'[k] = reported[k] /\ reported[k] = 0
             /\ \/ current'[k] = counter[k] /\ happened'[k] = 0
                \/ BaselineRead(k) /\ UNCHANGED <<current[k], happened[k]>>
    <2>1. CASE current'[k] = c /\ happened'[k] = 0
      <3>1. /\ reported'[k] <= happened'[k] /\ Delta(k, current'[k], counter'[k]) <= happened'[k]
            /\ current'[k] <= counter'[k] /\ counter'[k] = happened'[k] + current'[k]
        BY <1>1, <1>2, <1>6, <1>8, <2>1
      <3> QED
        BY <1>8, <3>1, Zenon DEF ReportInv, ExactInv
    <2>2. CASE BaselineRead(k) /\ current'[k] = u /\ happened'[k] = h
      <3>1. /\ reported'[k] <= happened'[k] /\ Delta(k, current'[k], counter'[k]) <= happened'[k]
        BY <1>4, <1>6, <1>8, <2>2, Zenon
      <3>2. (runs' = 1 /\ counter'[k] # NoFile) =>
                current'[k] <= counter'[k] /\ counter'[k] = happened'[k] + current'[k]
        BY <1>5, <1>6, <2>2, Zenon
      <3> QED
        BY <1>8, <3>1, <3>2, Zenon DEF ReportInv, ExactInv
    <2> QED
      BY <1>8, <2>1, <2>2, Zenon
  <1>9. CASE /\ ~BaselineRead(k)' /\ YetToRead(k)' /\ ~ReadAgain(k)'
             /\ happened'[k] = happened[k]
             /\ \/ YetToRead(k) /\ UNCHANGED <<previous[k], reported[k]>>
                \/ BaselineRead(k) /\ reported[k] = 0 /\ reported'[k] = reported[k] /\ previous'[k] = current[k]
                \/ /\ ReadAgain(k) /\ previous'[k] = current[k]
                   /\ reported'[k] = reported[k] + Delta(k, previous[k], current[k])
    <2> DEFINE Kept == /\ reported'[k] + Delta(k, previous'[k], c) <= h /\ reported'[k] <= h
                       /\ (runs = 1 /\ c # NoFile) =>
                              previous'[k] <= c /\ reported'[k] + c = h + previous'[k]
    <2>1. ASSUME YetToRead(k), previous'[k] = p, reported'[k] = r PROVE Kept
      BY <1>4, <1>5, <2>1, Zenon
    <2>2. ASSUME BaselineRead(k), r = 0, reported'[k] = r, previous'[k] = u PROVE Kept
      BY <1>1, <1>2a, <1>4, <1>5, <2>2
    <2>3. ASSUME ReadAgain(k), previous'[k] = u, reported'[k] = r + Delta(k, p, u) PROVE Kept
      <3>1. reported'[k] + Delta(k, previous'[k], c) <= h /\ reported'[k] <= h
        BY <1>1, <1>2a, <1>4, <2>3
      <3>2. (runs = 1 /\ c # NoFile) => previous'[k] <= c /\ reported'[k] + c = h + previous'[k]
        BY <1>1, <1>3, <1>5, <2>3
      <3> QED
        BY <3>1, <3>2, Zenon
    <2>4. Kept
      BY <1>9, <2>1, <2>2, <2>3, Zenon
    <2> QED
      BY <1>6, <1>9, <2>4, Zenon DEF ReportInv, ExactInv
  <1>10. CASE /\ ~BaselineRead(k)' /\ ~YetToRead(k)' /\ ReadAgain(k)'
              /\ UNCHANGED <<happened[k], previous[k], reported[k]>>
              /\ \/ YetToRead(k) /\ current'[k] = counter[k]
                 \/ ReadAgain(k) /\ current'[k] = current[k]
    <2>1. reported'[k] <= happened'[k] /\ happened'[k] = h /\ previous'[k] = p /\ reported'[k] = r
      BY <1>4, <1>10, Zenon
    <2>2. r + Delta(k, p, current'[k]) + Delta(k, current'[k], c) <= h
      BY <1>1, <1>2, <1>2a, <1>4, <1>10
    <2>3. (runs = 1 /\ c # NoFile) => p <= current'[k] /\ current'[k] <= c /\ r + c = h + p
      BY <1>1, <1>5, <1>10
    <2> QED
      BY <1>6, <1>10, <2>1, <2>2, <2>3, Zenon DEF ReportInv, ExactInv
  <1> QED
    BY <1>7, <1>8, <1>9, <1>10, Zenon DEF StreamStepKeeps

LEMMA StreamKeepsEvents ==
  ASSUME EventInv, StreamStep
  PROVE  EventInv'
  <1> USE DEF Counter
  <1>0. /\ EventTypeOK /\ UNCHANGED <<counter, runs>>
        /\ counter["mapped"] \in Reading /\ counter["paired"] \in Reading
    BY Zenon DEF EventInv, EventTypeOK, StreamStep, FindCgroup, ReadBaseline, KeepBaseline, LoadStatus, ReadStats, EmitDeltas
  <1>1. SUFFICES /\ EventTypeOK'
                 /\ \A k \in Counter : StreamStepKeeps(k)
                 /\ \A k \in Counter : stream' \in {"idle", "baseline_cpu", "baseline_events", "baseline"} => reported'[k] = 0
    BY <1>0, StreamStepKeepsInv, Zenon DEF EventInv
  <1>2. \A k \in Counter : stream \in {"idle", "baseline_cpu", "baseline_events", "baseline"} => reported[k] = 0
    BY Zenon DEF EventInv, ReportInv
  <1> USE DEF EventTypeOK, StreamStepKeeps, BaselineRead, YetToRead, ReadAgain
  <1>3. CASE FindCgroup
    BY <1>0, <1>2, <1>3, Zenon DEF FindCgroup
  <1>4. CASE ReadBaseline("paired", "baseline_cpu", "baseline_events")
    BY <1>0, <1>2, <1>4, Zenon DEF ReadBaseline, ReadFile
  <1>5. CASE ReadBaseline("mapped", "baseline_events", "baseline")
    BY <1>0, <1>2, <1>5, Zenon DEF ReadBaseline, ReadFile
  <1>6. CASE KeepBaseline
    BY <1>0, <1>2, <1>6, Zenon DEF KeepBaseline
  <1>7. CASE LoadStatus
    BY <1>0, <1>2, <1>7, Zenon DEF LoadStatus
  <1>8. CASE ReadStats("paired", "read_cpu", "read_events")
    BY <1>0, <1>2, <1>8, Zenon DEF ReadStats, ReadFile
  <1>9. CASE ReadStats("mapped", "read_events", "emit")
    BY <1>0, <1>2, <1>9, Zenon DEF ReadStats, ReadFile
  <1>10. CASE EmitDeltas
    <2>1. \A k \in Counter : Delta(k, previous[k], current[k]) \in Nat
      BY <1>0, DeltaFact, Zenon
    <2> QED
      BY <1>0, <1>2, <1>10, <2>1 DEF EmitDeltas, NextSnapshot
  <1> QED
    BY <1>3, <1>4, <1>5, <1>6, <1>7, <1>8, <1>9, <1>10, Zenon DEF StreamStep

\* Whatever the order of reads, increments, removal of the cgroup and reuse of
\* the id, the deltas reported so far and the one still to come never exceed
\* what happened, and match it for one cgroup (stream_counter_events).
THEOREM EventInvariant == EventSpec => []EventInv
  <1>1. EventInv /\ [EventNext]_eventVars => EventInv'
    <2>1. EventInv /\ UNCHANGED eventVars => EventInv'
      BY DEF eventVars, EventInv, EventTypeOK, ReportInv, ExactInv, BaselineRead, YetToRead, ReadAgain
    <2> QED
      BY <2>1, ContainerKeepsEvents, StreamKeepsEvents, Zenon DEF EventNext
  <1> QED
    BY <1>1, InitEvents, PTL DEF EventSpec

\* The events that `events --follow' prints are the increases of the counters,
\* each reported once (append_counter_events).
THEOREM EventSafety == EventSpec => []ReportsAreExact
  <1>1. EventInv => ReportsAreExact
    <2> SUFFICES ASSUME EventInv PROVE ReportsAreExact
      BY Zenon
    <2>1. ReportsHappened
      BY Zenon DEF EventInv, ReportInv, ReportsHappened
    <2>2. ASSUME runs = 1, stream = "sleeping", NEW k \in Counter, counter[k] # NoFile
          PROVE  reported[k] + (counter[k] - previous[k]) = happened[k]
      <3>1. /\ counter[k] \in Nat /\ previous[k] \in Nat /\ reported[k] \in Nat /\ happened[k] \in Nat
            /\ YetToRead(k)
        BY <2>2, ReadingFact DEF EventInv, EventTypeOK, YetToRead
      <3>2. reported[k] + counter[k] = happened[k] + previous[k]
        BY <2>2, <3>1, Zenon DEF EventInv, ExactInv
      <3> QED
        BY <3>1, <3>2
    <2> QED
      BY <2>1, <2>2, Zenon DEF ReportsAreExact, ReportsAddUp
  <1> QED
    BY <1>1, EventInvariant, PTL

-----------------------------------------------------------------------------
(* Collector: the invariant. *)

ColTypeOK ==
    /\ trace \in [Workload \cup Aides -> Unstopped \cup Stops \cup Dead]
    /\ bornOf \in [Kids -> Workload]
    /\ attached \subseteq Workload

\* Root is alive until its status is taken, and a helper until it is handed back.
StatusInv ==
    /\ trace[Root] # "unborn" /\ (rootStatus = "exited" <=> trace[Root] = "gone")
    /\ loop = "returned" => rootStatus = "exited"
    /\ \A a \in Aides : trace[a] = "gone" => a \in reapedOthers

\* What was attached to has been born, and leaves the tracees only by its end.
AttachInv ==
    /\ \A k \in Kids : bornOf[k] # k => trace[k] # "unborn"
    /\ \A p \in attached : trace[p] # "unborn" /\ (p \notin tracees => trace[p] = "gone")
    /\ loop = "returned" => \A p \in attached : trace[p] \in {"zombie", "gone"}

ColInv == ColTypeOK /\ StatusInv /\ AttachInv /\ SignalsPassedOn

-----------------------------------------------------------------------------
(* ExecSession: the invariant. *)

ExecTypeOK ==
    /\ caller \in {"idle", "forked", "waiting", "joining", "judging", "returned", "failed"}
    /\ helper \in {"none", "joining", "polling", "dead"}
    /\ hstatus \in {"none", "0", "1", "128", "signal"}
    /\ program \in {"none", "starting", "running", "dead"}
    /\ pstatus \in {"none", "0", "1", "signal"}
    /\ attempt \in Nat

\* The helper and its program: a helper that was not killed outlives its
\* program and has its status.
HelperInv ==
    /\ hstatus # "none" <=> helper = "dead"
    /\ pstatus # "none" <=> program = "dead"
    /\ helper \in {"none", "joining"} => program = "none"
    /\ helper = "polling" => program # "none"
    /\ helper = "dead" /\ hstatus # "signal" =>
           /\ program \in {"none", "dead"}
           /\ hstatus = "0" <=> pstatus = "0"

\* The caller has the status of the helper it waited for.
CallerInv ==
    /\ caller \in {"forked", "waiting"} => helper # "none"
    /\ caller \in {"joining", "judging", "returned"} \/ (caller = "idle" /\ attempt # 0) =>
           helper = "dead" /\ xresult = hstatus
    /\ caller = "failed" => helper = "dead"
    /\ health # "none" => caller = "returned"
    /\ health = "healthy" => xresult = "0"

ExecInv == ExecTypeOK /\ HelperInv /\ CallerInv

-----------------------------------------------------------------------------
(* Collector: the proof. *)

LEMMA InitCol == CollectorInit => ColInv
  BY PidAssumption DEF CollectorInit, ColInv, ColTypeOK, StatusInv, AttachInv, SignalsPassedOn,
                       Workload, Unstopped, Dead

\* A process that moves from one living state to another, or to its end.
LEMMA WorkloadKeepsCol ==
  ASSUME ColInv, NEW p \in Workload \cup Aides, NEW t \in Unstopped \cup Stops \cup {"zombie"},
         trace[p] \notin Dead, trace' = [trace EXCEPT ![p] = t],
         UNCHANGED <<bornOf, collectorState>>
  PROVE  ColInv'
  <1>1. /\ trace'[p] = t /\ \A q \in (Workload \cup Aides) \ {p} : trace'[q] = trace[q]
        /\ ColTypeOK'
    BY Zenon DEF ColInv, ColTypeOK, collectorState, Dead
  <1>2. t \notin {"unborn", "gone"} /\ trace[p] \notin {"unborn", "zombie", "gone"}
    BY Zenon DEF Unstopped, Stops, Dead
  <1>3. StatusInv'
    BY <1>1, <1>2, Zenon DEF ColInv, StatusInv, Workload, collectorState
  <1>4. AttachInv'
    BY <1>1, <1>2, Zenon DEF ColInv, ColTypeOK, AttachInv, Workload, collectorState
  <1> QED
    BY <1>1, <1>3, <1>4, Zenon DEF ColInv, SignalsPassedOn, collectorState

LEMMA CloneKeepsCol ==
  ASSUME ColInv, NEW p \in Workload, CloneReturns(p)
  PROVE  ColInv'
  <1>1. CASE Move(p, "running") /\ UNCHANGED <<bornOf, collectorState>>
    BY <1>1, WorkloadKeepsCol, Zenon DEF CloneReturns, Move, Unstopped, Dead
  <1>2. ASSUME NEW k \in Kids, trace[k] = "unborn",
               trace' = [trace EXCEPT ![p] = "forked", ![k] = "attach"],
               bornOf' = [bornOf EXCEPT ![k] = p]
        PROVE  ColInv'
    <2>1. UNCHANGED collectorState /\ trace[p] = "cloning" /\ k # p /\ k \in Workload
      BY <1>2, Zenon DEF CloneReturns, Workload
    <2>2. /\ trace'[p] = "forked" /\ trace'[k] = "attach"
          /\ \A q \in (Workload \cup Aides) \ {p, k} : trace'[q] = trace[q]
      BY <1>2, <2>1, Zenon DEF ColInv, ColTypeOK
    <2>3. ColTypeOK'
      BY <1>2, <2>1, Zenon DEF ColInv, ColTypeOK, collectorState, Stops
    <2>4. StatusInv'
      BY <1>2, <2>1, <2>2, PidAssumption, Zenon DEF ColInv, StatusInv, collectorState, Workload
    <2>5. \A j \in Kids : bornOf'[j] # j => trace'[j] # "unborn"
      BY <1>2, <2>1, <2>2, Zenon DEF ColInv, ColTypeOK, AttachInv, Workload
    <2>6. AttachInv'
      BY <1>2, <2>1, <2>2, <2>5, Zenon DEF ColInv, ColTypeOK, AttachInv, collectorState
    <2> QED
      BY <2>1, <2>3, <2>4, <2>6, Zenon DEF ColInv, SignalsPassedOn, collectorState
  <1> QED
    BY <1>1, <1>2, Zenon DEF CloneReturns

LEMMA ReapKeepsCol ==
  ASSUME ColInv, NEW p \in Workload \cup Aides, ReapAide(p) \/ ReapTracee(p)
  PROVE  ColInv'
  <1>1. /\ trace[p] = "zombie" /\ trace' = [trace EXCEPT ![p] = "gone"] /\ loop = "waiting"
        /\ UNCHANGED <<bornOf, attached, lostSignal>>
    BY Zenon DEF ReapAide, ReapTracee, Move
  <1>2. trace'[p] = "gone" /\ \A q \in (Workload \cup Aides) \ {p} : trace'[q] = trace[q]
    BY <1>1, Zenon DEF ColInv, ColTypeOK
  <1>3. ColTypeOK' /\ SignalsPassedOn'
    BY <1>1, Zenon DEF ColInv, ColTypeOK, SignalsPassedOn, Dead
  <1>4. CASE ReapAide(p)
    <2>1. /\ p \in Aides /\ p \notin Workload /\ reapedOthers' = reapedOthers \cup {p}
          /\ UNCHANGED <<tracees, rootStatus, loop>>
      BY <1>4, PidAssumption, Zenon DEF ReapAide, KeptAides
    <2>2. StatusInv'
      BY <1>1, <1>2, <2>1, Zenon DEF ColInv, StatusInv, Workload
    <2>3. AttachInv'
      BY <1>1, <1>2, <2>1, Zenon DEF ColInv, ColTypeOK, AttachInv, Workload
    <2> QED
      BY <1>3, <2>2, <2>3, Zenon DEF ColInv
  <1>5. CASE ReapTracee(p)
    <2>1. /\ p \in Workload /\ p \notin Aides /\ UNCHANGED reapedOthers
          /\ tracees' = tracees \ {p}
          /\ rootStatus' = IF p = Root THEN "exited" ELSE rootStatus
          /\ loop' = "returned" => rootStatus' = "exited" /\ tracees' = {}
      BY <1>5, PidAssumption, Zenon DEF ReapTracee, IsRoot, BreakLoop
    <2>2. StatusInv'
      BY <1>1, <1>2, <2>1, Zenon DEF ColInv, StatusInv, Workload
    <2>3. AttachInv'
      BY <1>1, <1>2, <2>1, Zenon DEF ColInv, ColTypeOK, AttachInv, Workload
    <2> QED
      BY <1>3, <2>2, <2>3, Zenon DEF ColInv
  <1> QED
    BY <1>4, <1>5, Zenon

\* A stop is served: the process runs on and one process may join the tracees.
LEMMA StopKeepsCol ==
  ASSUME ColInv, NEW p \in Workload, HandleEvent(p) \/ HandleStop(p)
  PROVE  ColInv'
  <1>1. /\ loop = "waiting" /\ UNCHANGED <<rootStatus, reapedOthers, loop>>
        /\ trace[p] \in Stops
        /\ \E t \in {"cloning", "running", "raising", "group"} : trace' = [trace EXCEPT ![p] = t]
    BY Zenon DEF HandleEvent, HandleStop, Move, ResumeEvent, Stops
  <1>2. /\ trace'[p] \in {"cloning", "running", "raising", "group"}
        /\ \A q \in (Workload \cup Aides) \ {p} : trace'[q] = trace[q]
        /\ trace' \in [Workload \cup Aides -> Unstopped \cup Stops \cup Dead]
    BY <1>1 DEF ColInv, ColTypeOK, Unstopped, Stops
  <1>3. trace[p] \notin {"unborn", "zombie", "gone"}
    BY <1>1, Zenon DEF Stops
  <1>4. StatusInv'
    BY <1>1, <1>2, <1>3, Zenon DEF ColInv, StatusInv, Workload
  <1>5. SignalsPassedOn'
    BY Zenon DEF ColInv, SignalsPassedOn, HandleEvent, HandleStop, Silenced
  <1>6. \/ bornOf' = bornOf /\ tracees' = tracees /\ attached' = attached
        \/ bornOf' = bornOf /\ tracees' = tracees \cup {p} /\ attached' = attached \cup {p}
        \/ \E k \in Kids : /\ k # p /\ bornOf[k] = p /\ bornOf' = [bornOf EXCEPT ![k] = k]
                           /\ tracees' = tracees \cup {k} /\ attached' = attached \cup {k}
    BY Zenon DEF HandleEvent, HandleStop, Attach
  <1>7. ColTypeOK' /\ \A k \in Kids : bornOf'[k] = bornOf[k] \/ bornOf'[k] = k
    BY <1>2, <1>6 DEF ColInv, ColTypeOK, Workload
  <1>8. \A k \in Kids : trace'[k] = "unborn" <=> trace[k] = "unborn"
    BY <1>2, <1>3, Zenon DEF Workload
  <1>9. \A q \in attached' : /\ trace'[q] # "unborn"
                             /\ q \notin tracees' => q \in attached /\ q \notin tracees
    BY <1>2, <1>3, <1>6, <1>8 DEF ColInv, ColTypeOK, AttachInv, Workload
  <1>10. AttachInv'
    BY <1>1, <1>2, <1>3, <1>7, <1>8, <1>9, Zenon DEF ColInv, ColTypeOK, AttachInv
  <1> QED
    BY <1>4, <1>5, <1>7, <1>10, Zenon DEF ColInv

\* For any workload and any helpers: ColInv is inductive.
THEOREM CollectorInvariant == CollectorSpec => []ColInv
  <1>1. ColInv /\ [CollectorNext]_colVars => ColInv'
    <2> SUFFICES ASSUME ColInv, [CollectorNext]_colVars PROVE ColInv'
      BY Zenon
    <2>1. CASE RootStops \/ RootRaises
      BY <2>1, WorkloadKeepsCol, Zenon DEF RootStops, RootRaises, Move, Workload, Unstopped, Stops, Dead
    <2>2. ASSUME NEW p \in Workload, TraceeStops(p) \/ WorkloadEnds(p) PROVE ColInv'
      BY <2>2, WorkloadKeepsCol, Zenon DEF TraceeStops, WorkloadEnds, Move, Unstopped, Stops, Dead
    <2>3. ASSUME NEW a \in Aides, AideEnds(a) PROVE ColInv'
      BY <2>3, WorkloadKeepsCol, Zenon DEF AideEnds, Move, Dead
    <2>4. CASE NoChildLeft
      <3>1. /\ UNCHANGED <<trace, bornOf, tracees, attached, rootStatus, reapedOthers, lostSignal>>
            /\ loop' = "returned" /\ \A p \in Workload \cup Aides : trace[p] \in {"unborn", "gone"}
        BY <2>4, Zenon DEF NoChildLeft, Echild
      <3> QED
        BY <3>1, Zenon DEF ColInv, ColTypeOK, StatusInv, AttachInv, SignalsPassedOn, Workload
    <2>5. CASE UNCHANGED colVars
      BY <2>5, Zenon DEF colVars, ColInv, ColTypeOK, StatusInv, AttachInv, SignalsPassedOn
    <2> QED
      BY <2>1, <2>2, <2>3, <2>4, <2>5, CloneKeepsCol, ReapKeepsCol, StopKeepsCol, Zenon
         DEF CollectorNext, Serve
  <1>2. CollectorSpec => CollectorInit /\ [][CollectorNext]_colVars
    BY Zenon DEF CollectorSpec
  <1> QED
    BY <1>1, <1>2, InitCol, PTL

\* The collector never returns without the status of the container process or
\* of a helper it reaped, nor before the processes it attached to have ended, in
\* whatever order waitpid(-1) reports any number of them.
THEOREM CollectorSafety == CollectorSpec => []CollectorLosesNothing
  <1>1. ColInv => CollectorLosesNothing
    BY Zenon DEF ColInv, StatusInv, AttachInv, CollectorLosesNothing, RootStatusKnown, AideStatusKept,
           AttachedAreAwaited, Dead
  <1> QED
    BY <1>1, CollectorInvariant, PTL

-----------------------------------------------------------------------------
(* ExecSession: the proof. *)

LEMMA InitExec == ExecInit => ExecInv
  BY DEF ExecInit, ExecInv, ExecTypeOK, HelperInv, CallerInv

LEMMA CallerKeepsExec ==
  ASSUME ExecInv,
         ExecInContainer \/ AddToCgroup \/ AddToCgroupFails \/ WaitForExecHelper \/ JoinProxy \/ Judge
  PROVE  ExecInv'
  <1> USE DEF ExecInv, ExecTypeOK, HelperInv, CallerInv
  <1>1. CASE ExecInContainer
    BY <1>1 DEF ExecInContainer
  <1>2. CASE AddToCgroup \/ JoinProxy
    BY <1>2, Zenon DEF AddToCgroup, JoinProxy
  <1>3. CASE AddToCgroupFails
    BY <1>3, Zenon DEF AddToCgroupFails
  <1>4. CASE WaitForExecHelper
    BY <1>4, Zenon DEF WaitForExecHelper, ExitOf
  <1>5. CASE Judge
    BY <1>5, Zenon DEF Judge
  <1> QED
    BY <1>1, <1>2, <1>3, <1>4, <1>5, Zenon

LEMMA HelperKeepsExec ==
  ASSUME ExecInv,
         \/ RunNamespaceHelper \/ HelperFails \/ ExecCommand \/ ExecProgramEnds \/ DescendantEnds
         \/ PollExecChild \/ ExecTimeout
  PROVE  ExecInv'
  <1> USE DEF ExecInv, ExecTypeOK, HelperInv, CallerInv
  <1>1. CASE RunNamespaceHelper
    BY <1>1, Zenon DEF RunNamespaceHelper
  <1>2. CASE HelperFails
    BY <1>2, Zenon DEF HelperFails, HelperExits
  <1>3. CASE ExecCommand
    BY <1>3, Zenon DEF ExecCommand, ProgramDies
  <1>4. CASE ExecProgramEnds
    BY <1>4, Zenon DEF ExecProgramEnds, ProgramDies
  <1>5. CASE DescendantEnds
    BY <1>5 DEF DescendantEnds
  <1>6. CASE PollExecChild
    BY <1>6, Zenon DEF PollExecChild, HelperExits, HelperCode
  <1>7. CASE ExecTimeout
    BY <1>7, Zenon DEF ExecTimeout, KillProgram, ProgramDies
  <1> QED
    BY <1>1, <1>2, <1>3, <1>4, <1>5, <1>6, <1>7, Zenon

\* For any number of retries: ExecInv is inductive.
THEOREM ExecInvariant == ExecSpec => []ExecInv
  <1>1. ExecInv /\ [ExecNext]_execVars => ExecInv'
    <2>1. ASSUME ExecInv, UNCHANGED execVars PROVE ExecInv'
      BY <2>1 DEF execVars, ExecInv, ExecTypeOK, HelperInv, CallerInv
    <2> QED
      BY <2>1, CallerKeepsExec, HelperKeepsExec, Zenon DEF ExecNext, ExecStep
  <1> QED
    BY <1>1, InitExec, PTL DEF ExecSpec

\* What exec and the health probe report is what happened to the program, which
\* is over by then, however many attempts fail, time out or lose their helper.
THEOREM SessionSafety == ExecSpec => []SessionIsOver
  <1>1. ExecInv => SessionIsOver
    BY DEF ExecInv, ExecTypeOK, HelperInv, CallerInv, SessionIsOver, HealthyMeansZero,
           ExitCodePassesThrough, NoProgramLeft
  <1> QED
    BY <1>1, ExecInvariant, PTL

-----------------------------------------------------------------------------
(* ProcessIdentity. *)

USE MaxStartAssumption DEF Start, Label, ProcState, Effect, NoEffect, NoFds

\* The initial state satisfies the inductive invariant.
LEMMA InitIdentityInv == Init => IdentityInv
  BY DEF Init, IdentityInv, TypeOK, Bracketed,
         SignalsOnlyTheRecordedProcess, JoinsOnlyTheRecordedProcess

\* A step of the kernel keeps the invariant: an incarnation number never falls.
LEMMA KernelKeepsInv ==
  ASSUME NEW p \in Pid, IdentityInv, Kernel(p)
  PROVE  IdentityInv'
  <1>1. /\ UNCHANGED <<pc, token, fd, nsfd, effect>>
        /\ proc' \in [Pid -> [start : Start, state : ProcState]]
        /\ \A q \in Pid : proc[q].start <= proc'[q].start
    <2>0. /\ proc \in [Pid -> [start : Start, state : ProcState]]
          /\ \A q \in Pid : proc[q].start \in Nat
      BY DEF IdentityInv, TypeOK
    <2>1. CASE Spawn(p)
      BY <2>0, <2>1 DEF Spawn
    <2>2. CASE Exit(p)
      BY <2>0, <2>2 DEF Exit
    <2>3. CASE Reap(p)
      BY <2>0, <2>3 DEF Reap
    <2> QED
      BY <2>1, <2>2, <2>3, Zenon DEF Kernel
  <1>2. TypeOK'
    BY <1>1, Zenon DEF IdentityInv, TypeOK
  <1>3. ASSUME NEW c \in Client PROVE Bracketed(c)'
    <2>1. /\ Bracketed(c)
          /\ token[c].pid \in Pid
          /\ token[c].start \in Nat /\ fd[c] \in Nat
          /\ \A n \in Namespace : nsfd[c][n] \in Nat
          /\ proc[token[c].pid].start \in Nat /\ proc'[token[c].pid].start \in Nat
      BY <1>1 DEF IdentityInv, TypeOK
    <2>2. proc[token[c].pid].start <= proc'[token[c].pid].start
      BY <1>1, <2>1, Zenon
    <2> QED
      BY <1>1, <2>1, <2>2 DEF Bracketed
  <1>4. (SignalsOnlyTheRecordedProcess /\ JoinsOnlyTheRecordedProcess)'
    BY <1>1, Zenon DEF IdentityInv,
           SignalsOnlyTheRecordedProcess, JoinsOnlyTheRecordedProcess
  <1> QED
    BY <1>2, <1>3, <1>4, Zenon DEF IdentityInv

\* A step of one client keeps the invariant for that client and the others.
LEMMA UseKeepsInv ==
  ASSUME NEW c \in Client, IdentityInv, Use(c)
  PROVE  IdentityInv'
  <1>t. TypeOK
    BY Zenon DEF IdentityInv
  <1>s. SignalsOnlyTheRecordedProcess /\ JoinsOnlyTheRecordedProcess
    BY Zenon DEF IdentityInv
  <1>a. /\ token[c].pid \in Pid
        /\ token[c].start \in Nat /\ fd[c] \in Nat
        /\ proc[token[c].pid].start \in Nat
        /\ \A n \in Namespace : nsfd[c][n] \in Nat
        /\ Bracketed(c)
    BY <1>t DEF IdentityInv, TypeOK
  \* A step that only moves c keeps the types.
  <1>g. ASSUME NEW l \in Label, Goto(c, l)
        PROVE  TypeOK'
    <2>1. pc' \in [Client -> Label] /\ UNCHANGED <<proc, token, fd, nsfd, effect>>
      <3> HIDE DEF Label
      <3> QED BY <1>g, <1>t, Zenon DEF Goto, TypeOK
    <2> QED
      <3> HIDE DEF Label, Effect
      <3> QED BY <1>t, <2>1, Zenon DEF TypeOK
  \* Nothing of another client changes, so its part follows from the old one.
  <1>b. ASSUME proc' = proc,
               \A d \in Client \ {c} : /\ pc'[d] = pc[d] /\ token'[d] = token[d]
                                       /\ fd'[d] = fd[d] /\ nsfd'[d] = nsfd[d]
                                       /\ effect'[d] = effect[d],
               TypeOK', Bracketed(c)',
               effect'[c].kind = "signal" => effect'[c].hit = {effect'[c].wanted},
               effect'[c].kind = "setns" => effect'[c].hit \subseteq {effect'[c].wanted}
        PROVE  IdentityInv'
    <2>1. ASSUME NEW d \in Client PROVE Bracketed(d)'
      <3>1. CASE d = c
        BY <1>b, <3>1, Zenon
      <3>2. CASE d # c
        BY <1>b, <3>2 DEF IdentityInv, Bracketed
      <3> QED
        BY <3>1, <3>2, Zenon
    <2>2. (SignalsOnlyTheRecordedProcess /\ JoinsOnlyTheRecordedProcess)'
      BY <1>b, <1>s, Zenon DEF SignalsOnlyTheRecordedProcess, JoinsOnlyTheRecordedProcess
    <2> QED
      BY <1>s, <1>t, <1>b, <2>1, <2>2, Zenon DEF TypeOK, IdentityInv
  <1>c. CASE Fail(c)
    <2>1. TypeOK'
      BY <1>t, <1>c, <1>a DEF TypeOK, Fail
    <2>2. Bracketed(c)'
      BY <1>t, <1>c, <1>a, Zenon DEF TypeOK, Fail, Bracketed
    <2> QED
      BY <1>s, <1>t, <1>c, <1>b, <2>1, <2>2 DEF TypeOK, Fail,
           SignalsOnlyTheRecordedProcess, JoinsOnlyTheRecordedProcess
  <1>1. CASE LoadToken(c)
    <2>1. PICK p \in Pid, s \in Start :
              token' = [token EXCEPT ![c] = [pid |-> p, start |-> s]]
      <3>1. PICK p \in Pid : \E s \in 0 .. proc[p].start :
              token' = [token EXCEPT ![c] = [pid |-> p, start |-> s]]
        BY <1>1, Zenon DEF LoadToken
      <3>2. \A s \in 0 .. proc[p].start : s \in Start
        BY <1>t DEF TypeOK
      <3> QED
        BY <3>1, <3>2, Zenon
    <2>2. TypeOK'
      BY <1>t, <1>1, <2>1, Zenon DEF TypeOK, LoadToken
    <2>3. Bracketed(c)'
      BY <1>t, <1>1, <1>a, Zenon DEF TypeOK, LoadToken, Bracketed
    <2> QED
      BY <1>s, <1>t, <1>1, <1>b, <2>1, <2>2, <2>3 DEF TypeOK, LoadToken,
         SignalsOnlyTheRecordedProcess, JoinsOnlyTheRecordedProcess
  <1>2. CASE OpenCheck(c)
    <2>f. CASE Fail(c)
      BY <1>c, <2>f, Zenon
    <2>g. CASE ~Fail(c)
      <3>1. TypeOK'
        BY <2>g, <1>2, <1>g, Zenon DEF OpenCheck
      <3>2. Bracketed(c)'
        BY <1>t, <2>g, <1>2, <1>a DEF TypeOK, OpenCheck, Goto, ProcessStarttimeIs, Bracketed
      <3> QED
        BY <1>s, <1>t, <2>g, <1>2, <1>b, <3>1, <3>2, Zenon DEF TypeOK, OpenCheck, Goto, ProcessStarttimeIs,
           SignalsOnlyTheRecordedProcess, JoinsOnlyTheRecordedProcess
    <2> QED
      BY <2>f, <2>g, Zenon
  <1>3. CASE PidfdOpen(c)
    <2>f. CASE Fail(c)
      BY <1>c, <2>f, Zenon
    <2>g. CASE ~Fail(c)
      <3>1. TypeOK'
        <4>1. /\ fd' = [fd EXCEPT ![c] = proc[token[c].pid].start]
              /\ pc' = [pc EXCEPT ![c] = "opened"]
              /\ UNCHANGED <<proc, token, nsfd, effect>>
          BY <2>g, <1>3, Zenon DEF PidfdOpen
        <4>2. proc[token[c].pid].start \in Start /\ "opened" \in Label
          BY <1>t, <1>a, Zenon DEF TypeOK
        <4> HIDE DEF Start, Label, Effect
        <4> QED BY <1>t, <4>1, <4>2, Zenon DEF TypeOK
      <3>2. Bracketed(c)'
        BY <1>t, <2>g, <1>3, <1>a DEF TypeOK, PidfdOpen, Bracketed
      <3> QED
        BY <1>s, <1>t, <2>g, <1>3, <1>b, <3>1, <3>2 DEF TypeOK, PidfdOpen,
           SignalsOnlyTheRecordedProcess, JoinsOnlyTheRecordedProcess
    <2> QED
      BY <2>f, <2>g, Zenon
  <1>4. CASE OpenVerify(c)
    <2>f. CASE Fail(c)
      BY <1>c, <2>f, Zenon
    <2>g. CASE ~Fail(c)
      <3>1. TypeOK'
        BY <2>g, <1>4, <1>g, Zenon DEF OpenVerify
      <3>2. Bracketed(c)'
        <4>1. /\ pc[c] = "opened" /\ proc[token[c].pid].start = token[c].start
              /\ pc' = [pc EXCEPT ![c] = "held"]
              /\ UNCHANGED <<proc, token, fd, nsfd, effect>>
          BY <2>g, <1>4, Zenon DEF OpenVerify, Verify, Goto, ProcessStarttimeIs
        <4>a. /\ token[c].start <= fd[c] /\ fd[c] <= proc[token[c].pid].start
              /\ nsfd[c] = NoFds
          BY <4>1, <1>a, Zenon DEF Bracketed
        <4>b. token[c].start \in Nat /\ fd[c] \in Nat
          BY <1>a, Zenon
        <4>2. fd[c] = token[c].start /\ nsfd[c] = NoFds
          BY <4>a, <4>b, <4>1
        <4>3. pc'[c] = "held" /\ proc' = proc /\ token' = token /\ fd' = fd /\ nsfd' = nsfd
          BY <4>1, <1>t, Zenon DEF TypeOK
        <4>4. token[c].start <= proc[token[c].pid].start
          BY <4>1, <1>a
        <4> QED
          BY <4>2, <4>3, <4>4, Zenon DEF Bracketed
      <3> QED
        BY <1>s, <1>t, <2>g, <1>4, <1>b, <3>1, <3>2, Zenon DEF TypeOK, OpenVerify, Verify, Goto, ProcessStarttimeIs,
           SignalsOnlyTheRecordedProcess, JoinsOnlyTheRecordedProcess
    <2> QED
      BY <2>f, <2>g, Zenon
  <1>5. CASE SendVerify(c)
    <2>f. CASE Fail(c)
      BY <1>c, <2>f, Zenon
    <2>g. CASE ~Fail(c)
      <3>1. TypeOK'
        BY <2>g, <1>5, <1>g, Zenon DEF SendVerify
      <3>2. Bracketed(c)'
        BY <1>t, <2>g, <1>5, <1>a, Zenon DEF TypeOK, SendVerify, Goto, Bracketed
      <3> QED
        BY <1>s, <1>t, <2>g, <1>5, <1>b, <3>1, <3>2, Zenon DEF TypeOK, SendVerify, Goto,
           SignalsOnlyTheRecordedProcess, JoinsOnlyTheRecordedProcess
    <2> QED
      BY <2>f, <2>g, Zenon
  <1>6. CASE SendSignal(c)
    <2>f. CASE Fail(c)
      BY <1>c, <2>f, Zenon
    <2>g. CASE ~Fail(c)
      <3>e. /\ effect' = [effect EXCEPT ![c] =
                   [kind |-> "signal", wanted |-> token[c].start, hit |-> {fd[c]}]]
            /\ fd[c] = token[c].start
        BY <2>g, <1>6, <1>a, Zenon DEF SendSignal, Bracketed
      <3>0. [kind |-> "signal", wanted |-> token[c].start, hit |-> {fd[c]}] \in Effect
        BY <1>t DEF TypeOK
      <3>1. TypeOK'
        <4>1. /\ pc' = [pc EXCEPT ![c] = "idle"] /\ fd' = [fd EXCEPT ![c] = 0]
              /\ UNCHANGED <<proc, token, nsfd>>
          BY <2>g, <1>6, Zenon DEF SendSignal
        <4>2. effect' \in [Client -> Effect]
          BY <3>e, <3>0, <1>t, Zenon DEF TypeOK
        <4>3. "idle" \in Label
          BY Zenon DEF Label
        <4>4. 0 \in Start
          BY DEF Start
        <4>5. pc' \in [Client -> Label]
          BY <4>1, <4>3, <1>t, Zenon DEF TypeOK
        <4>6. fd' \in [Client -> Start]
          BY <4>1, <4>4, <1>t, Zenon DEF TypeOK
        <4> QED
          BY <4>1, <4>2, <4>5, <4>6, <1>t, Zenon DEF TypeOK
      <3>2. Bracketed(c)'
        BY <1>t, <2>g, <1>6, <1>a, Zenon DEF TypeOK, SendSignal, Bracketed
      <3> QED
        BY <1>s, <1>t, <2>g, <1>6, <1>b, <3>1, <3>2, <3>e DEF TypeOK, SendSignal,
           SignalsOnlyTheRecordedProcess, JoinsOnlyTheRecordedProcess
    <2> QED
      BY <2>f, <2>g, Zenon
  <1>7. ASSUME NEW n \in Namespace, OpenNamespace(c, n)
        PROVE  IdentityInv'
    <2>f. CASE Fail(c)
      BY <1>c, <2>f, Zenon
    <2>g. CASE ~Fail(c)
      <3>0. /\ nsfd' = [nsfd EXCEPT ![c] =
                   [nsfd[c] EXCEPT ![n] = proc[token[c].pid].start]]
            /\ [nsfd[c] EXCEPT ![n] = proc[token[c].pid].start] \in [Namespace -> Start]
        BY <2>g, <1>7, <1>t, Zenon DEF OpenNamespace, TypeOK
      <3>1. TypeOK'
        BY <1>t, <2>g, <1>7, <1>a, <3>0, Zenon DEF TypeOK, OpenNamespace
      <3>2. Bracketed(c)'
        BY <1>t, <2>g, <1>7, <1>a DEF TypeOK, OpenNamespace, Bracketed
      <3> QED
        BY <1>s, <1>t, <2>g, <1>7, <1>b, <3>1, <3>2 DEF TypeOK, OpenNamespace,
           SignalsOnlyTheRecordedProcess, JoinsOnlyTheRecordedProcess
    <2> QED
      BY <2>f, <2>g, Zenon
  <1>8. CASE JoinVerify(c)
    <2>f. CASE Fail(c)
      BY <1>c, <2>f, Zenon
    <2>g. CASE ~Fail(c)
      <3>1. TypeOK'
        BY <2>g, <1>8, <1>g, Zenon DEF JoinVerify
      <3>2. Bracketed(c)'
        BY <1>t, <2>g, <1>8, <1>a DEF TypeOK, JoinVerify, Verify, Goto, ProcessStarttimeIs, Bracketed
      <3> QED
        BY <1>s, <1>t, <2>g, <1>8, <1>b, <3>1, <3>2, Zenon DEF TypeOK, JoinVerify, Verify, Goto, ProcessStarttimeIs,
           SignalsOnlyTheRecordedProcess, JoinsOnlyTheRecordedProcess
    <2> QED
      BY <2>f, <2>g, Zenon
  <1>9. CASE JoinNamespaces(c)
    <2>e. /\ effect'[c].wanted = token[c].start
          /\ effect'[c].hit = {nsfd[c][n] : n \in Namespace}
          /\ effect'[c].kind = "setns"
          /\ \A n \in Namespace : nsfd[c][n] = token[c].start
      BY <1>t, <1>9, <1>a, Zenon DEF TypeOK, JoinNamespaces, Bracketed
    <2>1. TypeOK'
      BY <1>t, <1>9, <1>a DEF TypeOK, JoinNamespaces
    <2>2. Bracketed(c)'
      BY <1>t, <1>9, <1>a, Zenon DEF TypeOK, JoinNamespaces, Bracketed
    <2> QED
      BY <1>s, <1>t, <1>9, <1>b, <2>1, <2>2, <2>e DEF TypeOK, JoinNamespaces,
           SignalsOnlyTheRecordedProcess, JoinsOnlyTheRecordedProcess
  <1> QED
    BY <1>1, <1>2, <1>3, <1>4, <1>5, <1>6, <1>7, <1>8, <1>9, Zenon DEF Use

\* The inductive invariant holds in every reachable state.
THEOREM IdentityInvariant == Spec => []IdentityInv
  <1>1. IdentityInv /\ [Next]_vars => IdentityInv'
    <2>1. ASSUME IdentityInv, UNCHANGED vars PROVE IdentityInv'
      BY <2>1, Zenon DEF vars, IdentityInv, TypeOK, Bracketed, ProcessStarttimeIs,
                  SignalsOnlyTheRecordedProcess, JoinsOnlyTheRecordedProcess
    <2> QED
      BY <2>1, KernelKeepsInv, UseKeepsInv, Zenon DEF Next
  <1> QED
    BY <1>1, InitIdentityInv, PTL DEF Spec

\* ProcessIdentity::send_signal never signals a process that merely inherited
\* the pid of the recorded one.
THEOREM SignalSafety == Spec => []SignalsOnlyTheRecordedProcess
  <1>1. IdentityInv => SignalsOnlyTheRecordedProcess
    BY Zenon DEF IdentityInv
  <1> QED
    BY <1>1, IdentityInvariant, PTL

\* exec never joins a namespace of a process other than the recorded one.
THEOREM JoinSafety == Spec => []JoinsOnlyTheRecordedProcess
  <1>1. IdentityInv => JoinsOnlyTheRecordedProcess
    BY Zenon DEF IdentityInv
  <1> QED
    BY <1>1, IdentityInvariant, PTL
=============================================================================
