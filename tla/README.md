# minicrun in TLA+

A verification project for `minicrun` (crate `container_runtime`): TLA+ models
of its parts, the TLC runs that check them on small instances, and theorems
that TLAPS checks for every value of the constants. Paths are relative to the
repository's `src/` directory unless they begin with `docs/`.

## The system

minicrun has no daemon. Every subcommand is a process of its own that reads and
changes shared state on the host and ends. `run` and `start` fork the container
and stay in the foreground until it ends (they are called *runners* here). What
the processes share:

| State | Kept by | Guarded by |
|---|---|---|
| `/run/crun-rs/<id>/state.json`, the record of a container | `state/mod.rs` | `flock` on `state.lock` beside it, except in `exists`, `list_raw` and the removal in `delete` |
| the container process, named by (pid, starttime) | kernel; `process_identity.rs` | pidfd and re-reading the starttime |
| cgroup directory, veth pair, iptables rules, `ip_forward` | kernel; `cgroup/mod.rs`, `network/mod.rs` | nothing; the runner, every load of a stale record, and `doctor --fix` all remove them |
| `allocations.json`, the bridge subnets | `network/mod.rs` | a lock directory with an `owner.json` |
| `runtime.log`, the audit log | `audit_log.rs` | `flock` on a lock file beside it |
| overlay directories of a bundle | `filesystem/mod.rs` | the record names their owner |
| imported images | `image.rs` | nothing; `config.json` is written last |

Within one run there are more processes: the runner, the container, a log
helper, a pty proxy with a copier of its standard input, and in learn mode the
runner is a ptrace supervisor as well. They meet through pipes and `waitpid`.

## Modules

| Module | Models | Source |
|---|---|---|
| `Lifecycle` | one container id: record, processes, cgroup, veth, NAT, allocation, and all subcommands as interleaved step sequences | `lifecycle.rs`, `main.rs`, `doctor.rs`, `health.rs`, parts of `container/process.rs`, `state/mod.rs`, `network/mod.rs` |
| `ContainerLifecycle` | the status of an id as its users see it; abstract specification of `Lifecycle` | |
| `StateStore` | the directory of one id, one system call per step | `state/mod.rs` |
| `AtomicStore` | one record, replaced as a whole; abstract specification of `StateStore` | |
| `ProcessIdentity` | the (pid, starttime) token, the pidfd and `join_namespaces` against pid reuse | `process_identity.rs`, `container_exec.rs` |
| `RunProcess` | the processes of one run, their pipes, faults and order of steps | `container/process.rs`, `log_helper.rs`, `pty.rs`, `security/mod.rs`, `userns/mod.rs` |
| `Collector` | the ptrace loop against the kernel's reports in any order | `seccomp/collector.rs` |
| `ExecSession` | an exec or a health probe: helper, program, deadline, pty, exit code | `container_exec.rs`, `health.rs` |
| `ExternalCommand` | a command with a deadline and drained pipes | `command.rs` |
| `BridgeAllocator` | lock directory, `owner.json`, `allocations.json`, one file system call per step | `network/mod.rs` |
| `NatLease` | three rules per runner and the one `ip_forward` | `network/mod.rs` |
| `AuditLog` | append, rotation, reading, and the log's way through a delete | `audit_log.rs`, `lifecycle.rs` |
| `RootfsSetup` | mounts, mount points and their rollback, defaults, covered paths | `filesystem/mod.rs` |
| `Overlay` | the three directories, their owners, who removes them and which records say so | `filesystem/mod.rs`, `container/process.rs`, `lifecycle.rs`, `state/mod.rs`, `doctor.rs` |
| `Cgroup` | controllers, limits, deletion, several containers at once | `cgroup/mod.rs` |
| `EventStream` | the watcher of the counters | `events.rs`, `cgroup/mod.rs` |
| `ImageStore` | imports and the list | `image.rs` |
| `Seccomp` | captures, generated and merged profiles, the compiled filter and what a kernel makes of it | `seccomp/{capture,generate,profile,compile,bpf,mod}.rs` |
| `SeccompReport` | Docker's rules, and what a profile allows beyond them, blocks and mitigates | `seccomp/{baseline,report}.rs` |
| `RunSettings` | from options and `config.json` to the process and the record | `main.rs`, `lifecycle.rs`, `policy.rs`, `namespace/mod.rs`, `seccomp/mod.rs` |
| `BundleConfig` | what `validate` accepts and what later steps refuse; mount options | `spec/config.rs`, `filesystem/mod.rs`, `userns/mod.rs`, `container/process.rs`, ... |
| `RootfsDiff` | the walk over the upper layer against what overlayfs shows | `rootfs_diff.rs` |
| `Checkpoint` | the checks around CRIU | `checkpoint.rs` |
| `MC...` | the instances that TLC checks | |
| `...Proofs` | theorems: `LifecycleProofs` (`Lifecycle`), `RecordProofs` (`StateStore`, `RunSettings`, `SeccompReport`), `RunProofs` (`RunProcess`), `ProcessProofs` (`Collector`, `ExecSession`, `ProcessIdentity`, `EventStream`), `NetworkProofs` (`BridgeAllocator`, `NatLease`), `HostProofs` (`ImageStore`, `BundleConfig`, `Overlay`, `RootfsDiff`, `Cgroup`), `RootfsProofs` (`RootfsSetup`) | |
| `Induction` | lemmas: induction over numbers, for recursive functions | |

How they fit together: `Lifecycle` takes a load or a save of the record to be
one step. `StateStore` is where that is checked: without a delete it implements
`AtomicStore`, with a concurrent delete it does not. `Lifecycle` names a run by
the command that forked it, which stands for the (pid, starttime) pair;
`ProcessIdentity` shows that an action on such a pair reaches no other process.
`Lifecycle` has one bit each for the allocation, the rules and the cgroup of its
id; `BridgeAllocator`, `NatLease` and `Cgroup` open these up for several
containers. It treats the fork and the wait of a runner as steps; `RunProcess`
opens these up, and `Collector` the wait of a learning run. `ExecSession` begins
where the join of `ProcessIdentity` ends.

Modules that share no state in the code are checked in one run, each on its own:
the initial predicate of the `MC` module says that one component starts and the
others are absent. `MCHost` puts twelve modules together in this way, `MCProcesses`
four, `MCNetwork` two.

### Lifecycle

`pc[c]` is the next step of invocation `c`, `snap[c]` the record it loaded, and
`op[c]` its subcommand. Each action is the code between two accesses to shared
state. A cleanup routine (`ParentResources::cleanup`, `cleanup_stale_resources`)
is one step although it touches several resources: a kill in the middle of one,
or another command between two of its removals, is not modelled. `LoadCurrent`
is `refresh_liveness` under the lock, with the cleanup it does for a dead
container. `exit` in the record tells the status the runner reported from the
`STALE` guess of a refresh.

Modelled control that is easy to miss:

- rmdir of a cgroup fails while the process lives, so an error path leaves it;
- `setup_veth_parent` fails if the link exists, and Drop then deletes that link;
- rules found in place are not owned by the lease; deleting rules that are gone
  is an error, and `resources.cleanup()?` then returns before the exit status is
  saved;
- the write to the sync pipe fails for a bridge runner whose child is dead, while
  other runners write no bytes and get no error;
- a bridge child needs the message, any other child goes on when the pipe closes;
- `pid_is_alive` is false for a zombie, `ProcessIdentity::open` succeeds for one,
  so a refresh and doctor disagree on zombies.

Left out: option parsing, containers without a cgroup, and `exec` beyond its
load. An error return of a command that has no side effect is not told apart
from being killed there (`Crash`).

The constants choose the instance: `Repertoire` says which subcommands an
invocation may be, `Networks` whether the id's containers use a bridge (all of
them or none), `Serial` which subcommands an operator runs one at a time, `Faulty`
and `Mortal` which invocations may fail and be killed.

### StateStore, ProcessIdentity

The inode of a lock file is named by the process that created it, so an unlinked
lock file stays a lock of its own. `flushed` tells what survives a power loss
(the default root is on a tmpfs, where nothing does; the code flushes for the
case that it is not). Other files in the directory are left out.

A starttime is the number of the incarnation of its pid. Two incarnations of a
pid are assumed to differ in their starttime (no reuse within one clock tick).


### RunProcess, Collector, ExecSession, ExternalCommand

`agenda["runner"]` and `agenda["child"]` are the steps of `run_process` and
`run_child` that are still to do, in the order of the code; which steps there
are depends on `mode` (bridge, user namespace, tty or log capture, learning,
security profile). `ends[q]` is the set of processes that hold the write end of
pipe `q`: a reader sees the end of file when it is empty, so a descriptor that
was inherited by mistake shows up as a process that never ends. A fault is an
error return of a step of the processes in `Faults`. Steps that touch only the
child (hostname, capabilities, mounts) are one kind of step that may fail.

In `Collector` a fork is reported to the tracer as up to three stops, in any
order, and any process may be killed in between; what the collector counts is
left out. `SignalsPassedOn` excepts the container process itself: a signal that
reaches it between `PTRACE_TRACEME` and its own SIGSTOP is taken for that stop.

`ExecSession` has an exec with or without a pty and cgroup, and a probe with its
retries. The deadline kills the program of an attempt and nothing it forked.

### BridgeAllocator, NatLease

`owner.json` and `allocations.json` are written in place: created or truncated,
then written. The branch for an owner without a starttime is left out. Octets
are a parameter; the code has 20 to 219. `serial` chooses between calls made one
at a time and concurrent ones.

Every iptables command of `NatLease` may fail, also the check for a rule that is
there (the runner is then in `glitch`): the rule is added a second time and
deleted once. `ip_forward` belongs to all: who turned it on turns it off, under
those who are still up.

### AuditLog, RootfsSetup, Overlay, Cgroup, EventStream, ImageStore

A log file is a sequence of records and newlines of size one. `raced` is set when
an append runs while a delete is between its read and its rewrite.

`RootfsSetup` has the mount table as a sequence; a path is looked up in the last
mount above it. `tree[1]` is the directory of the bundle. The pts, the links in
`/dev` and the options of a mount are left out there (the options are in
`BundleConfig`). Which declared mounts end up out of sight is said exactly in
`MountsInSight`: those below a `/proc`, `/dev` or `/dev/shm` that the bundle does
not declare (`Overlaid`; only equal destinations count as declared), those that a
later mount covers (`CoveredLater`), and masked paths, and no others. The first
contradicts the comment at `filesystem/mod.rs:244` ("The bundle owns any destination
it declares"). `mknods` is whether the kernel lets the child make devices; where it
does not, `/dev/null` is an empty file (`NullServedBy`).

In `Overlay`, `native` is what was there before any start, `open` the runners whose
record says running, and `lost` those that ended without marking it: killed, or by
an error that `run_process` returns before `lifecycle.rs:513`. Every load and every
doctor that meets such a record cleans up again (`RecoverStale`), until one of them
marks it. In `ImageStore` every call may fail: an import that cannot make its
directory returns without cleaning up, one that cannot remove it leaves the name
taken, and `config.json` is created before it is written. `Cgroup` follows each
write to `cgroup.subtree_control`; the rollback writes the controllers' names
without a sign, which the kernel refuses, so that it changes nothing.

`EventStream` has one counter of each kind the code treats differently: one that
counts from 0 when its file was missing, one that is reported only when it was
there at both looks.

### Seccomp, SeccompReport, RunSettings, BundleConfig, RootfsDiff, Checkpoint

`Run` is an interpreter of the classic BPF instructions that `bpf.rs` emits; it
returns the action and the number of instructions executed. Names, numbers and
rule tables are parameters.

`Settings(o, c, ...)` is what a process is given for options `o` and bundle `c`.
`create` resolves the policy once and `start` a second time, from the record.

In `BundleConfig` a config is a record of the classes that the checks tell apart;
a list of mount options is folded with `OneOption` as the code does it, and a bind
looks for three of them only. The checks come in the order of a start: those of the
parent, then the conversion of the arguments, the mounts, the limits, the user and
the environment in the child.

In `SeccompReport` the baseline is what Docker's rules allow with Docker's default
capabilities, the only ones the program uses. The profile grows by one syscall at a
time, as `seccomp generate --merge` makes it grow.

In `RootfsDiff` the workload writes, makes and removes files through the merged
directory, overlayfs (external) keeps the upper layer, and the walk is a function
of the two layers, of what `Path::exists` answers on the host (`found`: it follows
links), and of the files named `.wh.x` or `.wh..wh..opq` that the workload wrote
(`marks`), which the code takes for whiteouts and opaque directories of other union
file systems. The kernel marks an opaque directory by an attribute, which the code
does not read.

## Runs

States are distinct states found. Every passing run takes between a few seconds
and three minutes.

| Run | States | What it shows |
|---|---|---|
| `lifecycle_orderly` | 555,993 | with and without a bridge, four invocations, failures and kills: a started container stays recorded and keeps its resources (its network unless its own runner fails), stop is truthful, `doctor --fix` frees cgroups, link and allocation, and the whole implements `ContainerLifecycle` |
| `lifecycle_chaos` | 1,921,382 | any three subcommands at once, one of which may fail or be killed: a record says stopped only of a dead process |
| `lifecycle_live` | 8,459 | stop returns; a killed container is reaped and recorded |
| `store` | 185,569 | kills, power losses and deletes: `state.json` always parses, every call returns; as long as nobody deletes, updates exclude each other and implement `AtomicStore` |
| `network` | 392,036 | subnets are unique and allocated for calls made one at a time, a killed process's lock is removed unless the kill left a file that does not parse, concurrent calls return; rules are all there while a container is up and gone afterwards, the administrator's stay, forwarding ends as it began |
| `processes` | 94,864 | the result of a run is truthful, its log complete, its terminal restored, its helpers reaped; no program starts before the container is recorded; the collector serves every stop and passes signals on; probes, execs and commands return and leave nothing behind |
| `host` | 484,558 | identities, audit log, root file system, cgroups, events, overlay, images, seccomp, settings, configuration and diff (one property or two for each, below) |

A property that joins several predicates does so because they are two sides of
one promise, and each side alone is easy to keep (by removing nothing, or by
removing everything). The joined ones, with their parts in the order of the
module:

| Property | Parts | Promise |
|---|---|---|
| `SubnetsAreOwned` | `UniqueSubnets`, `UsedIsAllocated` | the table and the subnets in use agree |
| `RulesKept` | `UpHasRules`, `AdminRulesKept` | rules that are needed stay |
| `HostNetworkRestored` | `RulesRemoved`, `ForwardingRestored` | the others go |
| `RunEndsCleanly` | `LogIsComplete`, `NobodyLeftBehind`, `TerminalRestored` | a run that returns leaves nothing behind |
| `EveryoneSettles` | `RunReturns`, `ChildSettles`, `HelpersEnd` | no process of a run waits for ever |
| `CollectorLosesNothing` | `RootStatusKnown`, `AideStatusKept`, `AttachedAreAwaited`, `SignalsPassedOn` | no status or signal is swallowed |
| `CollectorServes` | `StopsAreServed`, `CollectorReturns` | stops are resumed, the loop ends |
| `SessionIsOver` | `HealthyMeansZero`, `ExitCodePassesThrough`, `NoProgramLeft` | the verdict is the program's, which is over |
| `SessionsReturn` | `ProbeReturns`, `ExecReturns` | probes and execs return |
| `HistoryKept` | `HistoryParses`, `HistoryIsTail`, `LastRecordKept`, `LogBounded` | the audit log is a bounded tail of what was recorded |
| `RollbackExact` | `DirectoryKept`, `RollbackComplete` | a failed mount removes what it made and nothing else |
| `DefaultsFillGaps` | `MountsInSight`, `DefaultsGiven` | which declared mounts are in sight, and what a bundle that declares none gets |
| `CgroupFollowsContainer` | `LimitsInForce`, `NoCgroupLeft` | limits hold while a container runs, its cgroup goes with it |
| `ReportsAreExact` | `ReportsHappened`, `ReportsAddUp` | every increase is reported once |
| `OverlayOwned` | `NativeKept`, `RunningHasLayers`, `MergedRemoved` | foreign directories stay, those of a container go with it and not before |
| `ImportIsAtomic` | `ListedIsWhole`, `PartialIsExplained`, `ImportedIsListed`, `FailedLeavesName`, `StoreBounded` | an image is whole or absent, or the trace of a kill or of a failed removal |
| `FilterDecides` | with `HotCallsAreShort` | the filter allows what the profile names, the frequent calls first |
| `LearnedIsKept` | `LearnedIsAllowed`, `CountsAddUp` | merging loses no call and no count |
| `SettingsHold` | `StartIsRun`, `RecordTellsTruth` | create and start give what run gives, and the record says so |
| `ValidatedIsHonoured` | `ValidatedIsAccepted`, `OptionsInOrder` | what becomes of a config that validates: four values are still refused, and what its mount options come to |
| `DiffIsExplained` | `DiffIsTrue`, `DiffIsComplete` | the lines of the diff are right and complete, with the exceptions named there |

Five runs end in a violation. Each states what a message, a document or a test
of the repository says, and TLC shows an execution of the code that contradicts
it (`findings` in `PROJECT.json`):

| Run | What the code does |
|---|---|
| `lifecycle_health_race` | health saves an old copy over a stopped record |
| `lifecycle_doctor_links` | doctor deletes the link of a running container |
| `bridge_race` | a lock without `owner.json` yet is taken for stale |
| `learn_denylist` | `--seccomp learn` under the default denylist: the filter that is installed first forbids the ptrace call that follows, and the program never runs |
| `checkpoint_refused` | checkpoint refuses running containers, and then all others |

### Where the properties need their assumptions

The properties say under which use of the program they hold. Dropping the
assumption shows the race behind it:

- `Serial = {}` in `LifecycleOrderly.cfg`: two runs of one id both pass
  `ensure_container_absent` (`LiveIsRecorded` fails). A start between the load
  and the removal of a delete loses its record, and
  the last save of a runner brings a deleted record back.
- `NoDelete` in `ExclusiveUpdate`: delete unlinks the lock file, and two
  processes then hold two of them.
- `LeftTorn` in `StaleLockRecovered`: an empty `owner.json`, left by a kill
  between creation and write, makes every later call fail.
- `DoctorFreesHost` says nothing of the NAT rules and the record: rules installed
  before a kill and before the save are recorded nowhere, and a record whose
  rules are gone is never marked stopped, because deleting them is an error.
- `StartedBeforeProgram` excepts a runner that ended before its child, without
  bridge and user namespace: the end of the sync pipe looks like the signal.
- `raced` in the parts of `HistoryKept`: what is appended while a delete
  carries the log over is lost; `slain` in `HistoryParses`: half a record makes
  the whole history unreadable.
- `alone` in `ImageStore` and `serial` in `Overlay`: both look first and create
  later, so overlapping imports mix and overlapping starts remove each other's
  directories.
- `lost` in `RunningHasLayers`: a load of the record that a killed or failed runner
  left removes the merged directory of the next container on the bundle while it
  runs, also when starts and ends do not overlap. `botched` in `MergedRemoved`: a
  record that is marked although the removal failed leaves a directory that nobody
  owns, and the next start is refused.
- An importer that is killed between creating and writing `config.json` leaves an
  image that is listed, with an empty config (`PartialIsExplained`).
- `pc[c] # "err"` in `LiveKeepsResources`: a runner that returns an error while its
  container runs takes the container's network away (Drop), and leaves the cgroup,
  whose rmdir fails.
- `LateRefusal` names the four values of a config that only a start refuses.
- `DiffIsTrue` and `DiffIsComplete` name what links, files called `.wh.x` and
  directories that were made again do to a diff.
- `edits = 0` in `RunSettings`: `config.json` is read up to three times.

### Bounds

- Three or four invocations per lifecycle run. Every race found needs two or
  three, one of them a runner; the fourth lets a second generation of the
  container exist beside a stop and a load.
- `Serial` in the orderly run is the operator who waits for a runner, a delete
  or a doctor to end before the next one. The races this leaves out are listed
  above, and `lifecycle_chaos` has no such assumption.
- One pid with two incarnations, so that a pid can be reused between any two
  reads; the theorems have any number.
- Three ids on two octets, so that the subnets run out; a fourth process runs the
  first container again, after its release or its kill. `MaxTries` = 2 rounds
  before the deadline: one that finds an owner, one that removes it. Two runners
  share `ip_forward`, each with or without rules of the administrator.
- Three processes on the state file, each with one call; repetition is more
  processes.
- A log pipe that holds one chunk and a program that writes two, so that a writer
  can block. Learning runs have either security profile, the others the default
  one. Two traced descendants besides the container and one helper. Two
  retries of a probe.
- A log of four units, which two records fill: the third rotates.
- Two containers on one cgroup parent, two starts on one overlay, two imports of
  one name, two runs under one event stream.
- A table of a few syscalls with two architectures, captures and profiles merged
  up to three times; limits of a file system image that two files exceed
  together and neither does alone.
- Four paths, three deep, each absent, a file, a directory or a link below, and one
  mark of each form.
- A finite set of bundles, configs, archives and directory trees, listed in
  `MCHost`; each was chosen for a branch of the code.

Deadlock is not checked: invocations are made once, and the system stops when
all are done. That nobody waits for ever is stated as liveness instead.

### Fairness

A minicrun process inside a command is scheduled (weak fairness of its next
step), a child sets itself up, SIGKILL kills, init reaps. No fairness makes a
user begin a command, a workload end, or a SIGTERM take effect. In the store and
the allocator only the process inside a call is scheduled, and in `RunProcess`,
`ExecSession` and `Collector` the runtime's processes and the kernel's reports
to them. Deadlines pass. The `host` run has no fairness: its properties are
safety.

## Proofs

Checked by TLAPS for every value of the constants. The assumptions on constants
are named in the modules and give types and excluded coincidences (`NoRun` is no
command, a pid of the workload is no helper, there is at least one try, the paths
of a tree include the directories above them); TLC evaluates them in every run.
A safety property is proved from an inductive invariant that says what the
processes between them know, which the property alone does not:

- **ProcessProofs**.
  - `ProcessIdentity`: `IdentityInv` is inductive. Incarnations of a pid only
    grow, so a value read between two reads of the recorded starttime is the
    recorded incarnation (`Bracketed`). `SignalSafety` and `JoinSafety` follow.
  - `Collector`: `CollectorLosesNothing` for any workload and any helpers. A
    status is known exactly when the process is gone, a helper that is gone was
    handed back, and an attached process leaves the tracees only by its end.
  - `ExecSession`: `SessionIsOver` for any number of retries. `ExecInv` relates
    the caller's step to what helper and program can be doing, and each exit
    code to the end that produced it.
  - `EventStream`: `ReportsAreExact`. For each counter, what was reported and what
    the two readings still stand for is at most what happened (`ReportInv`), and
    exactly that as long as one container is watched (`ExactInv`).
- **RunProofs**. `ResultIsTruthful`, `StartedBeforeProgram` and `RunEndsCleanly`
  for every set of modes, any capacity of the log pipe and faults of any process.
  The agenda of the runner is a final part of the steps of its mode (`AgendaInv`,
  by ranks: the order of the code is the order of the ranks), so that one step
  still to do means that all later ones are. To this the invariants tie the
  result (`ResultInv`), the chunks of output (`LogInv`: written = in the pipe +
  in the file, and a helper that ended well has emptied the pipe), the proxy and
  the terminal (`ProxyInv`), and the handshakes (`SyncInv`: as long as the signal
  is to be given, a live runner holds the sync pipe). The end of a process, with
  those that the kernel ends with it, is one lemma (`EndsFact`).
- **LifecycleProofs**. `StoppedOnlyAfterDeath` is not inductive: a command may
  save a copy that it loaded long ago. `LifecycleInv` adds that the position of a
  runner and the state of its child agree (`RunnerInv`), and that what a command
  is about to save from its copy is true of the process (`SnapInv`): running
  records name a forked run, and doctor marks only runs that are gone, which they
  stay. Each command group has a lemma; the lemmas rest on two facts about any
  step, one for steps that move a process and one for steps that move a command.
  Its second part, orderly use: the properties of `lifecycle_orderly`, and that
  `Lifecycle` implements `ContainerLifecycle`, under `OrderlyUse`, a hypothesis of each theorem:
  create, run, start, delete and doctor of an id follow each other, and nobody
  probes its health; kill, stop and inspection come at any time, and everything may
  fail or be killed. The runs without it show that it is needed. `OrderlyInv`
  says that at most one exclusive command is active (`TurnInv`), what the record
  says at each of its steps (`RecordInv`), and what it or its container still
  holds on the host (`ResourceInv`: of the network, until its runner fails).
- **RecordProofs**.
  - `StateStore`: `WholeInv`. A temporary file is complete when it is
    flushed and flushed when it is renamed, so `NeverTorn` holds with kills, power
    losses and deletes. `LockInv` is stated for behaviours in which no process has
    deleted: then the lock file is created once, and who is past the flock holds
    it, so `ExclusiveUpdate` holds. `StoreRefinement` shows that each system call is
    a step of `AtomicStore` or none, with `RefineInv` for what a process has in memory
    between its load and its rename.
  - `RunSettings`: `SettingsHold`, for every set of options and bundles. The step from
    options to record and back is a lemma (`RoundTrip`) that rests on the policy
    being idempotent (`PolicyIdempotent`); `SettingsInv` says where the record and
    the options in hand came from.
  - `SeccompReport`: `ReportIsExplained`, for every profile, baseline and set of
    entries: a path that separates two sets of syscalls has a syscall in their
    difference. Also a result that no run states: merging runs into a profile never
    closes an entry (`Reopens`).
- **NetworkProofs**.
  - `NatLease`: each count of a rule is what was found, plus one while the lease
    says that it was added; a check that fails by itself (`glitch`) makes it an
    inequality (`LeaseInv`). `ForwardInv` says who still needs `ip_forward`.
    `RulesKept` and `HostNetworkRestored` follow.
  - `BridgeAllocator`: while calls do not overlap, at most one process is in a
    call (`OneCall`), the lock directory is its own or that of a killed process
    (`LockInv`), and the table, the copy in memory and the subnets in use agree
    (`TableInv`, `MemInv`, `OctetInv`). This gives `SubnetsAreOwned` and, as an
    action property, `StaleLockRecovered`.
- **HostProofs**.
  - `Cgroup`: `CgroupFollowsContainer`, from where a container with limits is.
  - `Overlay`: `OverlayOwned`, for any number of runners and records left behind. A
    directory is foreign, or was made by one start that knows it (`ForeignInv`); a
    record stays open after its runner only when that was lost (`RecordsInv`); while
    starts and ends do not overlap a merged directory has an owner whose record is
    open (`SerialInv`), and while moreover no owner was lost only one container at a
    time has the overlay (`OccupiedInv`).
  - `RootfsDiff`: `DiffIsExplained` for every set of paths that is closed upwards. The
    upper directory is a tree, a whiteout hides something that shows from below, and
    marks lie in directories (`UpperInv`).
  - `ImageStore`: `ImportIsAtomic` for any archives, limits and number of imports.
    While the imports take turns the directory holds what the one that took the name
    has unpacked so far (`Alone`, `Stage`). The bound on the size is about two sums:
    the running total of the preflight, a recursion over the entries, and the sum
    over the set of files, a fold. Both are shown to grow by one entry at a time
    (`BytesStep`, `SumOfOneMore`), and the second is never ahead (`UnpackedBounded`).
  - `BundleConfig`: `ValidatedIsHonoured` for every config. What passed the checks of
    `validate` passes those that are repeated (`ChecksValidate`), each stage that was
    passed rules out one late refusal (`Passed`), and the mounts made so far are those
    of the config (`Honoured`); a flag is set after n
    options exactly when the last of them about it sets it, by induction on n
    (`LaterOptionHolds`).
- **RootfsProofs**. `RollbackExact` and `DefaultsFillGaps` for every list of mounts,
  every directory and every list of masked and read-only paths, as long as the
  directory has the parents of what it has and nothing in it is called `.old_root`
  (`RootfsAssumption`; `setup_rootfs` takes that name for itself).
  - `RollbackExact`: `RootInv` says that the directory stays a tree and has the parents
    of every mount point, and that `created_paths` is what it has gained since the
    mount in progress began, or is hidden in another mount. Removing children first
    then leaves what was there (`RemoveFacts`, by induction on the paths removed).
  - `DefaultsFillGaps`: `GapInv` says that the table has the mounts of the bundle in their
    order (`Lined`), then only defaults where the bundle leaves room (`Extras`), that
    the paths above a mount point exist unless something is mounted over them
    (`Upright`), and from when on each default is there (`Given`). `Upright` is what
    makes `create_char_device` harmless: it acts where `/dev/null` does not exist, and
    then no mount of the bundle below it can be in sight (`NullKept`). `NullInv` follows
    what `/dev/null` is from the default `/dev` on: nothing yet, then the device or,
    without mknod, the empty file, and nothing mounted later covers it.
- **Induction**. The library's induction theorems take an operator, which the provers
  cannot instantiate. That the numbers are well founded takes none: a set of numbers
  has a least member (`LeastNatural`), hence what holds of 0 and carries over to the
  next holds up to N (`InductionUpTo`, about a set), hence a recursive definition over
  `0 .. N` defines a function (`IterationExists`). With this the recursive functions of
  `ImageStore`, `BundleConfig` and `RootfsSetup` are reasoned about.

The inductive invariants other than `IdentityInv` are properties of no run: the
theorems cover them.

Only model-checked, and why:

- liveness under fairness (`StopReturns`, `KilledIsStopped`, `CallsReturn`,
  `EveryoneSettles`, `CollectorServes`, `SessionsReturn`, `CommandReturns`), which is
  out of the prover's reach;
- `FilterDecides` and `LearnedIsKept`: the program of the filter is flattened from sorted
  sequences of blocks with jumps between them, and profiles are folds over captures
  and sorted sets; the facts about those operators would have to be proved first;
- `HistoryKept`: filtered sequences of events, with the same operators;
- the properties that the code violates, in the runs that show it.

## Not modelled

- `trace.rs`, `inspect_security.rs`, `selfexec.rs`, following of logs, tables and
  error texts: one process reads `/proc` or a file and prints.
- The syscall tables of the two architectures and the list of capabilities:
  constant data.
- `container/builder.rs`, `signal.rs`, `fd.rs`: builders and look-ups.
- The parsing of durations in `health.rs`: one checked multiplication.
- The limit on events of the collector, which no caller sets. (Its comment says
  that it stops the collection; the code marks the capture and goes on.)
- Addresses and routes of the link, `/dev/pts` and the links in `/dev`.
- Which cgroup a process is in that an exec helper forks before it is attached.
