---------------------------- MODULE RunSettings ----------------------------
(***************************************************************************)
(* From command line to process: what `minicrun run`, and `minicrun        *)
(* create` followed by `minicrun start`, make of the options and of the    *)
(* bundle's config.json (main.rs, lifecycle.rs, policy.rs, modes.rs,       *)
(* namespace/mod.rs, the option half of seccomp/mod.rs).                   *)
(*                                                                         *)
(* `create` stores the options in the state, partly as given and partly    *)
(* as the policy of the bundle changed them; `start` parses them back and  *)
(* applies the policy of the bundle again.  Every command reads            *)
(* config.json afresh, `run` and `start` twice, and the file can change    *)
(* between two reads.                                                      *)
(***************************************************************************)
EXTENDS Naturals

CONSTANTS
    OptionSet,  \* the command lines tried, records of Options
    ConfigSet,  \* the contents config.json may have, records of Configs
    MaxEdits    \* how often config.json is rewritten

VARIABLES
    asked,      \* the options of the command line of `run` or `create`
    options,    \* the RunOptions the executing command works with
    spec,       \* config.json as it is now
    edits,      \* how often it was rewritten
    root,       \* is the executing command run by root?
    capturing,  \* execute_container's decision to capture the log
    record,     \* the settings in the state file
    applied,    \* the settings of the process that was started
    spc         \* idle, created, running-new, running-created, run, started

settingsVars == <<asked, options, spec, edits, root, capturing, record, applied, spc>>

Options == [network: {"host", "none", "bridge"}, security: {"denylist", "unconfined"},
            log: {"auto", "on", "off"}, userns: {"host", "private"}, tty: BOOLEAN,
            terminal: BOOLEAN, mode: {"off", "learn", "enforce"}, profile: BOOLEAN,
            out: BOOLEAN]
Configs == [policy: {"none", "restricted", "debug"}, limits: SUBSET {"memory", "cpu", "pids"},
            namespaces: SUBSET {"pid", "network", "user"}, rootUser: BOOLEAN]

ASSUME SettingsAssumption == OptionSet \subseteq Options /\ ConfigSet \subseteq Configs
----------------------------------------------------------------------------
(* policy.rs *)

ApplySecurity(security, policy) ==
    CASE policy = "restricted" -> "denylist"
      [] policy = "debug" /\ security = "denylist" -> "unconfined"
      [] OTHER -> security

ApplyLogMode(log, policy) == IF policy = "debug" /\ log = "auto" THEN "on" ELSE log

\* What the bundle asks for stays; the restricted policy fills in what it leaves out.
ApplyCgroup(limits, policy) ==
    [given |-> limits, default |-> IF policy = "restricted" THEN {"memory", "pids"} \ limits ELSE {}]

(* network/mod.rs and namespace/mod.rs *)

ToEffective(network, isRoot) == IF ~isRoot /\ network = "bridge" THEN "none" ELSE network

EffectiveNamespaces(namespaces, network, userns) ==
    LET net == IF network = "host" THEN namespaces \ {"network"} ELSE namespaces \cup {"network"}
    IN  IF userns = "host" THEN net \ {"user"} ELSE net \cup {"user"}

(* userns/mod.rs: a private user namespace maps container root only *)
UserAllowed(userns, c) == userns = "private" => c.rootUser

(* seccomp/mod.rs *)

SeccompLegal(o) == ((o.mode = "enforce") <=> o.profile) /\ (o.out => o.mode = "learn")

CapturePath(o) == CASE o.mode # "learn" -> "none" [] o.out -> "out" [] OTHER -> "default"

(* cli_runtime.rs and main.rs *)
ShouldCapture(o, c) ==
    ~o.tty /\ CASE ApplyLogMode(o.log, c.policy) = "auto" -> ~o.terminal
                [] ApplyLogMode(o.log, c.policy) = "on" -> TRUE
                [] OTHER -> FALSE

\* What run_container_process hands to the process it starts.
Settings(o, c, isRoot, capture) ==
    LET network == ToEffective(o.network, isRoot)
    IN  [network |-> network, security |-> ApplySecurity(o.security, c.policy),
         namespaces |-> EffectiveNamespaces(c.namespaces, network, o.userns),
         cgroup |-> ApplyCgroup(c.limits, c.policy), userns |-> o.userns, tty |-> o.tty,
         mode |-> o.mode, profile |-> o.profile, captureTo |-> CapturePath(o), log |-> capture]

\* The metadata of a created container: the network as asked, the rest as resolved;
\* the capture path has no field.
CreatedRecord(o, c) ==
    [network |-> o.network, security |-> ApplySecurity(o.security, c.policy),
     log |-> ApplyLogMode(o.log, c.policy), userns |-> o.userns, policy |-> c.policy,
     tty |-> o.tty, mode |-> o.mode, profile |-> o.profile]

\* The options `start` rebuilds from the state.
FromState(s, terminal) ==
    [network |-> s.network, security |-> s.security, log |-> s.log, userns |-> s.userns,
     tty |-> s.tty, terminal |-> terminal, mode |-> s.mode, profile |-> s.profile,
     out |-> FALSE]

\* The state of a running container: a `run` writes everything, a `start` keeps what
\* `create` wrote and only replaces the log mode.
RunningAsAsked(o, c, network) == CreatedRecord(o, c)

RunningRecord(o, c, network) == [CreatedRecord(o, c) EXCEPT !.network = network]
MarkRunning(s, log) == [s EXCEPT !.log = log]
----------------------------------------------------------------------------
NoRecord == CreatedRecord([network |-> "none", security |-> "", log |-> "", userns |-> "",
                           tty |-> FALSE, mode |-> "", profile |-> FALSE], [policy |-> ""])

SettingsState(o, c, step) ==
    /\ asked = o /\ options = o
    /\ spec = c /\ edits = 0 /\ root = TRUE /\ capturing = FALSE
    /\ record = NoRecord /\ applied = Settings(o, c, TRUE, FALSE)
    /\ spc = step

SettingsInit == \E o \in OptionSet, c \in ConfigSet : SettingsState(o, c, "idle")

SettingsAbsent ==
    SettingsState([network |-> "none", security |-> "denylist", log |-> "off", userns |-> "host",
                   tty |-> FALSE, terminal |-> FALSE, mode |-> "off", profile |-> FALSE,
                   out |-> FALSE],
                  [policy |-> "none", limits |-> {}, namespaces |-> {}, rootUser |-> TRUE],
                  "absent")

CreateContainer ==
    /\ spc = "idle" /\ SeccompLegal(asked) /\ UserAllowed(asked.userns, spec)
    /\ record' = CreatedRecord(asked, spec)
    /\ spc' = "created"
    /\ UNCHANGED <<asked, options, spec, edits, root, capturing, applied>>

\* execute_container reads the config to decide on the log.
Execute(o, isRoot, next) ==
    /\ options' = o /\ root' = isRoot
    /\ capturing' = ShouldCapture(o, spec)
    /\ spc' = next
    /\ UNCHANGED <<asked, spec, edits, record, applied>>

RunContainer ==
    /\ spc = "idle" /\ SeccompLegal(asked)
    /\ \E isRoot \in BOOLEAN : Execute(asked, isRoot, "running-new")

\* The terminal `start` is called from need not be the one of `create`; the same one here.
StartContainer ==
    /\ spc = "created" /\ SeccompLegal(FromState(record, asked.terminal))
    /\ \E isRoot \in BOOLEAN :
          Execute(FromState(record, asked.terminal), isRoot, "running-created")

\* run_container_process reads the config again, applies it and saves the running state.
RunContainerProcess ==
    /\ spc \in {"running-new", "running-created"} /\ UserAllowed(options.userns, spec)
    /\ applied' = Settings(options, spec, root, capturing)
    /\ record' = IF spc = "running-created"
                 THEN MarkRunning(record, ApplyLogMode(options.log, spec.policy))
                 ELSE RunningRecord(options, spec, ToEffective(options.network, root))
    /\ spc' = IF spc = "running-created" THEN "started" ELSE "run"
    /\ UNCHANGED <<asked, options, spec, edits, root, capturing>>

\* A user namespace that cannot hold the process user is refused before anything is done.
RunRefused ==
    /\ spc \in {"running-new", "running-created"} /\ ~UserAllowed(options.userns, spec)
    /\ spc' = IF spc = "running-created" THEN "created" ELSE "idle"
    /\ UNCHANGED <<asked, options, spec, edits, root, capturing, record, applied>>

EditConfig ==
    /\ spc \in {"created", "running-new", "running-created"} /\ edits < MaxEdits
    /\ spec' \in ConfigSet \ {spec}
    /\ edits' = edits + 1
    /\ UNCHANGED <<asked, options, root, capturing, record, applied, spc>>

SettingsNext == \/ CreateContainer \/ RunContainer \/ StartContainer
                \/ RunContainerProcess \/ RunRefused \/ EditConfig

SettingsSpec == SettingsInit /\ [][SettingsNext]_settingsVars
----------------------------------------------------------------------------
WithoutCapture(s) == [s EXCEPT !.captureTo = "none"]

(***************************************************************************)
(* A container that is created and then started gets the settings a `run`  *)
(* with the same options would have given it, whatever the policy of the   *)
(* bundle, although the policy is applied once by `create` and again by    *)
(* `start` (lifecycle.rs 87-136, main.rs 778-867), provided config.json    *)
(* stays as it is.  The file a learning run writes is excepted: `create`   *)
(* does not record it.                                                     *)
(***************************************************************************)
StartIsRun ==
    spc = "started" /\ edits = 0 =>
        WithoutCapture(applied)
            = WithoutCapture(Settings(asked, spec, root, ShouldCapture(asked, spec)))

(***************************************************************************)
(* What the state says of a running container (`state`, `inspect`) is what *)
(* its process was given: seccomp denylist, policy, log, user namespace,   *)
(* seccomp mode and, except for a created container started without root,  *)
(* the network.                                                            *)
(***************************************************************************)
RecordTellsTruth ==
    spc \in {"run", "started"} /\ edits = 0 =>
        /\ record.security = applied.security /\ record.policy = spec.policy
        /\ record.userns = applied.userns /\ record.mode = applied.mode
        /\ (spc = "run" \/ root) => record.network = applied.network
        /\ applied.log => record.log # "off"
        /\ (record.log = "on" /\ ~applied.tty) => applied.log

\* The settings of a container come from its command line and its config, in one
\* step (`run') or in two (`create' and `start'), and its state file says which.
SettingsHold == StartIsRun /\ RecordTellsTruth
=============================================================================
