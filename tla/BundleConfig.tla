---------------------------- MODULE BundleConfig ----------------------------
(***************************************************************************)
(* The checks a bundle's config.json goes through: OciConfig::validate     *)
(* (spec/config.rs), which `validate`, `create`, `run` and `start` all     *)
(* call when they load it, and the checks of the code that later uses the  *)
(* values: userns/mod.rs, policy.rs, namespace/mod.rs, process.rs and      *)
(* cgroup/mod.rs in the parent, process.rs, filesystem/mod.rs and          *)
(* container/env.rs in the child, when cgroups, links and mounts exist     *)
(* already.  What the host and its system calls decide (a bind source or a *)
(* cwd that is not there, a controller that is not available, a mount      *)
(* option the kernel does not know) is left out.                           *)
(***************************************************************************)
EXTENDS Integers, Sequences, FiniteSetsExt, Functions

CONSTANTS
    ConfigFiles     \* the contents of config.json that are tried, each with the user
                    \* namespace mode asked for on the command line

\* The mounts of a config, and the options of a mount, are sequences.
ASSUME ConfigFilesAssumption ==
    \A c \in ConfigFiles : /\ c.mounts \in Seq(Range(c.mounts))
                           /\ \A m \in Range(c.mounts) : m.options \in Seq(Range(m.options))

VARIABLES
    file,       \* the config.json of the bundle, with the user namespace mode
    bpc,        \* the next check, "refused" or "exec"
    mounted,    \* the mounts made, as records of what the kernel was asked for
    refusal     \* which check refused, where

bundleVars == <<file, bpc, mounted, refusal>>
----------------------------------------------------------------------------
(* spec/config.rs *)

BindTypes == {"bind", "rbind", "none"}
FilesystemTypes == {"proc", "sysfs", "tmpfs", "devpts", "mqueue", "cgroup", "cgroup2", "ramfs"}

IsSupportedMountType(type) == type \in BindTypes \cup FilesystemTypes

IsBind(m) == m.type \in BindTypes \/ Range(m.options) \cap {"bind", "rbind"} # {}

\* An entry is a key, or one of the classes of text that hold none.
ValidEnvironment(env) ==
    /\ Range(env) \cap {"nul", "no-equals", "no-key"} = {}
    /\ \A i, j \in DOMAIN env : env[i] = env[j] => i = j

RlimitResource(type) ==
    type \in {"RLIMIT_AS", "RLIMIT_CORE", "RLIMIT_CPU", "RLIMIT_FSIZE", "RLIMIT_NOFILE",
              "RLIMIT_NPROC", "RLIMIT_STACK"}

\* A user is a class: none, one with uid 0, gid 0 and no further groups, or another.
ValidateProcessUser(c) == c.userns = "private" => c.user \in {"absent", "root"}

\* An argument is a class: text that a C string can hold, or text with a NUL in it.
CStrings(args) == "nul" \notin Range(args)

\* A path is a class: blank, relative, with `..', the root, or below it.
ValidContainerPath(path) == path \in {"root", "below"}

ValidMount(m) == /\ m.destination # "blank"
                 /\ IsSupportedMountType(m.type)
                 /\ IsBind(m) => m.source \notin {"absent", "blank"}

\* The checks in the order validate makes them, each with its name.
ValidateChecks(c) ==
    <<<<"args", c.args # <<>>>>, <<"capabilities", c.capabilities = 0>>,
      <<"env", ValidEnvironment(c.env)>>, <<"root", c.rootPath # "blank">>,
      <<"mount", \A i \in DOMAIN c.mounts : ValidMount(c.mounts[i])>>,
      <<"healthcheck", c.health # 0>>,
      <<"rlimit", \A r \in c.rlimits : r.soft <= r.hard /\ RlimitResource(r.type)>>,
      <<"overlay", "blank" \notin c.overlay>>,
      <<"profile", c.profile \in {"absent", "restricted", "debug"}>>,
      <<"namespace", c.namespaces \subseteq {"pid", "mount", "uts", "ipc", "network", "user"}>>,
      <<"path", \A p \in c.paths : ValidContainerPath(p)>>>>
----------------------------------------------------------------------------
(* filesystem/mod.rs *)

ClearedBy == [rw |-> "ro", suid |-> "nosuid", dev |-> "nodev", exec |-> "noexec",
              atime |-> "noatime", norelatime |-> "relatime", nostrictatime |-> "strictatime"]
MountFlags == {ClearedBy[o] : o \in DOMAIN ClearedBy}
                  \cup {"sync", "dirsync", "remount", "nodiratime"}
Propagations == {"private", "rprivate", "slave", "rslave", "shared", "rshared",
                 "unbindable", "runbindable"}

NoOptions == [flags |-> {}, propagation |-> "none", data |-> <<>>]

OptionOnlySets(parsed, o) ==
    IF o \in MountFlags THEN [parsed EXCEPT !.flags = @ \cup {o}] ELSE parsed

OneOption(parsed, o) ==
    CASE o \in {"defaults", "bind", "rbind"} -> parsed
      [] o \in MountFlags -> [parsed EXCEPT !.flags = @ \cup {o}]
      [] o \in DOMAIN ClearedBy -> [parsed EXCEPT !.flags = @ \ {ClearedBy[o]}]
      [] o \in Propagations -> [parsed EXCEPT !.propagation = o]
      [] OTHER -> [parsed EXCEPT !.data = Append(@, o)]

ParseOptions(options) ==
    LET parsed[n \in 0 .. Len(options)] ==
            IF n = 0 THEN NoOptions ELSE OneOption(parsed[n - 1], options[n])
    IN  parsed[Len(options)]

\* A bind only looks for `ro', `rbind' and `rshared'.
BindOptions(options) ==
    [NoOptions EXCEPT !.flags = (Range(options) \cap {"ro"}) \cup
                          (IF Range(options) \cap {"rbind", "rshared"} = {} THEN {} ELSE {"rec"})]

DestinationAllowed(m) == m.destination = "below"

SetupMount(m) == [bind |-> IsBind(m), options |-> m.options,
                  did |-> IF IsBind(m) THEN BindOptions(m.options) ELSE ParseOptions(m.options)]

MountAccepted(m) == /\ IsBind(m) => m.source # "absent"
                    /\ IsBind(m) \/ m.type \in FilesystemTypes
                    /\ DestinationAllowed(m)
----------------------------------------------------------------------------
BundleInit == file \in ConfigFiles /\ bpc = "load" /\ mounted = <<>> /\ refusal = <<>>

BundleAbsent == file = <<>> /\ bpc = "absent" /\ mounted = <<>> /\ refusal = <<>>

Refuse(where, why) == bpc' = "refused" /\ refusal' = <<where, why>> /\ UNCHANGED <<file, mounted>>

Pass(next) == bpc' = next /\ UNCHANGED <<file, mounted, refusal>>

Check(where, why, ok, next) == IF ok THEN Pass(next) ELSE Refuse(where, why)

LoadConfig ==
    /\ bpc = "load"
    /\ LET checks == ValidateChecks(file)
           failed == {i \in DOMAIN checks : ~checks[i][2]}
       IN  Check("load", IF failed = {} THEN "" ELSE checks[Min(failed)][1],
                 failed = {}, "user")

ProcessUser ==
    /\ bpc = "user"
    /\ Check("parent", "user", ValidateProcessUser(file), "policy")

ResolvePolicy ==
    /\ bpc = "policy"
    /\ Check("parent", "profile", file.profile \in {"absent", "restricted", "debug"}, "flags")

NamespaceFlags ==
    /\ bpc = "flags"
    /\ Check("parent", "namespace",
             file.namespaces \subseteq {"pid", "mount", "uts", "ipc", "network", "user"}, "run")

\* run_process looks at the arguments again before it forks.
RunProcessArgs ==
    /\ bpc = "run"
    /\ Check("parent", "args", file.args # <<>>, "cgroup")

ValidateCgroup ==
    /\ bpc = "cgroup"
    /\ Check("parent", "limits", \A l \in file.limits : l.value > 0, "cstrings")

\* The child converts the arguments before it mounts anything.
ConvertArgs ==
    /\ bpc = "cstrings"
    /\ Check("child", "args", CStrings(file.args), "mounts")

SetupMounts ==
    /\ bpc = "mounts"
    /\ IF Len(mounted) = Len(file.mounts) THEN Pass("rlimits")
       ELSE LET m == file.mounts[Len(mounted) + 1]
            IN  IF MountAccepted(m)
                THEN mounted' = Append(mounted, SetupMount(m)) /\ UNCHANGED <<file, bpc, refusal>>
                ELSE Refuse("child", IF DestinationAllowed(m) THEN "mount" ELSE "destination")

ApplyRlimits ==
    /\ bpc = "rlimits"
    /\ Check("child", "rlimit", \A r \in file.rlimits : RlimitResource(r.type), "setuid")

\* In a private namespace only root is mapped: the kernel refuses any other user.
ApplyProcessUser ==
    /\ bpc = "setuid"
    /\ Check("child", "user", file.userns = "private" => file.user \in {"absent", "root"},
             "environment")

ReplaceEnvironment ==
    /\ bpc = "environment"
    /\ Check("child", "env", ValidEnvironment(file.env), "exec")

BundleNext == \/ LoadConfig \/ ProcessUser \/ ResolvePolicy \/ NamespaceFlags
              \/ RunProcessArgs \/ ValidateCgroup \/ ConvertArgs \/ SetupMounts
              \/ ApplyRlimits \/ ApplyProcessUser \/ ReplaceEnvironment

BundleSpec == BundleInit /\ [][BundleNext]_bundleVars
----------------------------------------------------------------------------
\* The values that validate does not look at and a start refuses, each with the place.
LateRefusal(c, r) ==
    \/ r = <<"parent", "user">> /\ c.userns = "private" /\ c.user \notin {"absent", "root"}
    \/ r = <<"parent", "limits">> /\ \E l \in c.limits : ~(l.value > 0)
    \/ r = <<"child", "args">> /\ "nul" \in Range(c.args)
    \/ r = <<"child", "destination">> /\ \E i \in DOMAIN c.mounts : c.mounts[i].destination # "below"

\* A config with none of these values.
Startable(c) ==
    \A r \in {"parent", "child"} \X {"user", "limits", "args", "destination"} : ~LateRefusal(c, r)

(***************************************************************************)
(* What happens to a config that `minicrun validate` accepts.  Four checks *)
(* of a start can still refuse it, for values that validate does not look  *)
(* at: in the parent a user other than root in a private user namespace    *)
(* (validate_process_user, lifecycle.rs 344) and a resource limit that is  *)
(* not positive (cgroup/mod.rs 21-47), in the child a NUL in an argument   *)
(* (process.rs 743-748) and a mount destination that is relative, holds    *)
(* `..' or is the root (filesystem/mod.rs 565-599).  The other checks of   *)
(* the later stages repeat those of validate and never fail, and a start   *)
(* that reaches exec has been refused nothing, with every mount made.      *)
(***************************************************************************)
ValidatedIsAccepted ==
    /\ bpc = "refused" => refusal[1] = "load" \/ LateRefusal(file, refusal)
    /\ bpc = "exec" => Startable(file) /\ Len(mounted) = Len(file.mounts)

\* The last of the options about one flag, if any.
LastWord(options, set, clear) ==
    LET about == {i \in DOMAIN options : options[i] \in {set, clear}}
    IN  IF about = {} THEN clear ELSE options[Max(about)]

(***************************************************************************)
(* What the options of a mount come to.  For every flag of a filesystem    *)
(* mount the later of two opposite options holds (MountOptions::parse).  A *)
(* bind does not read its options in order (setup_bind_mount): it is       *)
(* read-only when `ro' is listed anywhere, even before `rw', and `nosuid', *)
(* `nodev', `noexec' and the others have no effect on it.                  *)
(***************************************************************************)
OptionsInOrder ==
    \A i \in DOMAIN mounted : LET m == mounted[i] IN
        \A o \in DOMAIN ClearedBy :
            ClearedBy[o] \in m.did.flags <=>
                IF m.bind THEN o = "rw" /\ "ro" \in Range(m.options)
                          ELSE LastWord(m.options, ClearedBy[o], o) # o

\* What becomes of a config that validate accepts: which of its values a start still
\* refuses, and what its mount options come to.
ValidatedIsHonoured == ValidatedIsAccepted /\ OptionsInOrder
=============================================================================
