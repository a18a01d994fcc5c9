---------------------------- MODULE SeccompReport ----------------------------
(***************************************************************************)
(* The comparison of a profile with Docker's (seccomp/baseline.rs and      *)
(* report.rs): which syscalls Docker's rules allow to a container with     *)
(* Docker's default capabilities, and which known vulnerabilities a set of *)
(* allowed syscalls leaves reachable.  A comparison may be made without a  *)
(* baseline; between two, the profile grows as runs are merged into it.    *)
(***************************************************************************)

CONSTANTS
    ArchSyscalls,  \* the syscalls of the architecture
    DockerCaps,    \* docker_default_capabilities
    DockerRules,   \* [names, action, includes, excludes]; filters are [arches, caps]
    DockerArch,    \* docker_arch_name
    CveEntries     \* [id, paths, relevant]; a path is a set of syscalls

VARIABLES
    allowed,   \* allowed_names_for_arch of the profile
    against,   \* a baseline was given
    comparing  \* there is a profile to compare

reportVars == <<allowed, against, comparing>>

ReportInit == allowed = {} /\ against \in BOOLEAN /\ comparing = TRUE
ReportAbsent == allowed = {} /\ against = FALSE /\ comparing = FALSE

-----------------------------------------------------------------------------
(* baseline.rs. *)

Includes(rule) ==
    /\ rule.includes.arches # {} => DockerArch \in rule.includes.arches
    /\ rule.includes.caps \subseteq DockerCaps

Excludes(rule) ==
    \/ DockerArch \in rule.excludes.arches
    \/ rule.excludes.caps # {} /\ rule.excludes.caps \subseteq DockerCaps

RuleApplies(rule) == Includes(rule) /\ ~Excludes(rule)

\* No baseline is an empty one.
Baseline ==
    {n \in ArchSyscalls :
        against /\ \E r \in DockerRules : r.action = "allow" /\ RuleApplies(r) /\ n \in r.names}

-----------------------------------------------------------------------------
(* report.rs. *)

\* Mutant: a path is blocked only when all its syscalls are.
MitigatedByAll(entry, names) ==
    entry.paths # {} /\ \A path \in entry.paths : \A s \in path : s \notin names

IsMitigated(entry, names) ==
    entry.paths # {} /\ \A path \in entry.paths : \E s \in path : s \notin names

Relevant == {e \in CveEntries : e.relevant}

MitigatedByProfile(names) == {e \in Relevant : IsMitigated(e, names)}

\* Nothing counts as mitigated by a baseline that allows nothing.
MitigatedByBaseline(names) == {e \in Relevant : names # {} /\ IsMitigated(e, names)}

StillReachable(names) == Relevant \ MitigatedByProfile(names)
NewlyMitigated(names, baseline) == MitigatedByProfile(names) \ MitigatedByBaseline(baseline)
NewlyBlocked(names, baseline) == baseline \ names
OverAllowed(names, baseline) == IF against THEN names \ baseline ELSE {}

-----------------------------------------------------------------------------
GrowProfile ==
    /\ comparing
    /\ \E n \in ArchSyscalls \ allowed : allowed' = allowed \cup {n}
    /\ UNCHANGED <<against, comparing>>

ReportNext == GrowProfile

ReportSpec == ReportInit /\ [][ReportNext]_reportVars

-----------------------------------------------------------------------------
(***************************************************************************)
(* The lists of a report bear each other out (compare, cve_coverage).  A   *)
(* vulnerability that the baseline mitigates and the profile does not has  *)
(* a path which the profile leaves open from end to end, through a syscall *)
(* of over_allowed; a newly mitigated one has a path which the baseline    *)
(* leaves open, cut off by a syscall of newly_blocked, unless the baseline *)
(* allows nothing.                                                         *)
(***************************************************************************)
ReportIsExplained ==
    /\ \A e \in MitigatedByBaseline(Baseline) \ MitigatedByProfile(allowed) :
          \E path \in e.paths :
              path \subseteq allowed /\ path \cap OverAllowed(allowed, Baseline) # {}
    /\ Baseline # {} => \A e \in NewlyMitigated(allowed, Baseline) :
          \E path \in e.paths :
              path \subseteq Baseline /\ path \cap NewlyBlocked(allowed, Baseline) # {}

\* As runs are merged into a profile, what was reachable stays reachable
\* (is_mitigated, cve_coverage).
GrowthReopens == [][StillReachable(allowed) \subseteq StillReachable(allowed')]_reportVars
=============================================================================
