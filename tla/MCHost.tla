------------------------------- MODULE MCHost -------------------------------
(***************************************************************************)
(* The files and kernel objects of the host, for TLC.  The components that  *)
(* work on them share no state, so a behaviour belongs to one of them: it    *)
(* starts that component and leaves the others in their absent states, in    *)
(* which they take no step.                                                  *)
(***************************************************************************)
EXTENDS ProcessIdentity, AuditLog, RootfsSetup, Cgroup, EventStream, Overlay,
        ImageStore, Seccomp, SeccompReport, RunSettings, BundleConfig, RootfsDiff

-----------------------------------------------------------------------------
(* RootfsSetup *)

SomeNames == {"proc", "dev", "shm", "null", "etc", "resolv.conf", ".old_root", "data", "sub",
              "x", "kcore"}
Destinations == {<<"proc">>, <<"proc", "x">>, <<"dev">>, <<"dev", "shm">>, <<"dev", "null">>,
                 <<"etc", "resolv.conf">>, <<"data">>, <<"data", "sub", "x">>}
MountLists == UNION {[1 .. n -> [at : Destinations, twice : BOOLEAN]] : n \in 0 .. 2}
Directories == {{}, {<<"etc">>, <<"data">>},
                {<<"proc">>, <<"dev">>, <<"dev", "null">>, <<"data">>, <<"data", "sub">>}}
CoverList == <<<<"proc", "kcore">>, <<"data", "sub">>>>

(* Cgroup *)

SomeNeeds == {{}, {1}, {1, 3}}

(* ImageStore *)

File(path, size) == [path |-> path, kind |-> "file", size |-> size]
Other(kind) == [path |-> "etc", kind |-> kind, size |-> 0]
SomeArchives ==
    {<<>>, <<File("etc", 2)>>, <<File("etc", 2), File("bin", 1)>>,
     <<File("etc", 2), File("bin", 2)>>, <<File("bin", 3)>>,
     <<Other("dir"), File("bin", 1)>>, <<File("etc", 1), File("etc", 1)>>,
     <<Other("dir"), Other("escaping")>>, <<Other("special")>>,
     <<Other("dir"), Other("dir"), Other("dir"), Other("dir")>>}

(* Seccomp *)

SomeTable == [read |-> 0, write |-> 1, exit |-> 3, rseq |-> 4, execve |-> 2]
Capture(arch, calls, events) == [arch |-> arch, calls |-> calls, events |-> events]
SomeRuns ==
    {Capture(1, [execve |-> 1, read |-> 2], 3),
     Capture(1, [execve |-> 1, write |-> 3, unknown_9 |-> 1], 6),
     Capture(2, [execve |-> 1], 1),
     Capture(1, [execve |-> 1, read |-> 1, exit |-> 1], 3)}
Rule(names, action, args) == [names |-> names, action |-> action, args |-> args]
Written(rules) == [rules |-> rules, calls |-> NoCalls, sources |-> <<>>, events |-> 0]
SomeProfiles ==
    {NoProfile,
     Written(<<Rule({"read", "rseq"}, "allow", FALSE), Rule({"write"}, "errno", FALSE)>>),
     Written(<<Rule({"read"}, "allow", TRUE)>>),
     Written(<<Rule({"read", "write", "exit", "rseq", "execve", "old"}, "allow", FALSE)>>)}

(* SeccompReport *)

Filter(arches, caps) == [arches |-> arches, caps |-> caps]
NoFilter == Filter({}, {})
DockerRule(names, in, ex) ==
    [names |-> names, action |-> "allow", includes |-> in, excludes |-> ex]
SomeRules ==
    {DockerRule({"read", "write", "old"}, NoFilter, NoFilter),
     DockerRule({"bpf"}, Filter({}, {"admin", "bpf"}), NoFilter),
     DockerRule({"mount"}, Filter({"amd64"}, {"chown"}), NoFilter),
     DockerRule({"clone"}, NoFilter, Filter({}, {"admin"})),
     DockerRule({"tls"}, Filter({"arm64"}, {}), NoFilter),
     [DockerRule({"tls"}, NoFilter, NoFilter) EXCEPT !.action = "errno"],
     DockerRule({"write"}, NoFilter, Filter({"amd64"}, {}))}
Cve(id, paths, rel) == [id |-> id, paths |-> paths, relevant |-> rel]
SomeCves ==
    {Cve(1, {{"bpf"}}, TRUE), Cve(2, {{"clone", "mount"}, {"bpf", "read"}}, TRUE),
     Cve(3, {}, TRUE), Cve(4, {{"read"}}, FALSE), Cve(5, {{"write"}, {"tls"}}, TRUE),
     Cve(6, {{"bpf", "mount"}}, TRUE)}

(* RunSettings *)

SomeOptions ==
    {o \in Options : /\ o.mode = "off" \/ o.network = "bridge"
                     /\ o.tty => o.log = "auto"
                     /\ o.userns = "private" => o.network = "bridge"
                     /\ o.profile => o.mode = "enforce"
                     /\ o.out => o.mode = "learn"}
SomeSpecs == {c \in Configs : /\ c.limits = IF c.rootUser THEN {} ELSE {"memory"}
                              /\ c.namespaces = IF c.rootUser THEN {"network"} ELSE {"user"}}

(* BundleConfig *)

Mount(t, s, d, o) == [type |-> t, source |-> s, destination |-> d, options |-> o]
Plain ==
    [args |-> <<"text">>, user |-> "absent", userns |-> "host", capabilities |-> 0,
     env |-> <<"A", "B">>, rootPath |-> "below",
     mounts |-> <<Mount("proc", "absent", "below", <<>>)>>, health |-> 1, rlimits |-> {},
     overlay |-> {"below"}, profile |-> "absent", namespaces |-> {"pid", "mount"},
     paths |-> {}, limits |-> {}]
SomeMounts ==
    {Mount(t, s, d, o) : t \in {"bind", "none", "tmpfs", "cgroup", "overlay"},
                         s \in {"absent", "blank", "below"},
                         d \in {"blank", "relative", "up", "root", "below"},
                         o \in {<<>>, <<"bind">>}}
    \cup {Mount(t, "below", "below", <<o1, o2, o3>>) :
            t \in {"bind", "tmpfs"},
            o1, o2, o3 \in {"ro", "rw", "nosuid", "suid", "rshared", "mode"}}
SomeFiles ==
    {[Plain EXCEPT !.mounts = <<m>>] : m \in SomeMounts}
    \cup {[Plain EXCEPT !.mounts = <<Plain.mounts[1], m>>] :
            m \in {x \in SomeMounts : Len(x.options) < 2}}
    \cup {[Plain EXCEPT !.env = <<a, b>>] : a, b \in {"A", "B", "nul", "no-equals", "no-key"}}
    \cup {[Plain EXCEPT !.rlimits = {[type |-> t, soft |-> s, hard |-> 1]}] :
            t \in {"RLIMIT_NOFILE", "RLIMIT_X"}, s \in {1, 2}}
    \cup {[Plain EXCEPT !.limits = {[field |-> f, value |-> v]}] :
            f \in {"memory", "pids"}, v \in {-1, 0, 1}}
    \cup {[Plain EXCEPT !.namespaces = n, !.profile = p] :
            n \in {{}, {"pid", "user"}, {"time"}}, p \in {"absent", "debug", "relaxed"}}
    \cup {[Plain EXCEPT !.paths = {p}, !.args = a, !.capabilities = c] :
            p \in {"relative", "up", "below"}, a \in {<<>>, <<"text">>}, c \in {0, 1}}
    \cup {[Plain EXCEPT !.args = a, !.user = u, !.userns = n, !.mounts = ms] :
            a \in {<<"text">>, <<"nul">>, <<"text", "nul">>}, u \in {"absent", "root", "other"},
            n \in {"host", "private"},
            ms \in {<<>>, <<Mount("proc", "absent", "root", <<>>)>>}}
    \cup {[Plain EXCEPT !.health = h, !.overlay = {o}, !.rootPath = r] :
            h \in {0, 1}, o, r \in {"blank", "below"}}

(* RootfsDiff *)

SomePaths == {<<"d">>, <<"d", "f">>, <<"d", "e">>, <<"d", "e", "g">>}
SomeLowers ==
    {l \in [SomePaths -> {"absent", "file", "dir", "link"}] :
        \A p \in SomePaths : l[p] # "absent" => \A a \in Above(p) : l[a] = "dir"}
SomeMarks == {[of |-> <<"d", "f">>, form |-> "deleted"], [of |-> <<"d">>, form |-> "opaque"]}

-----------------------------------------------------------------------------
HostInit ==
    \/ /\ Init /\ AuditAbsent /\ RootAbsent /\ CgroupAbsent /\ EventAbsent /\ OverlayAbsent
       /\ ImageAbsent /\ SeccompAbsent /\ ReportAbsent /\ SettingsAbsent /\ BundleAbsent /\ DiffAbsent
    \/ /\ IdentityAbsent /\ AuditInit /\ RootAbsent /\ CgroupAbsent /\ EventAbsent /\ OverlayAbsent
       /\ ImageAbsent /\ SeccompAbsent /\ ReportAbsent /\ SettingsAbsent /\ BundleAbsent /\ DiffAbsent
    \/ /\ IdentityAbsent /\ AuditAbsent /\ RootInit /\ CgroupAbsent /\ EventAbsent /\ OverlayAbsent
       /\ ImageAbsent /\ SeccompAbsent /\ ReportAbsent /\ SettingsAbsent /\ BundleAbsent /\ DiffAbsent
    \/ /\ IdentityAbsent /\ AuditAbsent /\ RootAbsent /\ CgroupInit /\ EventAbsent /\ OverlayAbsent
       /\ ImageAbsent /\ SeccompAbsent /\ ReportAbsent /\ SettingsAbsent /\ BundleAbsent /\ DiffAbsent
    \/ /\ IdentityAbsent /\ AuditAbsent /\ RootAbsent /\ CgroupAbsent /\ EventInit /\ OverlayAbsent
       /\ ImageAbsent /\ SeccompAbsent /\ ReportAbsent /\ SettingsAbsent /\ BundleAbsent /\ DiffAbsent
    \/ /\ IdentityAbsent /\ AuditAbsent /\ RootAbsent /\ CgroupAbsent /\ EventAbsent /\ OverlayInit
       /\ ImageAbsent /\ SeccompAbsent /\ ReportAbsent /\ SettingsAbsent /\ BundleAbsent /\ DiffAbsent
    \/ /\ IdentityAbsent /\ AuditAbsent /\ RootAbsent /\ CgroupAbsent /\ EventAbsent /\ OverlayAbsent
       /\ ImageInit /\ SeccompAbsent /\ ReportAbsent /\ SettingsAbsent /\ BundleAbsent /\ DiffAbsent
    \/ /\ IdentityAbsent /\ AuditAbsent /\ RootAbsent /\ CgroupAbsent /\ EventAbsent /\ OverlayAbsent
       /\ ImageAbsent /\ SeccompInit /\ ReportAbsent /\ SettingsAbsent /\ BundleAbsent /\ DiffAbsent
    \/ /\ IdentityAbsent /\ AuditAbsent /\ RootAbsent /\ CgroupAbsent /\ EventAbsent /\ OverlayAbsent
       /\ ImageAbsent /\ SeccompAbsent /\ ReportInit /\ SettingsAbsent /\ BundleAbsent /\ DiffAbsent
    \/ /\ IdentityAbsent /\ AuditAbsent /\ RootAbsent /\ CgroupAbsent /\ EventAbsent /\ OverlayAbsent
       /\ ImageAbsent /\ SeccompAbsent /\ ReportAbsent /\ SettingsInit /\ BundleAbsent /\ DiffAbsent
    \/ /\ IdentityAbsent /\ AuditAbsent /\ RootAbsent /\ CgroupAbsent /\ EventAbsent /\ OverlayAbsent
       /\ ImageAbsent /\ SeccompAbsent /\ ReportAbsent /\ SettingsAbsent /\ BundleInit /\ DiffAbsent
    \/ /\ IdentityAbsent /\ AuditAbsent /\ RootAbsent /\ CgroupAbsent /\ EventAbsent /\ OverlayAbsent
       /\ ImageAbsent /\ SeccompAbsent /\ ReportAbsent /\ SettingsAbsent /\ BundleAbsent /\ DiffInit

hostVars == <<vars, auditVars, rootVars, cgroupVars, eventVars, overlayVars,
              imageVars, seccompVars, reportVars, settingsVars, bundleVars, diffVars>>

HostNext ==
    \/ /\ Next
       /\ UNCHANGED <<auditVars, rootVars, cgroupVars, eventVars, overlayVars, imageVars,
                      seccompVars, reportVars, settingsVars, bundleVars, diffVars>>
    \/ /\ AuditNext
       /\ UNCHANGED <<vars, rootVars, cgroupVars, eventVars, overlayVars, imageVars,
                      seccompVars, reportVars, settingsVars, bundleVars, diffVars>>
    \/ /\ RootNext
       /\ UNCHANGED <<vars, auditVars, cgroupVars, eventVars, overlayVars, imageVars,
                      seccompVars, reportVars, settingsVars, bundleVars, diffVars>>
    \/ /\ CgroupNext
       /\ UNCHANGED <<vars, auditVars, rootVars, eventVars, overlayVars, imageVars,
                      seccompVars, reportVars, settingsVars, bundleVars, diffVars>>
    \/ /\ EventNext
       /\ UNCHANGED <<vars, auditVars, rootVars, cgroupVars, overlayVars, imageVars,
                      seccompVars, reportVars, settingsVars, bundleVars, diffVars>>
    \/ /\ OverlayNext
       /\ UNCHANGED <<vars, auditVars, rootVars, cgroupVars, eventVars, imageVars,
                      seccompVars, reportVars, settingsVars, bundleVars, diffVars>>
    \/ /\ ImageNext
       /\ UNCHANGED <<vars, auditVars, rootVars, cgroupVars, eventVars, overlayVars,
                      seccompVars, reportVars, settingsVars, bundleVars, diffVars>>
    \/ /\ SeccompNext
       /\ UNCHANGED <<vars, auditVars, rootVars, cgroupVars, eventVars, overlayVars,
                      imageVars, reportVars, settingsVars, bundleVars, diffVars>>
    \/ /\ ReportNext
       /\ UNCHANGED <<vars, auditVars, rootVars, cgroupVars, eventVars, overlayVars,
                      imageVars, seccompVars, settingsVars, bundleVars, diffVars>>
    \/ /\ SettingsNext
       /\ UNCHANGED <<vars, auditVars, rootVars, cgroupVars, eventVars, overlayVars,
                      imageVars, seccompVars, reportVars, bundleVars, diffVars>>
    \/ /\ BundleNext
       /\ UNCHANGED <<vars, auditVars, rootVars, cgroupVars, eventVars, overlayVars,
                      imageVars, seccompVars, reportVars, settingsVars, diffVars>>
    \/ /\ DiffNext
       /\ UNCHANGED <<vars, auditVars, rootVars, cgroupVars, eventVars, overlayVars,
                      imageVars, seccompVars, reportVars, settingsVars, bundleVars>>

HostSpec == HostInit /\ [][HostNext]_hostVars
=============================================================================
