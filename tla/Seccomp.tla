------------------------------- MODULE Seccomp -------------------------------
(***************************************************************************)
(* Seccomp profiles: captures of learning runs are merged into a profile   *)
(* (seccomp/capture.rs, generate.rs, profile.rs), a profile is compiled    *)
(* into a BPF program (compile.rs, bpf.rs), and compared with a baseline   *)
(* (baseline.rs, report.rs).  A run may learn, and a profile be generated, *)
(* at any time, from scratch or merged into the one there is; what the     *)
(* kernel does with a compiled program is Run.                             *)
(***************************************************************************)
EXTENDS Integers, FiniteSetsExt, SequencesExt

CONSTANTS
    Table,         \* the syscalls of the architecture: names to numbers
    Native,        \* its AUDIT_ARCH value
    Arches,        \* AUDIT_ARCH values that a call may have
    X32Bit,        \* the bit of the x32 ABI, above all numbers
    MaxInsns,      \* BPF_MAXINSNS
    Mandatory, Compat,   \* mandatory_baseline and glibc_compat_set
    LearningRuns,  \* the captures that runs can leave: [arch, calls, events]
    HandWritten,   \* the profiles that an administrator wrote
    MaxCaptures,   \* bound on the captures
    MaxSources     \* bound on the captures merged into a profile

VARIABLES
    captures,   \* the capture files, oldest first
    profile,    \* the profile file: [rules, calls, sources, events]
    left        \* the learning runs still to come

seccompVars == <<captures, profile, left>>

NoCalls == [n \in {} |-> 0]
NoProfile == [rules |-> <<>>, calls |-> NoCalls, sources |-> <<>>, events |-> 0]

SeccompInit == captures = <<>> /\ profile \in HandWritten /\ left = MaxCaptures
SeccompAbsent == captures = <<>> /\ profile = NoProfile /\ left = 0

Defined == DOMAIN Table
TotalEvents(sources) == FoldLeft(LAMBDA sum, c : sum + c.events, 0, sources)

-----------------------------------------------------------------------------
(* profile.rs and generate.rs. *)

AllowedNames(p) == UNION {r.names : r \in {r \in ToSet(p.rules) : r.action = "allow"}}
AllowedNamesForArch(p) == AllowedNames(p) \cap Defined
ValidateSupported(p) == \A r \in ToSet(p.rules) : ~r.args

CallsOf(calls, n) == IF n \in DOMAIN calls THEN calls[n] ELSE 0

\* Counts are added up by name.
AddCalls(a, b) == [n \in DOMAIN a \cup DOMAIN b |-> CallsOf(a, n) + CallsOf(b, n)]

SameArch(cs) == \A i \in 1..Len(cs) : cs[i].arch = cs[1].arch

\* Mutant: only the last capture counts.
MergeLast(cs) == Last(cs).calls

Merge(cs) == FoldLeft(LAMBDA calls, c : AddCalls(calls, c.calls), NoCalls, cs)

\* The counts of an existing profile, and 0 for what else it allows.
ExistingCalls(into) == AddCalls(into.calls, [n \in AllowedNames(into) |-> 0])

Generate(cs, compat, into) ==
    LET calls == AddCalls(Merge(cs), ExistingCalls(into))
        added == Mandatory \cup (IF compat THEN Compat ELSE {})
        allowed == (DOMAIN calls \cup added) \cap Defined
    IN  [rules |-> <<[names |-> allowed, action |-> "allow", args |-> FALSE]>>,
         calls |-> calls,
         sources |-> cs \o into.sources,
         events |-> TotalEvents(cs) + into.events]

-----------------------------------------------------------------------------
(* compile.rs and bpf.rs. *)

NameOf(k) == CHOOSE n \in Defined : Table[n] = k

Before(calls, j, k) ==
    LET f == CallsOf(calls, NameOf(j)) g == CallsOf(calls, NameOf(k))
    IN  f > g \/ (f = g /\ j < k)

\* AsListed is ByNumber: the names come out of an ordered set.
OrderSyscalls(numbers, calls, order) ==
    IF order = "by_frequency" /\ DOMAIN calls # {}
    THEN SetToSortSeq(numbers, LAMBDA j, k : Before(calls, j, k))
    ELSE SetToSortSeq(numbers, <)

Insn(op, k, jt, jf) == [op |-> op, k |-> k, jt |-> jt, jf |-> jf]
Ret(action) == Insn("ret", action, 0, 0)
LoadArch == Insn("ld_arch", 0, 0, 0)
LoadSyscallNr == Insn("ld_nr", 0, 0, 0)
JeqThenRet(k, action) == <<Insn("jeq", k, 0, 1), Ret(action)>>
JneThenRet(k, action) == <<Insn("jeq", k, 1, 0), Ret(action)>>

\* Mutant: the offsets are swapped.
JltThenRet(k, action) == <<Insn("jge", k, 1, 0), Ret(action)>>

JgeThenRet(k, action) == <<Insn("jge", k, 0, 1), Ret(action)>>

BuildAllowlist(allowed, deny) ==
    <<LoadArch>> \o JneThenRet(Native, deny) \o <<LoadSyscallNr>> \o JgeThenRet(X32Bit, deny)
    \o FlattenSeq([i \in 1..Len(allowed) |-> JeqThenRet(allowed[i], "allow")])
    \o <<Ret(deny)>>

Validate(program) ==
    /\ Len(program) \in 1..MaxInsns
    /\ Last(program).op = "ret"
    /\ \A i \in 1..Len(program) :
           program[i].op \in {"jeq", "jge"} =>
               \A offset \in {program[i].jt, program[i].jf} : i + 1 + offset <= Len(program)

Compile(p, order, deny) ==
    BuildAllowlist(OrderSyscalls({Table[n] : n \in AllowedNamesForArch(p)}, p.calls, order), deny)

Compiles(p) == ValidateSupported(p) /\ Validate(Compile(p, "by_number", "errno"))

\* The kernel on a call: the action, and the instructions it took.
Run(program, arch, nr) ==
    LET from[i \in 1..Len(program), acc \in Arches \cup Nat] ==
            LET insn == program[i]
                then(j, a) == <<from[j, a][1], from[j, a][2] + 1>>
                jump(taken) == then(i + 1 + (IF taken THEN insn.jt ELSE insn.jf), acc)
            IN  CASE insn.op = "ret" -> <<insn.k, 1>>
                  [] insn.op = "ld_arch" -> then(i + 1, arch)
                  [] insn.op = "ld_nr" -> then(i + 1, nr)
                  [] insn.op = "jeq" -> jump(acc = insn.k)
                  [] insn.op = "jge" -> jump(acc >= insn.k)
    IN  from[1, 0]

-----------------------------------------------------------------------------
LearnRun ==
    /\ left > 0 /\ left' = left - 1
    /\ \E c \in LearningRuns : captures' = Append(captures, c)
    /\ UNCHANGED profile

\* `seccomp generate`, which refuses captures of another architecture.
SeccompGenerate(S, compat, merge) ==
    LET cs == [i \in 1..Cardinality(S) |-> captures[SetToSortSeq(S, <)[i]]]
        into == IF merge THEN profile ELSE NoProfile
    IN  /\ S # {} /\ Cardinality(S) + Len(into.sources) <= MaxSources
        /\ SameArch(cs) /\ cs[1].arch = Native
        /\ profile' = Generate(cs, compat, into)
        /\ UNCHANGED <<captures, left>>

SeccompNext ==
    \/ LearnRun
    \/ \E S \in SUBSET (1..Len(captures)), compat, merge \in BOOLEAN : SeccompGenerate(S, compat, merge)

SeccompSpec == SeccompInit /\ [][SeccompNext]_seccompVars

-----------------------------------------------------------------------------
Orders == {"as_listed", "by_number", "by_frequency"}
Calls == {Table[n] : n \in Defined}

\* A call that was seen more often takes fewer instructions.
HotCallsAreShort ==
    profile # NoProfile /\ Compiles(profile) =>
        LET program == Compile(profile, "by_frequency", "errno")
            cost(n) == Run(program, Native, Table[n])[2]
        IN  \A m, n \in AllowedNamesForArch(profile) :
                CallsOf(profile.calls, m) > CallsOf(profile.calls, n) => cost(m) < cost(n)

\* The compiled program allows exactly the calls that the profile names: those
\* of the native architecture, none of x32, whatever the order of the chain; the
\* order by frequency makes the frequent ones cheap.
FilterDecides ==
    /\ profile # NoProfile /\ Compiles(profile) =>
        \A order \in Orders, arch \in Arches, k \in Calls, x32 \in {0, X32Bit} :
            Run(Compile(profile, order, "errno"), arch, k + x32)[1] =
                IF arch = Native /\ x32 = 0 /\ NameOf(k) \in AllowedNames(profile)
                THEN "allow" ELSE "errno"
    /\ HotCallsAreShort

\* A workload that does what it did in the runs a profile was generated from,
\* directly or through the profiles merged into it, is never refused a call.
LearnedIsAllowed ==
    profile # NoProfile /\ Compiles(profile) =>
        \A c \in ToSet(profile.sources) : \A n \in DOMAIN c.calls \cap Defined :
            Run(Compile(profile, "by_frequency", "kill"), Native, Table[n])[1] = "allow"

\* The counts and events of a profile are those of its source runs, each as
\* often as it was merged.
CountsAddUp ==
    profile.sources # <<>> =>
        /\ profile.events = TotalEvents(profile.sources)
        /\ \A n \in UNION {DOMAIN c.calls : c \in ToSet(profile.sources)} :
               CallsOf(profile.calls, n) =
                   FoldLeft(LAMBDA sum, c : sum + CallsOf(c.calls, n), 0, profile.sources)

\* A generated profile keeps everything that was learned: the calls of its
\* source runs are allowed and their counts are complete, through merges
\* (profile generation and merge).
LearnedIsKept == LearnedIsAllowed /\ CountsAddUp
=============================================================================
