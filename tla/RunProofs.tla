------------------------------ MODULE RunProofs ------------------------------
(* Proofs about RunProcess, for any set of modes, any capacity of the log *)
(* pipe, any bound on the output and any processes that may fail.         *)
EXTENDS RunProcess, TLAPS

-----------------------------------------------------------------------------
(* RunProcess: the invariant. *)

StepNames ==
    {"pipes", "helper", "unshare", "pty", "proxy", "fork", "cgroup", "bridge", "started", "signal",
     "ready", "map", "wait", "join", "error", "log", "cleanup", "stdio", "notify", "await", "read",
     "mounts", "user", "caps", "denylist", "traceme", "exec"}

\* The steps of run_process in the order of the code, and those of a mode.
Rank(s) ==
    IF s = "pipes" THEN 1 ELSE IF s = "helper" THEN 2 ELSE IF s = "unshare" THEN 3
    ELSE IF s = "pty" THEN 4 ELSE IF s = "proxy" THEN 5 ELSE IF s = "fork" THEN 6
    ELSE IF s = "cgroup" THEN 7 ELSE IF s = "bridge" THEN 8 ELSE IF s = "started" THEN 9
    ELSE IF s = "signal" THEN 10 ELSE IF s = "ready" THEN 11 ELSE IF s = "map" THEN 12
    ELSE IF s = "wait" THEN 13 ELSE IF s = "join" THEN 14 ELSE IF s = "error" THEN 15
    ELSE IF s = "log" THEN 16 ELSE 17

RunnerSteps(m) ==
    {"pipes", "fork", "cgroup", "started", "signal", "wait", "error", "cleanup"}
        \cup (IF m.io = "log" THEN {"helper", "log"} ELSE {})
        \cup (IF m.io = "tty" THEN {"pty", "proxy", "join"} ELSE {})
        \cup (IF m.newpid THEN {"unshare"} ELSE {})
        \cup (IF m.bridge THEN {"bridge"} ELSE {})
        \cup (IF m.userns # "host" THEN {"ready", "map"} ELSE {})

\* An agenda in order, with ranks from lo up to hi.
Ordered(s, lo, hi) ==
    /\ s \in Seq(StepNames)
    /\ \A i \in 1..Len(s) : Rank(s[i]) \in lo..hi
    /\ \A i, j \in 1..Len(s) : i < j => Rank(s[i]) < Rank(s[j])

Todo(p) == Range(agenda[p])

RunTypeOK ==
    /\ mode \in Mode
    /\ agenda \in [{"runner", "child"} -> Seq(StepNames)]
    /\ life \in [RunProcesses -> {"unborn", "live", "ended", "reaped"}]
    /\ code \in [RunProcesses -> {"none", "ok", "bad", "err", "signal"}]
    /\ ends \in [Pipe -> SUBSET RunProcesses]
    /\ queue \in Nat /\ out \in Nat /\ logged \in Nat
    /\ result \in [status : {"none", "ok", "bad", "err", "signal"}, error : BOOLEAN]

\* The agenda of the runner is a final part of the steps of its mode.
AgendaInv ==
    /\ Ordered(agenda["runner"], 1, 17)
    /\ Todo("runner") \subseteq RunnerSteps(mode)
    /\ \A s \in Todo("runner"), t \in RunnerSteps(mode) : Rank(s) < Rank(t) => t \in Todo("runner")

\* The runner, its result and the child that it waits for.
ResultInv ==
    /\ life["runner"] \in {"live", "ended"} /\ (Live("runner") <=> code["runner"] = "none")
    /\ code["runner"] = "ok" =>
           "wait" \notin Todo("runner") /\ "error" \notin Todo("runner")
    /\ "fork" \in Todo("runner") => life["child"] = "unborn"
    /\ "wait" \notin Todo("runner") => life["child"] = "reaped" /\ result.status = code["child"]
    /\ "error" \notin Todo("runner") => (result.error <=> "error" \in sent)
    /\ code["child"] = "ok" => Executed

\* The log helper: everything written is in the pipe or in the file, and a
\* helper that ended well has emptied the pipe.
LogInv ==
    /\ out = logged + queue
    /\ life["log"] = "unborn" => out = 0 /\ code["log"] = "none"
    /\ mode.io # "log" \/ "helper" \in Todo("runner") => life["log"] = "unborn"
    /\ code["log"] = "ok" => queue = 0 /\ ~Live("log")
    /\ mode.io = "log" /\ "log" \notin Todo("runner") => code["log"] = "ok" /\ life["log"] = "reaped"
    /\ code["runner"] = "ok" => "log" \notin Todo("runner")

\* The pty proxy, its copier and the terminal.
ProxyInv ==
    /\ mode.io # "tty" \/ "proxy" \in Todo("runner") => life["proxy"] = "unborn" /\ life["copier"] = "unborn"
    /\ mode.io = "tty" /\ "join" \notin Todo("runner") => life["proxy"] = "reaped"
    /\ Live("copier") => Live("proxy")
    /\ Live("runner") /\ (mode.io # "tty" \/ "join" \notin Todo("runner")) => terminal = "cooked"
    /\ code["runner"] \in {"ok", "err"} => terminal = "cooked"
    /\ code["runner"] = "ok" => "join" \notin Todo("runner")

\* The handshakes: what the child has been let through was let through by the
\* runner, or by its end.
SyncInv ==
    /\ Live("runner") /\ "pipes" \notin Todo("runner") /\ "signal" \in Todo("runner")
           => "runner" \in ends["sync"]
    /\ "sync" \in sent => "signal" \notin Todo("runner")
    /\ "mapped" \in sent => "map" \notin Todo("runner")
    /\ "read" \notin Todo("child") => "signal" \notin Todo("runner") \/ (~Live("runner") /\ ~mode.bridge)
    /\ mode.userns # "host" /\ "await" \notin Todo("child") => "map" \notin Todo("runner")

RunInv == RunTypeOK /\ AgendaInv /\ ResultInv /\ LogInv /\ ProxyInv /\ SyncInv

-----------------------------------------------------------------------------
(* RunProcess: agendas. *)

LEMMA RankFact == \A s : Rank(s) \in 1..17
  BY DEF Rank

\* The parts of an agenda.
LEMMA OneStep ==
  ASSUME NEW a \in StepNames, NEW lo \in Nat, NEW hi \in Nat, Rank(a) \in lo..hi
  PROVE  Ordered(<<a>>, lo, hi) /\ Range(<<a>>) = {a}
  <1>1. <<a>> \in Seq(StepNames) /\ Len(<<a>>) = 1 /\ <<a>>[1] = a /\ DOMAIN <<a>> = 1..1
    OBVIOUS
  <1> QED
    BY <1>1, RankFact DEF Ordered, Range

LEMMA TwoSteps ==
  ASSUME NEW a \in StepNames, NEW b \in StepNames, NEW lo \in Nat, NEW hi \in Nat,
         Rank(a) \in lo..hi, Rank(b) \in lo..hi, Rank(a) < Rank(b)
  PROVE  Ordered(<<a, b>>, lo, hi) /\ Range(<<a, b>>) = {a, b}
  <1>1. /\ <<a, b>> \in Seq(StepNames) /\ Len(<<a, b>>) = 2
        /\ <<a, b>>[1] = a /\ <<a, b>>[2] = b /\ DOMAIN <<a, b>> = 1..2
    OBVIOUS
  <1>2. \A i \in 1..2 : i = 1 \/ i = 2
    OBVIOUS
  <1> QED
    BY <1>1, <1>2, RankFact DEF Ordered, Range

LEMMA NoStep ==
  ASSUME NEW lo \in Nat, NEW hi \in Nat
  PROVE  Ordered(<<>>, lo, hi) /\ Range(<<>>) = {}
  BY DEF Ordered, Range

LEMMA JoinSteps ==
  ASSUME NEW s, NEW t, NEW lo \in Nat, NEW mid \in Nat, NEW hi \in Nat, lo <= mid, mid < hi,
         Ordered(s, lo, mid), Ordered(t, mid + 1, hi)
  PROVE  Ordered(s \o t, lo, hi) /\ Range(s \o t) = Range(s) \cup Range(t)
  <1>1. s \in Seq(StepNames) /\ t \in Seq(StepNames)
    BY Zenon DEF Ordered
  <1>2. /\ s \o t \in Seq(StepNames) /\ Len(s \o t) = Len(s) + Len(t)
        /\ \A i \in 1..(Len(s) + Len(t)) : (s \o t)[i] = IF i <= Len(s) THEN s[i] ELSE t[i - Len(s)]
        /\ Len(s) \in Nat /\ Len(t) \in Nat /\ DOMAIN (s \o t) = 1..Len(s \o t)
    BY <1>1
  <1>3. \A i \in 1..Len(s \o t) :
            \/ i \in 1..Len(s) /\ (s \o t)[i] = s[i]
            \/ i > Len(s) /\ i - Len(s) \in 1..Len(t) /\ (s \o t)[i] = t[i - Len(s)]
    BY <1>2
  <1>4. \A i \in 1..Len(s \o t) : Rank((s \o t)[i]) \in lo..hi
    BY <1>3 DEF Ordered
  <1>5. ASSUME NEW i \in 1..Len(s \o t), NEW j \in 1..Len(s \o t), i < j
        PROVE  Rank((s \o t)[i]) < Rank((s \o t)[j])
    <2>1. CASE i \in 1..Len(s) /\ j \in 1..Len(s)
      BY <1>2, <1>5, <2>1 DEF Ordered
    <2>2. CASE i \in 1..Len(s) /\ j > Len(s)
      <3>1. Rank((s \o t)[i]) \in lo..mid /\ Rank((s \o t)[j]) \in (mid + 1)..hi
        BY <1>2, <1>3, <2>2 DEF Ordered
      <3> QED
        BY <3>1
    <2>3. CASE i > Len(s) /\ j > Len(s)
      <3>1. /\ i - Len(s) \in 1..Len(t) /\ j - Len(s) \in 1..Len(t) /\ i - Len(s) < j - Len(s)
            /\ (s \o t)[i] = t[i - Len(s)] /\ (s \o t)[j] = t[j - Len(s)]
        BY <1>2, <1>3, <1>5, <2>3
      <3> QED
        BY <3>1, Zenon DEF Ordered
    <2>4. /\ i \in 1..Len(s) \/ i > Len(s)
          /\ j \in 1..Len(s) \/ j > Len(s)
          /\ i > Len(s) => j > Len(s)
      BY <1>2, <1>5
    <2> QED
      BY <2>1, <2>2, <2>3, <2>4, Zenon
  <1>6. Range(s \o t) = Range(s) \cup Range(t)
    <2>1. ASSUME NEW x \in Range(s \o t) PROVE x \in Range(s) \cup Range(t)
      BY <1>1, <1>2, <1>3 DEF Range
    <2>2. ASSUME NEW x \in Range(s) PROVE x \in Range(s \o t)
      <3>1. PICK i \in 1..Len(s) : x = s[i]
        BY <1>1 DEF Range
      <3>2. i \in 1..Len(s \o t) /\ (s \o t)[i] = x
        BY <1>2, <3>1
      <3> QED
        BY <1>2, <3>2, Zenon DEF Range
    <2>3. ASSUME NEW x \in Range(t) PROVE x \in Range(s \o t)
      <3>1. PICK i \in 1..Len(t) : x = t[i]
        BY <1>1 DEF Range
      <3>2. i + Len(s) \in 1..Len(s \o t) /\ (s \o t)[i + Len(s)] = x
        BY <1>2, <3>1
      <3> QED
        BY <1>2, <3>2, Zenon DEF Range
    <2> QED
      BY <2>1, <2>2, <2>3, Zenon
  <1> QED
    BY <1>2, <1>4, <1>5, <1>6, Zenon DEF Ordered

\* The agenda of the runner is in order, and consists of the steps of its mode.
LEMMA RunnerAgenda ==
  ASSUME NEW m \in Mode
  PROVE  Ordered(RunProcessSteps(m), 1, 17) /\ Range(RunProcessSteps(m)) = RunnerSteps(m)
  <1> DEFINE l == m.io = "log"  t == m.io = "tty"  u == m.userns # "host"
             s1 == <<"pipes">>
             s2 == s1 \o When(l, <<"helper">>)
             s3 == s2 \o When(m.newpid, <<"unshare">>)
             s4 == s3 \o When(t, <<"pty", "proxy">>)
             s5 == s4 \o <<"fork", "cgroup">>
             s6 == s5 \o When(m.bridge, <<"bridge">>)
             s7 == s6 \o <<"started", "signal">>
             s8 == s7 \o When(u, <<"ready", "map">>)
             s9 == s8 \o <<"wait">>
             s10 == s9 \o When(t, <<"join">>)
             s11 == s10 \o <<"error">>
             s12 == s11 \o When(l, <<"log">>)
             s13 == s12 \o <<"cleanup">>
  <1>0. /\ l \in BOOLEAN /\ t \in BOOLEAN /\ u \in BOOLEAN /\ m.newpid \in BOOLEAN /\ m.bridge \in BOOLEAN
    BY Zenon DEF Mode
  <1>1. /\ Rank("pipes") = 1 /\ Rank("helper") = 2 /\ Rank("unshare") = 3 /\ Rank("pty") = 4
        /\ Rank("proxy") = 5 /\ Rank("fork") = 6 /\ Rank("cgroup") = 7 /\ Rank("bridge") = 8
        /\ Rank("started") = 9 /\ Rank("signal") = 10 /\ Rank("ready") = 11 /\ Rank("map") = 12
        /\ Rank("wait") = 13 /\ Rank("join") = 14 /\ Rank("error") = 15 /\ Rank("log") = 16
        /\ Rank("cleanup") = 17
    BY Zenon DEF Rank
  <1>2. /\ "pipes" \in StepNames /\ "helper" \in StepNames /\ "unshare" \in StepNames /\ "pty" \in StepNames
        /\ "proxy" \in StepNames /\ "fork" \in StepNames /\ "cgroup" \in StepNames /\ "bridge" \in StepNames
        /\ "started" \in StepNames /\ "signal" \in StepNames /\ "ready" \in StepNames /\ "map" \in StepNames
        /\ "wait" \in StepNames /\ "join" \in StepNames /\ "error" \in StepNames /\ "log" \in StepNames
        /\ "cleanup" \in StepNames
    BY DEF StepNames
  <1>3. /\ Ordered(<<"pipes">>, 1, 1) /\ Range(<<"pipes">>) = {"pipes"}
        /\ Ordered(<<"helper">>, 2, 2) /\ Range(<<"helper">>) = {"helper"}
        /\ Ordered(<<"unshare">>, 3, 3) /\ Range(<<"unshare">>) = {"unshare"}
        /\ Ordered(<<"bridge">>, 8, 8) /\ Range(<<"bridge">>) = {"bridge"}
        /\ Ordered(<<"wait">>, 13, 13) /\ Range(<<"wait">>) = {"wait"}
        /\ Ordered(<<"join">>, 14, 14) /\ Range(<<"join">>) = {"join"}
        /\ Ordered(<<"error">>, 15, 15) /\ Range(<<"error">>) = {"error"}
        /\ Ordered(<<"log">>, 16, 16) /\ Range(<<"log">>) = {"log"}
        /\ Ordered(<<"cleanup">>, 17, 17) /\ Range(<<"cleanup">>) = {"cleanup"}
    BY <1>1, <1>2, OneStep
  <1>4. /\ Ordered(<<"pty", "proxy">>, 4, 5) /\ Range(<<"pty", "proxy">>) = {"pty", "proxy"}
        /\ Ordered(<<"fork", "cgroup">>, 6, 7) /\ Range(<<"fork", "cgroup">>) = {"fork", "cgroup"}
        /\ Ordered(<<"started", "signal">>, 9, 10) /\ Range(<<"started", "signal">>) = {"started", "signal"}
        /\ Ordered(<<"ready", "map">>, 11, 12) /\ Range(<<"ready", "map">>) = {"ready", "map"}
    BY <1>1, <1>2, TwoSteps
  <1>5. /\ Ordered(When(l, <<"helper">>), 2, 2) /\ Range(When(l, <<"helper">>)) = IF l THEN {"helper"} ELSE {}
        /\ Ordered(When(m.newpid, <<"unshare">>), 3, 3)
        /\ Range(When(m.newpid, <<"unshare">>)) = IF m.newpid THEN {"unshare"} ELSE {}
        /\ Ordered(When(t, <<"pty", "proxy">>), 4, 5)
        /\ Range(When(t, <<"pty", "proxy">>)) = IF t THEN {"pty", "proxy"} ELSE {}
        /\ Ordered(When(m.bridge, <<"bridge">>), 8, 8)
        /\ Range(When(m.bridge, <<"bridge">>)) = IF m.bridge THEN {"bridge"} ELSE {}
        /\ Ordered(When(u, <<"ready", "map">>), 11, 12)
        /\ Range(When(u, <<"ready", "map">>)) = IF u THEN {"ready", "map"} ELSE {}
        /\ Ordered(When(t, <<"join">>), 14, 14) /\ Range(When(t, <<"join">>)) = IF t THEN {"join"} ELSE {}
        /\ Ordered(When(l, <<"log">>), 16, 16) /\ Range(When(l, <<"log">>)) = IF l THEN {"log"} ELSE {}
    <2> HIDE DEF l, t, u
    <2>1. \A lo, hi \in Nat : Ordered(<<>>, lo, hi) /\ Range(<<>>) = {}
      BY NoStep, Zenon
    <2> QED
      BY <1>0, <1>3, <1>4, <2>1, Zenon DEF When
  <1>6. RunProcessSteps(m) = s13
    BY Zenon DEF RunProcessSteps
  <1> HIDE DEF s1, s2, s3, s4, s5, s6, s7, s8, s9, s10, s11, s12, s13, l, t, u
  <1>11. Ordered(s1, 1, 1) /\ Range(s1) = {"pipes"}
    BY <1>3, Zenon DEF s1
  <1>12. Ordered(s2, 1, 2) /\ Range(s2) = Range(s1) \cup (IF l THEN {"helper"} ELSE {})
    BY <1>5, <1>11, JoinSteps DEF s2
  <1>13. Ordered(s3, 1, 3) /\ Range(s3) = Range(s2) \cup (IF m.newpid THEN {"unshare"} ELSE {})
    BY <1>5, <1>12, JoinSteps DEF s3
  <1>14. Ordered(s4, 1, 5) /\ Range(s4) = Range(s3) \cup (IF t THEN {"pty", "proxy"} ELSE {})
    BY <1>5, <1>13, JoinSteps DEF s4
  <1>15. Ordered(s5, 1, 7) /\ Range(s5) = Range(s4) \cup {"fork", "cgroup"}
    BY <1>4, <1>14, JoinSteps DEF s5
  <1>16. Ordered(s6, 1, 8) /\ Range(s6) = Range(s5) \cup (IF m.bridge THEN {"bridge"} ELSE {})
    BY <1>5, <1>15, JoinSteps DEF s6
  <1>17. Ordered(s7, 1, 10) /\ Range(s7) = Range(s6) \cup {"started", "signal"}
    BY <1>4, <1>16, JoinSteps DEF s7
  <1>18. Ordered(s8, 1, 12) /\ Range(s8) = Range(s7) \cup (IF u THEN {"ready", "map"} ELSE {})
    BY <1>5, <1>17, JoinSteps DEF s8
  <1>19. Ordered(s9, 1, 13) /\ Range(s9) = Range(s8) \cup {"wait"}
    BY <1>3, <1>18, JoinSteps DEF s9
  <1>20. Ordered(s10, 1, 14) /\ Range(s10) = Range(s9) \cup (IF t THEN {"join"} ELSE {})
    BY <1>5, <1>19, JoinSteps DEF s10
  <1>21. Ordered(s11, 1, 15) /\ Range(s11) = Range(s10) \cup {"error"}
    BY <1>3, <1>20, JoinSteps DEF s11
  <1>22. Ordered(s12, 1, 16) /\ Range(s12) = Range(s11) \cup (IF l THEN {"log"} ELSE {})
    BY <1>5, <1>21, JoinSteps DEF s12
  <1>23. Ordered(s13, 1, 17) /\ Range(s13) = Range(s12) \cup {"cleanup"}
    BY <1>3, <1>22, JoinSteps DEF s13
  <1>24. Range(s13) = RunnerSteps(m)
    BY <1>11, <1>12, <1>13, <1>14, <1>15, <1>16, <1>17, <1>18, <1>19, <1>20, <1>21, <1>22, <1>23
       DEF RunnerSteps, l, t, u
  <1> QED
    BY <1>6, <1>23, <1>24, Zenon

LEMMA JoinNames ==
  ASSUME NEW s \in Seq(StepNames), NEW t \in Seq(StepNames)
  PROVE  s \o t \in Seq(StepNames) /\ Range(s) \subseteq Range(s \o t) /\ Range(t) \subseteq Range(s \o t)
  <1>1. /\ s \o t \in Seq(StepNames) /\ Len(s \o t) = Len(s) + Len(t)
        /\ \A i \in 1..(Len(s) + Len(t)) : (s \o t)[i] = IF i <= Len(s) THEN s[i] ELSE t[i - Len(s)]
        /\ Len(s) \in Nat /\ Len(t) \in Nat /\ DOMAIN (s \o t) = 1..Len(s \o t)
    OBVIOUS
  <1>2. ASSUME NEW x \in Range(s) PROVE x \in Range(s \o t)
    <2>1. PICK i \in 1..Len(s) : x = s[i]
      BY DEF Range
    <2>2. i \in 1..Len(s \o t) /\ (s \o t)[i] = x
      BY <1>1, <2>1
    <2> QED
      BY <1>1, <2>2, Zenon DEF Range
  <1>3. ASSUME NEW x \in Range(t) PROVE x \in Range(s \o t)
    <2>1. PICK i \in 1..Len(t) : x = t[i]
      BY DEF Range
    <2>2. i + Len(s) \in 1..Len(s \o t) /\ (s \o t)[i + Len(s)] = x
      BY <1>1, <2>1
    <2> QED
      BY <1>1, <2>2, Zenon DEF Range
  <1> QED
    BY <1>1, <1>2, <1>3, Zenon

\* The child reads the signal of its parent, and one in a user namespace of its
\* own waits for the maps.
LEMMA ChildAgenda ==
  ASSUME NEW m \in Mode
  PROVE  /\ RunChildSteps(m) \in Seq(StepNames)
         /\ "read" \in Range(RunChildSteps(m))
         /\ m.userns # "host" => "await" \in Range(RunChildSteps(m))
  <1> DEFINE r == m.userns = "rootless"  o == m.userns = "root"
             w1 == When(r, <<"notify", "await">>)
             w2 == When(o, <<"notify", "await">>)
             s1 == <<"stdio">> \o w1
             s2 == s1 \o <<"read", "mounts">>
             s3 == s2 \o w2
             s4 == s3 \o <<"user">>
             s5 == s4 \o SecuritySteps(m)
             s6 == s5 \o <<"exec">>
  <1>1. /\ <<"notify", "await">> \in Seq(StepNames) /\ <<"read", "mounts">> \in Seq(StepNames)
        /\ <<"stdio">> \in Seq(StepNames) /\ <<"user">> \in Seq(StepNames) /\ <<"exec">> \in Seq(StepNames)
        /\ <<"caps", "denylist">> \in Seq(StepNames) /\ <<"traceme">> \in Seq(StepNames)
        /\ <<>> \in Seq(StepNames)
    BY DEF StepNames
  <1>2. /\ w1 \in Seq(StepNames) /\ w2 \in Seq(StepNames)
    BY <1>1, Zenon DEF When
  <1>3. SecuritySteps(m) \in Seq(StepNames)
    <2>1. /\ When(m.profile = "denylist", <<"caps", "denylist">>) \in Seq(StepNames)
          /\ When(m.learn, <<"traceme">>) \in Seq(StepNames)
      BY <1>1, Zenon DEF When
    <2> HIDE DEF StepNames
    <2> QED
      BY <2>1, JoinNames, Zenon DEF SecuritySteps
  <1>4. "await" \in Range(<<"notify", "await">>) /\ "read" \in Range(<<"read", "mounts">>)
    <2>1. /\ DOMAIN <<"notify", "await">> = 1..2 /\ <<"notify", "await">>[2] = "await" /\ 2 \in 1..2
          /\ DOMAIN <<"read", "mounts">> = 1..2 /\ <<"read", "mounts">>[1] = "read" /\ 1 \in 1..2
      OBVIOUS
    <2> QED
      BY <2>1, Zenon DEF Range
  <1>5. RunChildSteps(m) = s6
    BY Zenon DEF RunChildSteps
  <1>6. /\ r => "await" \in Range(w1)
        /\ o => "await" \in Range(w2)
        /\ m.userns # "host" => r \/ o
    BY <1>4, Zenon DEF When, Mode
  <1> HIDE DEF s1, s2, s3, s4, s5, s6, w1, w2, r, o
  <1>11. s1 \in Seq(StepNames) /\ Range(w1) \subseteq Range(s1)
    BY <1>1, <1>2, JoinNames, Zenon DEF s1
  <1>12. s2 \in Seq(StepNames) /\ Range(s1) \subseteq Range(s2) /\ "read" \in Range(s2)
    BY <1>1, <1>4, <1>11, JoinNames, Zenon DEF s2
  <1>13. s3 \in Seq(StepNames) /\ Range(s2) \subseteq Range(s3) /\ Range(w2) \subseteq Range(s3)
    BY <1>2, <1>12, JoinNames, Zenon DEF s3
  <1>14. s4 \in Seq(StepNames) /\ Range(s3) \subseteq Range(s4)
    BY <1>1, <1>13, JoinNames, Zenon DEF s4
  <1>15. s5 \in Seq(StepNames) /\ Range(s4) \subseteq Range(s5)
    BY <1>3, <1>14, JoinNames, Zenon DEF s5
  <1>16. s6 \in Seq(StepNames) /\ Range(s5) \subseteq Range(s6)
    BY <1>1, <1>15, JoinNames, Zenon DEF s6
  <1> QED
    BY <1>5, <1>6, <1>11, <1>12, <1>13, <1>14, <1>15, <1>16, Zenon

\* Taking the first step off an agenda.
LEMMA TailFact ==
  ASSUME NEW s \in Seq(StepNames), s # <<>>
  PROVE  /\ Tail(s) \in Seq(StepNames) /\ Range(s) = {Head(s)} \cup Range(Tail(s))
         /\ Head(s) \in StepNames
  <1>1. /\ Len(s) \in Nat /\ Len(s) > 0 /\ Head(s) = s[1]
        /\ Tail(s) \in Seq(StepNames) /\ Len(Tail(s)) = Len(s) - 1
        /\ \A i \in 1..(Len(s) - 1) : Tail(s)[i] = s[i + 1]
        /\ DOMAIN s = 1..Len(s) /\ DOMAIN Tail(s) = 1..(Len(s) - 1)
    OBVIOUS
  <1>2. ASSUME NEW x \in Range(s) PROVE x = Head(s) \/ x \in Range(Tail(s))
    <2>1. PICK i \in 1..Len(s) : x = s[i]
      BY <1>1, Zenon DEF Range
    <2>2. CASE i # 1
      <3>1. i - 1 \in 1..(Len(s) - 1) /\ (i - 1) + 1 = i
        BY <1>1, <2>1, <2>2
      <3>2. Tail(s)[i - 1] = x
        BY <1>1, <2>1, <3>1, Zenon
      <3> QED
        BY <1>1, <3>1, <3>2, Zenon DEF Range
    <2> QED
      BY <1>1, <2>1, <2>2, Zenon
  <1>3. ASSUME NEW x \in Range(Tail(s)) PROVE x \in Range(s)
    <2>1. PICK i \in 1..(Len(s) - 1) : x = Tail(s)[i]
      BY <1>1, Zenon DEF Range
    <2>2. i + 1 \in 1..Len(s) /\ x = s[i + 1]
      BY <1>1, <2>1
    <2> QED
      BY <1>1, <2>2, Zenon DEF Range
  <1>4. Head(s) \in Range(s)
    <2>1. 1 \in 1..Len(s)
      BY <1>1
    <2> QED
      BY <1>1, <2>1, Zenon DEF Range
  <1> QED
    BY <1>1, <1>2, <1>3, <1>4

LEMMA OrderedTail ==
  ASSUME NEW s, Ordered(s, 1, 17), s # <<>>
  PROVE  /\ Ordered(Tail(s), 1, 17)
         /\ \A t \in Range(Tail(s)) : Rank(Head(s)) < Rank(t)
  <1>1. /\ s \in Seq(StepNames) /\ Len(s) \in Nat /\ Len(s) > 0 /\ Head(s) = s[1]
        /\ Tail(s) \in Seq(StepNames) /\ Len(Tail(s)) = Len(s) - 1
        /\ \A i \in 1..(Len(s) - 1) : Tail(s)[i] = s[i + 1]
        /\ DOMAIN s = 1..Len(s) /\ DOMAIN Tail(s) = 1..(Len(s) - 1)
    BY DEF Ordered
  <1>2. \A i \in 1..(Len(s) - 1) : i + 1 \in 1..Len(s) /\ 1 \in 1..Len(s) /\ 1 < i + 1
    BY <1>1
  <1>3. \A i \in 1..(Len(s) - 1) : Rank(s[1]) < Rank(s[i + 1]) /\ Rank(s[i + 1]) \in 1..17
    BY <1>2, Zenon DEF Ordered
  <1>4. \A i, j \in 1..(Len(s) - 1) : i < j => Rank(s[i + 1]) < Rank(s[j + 1])
    BY <1>1, <1>2 DEF Ordered
  <1>5. \A t \in Range(Tail(s)) : \E i \in 1..(Len(s) - 1) : t = s[i + 1]
    BY <1>1, Zenon DEF Range
  <1>6. Ordered(Tail(s), 1, 17)
    BY <1>1, <1>3, <1>4 DEF Ordered
  <1> QED
    BY <1>1, <1>3, <1>5, <1>6, Zenon

LEMMA RunnerHead ==
  ASSUME RunTypeOK, AgendaInv, NEW s, At("runner", s)
  PROVE  s \in Todo("runner") /\ \A t \in Todo("runner") : t = s \/ Rank(s) < Rank(t)
  <1>1. agenda["runner"] # <<>> /\ Head(agenda["runner"]) = s /\ agenda["runner"] \in Seq(StepNames)
    BY Zenon DEF At, RunTypeOK
  <1> QED
    BY <1>1, TailFact, OrderedTail, Zenon DEF AgendaInv, Todo

LEMMA RunnerAdvance ==
  ASSUME RunTypeOK, AgendaInv, NEW s, At("runner", s), Advance("runner"), mode' = mode
  PROVE  /\ agenda' \in [{"runner", "child"} -> Seq(StepNames)] /\ AgendaInv'
         /\ agenda'["child"] = agenda["child"] /\ Todo("child")' = Todo("child")
         /\ s \in Todo("runner") /\ Todo("runner")' = Todo("runner") \ {s}
  <1> DEFINE a == agenda["runner"]
  <1>1. a # <<>> /\ Head(a) = s /\ a \in Seq(StepNames) /\ Ordered(a, 1, 17)
    BY Zenon DEF At, RunTypeOK, AgendaInv
  <1>2. agenda' = [agenda EXCEPT !["runner"] = Tail(a)]
    BY Zenon DEF Advance
  <1>3. agenda' \in [{"runner", "child"} -> Seq(StepNames)] /\ agenda'["runner"] = Tail(a)
        /\ agenda'["child"] = agenda["child"]
    BY <1>1, <1>2, TailFact, Zenon DEF RunTypeOK
  <1>4. Range(a) = {s} \cup Range(Tail(a)) /\ \A t \in Range(Tail(a)) : Rank(s) < Rank(t)
    BY <1>1, TailFact, OrderedTail, Zenon
  <1>5. s \notin Range(Tail(a))
    BY <1>4, RankFact
  <1>6. Todo("runner")' = Todo("runner") \ {s}
    BY <1>3, <1>4, <1>5, Zenon DEF Todo
  <1>7. AgendaInv'
    <2>1. Ordered(agenda["runner"], 1, 17)'
      BY <1>1, <1>3, OrderedTail, Zenon DEF Ordered
    <2>2. ASSUME NEW x \in Todo("runner")', NEW y \in RunnerSteps(mode), Rank(x) < Rank(y)
          PROVE  y \in Todo("runner")'
      <3>1. x \in Todo("runner") /\ Rank(s) < Rank(x)
        BY <1>3, <1>4, <1>6, <2>2, Zenon DEF Todo
      <3>2. y \in Todo("runner") /\ Rank(s) < Rank(y)
        BY <2>2, <3>1, RankFact DEF AgendaInv
      <3>3. y # s
        BY <3>2, RankFact
      <3> QED
        BY <1>6, <3>2, <3>3, Zenon
    <2>3. Todo("runner")' \subseteq RunnerSteps(mode)'
      BY <1>6, Zenon DEF AgendaInv
    <2> QED
      BY <2>1, <2>2, <2>3, Zenon DEF AgendaInv
  <1> QED
    BY <1>3, <1>4, <1>6, <1>7, Zenon DEF Todo

LEMMA ChildAdvance ==
  ASSUME RunTypeOK, AgendaInv, NEW s, At("child", s), Advance("child"), mode' = mode
  PROVE  /\ agenda' \in [{"runner", "child"} -> Seq(StepNames)] /\ AgendaInv'
         /\ agenda'["runner"] = agenda["runner"] /\ Todo("runner")' = Todo("runner")
         /\ s \in Todo("child") /\ Todo("child") = Todo("child")' \cup {s} /\ agenda["child"] # <<>>
  <1> DEFINE a == agenda["child"]
  <1>1. a # <<>> /\ Head(a) = s /\ a \in Seq(StepNames)
    BY Zenon DEF At, RunTypeOK
  <1>2. agenda' = [agenda EXCEPT !["child"] = Tail(a)]
    BY Zenon DEF Advance
  <1>3. agenda' \in [{"runner", "child"} -> Seq(StepNames)] /\ agenda'["child"] = Tail(a)
        /\ agenda'["runner"] = agenda["runner"]
    BY <1>1, <1>2, TailFact, Zenon DEF RunTypeOK
  <1>4. Range(a) = {s} \cup Range(Tail(a))
    BY <1>1, TailFact, Zenon
  <1>5. Todo("runner")' = Todo("runner") /\ Todo("child") = Todo("child")' \cup {s}
    BY <1>3, <1>4, Zenon DEF Todo
  <1> QED
    BY <1>1, <1>3, <1>5 DEF AgendaInv, Ordered

\* What the order of the steps says about those ahead of the runner.
StepsAhead ==
    LET T == Todo("runner") IN
    /\ "pipes" \in T => "fork" \in T
    /\ "fork" \in T => "wait" \in T /\ "signal" \in T
    /\ "cgroup" \in T => "wait" \in T
    /\ "wait" \in T => "error" \in T
    /\ "started" \in T => "signal" \in T /\ (mode.userns # "host" => "map" \in T)
    /\ "map" \in T => mode.userns # "host"
    /\ "helper" \in T => mode.io = "log" /\ "log" \in T
    /\ "log" \in T => mode.io = "log"
    /\ "pty" \in T => mode.io = "tty" /\ "join" \in T
    /\ "proxy" \in T => mode.io = "tty" /\ "join" \in T
    /\ "join" \in T => mode.io = "tty"

LEMMA OrderFact == AgendaInv => StepsAhead
  <1> SUFFICES ASSUME AgendaInv PROVE StepsAhead
    BY Zenon
  <1>1. /\ Rank("pipes") = 1 /\ Rank("helper") = 2 /\ Rank("unshare") = 3 /\ Rank("pty") = 4
        /\ Rank("proxy") = 5 /\ Rank("fork") = 6 /\ Rank("cgroup") = 7 /\ Rank("bridge") = 8
        /\ Rank("started") = 9 /\ Rank("signal") = 10 /\ Rank("ready") = 11 /\ Rank("map") = 12
        /\ Rank("wait") = 13 /\ Rank("join") = 14 /\ Rank("error") = 15 /\ Rank("log") = 16
        /\ Rank("cleanup") = 17
    BY Zenon DEF Rank
  <1>2. /\ {"fork", "wait", "signal", "error"} \subseteq RunnerSteps(mode)
        /\ "helper" \in RunnerSteps(mode) => mode.io = "log"
        /\ "log" \in RunnerSteps(mode) <=> mode.io = "log"
        /\ "pty" \in RunnerSteps(mode) => mode.io = "tty"
        /\ "proxy" \in RunnerSteps(mode) => mode.io = "tty"
        /\ "join" \in RunnerSteps(mode) <=> mode.io = "tty"
        /\ "map" \in RunnerSteps(mode) <=> mode.userns # "host"
    BY DEF RunnerSteps
  <1>3. \A x \in Todo("runner") : x \in RunnerSteps(mode)
    BY Zenon DEF AgendaInv
  <1>4. \A x \in Todo("runner"), y \in RunnerSteps(mode) : Rank(x) < Rank(y) => y \in Todo("runner")
    BY Zenon DEF AgendaInv
  <1> HIDE DEF Todo, RunnerSteps
  <1> QED
    BY <1>1, <1>2, <1>3, <1>4 DEF StepsAhead

-----------------------------------------------------------------------------
(* RunProcess: the end of a process. *)

Status == {"none", "ok", "bad", "err", "signal"}

\* What the end of p changes: others that end with it are the child, the
\* copier and the descendant, by a signal.
Dying(p, how) ==
    /\ life' \in [RunProcesses -> {"unborn", "live", "ended", "reaped"}]
    /\ code' \in [RunProcesses -> Status]
    /\ ends' \in [Pipe -> SUBSET RunProcesses]
    /\ life'[p] = "ended" /\ code'[p] = how
    /\ \A q \in RunProcesses \ {p} :
           \/ life'[q] = life[q] /\ code'[q] = code[q]
           \/ /\ q \in {"child", "copier", "heir"} /\ life[q] = "live"
              /\ life'[q] = "ended" /\ code'[q] = "signal"
    /\ p # "runner" /\ "runner" \in ends["sync"] => "runner" \in ends'["sync"]

LEMMA EndsFact ==
  ASSUME RunTypeOK, NEW p \in RunProcesses, NEW how \in Status,
         Ends(EndingWith(p), p, how) \/ Ends({p}, p, how)
  PROVE  Dying(p, how)
  <1>1. PICK P \in SUBSET RunProcesses :
            Ends(P, p, how) /\ p \in P /\ \A q \in P : q = p \/ (q \in {"child", "copier", "heir"} /\ life[q] = "live")
    <2>1. /\ p \in EndingWith(p)
          /\ \A q \in EndingWith(p) : q = p \/ (q \in {"child", "copier", "heir"} /\ life[q] = "live")
          /\ EndingWith(p) \subseteq RunProcesses /\ {p} \subseteq RunProcesses
      BY Zenon DEF EndingWith, Live, RunProcesses
    <2> QED
      BY <2>1, Zenon
  <1>2. /\ life' = [q \in RunProcesses |-> IF q \in P THEN "ended" ELSE life[q]]
        /\ code' = [q \in RunProcesses |-> IF q = p THEN how ELSE IF q \in P THEN "signal" ELSE code[q]]
        /\ ends' = [q \in Pipe |-> ends[q] \ P]
    BY <1>1, Zenon DEF Ends, Closed
  <1>3. /\ life' \in [RunProcesses -> {"unborn", "live", "ended", "reaped"}]
        /\ code' \in [RunProcesses -> Status]
        /\ ends' \in [Pipe -> SUBSET RunProcesses]
    BY <1>2, Zenon DEF RunTypeOK, Status
  <1>4. p # "runner" => "runner" \notin P
    BY <1>1, Zenon
  <1>5. "sync" \in Pipe
    BY Zenon DEF Pipe
  <1> QED
    BY <1>1, <1>2, <1>3, <1>4, <1>5, Zenon DEF Dying

LEMMA RunnerDies ==
  ASSUME RunInv, Live("runner"), NEW how \in {"err", "signal"}, Dying("runner", how),
         how = "err" => terminal' = "cooked",
         UNCHANGED <<mode, agenda, sent, queue, out, logged, result>>
  PROVE  RunInv'
  <1> USE DEF Live, Status
  <1>1. RunTypeOK'
    BY Zenon DEF RunInv, RunTypeOK, Dying
  <1>2. AgendaInv' /\ Todo("runner")' = Todo("runner") /\ Todo("child")' = Todo("child")
    BY Zenon DEF RunInv, AgendaInv, Todo
  <1>3. /\ life'["runner"] = "ended" /\ code'["runner"] = how
        /\ \A q \in {"child", "copier", "heir"} :
               \/ life'[q] = life[q] /\ code'[q] = code[q]
               \/ life[q] = "live" /\ life'[q] = "ended" /\ code'[q] = "signal"
        /\ \A q \in {"log", "proxy"} : life'[q] = life[q] /\ code'[q] = code[q]
    BY Zenon DEF Dying, RunProcesses
  <1> HIDE DEF Todo
  <1>4. ResultInv'
    BY <1>2, <1>3 DEF RunInv, ResultInv, Executed
  <1>5. LogInv'
    BY <1>2, <1>3 DEF RunInv, LogInv
  <1>6. ProxyInv'
    BY <1>2, <1>3, Zenon DEF RunInv, ProxyInv
  <1>7. SyncInv'
    BY <1>2, <1>3, Zenon DEF RunInv, SyncInv
  <1> QED
    BY <1>1, <1>2, <1>4, <1>5, <1>6, <1>7, Zenon DEF RunInv

LEMMA ChildDies ==
  ASSUME RunInv, Live("child"), NEW how \in {"ok", "bad", "signal"}, Dying("child", how),
         how = "ok" => Executed,
         terminal' \in {terminal, "cooked"}, sent' \in {sent, sent \cup {"error"}},
         UNCHANGED <<mode, agenda, queue, out, logged, result>>
  PROVE  RunInv'
  <1> USE DEF Live, Status
  <1>1. RunTypeOK'
    BY Zenon DEF RunInv, RunTypeOK, Dying
  <1>2. AgendaInv' /\ Todo("runner")' = Todo("runner") /\ Todo("child")' = Todo("child")
    BY Zenon DEF RunInv, AgendaInv, Todo
  <1>3. /\ life'["child"] = "ended" /\ code'["child"] = how
        /\ \A q \in {"copier", "heir"} :
               \/ life'[q] = life[q] /\ code'[q] = code[q]
               \/ life[q] = "live" /\ life'[q] = "ended" /\ code'[q] = "signal"
        /\ \A q \in {"runner", "log", "proxy"} : life'[q] = life[q] /\ code'[q] = code[q]
        /\ "runner" \in ends["sync"] => "runner" \in ends'["sync"]
    BY Zenon DEF Dying, RunProcesses
  <1>4. "wait" \in Todo("runner") /\ "error" \in Todo("runner") /\ "fork" \notin Todo("runner")
    BY OrderFact, Zenon DEF RunInv, ResultInv, StepsAhead
  <1> HIDE DEF Todo
  <1>5. ResultInv'
    BY <1>2, <1>3, <1>4, Zenon DEF RunInv, ResultInv, Executed
  <1>6. LogInv'
    BY <1>2, <1>3 DEF RunInv, LogInv
  <1>7. ProxyInv'
    BY <1>2, <1>3 DEF RunInv, ProxyInv
  <1>8. SyncInv'
    BY <1>2, <1>3 DEF RunInv, SyncInv
  <1> QED
    BY <1>1, <1>2, <1>5, <1>6, <1>7, <1>8, Zenon DEF RunInv

LEMMA HelperDies ==
  ASSUME RunInv, NEW p \in {"log", "copier", "heir", "proxy"}, Live(p), NEW how \in {"ok", "bad"},
         p # "proxy" => Dying(p, how),
         p = "log" /\ how = "ok" => queue = 0,
         p = "proxy" => (Dying(p, how) /\ life["copier"] # "live") \/ ProxyStops,
         UNCHANGED <<mode, agenda, sent, queue, out, logged, terminal, result>>
  PROVE  RunInv'
  <1> USE DEF Live, Status
  <1>0. /\ life' \in [RunProcesses -> {"unborn", "live", "ended", "reaped"}]
        /\ code' \in [RunProcesses -> Status]
        /\ ends' \in [Pipe -> SUBSET RunProcesses]
        /\ life'[p] = "ended" /\ code'[p] \in {"ok", "bad"} /\ (p = "log" => code'[p] = how)
        /\ \A q \in {"child", "copier", "heir"} \ {p} :
               \/ life'[q] = life[q] /\ code'[q] = code[q]
               \/ life[q] = "live" /\ life'[q] = "ended" /\ code'[q] = "signal"
               \/ q = "copier" /\ p = "proxy" /\ life'[q] = "reaped"
        /\ \A q \in {"runner", "log", "proxy"} \ {p} : life'[q] = life[q] /\ code'[q] = code[q]
        /\ "runner" \in ends["sync"] => "runner" \in ends'["sync"]
        /\ p = "proxy" => life'["copier"] # "live"
    <2>1. CASE Dying(p, how) /\ (p = "proxy" => life["copier"] # "live")
      BY <2>1 DEF Dying, RunProcesses
    <2>2. CASE p = "proxy" /\ ProxyStops
      <3> DEFINE dead == EndingWith("proxy") \cup {"copier"}
      <3>1. /\ \A q \in dead : q \in {"proxy", "copier"} \/ (q \in {"child", "heir"} /\ life[q] = "live")
            /\ "proxy" \in dead /\ "copier" \in dead
        BY Zenon DEF EndingWith
      <3>2. /\ life' = [q \in RunProcesses |-> IF q = "copier" THEN "reaped"
                                              ELSE IF q \in dead THEN "ended" ELSE life[q]]
            /\ code' = [q \in RunProcesses |-> IF q = "proxy" THEN "ok"
                                              ELSE IF q \in dead /\ Live(q) THEN "signal" ELSE code[q]]
            /\ ends' = [q \in Pipe |-> ends[q] \ dead]
        BY <2>2, Zenon DEF ProxyStops, Closed
      <3> HIDE DEF dead
      <3>3. /\ life' \in [RunProcesses -> {"unborn", "live", "ended", "reaped"}]
            /\ code' \in [RunProcesses -> Status]
            /\ ends' \in [Pipe -> SUBSET RunProcesses]
        BY <3>2, Zenon DEF RunInv, RunTypeOK
      <3>4. /\ \A q \in {"child", "heir"} :
                   \/ life'[q] = life[q] /\ code'[q] = code[q]
                   \/ life[q] = "live" /\ life'[q] = "ended" /\ code'[q] = "signal"
            /\ life'["copier"] = "reaped" /\ life'["proxy"] = "ended" /\ code'["proxy"] = "ok"
            /\ \A q \in {"runner", "log"} : life'[q] = life[q] /\ code'[q] = code[q]
        BY <3>1, <3>2, Zenon DEF RunProcesses
      <3>5. "runner" \in ends["sync"] => "runner" \in ends'["sync"]
        BY <3>1, <3>2, Zenon DEF Pipe
      <3> QED
        BY <2>2, <3>3, <3>4, <3>5
    <2> QED
      BY <2>1, <2>2, Zenon
  <1>1. RunTypeOK'
    BY <1>0, Zenon DEF RunInv, RunTypeOK
  <1>2. AgendaInv' /\ Todo("runner")' = Todo("runner") /\ Todo("child")' = Todo("child")
    BY Zenon DEF RunInv, AgendaInv, Todo
  <1> HIDE DEF Todo
  <1>4. ResultInv'
    BY <1>0, <1>2 DEF RunInv, ResultInv, Executed
  <1>5. LogInv'
    BY <1>0, <1>2 DEF RunInv, LogInv
  <1>6. ProxyInv'
    BY <1>0, <1>2 DEF RunInv, ProxyInv
  <1>7. SyncInv'
    BY <1>0, <1>2 DEF RunInv, SyncInv
  <1> QED
    BY <1>1, <1>2, <1>4, <1>5, <1>6, <1>7, Zenon DEF RunInv

\* A step that only moves the agenda of the runner, past a step that nothing
\* else depends on.
LEMMA RunnerMoves ==
  ASSUME RunInv, NEW s \in {"unshare", "cgroup", "bridge", "started", "ready"},
         At("runner", s), Advance("runner"),
         UNCHANGED <<mode, life, code, ends, sent, queue, out, logged, terminal, result>>
  PROVE  RunInv'
  <1>1. /\ agenda' \in [{"runner", "child"} -> Seq(StepNames)] /\ AgendaInv'
        /\ agenda'["child"] = agenda["child"] /\ Todo("child")' = Todo("child")
        /\ \A t : t # s => (t \in Todo("runner")' <=> t \in Todo("runner"))
    BY RunnerAdvance, Zenon DEF RunInv
  <1> USE DEF Live
  <1>2. RunTypeOK'
    BY <1>1, Zenon DEF RunInv, RunTypeOK
  <1>3. ResultInv'
    BY <1>1 DEF RunInv, ResultInv, Executed
  <1>4. LogInv'
    BY <1>1, Zenon DEF RunInv, LogInv
  <1>5. ProxyInv'
    BY <1>1, Zenon DEF RunInv, ProxyInv
  <1>6. SyncInv'
    BY <1>1, Zenon DEF RunInv, SyncInv
  <1> QED
    BY <1>1, <1>2, <1>3, <1>4, <1>5, <1>6, Zenon DEF RunInv

\* The other steps of the runner that move its agenda.
LEMMA RunnerWorks ==
  ASSUME RunInv, NEW s, At("runner", s), Advance("runner"), mode' = mode, RunTypeOK',
         \/ s = "pipes" /\ OpenPipes
         \/ s = "helper" /\ StartLogHelper
         \/ s = "pty" /\ OpenPty
         \/ s = "proxy" /\ ProxyPty
  PROVE  RunInv'
  <1>1. /\ AgendaInv' /\ agenda'["child"] = agenda["child"] /\ Todo("child")' = Todo("child")
        /\ s \in Todo("runner")
        /\ \A t : t \in Todo("runner")' <=> t \in Todo("runner") /\ t # s
        /\ StepsAhead /\ Live("runner")
    BY RunnerAdvance, OrderFact, Zenon DEF RunInv, At
  <1> USE DEF Live
  <1>2. CASE s = "pipes" /\ OpenPipes
    <2>1. /\ UNCHANGED <<life, code, sent, queue, out, logged, terminal, result>>
          /\ ends'["sync"] = {"runner"}
      BY <1>2, Zenon DEF OpenPipes, Pipe
    <2>3. ResultInv'
      BY <1>1, <1>2, <2>1, Zenon DEF RunInv, ResultInv, Executed
    <2>4. LogInv'
      BY <1>1, <1>2, <2>1, Zenon DEF RunInv, LogInv
    <2>5. ProxyInv'
      BY <1>1, <1>2, <2>1, Zenon DEF RunInv, ProxyInv
    <2>6. SyncInv'
      BY <1>1, <1>2, <2>1 DEF RunInv, SyncInv
    <2> QED
      BY <1>1, <2>3, <2>4, <2>5, <2>6, Zenon DEF RunInv
  <1>3. CASE s = "helper" /\ StartLogHelper
    <2>1. /\ UNCHANGED <<code, ends, sent, queue, out, logged, terminal, result>>
          /\ life'["log"] = "live"
          /\ \A q \in {"runner", "child", "proxy", "copier", "heir"} : life'[q] = life[q]
      <3>1. ends' = ends
        BY <1>3, Zenon DEF StartLogHelper, Inherit, HelperKeeps, RunInv, RunTypeOK
      <3> QED
        BY <1>3, <3>1, Zenon DEF StartLogHelper, RunInv, RunTypeOK, RunProcesses
    <2>3. ResultInv'
      BY <1>1, <1>3, <2>1, Zenon DEF RunInv, ResultInv, Executed
    <2>4. LogInv'
      BY <1>1, <1>3, <2>1, Zenon DEF RunInv, LogInv, StepsAhead, ResultInv
    <2>5. ProxyInv'
      BY <1>1, <1>3, <2>1 DEF RunInv, ProxyInv
    <2>6. SyncInv'
      BY <1>1, <1>3, <2>1, Zenon DEF RunInv, SyncInv
    <2> QED
      BY <1>1, <2>3, <2>4, <2>5, <2>6, Zenon DEF RunInv
  <1>4. CASE s = "pty" /\ OpenPty
    <2>1. /\ UNCHANGED <<life, code, sent, queue, out, logged, result>>
          /\ ends'["sync"] = ends["sync"]
      BY <1>4, Zenon DEF OpenPty, Pipe, RunInv, RunTypeOK
    <2>3. ResultInv'
      BY <1>1, <1>4, <2>1, Zenon DEF RunInv, ResultInv, Executed
    <2>4. LogInv'
      BY <1>1, <1>4, <2>1, Zenon DEF RunInv, LogInv
    <2>5. ProxyInv'
      BY <1>1, <1>4, <2>1, Zenon DEF RunInv, ProxyInv, ResultInv, StepsAhead
    <2>6. SyncInv'
      BY <1>1, <1>4, <2>1 DEF RunInv, SyncInv
    <2> QED
      BY <1>1, <2>3, <2>4, <2>5, <2>6, Zenon DEF RunInv
  <1>5. CASE s = "proxy" /\ ProxyPty
    <2>1. /\ UNCHANGED <<code, ends, sent, queue, out, logged, terminal, result>>
          /\ life'["proxy"] = "live"
          /\ \A q \in {"runner", "child", "log", "copier", "heir"} : life'[q] = life[q]
      <3>1. ends' = ends
        BY <1>5 DEF ProxyPty, Inherit, HelperKeeps, RunInv, RunTypeOK
      <3> QED
        BY <1>5, <3>1, Zenon DEF ProxyPty, RunInv, RunTypeOK, RunProcesses
    <2>3. ResultInv'
      BY <1>1, <1>5, <2>1, Zenon DEF RunInv, ResultInv, Executed
    <2>4. LogInv'
      BY <1>1, <1>5, <2>1, Zenon DEF RunInv, LogInv
    <2>5. ProxyInv'
      BY <1>1, <1>5, <2>1, Zenon DEF RunInv, ProxyInv, StepsAhead
    <2>6. SyncInv'
      BY <1>1, <1>5, <2>1, Zenon DEF RunInv, SyncInv
    <2> QED
      BY <1>1, <2>3, <2>4, <2>5, <2>6, Zenon DEF RunInv
  <1> QED
    BY <1>2, <1>3, <1>4, <1>5, Zenon

\* The fork, the two signals and what the runner waits for.
LEMMA RunnerContinues ==
  ASSUME RunInv, NEW s, At("runner", s), Advance("runner"), mode' = mode, RunTypeOK',
         UNCHANGED <<code, queue, out, logged>>,
         \/ /\ s = "fork" /\ life' = [life EXCEPT !["child"] = "live"] /\ ends'["sync"] = ends["sync"]
            /\ UNCHANGED <<sent, terminal, result>>
         \/ /\ s = "signal" /\ sent' \in {sent, sent \cup {"sync"}} /\ UNCHANGED <<life, terminal, result>>
         \/ /\ s = "map" /\ sent' = sent \cup {"mapped"} /\ ends'["sync"] = ends["sync"]
            /\ UNCHANGED <<life, terminal, result>>
         \/ s = "wait" /\ WaitForChild
         \/ s = "join" /\ JoinProxyUnlessReaped
         \/ s = "error" /\ ReadChildError
         \/ /\ s = "log" /\ Reap({"log"}) /\ code["log"] = "ok" /\ life["log"] \in {"ended", "reaped"}
            /\ UNCHANGED <<ends, sent, terminal, result>>
  PROVE  RunInv'
  <1>1. /\ AgendaInv' /\ agenda'["child"] = agenda["child"] /\ Todo("child")' = Todo("child")
        /\ s \in Todo("runner")
        /\ \A t : t \in Todo("runner")' <=> t \in Todo("runner") /\ t # s
        /\ StepsAhead /\ Live("runner")
        /\ \A t \in Todo("runner") : t = s \/ Rank(s) < Rank(t)
    BY RunnerAdvance, RunnerHead, OrderFact, Zenon DEF RunInv, At
  <1> USE DEF Live
  <1>2. CASE /\ s = "fork" /\ life' = [life EXCEPT !["child"] = "live"] /\ ends'["sync"] = ends["sync"]
             /\ UNCHANGED <<sent, terminal, result>>
    <2>1. life'["child"] = "live" /\ \A q \in {"runner", "log", "proxy", "copier", "heir"} : life'[q] = life[q]
      BY <1>2, Zenon DEF RunInv, RunTypeOK, RunProcesses
    <2>3. ResultInv'
      BY <1>1, <1>2, <2>1, Zenon DEF RunInv, ResultInv, Executed, StepsAhead
    <2>4. LogInv'
      BY <1>1, <1>2, <2>1, Zenon DEF RunInv, LogInv
    <2>5. ProxyInv'
      BY <1>1, <1>2, <2>1 DEF RunInv, ProxyInv
    <2>6. SyncInv'
      BY <1>1, <1>2, <2>1, Zenon DEF RunInv, SyncInv
    <2> QED
      BY <1>1, <2>3, <2>4, <2>5, <2>6, Zenon DEF RunInv
  <1>3. CASE s = "signal" /\ sent' \in {sent, sent \cup {"sync"}} /\ UNCHANGED <<life, terminal, result>>
    <2>3. ResultInv'
      BY <1>1, <1>3, Zenon DEF RunInv, ResultInv, Executed
    <2>4. LogInv'
      BY <1>1, <1>3, Zenon DEF RunInv, LogInv
    <2>5. ProxyInv'
      BY <1>1, <1>3 DEF RunInv, ProxyInv
    <2>6. SyncInv'
      BY <1>1, <1>3, Zenon DEF RunInv, SyncInv
    <2> QED
      BY <1>1, <2>3, <2>4, <2>5, <2>6, Zenon DEF RunInv
  <1>4. CASE /\ s = "map" /\ sent' = sent \cup {"mapped"} /\ ends'["sync"] = ends["sync"]
             /\ UNCHANGED <<life, terminal, result>>
    <2>3. ResultInv'
      BY <1>1, <1>4, Zenon DEF RunInv, ResultInv, Executed
    <2>4. LogInv'
      BY <1>1, <1>4, Zenon DEF RunInv, LogInv
    <2>5. ProxyInv'
      BY <1>1, <1>4 DEF RunInv, ProxyInv
    <2>6. SyncInv'
      BY <1>1, <1>4 DEF RunInv, SyncInv
    <2> QED
      BY <1>1, <2>3, <2>4, <2>5, <2>6, Zenon DEF RunInv
  <1>5. CASE s = "wait" /\ WaitForChild
    <2>1. /\ UNCHANGED <<ends, sent, terminal>> /\ life'["child"] = "reaped"
          /\ result'.status = code["child"] /\ result'.error = result.error
          /\ \A q \in {"runner", "log", "proxy", "copier", "heir"} : life'[q] = life[q]
      BY <1>5, Zenon DEF WaitForChild, Reap, RunInv, RunTypeOK, RunProcesses
    <2>2. "error" \in Todo("runner") /\ "fork" \notin Todo("runner")
      BY <1>1, <1>5 DEF StepsAhead, Rank
    <2>3. ResultInv'
      BY <1>1, <1>5, <2>1, <2>2, Zenon DEF RunInv, ResultInv, Executed, WaitForChild
    <2>4. LogInv'
      BY <1>1, <1>5, <2>1 DEF RunInv, LogInv
    <2>5. ProxyInv'
      BY <1>1, <1>5, <2>1 DEF RunInv, ProxyInv
    <2>6. SyncInv'
      BY <1>1, <1>5, <2>1 DEF RunInv, SyncInv
    <2> QED
      BY <1>1, <2>3, <2>4, <2>5, <2>6, Zenon DEF RunInv
  <1>6. CASE s = "join" /\ JoinProxyUnlessReaped
    <2>1. /\ UNCHANGED <<ends, sent, result>> /\ life'["proxy"] = "reaped" /\ terminal' = "cooked"
          /\ life["proxy"] \in {"ended", "reaped"}
          /\ \A q \in {"runner", "log", "child", "copier", "heir"} : life'[q] = life[q]
      BY <1>6, Zenon DEF JoinProxyUnlessReaped, Reap, RunInv, RunTypeOK, RunProcesses
    <2>3. ResultInv'
      BY <1>1, <1>6, <2>1, Zenon DEF RunInv, ResultInv, Executed
    <2>4. LogInv'
      BY <1>1, <1>6, <2>1 DEF RunInv, LogInv
    <2>5. ProxyInv'
      BY <1>1, <1>6, <2>1, Zenon DEF RunInv, ProxyInv
    <2>6. SyncInv'
      BY <1>1, <1>6, <2>1 DEF RunInv, SyncInv
    <2> QED
      BY <1>1, <2>3, <2>4, <2>5, <2>6, Zenon DEF RunInv
  <1>7. CASE s = "error" /\ ReadChildError
    <2>1. /\ UNCHANGED <<life, ends, sent, terminal>>
          /\ result'.status = result.status /\ (result'.error <=> "error" \in sent)
      BY <1>7, Zenon DEF ReadChildError, RunInv, RunTypeOK
    <2>3. ResultInv'
      BY <1>1, <1>7, <2>1 DEF RunInv, ResultInv, Executed
    <2>4. LogInv'
      BY <1>1, <1>7, <2>1, Zenon DEF RunInv, LogInv
    <2>5. ProxyInv'
      BY <1>1, <1>7, <2>1 DEF RunInv, ProxyInv
    <2>6. SyncInv'
      BY <1>1, <1>7, <2>1 DEF RunInv, SyncInv
    <2> QED
      BY <1>1, <2>3, <2>4, <2>5, <2>6, Zenon DEF RunInv
  <1>8. CASE /\ s = "log" /\ Reap({"log"}) /\ code["log"] = "ok" /\ life["log"] \in {"ended", "reaped"}
             /\ UNCHANGED <<ends, sent, terminal, result>>
    <2>1. /\ life'["log"] = "reaped"
          /\ \A q \in {"runner", "child", "proxy", "copier", "heir"} : life'[q] = life[q]
      BY <1>8, Zenon DEF Reap, RunInv, RunTypeOK, RunProcesses
    <2>3. ResultInv'
      BY <1>1, <1>8, <2>1, Zenon DEF RunInv, ResultInv, Executed
    <2>4. LogInv'
      BY <1>1, <1>8, <2>1, Zenon DEF RunInv, LogInv
    <2>5. ProxyInv'
      BY <1>1, <1>8, <2>1 DEF RunInv, ProxyInv
    <2>6. SyncInv'
      BY <1>1, <1>8, <2>1, Zenon DEF RunInv, SyncInv
    <2> QED
      BY <1>1, <2>3, <2>4, <2>5, <2>6, Zenon DEF RunInv
  <1> QED
    BY <1>2, <1>3, <1>4, <1>5, <1>6, <1>7, <1>8, Zenon

LEMMA RunnerReturns ==
  ASSUME RunInv, ReturnProcessExit
  PROVE  RunInv'
  <1> USE DEF Live, Status
  <1>1. Dying("runner", "ok") /\ life["runner"] = "live" /\ At("runner", "cleanup")
        /\ UNCHANGED <<mode, agenda, sent, queue, out, logged, terminal, result>>
    BY EndsFact, Zenon DEF ReturnProcessExit, RunInv, RunProcesses, At
  <1>2. \A t \in Todo("runner") : t = "cleanup"
    <2>1. Rank("cleanup") = 17
      BY Zenon DEF Rank
    <2> QED
      BY <1>1, <2>1, RunnerHead, RankFact DEF RunInv
  <1>3. RunTypeOK'
    BY <1>1, Zenon DEF RunInv, RunTypeOK, Dying
  <1>4. AgendaInv' /\ Todo("runner")' = Todo("runner") /\ Todo("child")' = Todo("child")
    BY <1>1, Zenon DEF RunInv, AgendaInv, Todo
  <1>5. /\ life'["runner"] = "ended" /\ code'["runner"] = "ok"
        /\ \A q \in {"child", "copier", "heir"} :
               \/ life'[q] = life[q] /\ code'[q] = code[q]
               \/ life[q] = "live" /\ life'[q] = "ended" /\ code'[q] = "signal"
        /\ \A q \in {"log", "proxy"} : life'[q] = life[q] /\ code'[q] = code[q]
    BY <1>1, Zenon DEF Dying, RunProcesses
  <1> HIDE DEF Todo
  <1>6. ResultInv'
    BY <1>1, <1>2, <1>4, <1>5 DEF RunInv, ResultInv, Executed
  <1>7. LogInv'
    BY <1>1, <1>2, <1>4, <1>5 DEF RunInv, LogInv
  <1>8. ProxyInv'
    BY <1>1, <1>2, <1>4, <1>5 DEF RunInv, ProxyInv
  <1>9. SyncInv'
    BY <1>1, <1>2, <1>4, <1>5, Zenon DEF RunInv, SyncInv
  <1> QED
    BY <1>3, <1>4, <1>6, <1>7, <1>8, <1>9, Zenon DEF RunInv

\* The child moves on: past the signal and the maps only when they were there.
LEMMA ChildContinues ==
  ASSUME RunInv, NEW s, At("child", s), Advance("child"), mode' = mode,
         s = "read" => ends["sync"] = {} /\ (mode.bridge => "sync" \in sent),
         s = "await" => "mapped" \in sent,
         sent' \in {sent, sent \cup {"ready"}},
         ends' \in [Pipe -> SUBSET RunProcesses], "runner" \in ends["sync"] => "runner" \in ends'["sync"],
         UNCHANGED <<life, code, queue, out, logged, terminal, result>>
  PROVE  RunInv'
  <1>1. /\ agenda' \in [{"runner", "child"} -> Seq(StepNames)] /\ AgendaInv'
        /\ Todo("runner")' = Todo("runner")
        /\ \A t : t # s => (t \in Todo("child")' <=> t \in Todo("child"))
        /\ agenda["child"] # <<>> /\ StepsAhead /\ Live("child")
    BY ChildAdvance, OrderFact DEF RunInv, At
  <1> USE DEF Live
  <1>2. RunTypeOK'
    BY <1>1, Zenon DEF RunInv, RunTypeOK
  <1> HIDE DEF Todo
  <1>3. ResultInv'
    BY <1>1, Zenon DEF RunInv, ResultInv, Executed
  <1>4. LogInv'
    BY <1>1, Zenon DEF RunInv, LogInv
  <1>5. ProxyInv'
    BY <1>1, Zenon DEF RunInv, ProxyInv
  <1>6. "pipes" \notin Todo("runner")
    BY <1>1, Zenon DEF RunInv, ResultInv, StepsAhead
  <1>7. SyncInv'
    BY <1>1, <1>6, Zenon DEF RunInv, SyncInv
  <1> QED
    BY <1>1, <1>2, <1>3, <1>4, <1>5, <1>7, Zenon DEF RunInv

\* The program and the helpers while they live.
LEMMA OthersWork ==
  ASSUME RunInv, RunTypeOK', UNCHANGED <<mode, agenda, code, sent, terminal, result>>,
         "runner" \in ends["sync"] => "runner" \in ends'["sync"],
         \/ Live("log") /\ queue' = queue + 1 /\ out' = out + 1 /\ UNCHANGED <<life, logged>>
         \/ /\ life' = [life EXCEPT !["heir"] = "live"] /\ UNCHANGED <<queue, out, logged>>
         \/ Live("log") /\ queue > 0 /\ queue' = queue - 1 /\ logged' = logged + 1 /\ UNCHANGED <<life, out>>
         \/ /\ Live("proxy") /\ life' = [life EXCEPT !["copier"] = "live"]
            /\ UNCHANGED <<queue, out, logged>>
         \/ /\ \E p \in {"log", "proxy"} : life[p] = "ended" /\ Reap({p})
            /\ UNCHANGED <<queue, out, logged>>
  PROVE  RunInv'
  <1> USE DEF Live
  <1>1. AgendaInv' /\ Todo("runner")' = Todo("runner") /\ Todo("child")' = Todo("child")
    BY Zenon DEF RunInv, AgendaInv, Todo
  <1>2. /\ life'["runner"] = life["runner"] /\ life'["child"] = life["child"]
        /\ life'["proxy"] = life["proxy"] \/ (life["proxy"] = "ended" /\ life'["proxy"] = "reaped")
        /\ life'["log"] = life["log"] \/ (life["log"] = "ended" /\ life'["log"] = "reaped")
        /\ life'["copier"] = life["copier"] \/ (life["proxy"] = "live" /\ life'["proxy"] = "live")
    BY DEF Reap, RunInv, RunTypeOK, RunProcesses
  <1> HIDE DEF Todo
  <1>3. ResultInv'
    BY <1>1, <1>2, Zenon DEF RunInv, ResultInv, Executed
  <1>4. LogInv'
    <2>1. \/ UNCHANGED <<queue, out, logged>>
          \/ Live("log") /\ queue' = queue + 1 /\ out' = out + 1 /\ UNCHANGED <<life, logged>>
          \/ Live("log") /\ queue > 0 /\ queue' = queue - 1 /\ logged' = logged + 1 /\ UNCHANGED <<life, out>>
      BY Zenon
    <2>2. queue \in Nat /\ out \in Nat /\ logged \in Nat
      BY Zenon DEF RunInv, RunTypeOK
    <2>3. out' = logged' + queue'
      BY <2>1, <2>2 DEF RunInv, LogInv
    <2> QED
      BY <1>1, <1>2, <2>1, <2>3, Zenon DEF RunInv, LogInv
  <1>5. ProxyInv'
    BY <1>1, <1>2, Zenon DEF RunInv, ProxyInv
  <1>6. SyncInv'
    BY <1>1, <1>2, Zenon DEF RunInv, SyncInv
  <1> QED
    BY <1>1, <1>3, <1>4, <1>5, <1>6, Zenon DEF RunInv

-----------------------------------------------------------------------------
(* RunProcess: every action keeps the invariant. *)

LEMMA ErrKeeps ==
  ASSUME RunInv, Live("runner"), RunnerErr
  PROVE  RunInv'
  <1>1. Dying("runner", "err")
    BY EndsFact, Zenon DEF RunnerErr, RunInv, RunProcesses, Status
  <1> QED
    BY <1>1, RunnerDies, Zenon DEF RunnerErr

LEMMA AgendaType ==
  ASSUME RunInv, NEW s, At("runner", s), Advance("runner"), mode' = mode
  PROVE  mode' \in Mode /\ agenda' \in [{"runner", "child"} -> Seq(StepNames)]
  BY RunnerAdvance, Zenon DEF RunInv, RunTypeOK

LEMMA RunnerPrepares ==
  ASSUME RunInv, OpenPipes \/ StartLogHelper \/ UnshareParent \/ OpenPty \/ ProxyPty \/ ForkChild
  PROVE  RunInv'
  <1>1. CASE OpenPipes
    <2>1. At("runner", "pipes") /\ Advance("runner") /\ mode' = mode
      BY <1>1, Zenon DEF OpenPipes
    <2>2. RunTypeOK'
      BY <1>1, <2>1, AgendaType, Zenon DEF OpenPipes, RunInv, RunTypeOK, RunProcesses
    <2> QED
      BY <1>1, <2>1, <2>2, RunnerWorks, Zenon
  <1>2. CASE StartLogHelper
    <2>1. At("runner", "helper") /\ Advance("runner") /\ mode' = mode
      BY <1>2, Zenon DEF StartLogHelper
    <2>2. RunTypeOK'
      BY <1>2, <2>1, AgendaType, Zenon DEF StartLogHelper, Inherit, HelperKeeps, RunInv, RunTypeOK
    <2> QED
      BY <1>2, <2>1, <2>2, RunnerWorks, Zenon
  <1>3. CASE UnshareParent
    BY <1>3, RunnerMoves, Zenon DEF UnshareParent
  <1>4. CASE OpenPty
    <2>1. At("runner", "pty") /\ Advance("runner") /\ mode' = mode
      BY <1>4, Zenon DEF OpenPty
    <2>2. RunTypeOK'
      BY <1>4, <2>1, AgendaType, Zenon DEF OpenPty, RunInv, RunTypeOK, RunProcesses
    <2> QED
      BY <1>4, <2>1, <2>2, RunnerWorks, Zenon
  <1>5. CASE ProxyPty
    <2>1. At("runner", "proxy") /\ Advance("runner") /\ mode' = mode
      BY <1>5, Zenon DEF ProxyPty
    <2>2. RunTypeOK'
      BY <1>5, <2>1, AgendaType, Zenon DEF ProxyPty, Inherit, HelperKeeps, RunInv, RunTypeOK
    <2> QED
      BY <1>5, <2>1, <2>2, RunnerWorks, Zenon
  <1>6. CASE ForkChild
    <2>1. CASE RunnerErr
      BY <1>6, <2>1, ErrKeeps, Zenon DEF ForkChild, At
    <2>2. CASE ~RunnerErr
      <3>1. /\ At("runner", "fork") /\ Advance("runner")
            /\ life' = [life EXCEPT !["child"] = "live"]
            /\ ends' = [q \in Pipe |->
                   IF q \in {"sync", "mapped"} \/ "runner" \notin ends[q] THEN ends[q]
                   ELSE (ends[q] \ {"runner"}) \cup {"child"}]
            /\ UNCHANGED <<mode, code, sent, queue, out, logged, terminal, result>>
        BY <1>6, <2>2, Zenon DEF ForkChild
      <3>2. ends' \in [Pipe -> SUBSET RunProcesses] /\ ends'["sync"] = ends["sync"]
        BY <3>1 DEF RunInv, RunTypeOK, Pipe, RunProcesses
      <3>3. RunTypeOK'
        BY <3>1, <3>2, AgendaType, Zenon DEF RunInv, RunTypeOK
      <3> QED
        BY <3>1, <3>2, <3>3, RunnerContinues, Zenon
    <2> QED
      BY <2>1, <2>2, Zenon
  <1> QED
    BY <1>1, <1>2, <1>3, <1>4, <1>5, <1>6, Zenon

LEMMA RunnerGoesOn ==
  ASSUME RunInv, \/ PrepareChild \/ SetupBridge \/ SignalChildProcess \/ WaitForUsernsReady
                 \/ WriteUidGidMaps \/ WaitForChild \/ JoinProxyUnlessReaped \/ ReadChildError
                 \/ WaitForLogHelperStatus
  PROVE  RunInv'
  <1>0. CASE RunnerErr
    <2>1. Live("runner")
      BY Zenon DEF PrepareChild, SetupBridge, SignalChildProcess, WaitForUsernsReady, WriteUidGidMaps,
             WaitForChild, JoinProxyUnlessReaped, ReadChildError, WaitForLogHelperStatus, At
    <2> QED
      BY <1>0, <2>1, ErrKeeps, Zenon
  <1>1. CASE PrepareChild
    BY <1>1, RunnerMoves, Zenon DEF PrepareChild
  <1>2. CASE SetupBridge /\ ~RunnerErr
    <2>1. /\ At("runner", "bridge") /\ Advance("runner")
          /\ UNCHANGED <<mode, life, code, ends, sent, queue, out, logged, terminal, result>>
      BY <1>2, Zenon DEF SetupBridge
    <2> QED
      BY <2>1, RunnerMoves, Zenon
  <1>3. CASE SignalChildProcess /\ ~RunnerErr
    <2>1. /\ At("runner", "signal") /\ Advance("runner") /\ sent' \in {sent, sent \cup {"sync"}}
          /\ ends' = [ends EXCEPT !["sync"] = ends["sync"] \ {"runner"}]
          /\ UNCHANGED <<mode, life, code, queue, out, logged, terminal, result>>
      BY <1>3, Zenon DEF SignalChildProcess
    <2>2. RunTypeOK'
      BY <2>1, AgendaType, Zenon DEF RunInv, RunTypeOK
    <2> QED
      BY <2>1, <2>2, RunnerContinues, Zenon
  <1>4. CASE WaitForUsernsReady /\ ~RunnerErr
    <2>1. /\ At("runner", "ready") /\ Advance("runner")
          /\ UNCHANGED <<mode, life, code, ends, sent, queue, out, logged, terminal, result>>
      BY <1>4, Zenon DEF WaitForUsernsReady
    <2> QED
      BY <2>1, RunnerMoves, Zenon
  <1>5. CASE WriteUidGidMaps /\ ~RunnerErr
    <2>1. /\ At("runner", "map") /\ Advance("runner") /\ sent' = sent \cup {"mapped"}
          /\ ends' = [ends EXCEPT !["mapped"] = ends["mapped"] \ {"runner"}]
          /\ UNCHANGED <<mode, life, code, queue, out, logged, terminal, result>>
      BY <1>5, Zenon DEF WriteUidGidMaps
    <2>2. ends'["sync"] = ends["sync"]
      BY <2>1, Zenon DEF RunInv, RunTypeOK, Pipe
    <2>3. RunTypeOK'
      BY <2>1, AgendaType, Zenon DEF RunInv, RunTypeOK
    <2> QED
      BY <2>1, <2>2, <2>3, RunnerContinues, Zenon
  <1>6. CASE WaitForChild
    <2>1. /\ At("runner", "wait") /\ Advance("runner") /\ UNCHANGED <<mode, code, ends, queue, out, logged>>
          /\ life' = [q \in RunProcesses |-> IF q \in {"child"} THEN "reaped" ELSE life[q]]
          /\ result' = [result EXCEPT !.status = code["child"]]
      BY <1>6, Zenon DEF WaitForChild, Reap
    <2>2. code["child"] \in {"none", "ok", "bad", "err", "signal"}
      BY Zenon DEF RunInv, RunTypeOK, RunProcesses
    <2>3. RunTypeOK'
      BY <2>1, <2>2, AgendaType, Zenon DEF RunInv, RunTypeOK
    <2> QED
      BY <1>6, <2>1, <2>3, RunnerContinues, Zenon
  <1>7. CASE JoinProxyUnlessReaped
    <2>1. /\ At("runner", "join") /\ Advance("runner")
          /\ UNCHANGED <<mode, code, ends, queue, out, logged, result>>
          /\ life' = [q \in RunProcesses |-> IF q \in {"proxy"} THEN "reaped" ELSE life[q]]
      BY <1>7, Zenon DEF JoinProxyUnlessReaped, Reap
    <2>2. RunTypeOK'
      BY <2>1, AgendaType, Zenon DEF RunInv, RunTypeOK
    <2> QED
      BY <1>7, <2>1, <2>2, RunnerContinues, Zenon
  <1>8. CASE ReadChildError
    <2>1. /\ At("runner", "error") /\ Advance("runner")
          /\ UNCHANGED <<mode, life, code, ends, queue, out, logged>>
          /\ result' = [result EXCEPT !.error = ("error" \in sent)]
      BY <1>8, Zenon DEF ReadChildError
    <2>3. ASSUME NEW b \in BOOLEAN, result' = [result EXCEPT !.error = b]
          PROVE  result' \in [status : {"none", "ok", "bad", "err", "signal"}, error : BOOLEAN]
      BY <2>3, Zenon DEF RunInv, RunTypeOK
    <2>4. result' \in [status : {"none", "ok", "bad", "err", "signal"}, error : BOOLEAN]
      <3>1. ("error" \in sent) \in BOOLEAN
        OBVIOUS
      <3> QED
        BY <2>1, <2>3, <3>1, Zenon
    <2>2. RunTypeOK'
      BY <2>1, <2>4, AgendaType, Zenon DEF RunInv, RunTypeOK
    <2> QED
      BY <1>8, <2>1, <2>2, RunnerContinues, Zenon
  <1>9. CASE WaitForLogHelperStatus /\ ~RunnerErr
    <2>1. /\ At("runner", "log") /\ Advance("runner") /\ life["log"] \in {"ended", "reaped"}
          /\ code["log"] = "ok" /\ Reap({"log"})
          /\ UNCHANGED <<mode, code, ends, sent, queue, out, logged, terminal, result>>
      BY <1>9, Zenon DEF WaitForLogHelperStatus
    <2>2. RunTypeOK'
      BY <2>1, AgendaType, Zenon DEF RunInv, RunTypeOK, Reap
    <2> QED
      BY <2>1, <2>2, RunnerContinues, Zenon
  <1> QED
    BY <1>0, <1>1, <1>2, <1>3, <1>4, <1>5, <1>6, <1>7, <1>8, <1>9

LEMMA RunnerFaultKeeps ==
  ASSUME RunInv, RunnerFault \/ RunnerKilled
  PROVE  RunInv'
  <1>1. CASE RunnerKilled
    <2>1. Dying("runner", "signal")
      BY <1>1, EndsFact, Zenon DEF RunnerKilled, RunInv, RunProcesses, Status
    <2> QED
      BY <1>1, <2>1, RunnerDies, Zenon DEF RunnerKilled
  <1>2. CASE RunnerFault /\ RunnerErr
    BY <1>2, ErrKeeps DEF RunnerFault
  <1>3. CASE RunnerFault /\ ~RunnerErr
    <2> DEFINE dead == EndingWith("child") \cup {"runner"}
    <2>1. /\ At("runner", "cgroup")
          /\ life' = [q \in RunProcesses |-> IF q = "child" THEN "reaped"
                                             ELSE IF q \in dead THEN "ended" ELSE life[q]]
          /\ code' = [q \in RunProcesses |->
                 IF q = "runner" THEN "err"
                 ELSE IF q = "child" /\ ~Live("child") THEN code[q]
                 ELSE IF q \in dead THEN "signal" ELSE code[q]]
          /\ ends' = [q \in Pipe |-> ends[q] \ dead]
          /\ terminal' = "cooked"
          /\ UNCHANGED <<mode, agenda, sent, queue, out, logged, result>>
      BY <1>3, Zenon DEF RunnerFault, Closed
    <2>2. \A q \in dead : q \in {"runner", "child"} \/ (q \in {"copier", "heir"} /\ life[q] = "live")
      BY Zenon DEF EndingWith, Live
    <2>3. "runner" \in dead
      BY Zenon
    <2> HIDE DEF dead
    <2>4. RunTypeOK'
      BY <2>1, Zenon DEF RunInv, RunTypeOK
    <2>5. /\ life'["runner"] = "ended" /\ code'["runner"] = "err" /\ life'["child"] = "reaped"
          /\ code'["child"] \in {code["child"], "signal"}
          /\ \A q \in {"copier", "heir"} :
                 \/ life'[q] = life[q] /\ code'[q] = code[q]
                 \/ life[q] = "live" /\ life'[q] = "ended" /\ code'[q] = "signal"
          /\ \A q \in {"log", "proxy"} : life'[q] = life[q] /\ code'[q] = code[q]
      BY <2>1, <2>2, <2>3, Zenon DEF RunProcesses
    <2>6. AgendaInv' /\ Todo("runner")' = Todo("runner") /\ Todo("child")' = Todo("child")
      BY <2>1, Zenon DEF RunInv, AgendaInv, Todo
    <2>7. /\ "wait" \in Todo("runner") /\ "error" \in Todo("runner") /\ "fork" \notin Todo("runner")
          /\ Live("runner")
      <3>1. Rank("fork") = 6 /\ Rank("cgroup") = 7
        BY Zenon DEF Rank
      <3> QED
        BY <2>1, <3>1, RunnerHead, OrderFact DEF RunInv, StepsAhead, At
    <2> HIDE DEF Todo
    <2> USE DEF Live
    <2>8. ResultInv'
      BY <2>1, <2>5, <2>6, <2>7 DEF RunInv, ResultInv, Executed
    <2>9. LogInv'
      BY <2>1, <2>5, <2>6 DEF RunInv, LogInv
    <2>10. ProxyInv'
      BY <2>1, <2>5, <2>6 DEF RunInv, ProxyInv
    <2>11. SyncInv'
      BY <2>1, <2>5, <2>6, <2>7 DEF RunInv, SyncInv
    <2> QED
      BY <2>4, <2>6, <2>8, <2>9, <2>10, <2>11, Zenon DEF RunInv
  <1> QED
    BY <1>1, <1>2, <1>3, Zenon

LEMMA ChildErrKeeps ==
  ASSUME RunInv, Live("child"), ChildErr
  PROVE  RunInv'
  <1>1. Dying("child", "bad")
    BY EndsFact, Zenon DEF ChildErr, RunInv, RunProcesses, Status
  <1> QED
    BY <1>1, ChildDies, Zenon DEF ChildErr

LEMMA ChildStepKeeps ==
  ASSUME RunInv, ChildStep
  PROVE  RunInv'
  <1>0. Live("child")
    BY Zenon DEF ChildStep, ChildWorks, NotifyUsernsReady, WaitForUsernsMapped, ReadParentSignal, TraceMe, ExecProgram, At
  <1>1. CASE ChildErr
    BY <1>0, <1>1, ChildErrKeeps, Zenon
  <1>2. CASE ~ChildErr
    <2>1. PICK s \in {"stdio", "mounts", "user", "caps", "denylist", "notify", "await", "read", "traceme", "exec"} :
              /\ At("child", s) /\ Advance("child")
              /\ s = "read" => ends["sync"] = {} /\ (mode.bridge => "sync" \in sent)
              /\ s = "await" => "mapped" \in sent
              /\ sent' \in {sent, sent \cup {"ready"}}
              /\ \/ ends' = ends
                 \/ ends' = [q \in Pipe |-> IF q \in {"log", "pts"} THEN ends[q] ELSE ends[q] \ {"child"}]
              /\ UNCHANGED <<mode, life, code, queue, out, logged, terminal, result>>
      <3>1. CASE \E s \in {"stdio", "mounts", "user", "caps", "denylist"} : ChildWorks(s)
        BY <1>2, <3>1, Zenon DEF ChildWorks, ChildAdvances
      <3>2. CASE NotifyUsernsReady
        BY <1>2, <3>2, Zenon DEF NotifyUsernsReady
      <3>3. CASE WaitForUsernsMapped
        BY <1>2, <3>3, Zenon DEF WaitForUsernsMapped, ChildAdvances
      <3>4. CASE ReadParentSignal
        BY <1>2, <3>4, Zenon DEF ReadParentSignal, ChildAdvances
      <3>5. CASE TraceMe
        BY <1>2, <3>5, Zenon DEF TraceMe, ChildAdvances
      <3>6. CASE ExecProgram
        BY <3>6, Zenon DEF ExecProgram
      <3> QED
        BY <3>1, <3>2, <3>3, <3>4, <3>5, <3>6, Zenon DEF ChildStep
    <2>2. /\ ends' \in [Pipe -> SUBSET RunProcesses]
          /\ "runner" \in ends["sync"] => "runner" \in ends'["sync"]
      BY <2>1 DEF RunInv, RunTypeOK, Pipe
    <2> QED
      BY <2>1, <2>2, ChildContinues, Zenon
  <1> QED
    BY <1>1, <1>2, Zenon

LEMMA ChildFaultKeeps ==
  ASSUME RunInv, ChildFault \/ ChildKilled
  PROVE  RunInv'
  <1>1. Live("child")
    BY Zenon DEF ChildFault, ChildKilled
  <1>2. CASE ChildErr
    BY <1>1, <1>2, ChildErrKeeps, Zenon
  <1>3. CASE ~ChildErr
    <2>1. PICK how \in {"bad", "signal"} :
              /\ Ends(EndingWith("child"), "child", how)
              /\ terminal' \in {terminal, "cooked"}
              /\ UNCHANGED <<mode, agenda, sent, queue, out, logged, result>>
      BY <1>3, Zenon DEF ChildFault, ChildKilled
    <2>2. Dying("child", how)
      BY <2>1, EndsFact, Zenon DEF RunInv, RunProcesses, Status
    <2> QED
      BY <1>1, <2>1, <2>2, ChildDies, Zenon
  <1> QED
    BY <1>2, <1>3, Zenon

LEMMA ProgramKeeps ==
  ASSUME RunInv, ProgramWrites \/ ProgramForks \/ ProgramEnds
  PROVE  RunInv'
  <1>1. CASE ProgramWrites
    <2>1. RunTypeOK'
      BY <1>1 DEF ProgramWrites, RunInv, RunTypeOK
    <2> QED
      BY <1>1, <2>1, OthersWork, Zenon DEF ProgramWrites
  <1>2. CASE ProgramForks
    <2>1. /\ life' = [life EXCEPT !["heir"] = "live"]
          /\ ends' = [q \in Pipe |-> IF "child" \in ends[q] THEN ends[q] \cup {"heir"} ELSE ends[q]]
          /\ UNCHANGED <<mode, agenda, code, sent, queue, out, logged, terminal, result>>
      BY <1>2, Zenon DEF ProgramForks
    <2>2. /\ ends' \in [Pipe -> SUBSET RunProcesses]
          /\ "runner" \in ends["sync"] => "runner" \in ends'["sync"]
      BY <2>1, Zenon DEF RunInv, RunTypeOK, Pipe, RunProcesses
    <2>3. RunTypeOK'
      BY <2>1, <2>2, Zenon DEF RunInv, RunTypeOK
    <2> QED
      BY <2>1, <2>2, <2>3, OthersWork, Zenon
  <1>3. CASE ProgramEnds
    <2>1. CASE Live("child") /\ Executed /\ \E how \in {"ok", "bad", "signal"} : Ends(EndingWith("child"), "child", how)
      <3>1. PICK how \in {"ok", "bad", "signal"} : Ends(EndingWith("child"), "child", how)
        BY <2>1, Zenon
      <3>2. Dying("child", how)
        BY <3>1, EndsFact, Zenon DEF RunInv, RunProcesses, Status
      <3> QED
        BY <1>3, <2>1, <3>2, ChildDies, Zenon DEF ProgramEnds
    <2>2. CASE Live("heir") /\ Ends({"heir"}, "heir", "ok")
      <3>1. Dying("heir", "ok")
        BY <2>2, EndsFact, Zenon DEF RunInv, RunProcesses, Status
      <3> QED
        BY <1>3, <2>2, <3>1, HelperDies, Zenon DEF ProgramEnds
    <2> QED
      BY <1>3, <2>1, <2>2, Zenon DEF ProgramEnds
  <1> QED
    BY <1>1, <1>2, <1>3, Zenon

LEMMA HelpersKeep ==
  ASSUME RunInv, PumpLogs \/ PumpLogsFails \/ ForkCopier \/ ProxyReadsEnd \/ ProxyFault \/ CopierEnds
                 \/ \E p \in {"log", "proxy"} : CollectorReaps(p)
  PROVE  RunInv'
  <1>1. CASE PumpLogs /\ ~HelperEnds("log", "ok")
    <2>1. /\ Live("log") /\ queue > 0 /\ queue' = queue - 1 /\ logged' = logged + 1
          /\ UNCHANGED <<mode, agenda, life, code, ends, sent, out, terminal, result>>
      BY <1>1, Zenon DEF PumpLogs
    <2>2. RunTypeOK'
      BY <2>1 DEF RunInv, RunTypeOK
    <2> QED
      BY <2>1, <2>2, OthersWork, Zenon
  <1>2. CASE \/ PumpLogs /\ HelperEnds("log", "ok")
             \/ PumpLogsFails
    <2>1. PICK how \in {"ok", "bad"} : HelperEnds("log", how) /\ Live("log") /\ (how = "ok" => queue = 0)
      <3>1. CASE PumpLogsFails
        BY <3>1, Zenon DEF PumpLogsFails
      <3>2. CASE PumpLogs /\ HelperEnds("log", "ok")
        <4>1. Live("log") /\ (queue = 0 \/ (queue' = queue - 1 /\ queue > 0))
          BY <3>2, Zenon DEF PumpLogs
        <4>2. queue' = queue /\ queue \in Nat
          BY <3>2, Zenon DEF HelperEnds, RunInv, RunTypeOK
        <4>3. queue = 0
          BY <4>1, <4>2
        <4> QED
          BY <3>2, <4>1, <4>3, Zenon
      <3> QED
        BY <1>2, <3>1, <3>2, Zenon
    <2>2. Dying("log", how)
      BY <2>1, EndsFact, Zenon DEF HelperEnds, RunInv, RunProcesses, Status
    <2> QED
      BY <2>1, <2>2, HelperDies, Zenon DEF HelperEnds
  <1>3. CASE ForkCopier
    <2>1. RunTypeOK'
      BY <1>3, Zenon DEF ForkCopier, RunInv, RunTypeOK
    <2> QED
      BY <1>3, <2>1, OthersWork, Zenon DEF ForkCopier
  <1>4. CASE (ProxyReadsEnd \/ ProxyFault) /\ ProxyStops
    <2>1. Live("proxy")
      BY <1>4, Zenon DEF ProxyReadsEnd, ProxyFault
    <2>2. UNCHANGED <<mode, agenda, sent, queue, out, logged, terminal, result>>
      BY <1>4, Zenon DEF ProxyStops
    <2> QED
      BY <1>4, <2>1, <2>2, HelperDies, Zenon
  <1>5. CASE ProxyFault /\ life["copier"] = "unborn" /\ HelperEnds("proxy", "bad")
    <2>1. Live("proxy")
      BY <1>5, Zenon DEF ProxyFault
    <2>2. Dying("proxy", "bad")
      BY <1>5, EndsFact, Zenon DEF HelperEnds, RunInv, RunProcesses, Status
    <2> QED
      BY <1>5, <2>1, <2>2, HelperDies, Zenon DEF HelperEnds
  <1>6. CASE CopierEnds
    <2>1. Dying("copier", "ok")
      BY <1>6, EndsFact, Zenon DEF CopierEnds, RunInv, RunProcesses, Status
    <2> QED
      BY <1>6, <2>1, HelperDies, Zenon DEF CopierEnds
  <1>7. CASE \E p \in {"log", "proxy"} : CollectorReaps(p)
    <2>1. PICK p \in {"log", "proxy"} : CollectorReaps(p)
      BY <1>7, Zenon
    <2>2. /\ life[p] = "ended" /\ Reap({p})
          /\ UNCHANGED <<mode, agenda, code, ends, sent, queue, out, logged, terminal, result>>
      BY <2>1, Zenon DEF CollectorReaps
    <2>3. RunTypeOK'
      BY <2>2, Zenon DEF Reap, RunInv, RunTypeOK
    <2> QED
      BY <2>2, <2>3, OthersWork, Zenon
  <1> QED
    BY <1>1, <1>2, <1>3, <1>4, <1>5, <1>6, <1>7, Zenon DEF ProxyReadsEnd, ProxyFault

LEMMA RunInitInv ==
  ASSUME RunInit
  PROVE  RunInv
  <1> USE DEF Live
  <1>1. mode \in Mode
    BY RunAssumption, Zenon DEF RunInit
  <1>2. /\ agenda["runner"] = RunProcessSteps(mode) /\ agenda["child"] = RunChildSteps(mode)
        /\ DOMAIN agenda = {"runner", "child"}
    BY Zenon DEF RunInit
  <1>3. Ordered(agenda["runner"], 1, 17) /\ Todo("runner") = RunnerSteps(mode)
    BY <1>1, <1>2, RunnerAgenda, Zenon DEF Todo
  <1>4. /\ agenda["child"] \in Seq(StepNames) /\ "read" \in Todo("child")
        /\ mode.userns # "host" => "await" \in Todo("child")
    BY <1>1, <1>2, ChildAgenda, Zenon DEF Todo
  <1>5. AgendaInv
    BY <1>3, Zenon DEF AgendaInv
  <1>6. RunTypeOK
    <2>1. agenda \in [{"runner", "child"} -> Seq(StepNames)]
      BY <1>3, <1>4, Zenon DEF RunInit, Ordered
    <2> QED
      BY <1>1, <2>1, Zenon DEF RunInit, RunTypeOK
  <1>7. /\ {"pipes", "fork", "wait", "error", "signal"} \subseteq Todo("runner")
        /\ mode.io = "log" => "log" \in Todo("runner")
        /\ mode.io = "tty" => "join" \in Todo("runner")
    BY <1>3, Zenon DEF RunnerSteps
  <1>8. /\ \A p \in RunProcesses : code[p] = "none" /\ (p # "runner" => life[p] = "unborn")
        /\ life["runner"] = "live" /\ sent = {} /\ queue = 0 /\ out = 0 /\ logged = 0 /\ terminal = "cooked"
    BY Zenon DEF RunInit, RunProcesses
  <1> HIDE DEF Todo
  <1>9. ResultInv
    BY <1>7, <1>8, Zenon DEF ResultInv, RunProcesses
  <1>10. LogInv
    BY <1>7, <1>8 DEF LogInv, RunProcesses
  <1>11. ProxyInv
    BY <1>7, <1>8, Zenon DEF ProxyInv, RunProcesses
  <1>12. SyncInv
    BY <1>4, <1>7, <1>8 DEF SyncInv
  <1> QED
    BY <1>5, <1>6, <1>9, <1>10, <1>11, <1>12 DEF RunInv

\* Every step of run_process, of the processes it forks and of the program
\* keeps the agendas, the pipes and the statuses in line with each other.
THEOREM RunInvariant == RunSpec => []RunInv
  <1>1. RunSpec => RunInit /\ [][RunNext]_runVars
    BY DEF RunSpec
  <1>2. RunInit => RunInv
    BY RunInitInv, Zenon
  <1>3. RunInv /\ [RunNext]_runVars => RunInv'
    <2> SUFFICES ASSUME RunInv, [RunNext]_runVars
                 PROVE  RunInv'
      BY Zenon
    <2>1. CASE RunnerStep
      BY <2>1, RunnerPrepares, RunnerGoesOn, RunnerReturns, Zenon DEF RunnerStep
    <2>2. CASE RunnerFault \/ RunnerKilled
      BY <2>2, RunnerFaultKeeps, Zenon
    <2>3. CASE ChildStep
      BY <2>3, ChildStepKeeps, Zenon
    <2>4. CASE ChildFault \/ ChildKilled
      BY <2>4, ChildFaultKeeps, Zenon
    <2>5. CASE ProgramWrites \/ ProgramForks \/ ProgramEnds
      BY <2>5, ProgramKeeps, Zenon
    <2>6. CASE \/ HelperStep \/ PumpLogsFails \/ ProxyFault \/ CopierEnds
               \/ \E p \in {"log", "proxy"} : CollectorReaps(p)
      BY <2>6, HelpersKeep DEF HelperStep
    <2>7. CASE UNCHANGED runVars
      <3>1. RunTypeOK'
        BY <2>7, Zenon DEF runVars, RunInv, RunTypeOK
      <3>2. AgendaInv'
        BY <2>7, Zenon DEF runVars, RunInv, AgendaInv, Todo
      <3>3. ResultInv' /\ LogInv'
        BY <2>7, Zenon DEF runVars, RunInv, ResultInv, LogInv, Todo, Live, Executed
      <3>4. ProxyInv' /\ SyncInv'
        BY <2>7, Zenon DEF runVars, RunInv, ProxyInv, SyncInv, Todo, Live
      <3> QED
        BY <3>1, <3>2, <3>3, <3>4, Zenon DEF RunInv
    <2> QED
      BY <2>1, <2>2, <2>3, <2>4, <2>5, <2>6, <2>7 DEF RunNext
  <1> QED
    BY <1>1, <1>2, <1>3, PTL

\* run_process returns the status of its child, the error if and only if the
\* child wrote one, and success only for a program that was executed.
THEOREM ResultSafety == RunSpec => []ResultIsTruthful
  <1>1. RunInv => ResultIsTruthful
    BY Zenon DEF RunInv, ResultInv, ResultIsTruthful
  <1> QED
    BY <1>1, RunInvariant, PTL

\* run_child reaches execvp only behind on_started and the uid and gid maps,
\* unless the runner ended and nothing but the sync pipe held the child back.
THEOREM StartSafety == RunSpec => []StartedBeforeProgram
  <1>1. RunInv => StartedBeforeProgram
    <2> SUFFICES ASSUME RunInv, Executed
                 PROVE  StartedBeforeProgram
      BY Zenon DEF StartedBeforeProgram
    <2>1. "read" \notin Todo("child") /\ "await" \notin Todo("child")
      BY DEF Executed, Todo, Range
    <2>2. mode.userns = "host" => "map" \notin Todo("runner")
      BY DEF RunInv, AgendaInv, RunnerSteps
    <2>3. "signal" \notin Todo("runner") => "started" \notin Todo("runner")
      <3>1. "signal" \in RunnerSteps(mode) /\ Rank("started") = 9 /\ Rank("signal") = 10
        BY Zenon DEF RunnerSteps, Rank
      <3> QED
        BY <3>1 DEF RunInv, AgendaInv
    <2>4. "map" \notin Todo("runner") /\ mode.userns # "host" => "started" \notin Todo("runner")
      <3>1. mode.userns # "host" => "map" \in RunnerSteps(mode)
        BY Zenon DEF RunnerSteps
      <3>2. Rank("started") = 9 /\ Rank("map") = 12
        BY Zenon DEF Rank
      <3> QED
        BY <3>1, <3>2 DEF RunInv, AgendaInv
    <2>5. \A s : ToDo("runner", s) <=> s \in Todo("runner")
      BY DEF ToDo, Todo
    <2> HIDE DEF Todo
    <2> QED
      BY <2>1, <2>2, <2>3, <2>4, <2>5, Zenon DEF RunInv, SyncInv, StartedBeforeProgram
  <1> QED
    BY <1>1, RunInvariant, PTL

\* When run_process returns a status the log file holds all of the output, the
\* child and the helpers have been waited for, and, also after an error, the
\* terminal is cooked.
THEOREM CleanSafety == RunSpec => []RunEndsCleanly
  <1>1. RunInv => RunEndsCleanly
    <2> SUFFICES ASSUME RunInv
                 PROVE  RunEndsCleanly
      BY Zenon
    <2>1. LogIsComplete
      BY DEF RunInv, RunTypeOK, LogInv, LogIsComplete
    <2>2. NobodyLeftBehind
      BY Zenon DEF RunInv, ResultInv, LogInv, ProxyInv, NobodyLeftBehind, Live
    <2>3. TerminalRestored
      BY Zenon DEF RunInv, ProxyInv, TerminalRestored
    <2> QED
      BY <2>1, <2>2, <2>3, Zenon DEF RunEndsCleanly
  <1> QED
    BY <1>1, RunInvariant, PTL
=============================================================================
