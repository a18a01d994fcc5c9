----------------------------- MODULE HostProofs ------------------------------
(***************************************************************************)
(* Proofs about the components that work on the files and kernel objects   *)
(* of the host: ImageStore, BundleConfig, Overlay, RootfsDiff and Cgroup.  *)
(***************************************************************************)
EXTENDS ImageStore, BundleConfig, Overlay, RootfsDiff, Cgroup, Induction,
        FiniteSetTheorems, TLAPS

-----------------------------------------------------------------------------
(* The size of a directory. *)

\* The size of a directory with the entries S (what MapThenSumSet of Size adds up),
\* and a function f on the sets D that adds sizes up as it does.
SizeSum(S) == MapThenSumSet(LAMBDA e : e.size, S)
Sized(S) == IsFiniteSet(S) /\ \A e \in S : e.size \in Nat
One(s) == CHOOSE x \in s : TRUE
Adds(f, D) == f = [s \in D |-> IF s = {} THEN 0 ELSE One(s).size + f[s \ {One(s)}]]

\* A subset of a finite set, without one of its members, is smaller by one.
LEMMA OneLess ==
    ASSUME NEW S, Sized(S), NEW s \in SUBSET S
    PROVE  /\ IsFiniteSet(s) /\ Cardinality(s) \in Nat /\ Cardinality(s) <= Cardinality(S)
           /\ s = {} <=> Cardinality(s) = 0
           /\ \A x \in s : /\ s \ {x} \in SUBSET S /\ x.size \in Nat
                           /\ Cardinality(s \ {x}) = Cardinality(s) - 1
           /\ s # {} => One(s) \in s
<1>1. IsFiniteSet(s) /\ Cardinality(s) <= Cardinality(S)
  BY FS_Subset, Zenon DEF Sized
<1>2. Cardinality(s) \in Nat /\ (s = {} <=> Cardinality(s) = 0)
  BY <1>1, FS_CardinalityType, FS_EmptySet, Zenon
<1>3. ASSUME NEW x \in s PROVE Cardinality(s \ {x}) = Cardinality(s) - 1
  BY <1>1, FS_RemoveElement, Zenon
<1>4. s # {} => One(s) \in s
  BY Zenon DEF One
<1> QED BY <1>1, <1>2, <1>3, <1>4, Zenon DEF Sized

\* The same for one member.
LEMMA OneFewer ==
    ASSUME NEW S, Sized(S), NEW s \in SUBSET S, NEW x \in s
    PROVE  /\ s \ {x} \in SUBSET S /\ x.size \in Nat
           /\ Cardinality(s \ {x}) = Cardinality(s) - 1
  BY OneLess, Zenon

\* f and g agree on the subsets of S; the order of adding up does not matter.
SameSums(f, g, S) == \A s \in SUBSET S : f[s] \in Nat /\ f[s] = g[s]
AnyFirst(f, S) == \A s \in SUBSET S : \A y \in s : f[s] = y.size + f[s \ {y}]

\* The subsets with at most n members.
Small(S, n) == {s \in SUBSET S : Cardinality(s) <= n}

\* There is such a function: by induction on the number of members.
LEMMA AddsExists ==
    ASSUME NEW S, Sized(S)
    PROVE  \E f : Adds(f, SUBSET S)
<1> DEFINE N == Cardinality(S)
           T == {n \in 0 .. N : \E f \in [Small(S, n) -> Nat] : Adds(f, Small(S, n))}
<1>0. N \in Nat
  BY FS_CardinalityType, Zenon DEF Sized
<1>1. 0 \in T
  <2> DEFINE f == [s \in Small(S, 0) |-> 0]
  <2>1. \A s \in Small(S, 0) : s = {}
    BY OneLess DEF Small
  <2>2. Adds(f, Small(S, 0)) /\ f \in [Small(S, 0) -> Nat]
    BY <2>1, Zenon DEF Adds
  <2>3. 0 \in 0 .. N
    BY <1>0
  <2> QED BY <2>2, <2>3, Zenon
<1>2. ASSUME NEW n \in 1 .. N, n - 1 \in T PROVE n \in T
  <2>1. PICK f \in [Small(S, n - 1) -> Nat] : Adds(f, Small(S, n - 1))
    BY <1>2, Zenon
  <2> DEFINE g == [s \in Small(S, n) |-> IF s = {} THEN 0 ELSE One(s).size + f[s \ {One(s)}]]
  <2>2. \A s \in Small(S, n) : s # {} =>
            s \ {One(s)} \in Small(S, n - 1) /\ One(s).size \in Nat
    <3>1. ASSUME NEW s \in SUBSET S, Cardinality(s) <= n, s # {}
          PROVE  s \ {One(s)} \in Small(S, n - 1) /\ One(s).size \in Nat
      <4>1. /\ s \ {One(s)} \in SUBSET S /\ One(s).size \in Nat
            /\ Cardinality(s \ {One(s)}) = Cardinality(s) - 1 /\ Cardinality(s) \in Nat
        BY <3>1, OneLess, Zenon
      <4>2. Cardinality(s \ {One(s)}) <= n - 1
        BY <1>0, <3>1, <4>1
      <4> QED BY <4>1, <4>2, Zenon DEF Small
    <3> QED BY <3>1, Zenon DEF Small
  <2>3. g \in [Small(S, n) -> Nat]
    BY <2>2
  <2>4. Small(S, n - 1) \subseteq Small(S, n)
    BY <1>0, OneLess DEF Small
  <2>5. \A s \in Small(S, n - 1) : g[s] = f[s]
    BY <2>1, <2>4, Zenon DEF Adds
  <2>6. Adds(g, Small(S, n))
    <3>1. \A s \in Small(S, n) : g[s] = IF s = {} THEN 0 ELSE One(s).size + g[s \ {One(s)}]
      BY <2>2, <2>5, Zenon
    <3> QED BY <3>1, Zenon DEF Adds
  <2>7. n \in 0 .. N
    BY <1>0
  <2> QED BY <2>3, <2>6, <2>7, Zenon
<1>3. \A n \in 0 .. N : n \in T
  <2> HIDE DEF T, N
  <2> QED BY <1>0, <1>1, <1>2, InductionUpTo, Zenon
<1>4. N \in 0 .. N
  BY <1>0
<1>5. Small(S, N) = SUBSET S
  BY <1>0, OneLess, Zenon DEF Small
<1> QED BY <1>3, <1>4, <1>5, Zenon

\* There is only one on the subsets of S.
LEMMA AddsAgree ==
    ASSUME NEW S, Sized(S), NEW U, S \subseteq U, NEW f, NEW g,
           Adds(f, SUBSET S), Adds(g, SUBSET U)
    PROVE  SameSums(f, g, S)
<1> DEFINE N == Cardinality(S)
           T == {n \in 0 .. N : \A s \in SUBSET S : Cardinality(s) = n => f[s] \in Nat /\ f[s] = g[s]}
<1>0. N \in Nat
  BY FS_CardinalityType, Zenon DEF Sized
<1>a. \A s \in SUBSET S : /\ f[s] = IF s = {} THEN 0 ELSE One(s).size + f[s \ {One(s)}]
                          /\ g[s] = IF s = {} THEN 0 ELSE One(s).size + g[s \ {One(s)}]
  <2>1. SUBSET S \subseteq SUBSET U
    BY Zenon
  <2> QED BY <2>1, Zenon DEF Adds
<1>1. 0 \in T
  <2>1. \A s \in SUBSET S : Cardinality(s) = 0 => s = {}
    BY OneLess, Zenon
  <2>2. 0 \in Nat /\ 0 \in 0 .. N
    BY <1>0
  <2> QED BY <1>a, <2>1, <2>2, Zenon
<1>2. ASSUME NEW n \in 1 .. N, n - 1 \in T PROVE n \in T
  <2>1. ASSUME NEW s \in SUBSET S, Cardinality(s) = n PROVE f[s] \in Nat /\ f[s] = g[s]
    <3>0. n # 0
      BY <1>0
    <3>1. s # {} /\ One(s) \in s
      BY <2>1, <3>0, OneLess, Zenon
    <3>2. s \ {One(s)} \in SUBSET S /\ Cardinality(s \ {One(s)}) = n - 1 /\ One(s).size \in Nat
      <4>1. /\ s \ {One(s)} \in SUBSET S /\ One(s).size \in Nat
            /\ Cardinality(s \ {One(s)}) = Cardinality(s) - 1
        BY <3>1, OneFewer, Zenon
      <4> QED BY <2>1, <4>1, Zenon
    <3>3. f[s \ {One(s)}] \in Nat /\ f[s \ {One(s)}] = g[s \ {One(s)}]
      BY <1>2, <3>2, Zenon
    <3>4. /\ f[s] = One(s).size + f[s \ {One(s)}]
          /\ g[s] = One(s).size + g[s \ {One(s)}]
      BY <1>a, <3>1, Zenon
    <3>5. \A i, j \in Nat : i + j \in Nat
      OBVIOUS
    <3> QED BY <3>2, <3>3, <3>4, <3>5, Zenon
  <2>2. n \in 0 .. N
    BY <1>0
  <2> QED BY <2>1, <2>2, Zenon
<1>3. \A n \in 0 .. N : n \in T
  <2> HIDE DEF T, N
  <2> QED BY <1>0, <1>1, <1>2, InductionUpTo, Zenon
<1>4. \A s \in SUBSET S : Cardinality(s) \in 0 .. N
  BY <1>0, OneLess
<1> QED BY <1>3, <1>4, Zenon DEF SameSums

\* Any member may be added last.
LEMMA AddsAny ==
    ASSUME NEW S, Sized(S), NEW f, Adds(f, SUBSET S)
    PROVE  AnyFirst(f, S)
<1> DEFINE N == Cardinality(S)
           T == {n \in 0 .. N : \A s \in SUBSET S :
                     Cardinality(s) = n => \A y \in s : f[s] = y.size + f[s \ {y}]}
<1>0. N \in Nat
  BY FS_CardinalityType, Zenon DEF Sized
<1>a. \A s \in SUBSET S : f[s] \in Nat
  BY AddsAgree, Zenon DEF SameSums
<1>b. \A s \in SUBSET S : s # {} => f[s] = One(s).size + f[s \ {One(s)}]
  BY Zenon DEF Adds
<1>1. 0 \in T
  <2>1. \A s \in SUBSET S : Cardinality(s) = 0 => s = {}
    BY OneLess, Zenon
  <2>2. 0 \in 0 .. N
    BY <1>0
  <2> QED BY <2>1, <2>2, Zenon
<1>2. ASSUME NEW n \in 1 .. N, n - 1 \in T PROVE n \in T
  <2>1. ASSUME NEW s \in SUBSET S, Cardinality(s) = n, NEW y \in s
        PROVE  f[s] = y.size + f[s \ {y}]
    <3> DEFINE x == One(s)
    <3>1. x \in s /\ f[s] = x.size + f[s \ {x}]
      BY <1>b, OneLess, Zenon
    <3>2. CASE x = y
      BY <3>1, <3>2, Zenon
    <3>3. CASE x # y
      <4>0. \A z \in s : /\ s \ {z} \in SUBSET S /\ z.size \in Nat
                        /\ Cardinality(s \ {z}) = Cardinality(s) - 1
        BY OneLess, Zenon
      <4>1. /\ s \ {x} \in SUBSET S /\ Cardinality(s \ {x}) = n - 1 /\ x.size \in Nat
            /\ s \ {y} \in SUBSET S /\ Cardinality(s \ {y}) = n - 1 /\ y.size \in Nat
        BY <2>1, <3>1, <4>0, Zenon
      <4>2. f[s \ {x}] = y.size + f[(s \ {x}) \ {y}] /\ f[s \ {y}] = x.size + f[(s \ {y}) \ {x}]
        BY <1>2, <3>1, <3>3, <4>1, Zenon
      <4>3. (s \ {x}) \ {y} = (s \ {y}) \ {x} /\ f[(s \ {x}) \ {y}] \in Nat
        BY <1>a, Zenon
      <4>4. \A i, j, k \in Nat : i + (j + k) = j + (i + k)
        OBVIOUS
      <4> HIDE DEF x
      <4>5. f[s] = x.size + (y.size + f[(s \ {x}) \ {y}])
        BY <3>1, <4>2, Zenon
      <4>6. y.size + f[s \ {y}] = y.size + (x.size + f[(s \ {x}) \ {y}])
        BY <4>2, <4>3, Zenon
      <4> QED BY <4>1, <4>3, <4>4, <4>5, <4>6, Zenon
    <3> QED BY <3>2, <3>3, Zenon
  <2>2. n \in 0 .. N
    BY <1>0
  <2> QED BY <2>1, <2>2, Zenon
<1>3. \A n \in 0 .. N : n \in T
  <2> HIDE DEF T, N
  <2> QED BY <1>0, <1>1, <1>2, InductionUpTo, Zenon
<1>4. \A s \in SUBSET S : Cardinality(s) \in 0 .. N
  BY <1>0, OneLess
<1> QED BY <1>3, <1>4, Zenon DEF AnyFirst

\* The fold of the library is this function.
LEMMA SumIsAdds ==
    ASSUME NEW S, Sized(S)
    PROVE  \E f : Adds(f, SUBSET S) /\ SizeSum(S) = f[S]
<1> DEFINE f == CHOOSE f : Adds(f, SUBSET S)
<1>1. Adds(f, SUBSET S)
  BY AddsExists, Zenon
<1>2. SizeSum(S) = f[S]
  BY Zenon DEF SizeSum, MapThenSumSet, MapThenFoldSet, Adds, One
<1> QED BY <1>1, <1>2, Zenon

\* An empty directory has size 0.
LEMMA SumOfNone == SizeSum({}) = 0
<1>1. Sized({})
  BY FS_EmptySet, Zenon DEF Sized
<1>2. PICK f : Adds(f, SUBSET {}) /\ SizeSum({}) = f[{}]
  BY <1>1, SumIsAdds, Zenon
<1>3. {} \in SUBSET {}
  BY Zenon
<1> QED BY <1>2, <1>3, Zenon DEF Adds

\* A new entry adds its size.
LEMMA SumOfOneMore ==
    ASSUME NEW S, Sized(S), NEW x, x.size \in Nat, x \notin S
    PROVE  /\ SizeSum(S) \in Nat /\ Sized(S \cup {x})
           /\ SizeSum(S \cup {x}) = x.size + SizeSum(S)
<1> DEFINE U == S \cup {x}
<1>1. Sized(U)
  BY FS_AddElement, Zenon DEF Sized
<1>2. PICK f : Adds(f, SUBSET S) /\ SizeSum(S) = f[S]
  BY SumIsAdds, Zenon
<1>3. PICK g : Adds(g, SUBSET U) /\ SizeSum(U) = g[U]
  BY <1>1, SumIsAdds, Zenon
<1>4. S \in SUBSET S /\ S \subseteq U /\ U \in SUBSET U /\ x \in U /\ U \ {x} = S
  BY Zenon
<1> HIDE DEF U
<1>5. f[S] \in Nat /\ f[S] = g[S]
  <2>1. SameSums(f, g, S)
    BY <1>2, <1>3, <1>4, AddsAgree, Zenon
  <2> QED BY <1>4, <2>1, Zenon DEF SameSums
<1>6. g[U] = x.size + g[U \ {x}]
  <2>1. AnyFirst(g, U)
    BY <1>1, <1>3, AddsAny, Zenon
  <2> QED BY <1>4, <2>1, Zenon DEF AnyFirst
<1>7. SizeSum(U) = x.size + SizeSum(S)
  BY <1>2, <1>3, <1>4, <1>5, <1>6, Zenon
<1> QED BY <1>1, <1>2, <1>5, <1>7, Zenon DEF U

\* A part of a directory is no larger than the directory.
LEMMA SumOfPart ==
    ASSUME NEW S, Sized(S), NEW s \in SUBSET S
    PROVE  /\ SizeSum(s) \in Nat /\ SizeSum(S) \in Nat /\ SizeSum(s) <= SizeSum(S)
           /\ Cardinality(s) \in Nat /\ Cardinality(s) <= Cardinality(S)
<1> DEFINE N == Cardinality(S)
           Rest(u) == Cardinality(u \ s)
           T == {n \in 0 .. N : \A u \in SUBSET S : s \subseteq u /\ Rest(u) = n => SizeSum(s) <= SizeSum(u)}
<1>0. N \in Nat
  BY FS_CardinalityType, Zenon DEF Sized
<1>1. \A u \in SUBSET S : Sized(u) /\ SizeSum(u) \in Nat
  <2> TAKE u \in SUBSET S
  <2>1. Sized(u)
    BY FS_Subset, Zenon DEF Sized
  <2>2. PICK f : Adds(f, SUBSET u) /\ SizeSum(u) = f[u]
    BY <2>1, SumIsAdds, Zenon
  <2>3. u \in SUBSET u
    BY Zenon
  <2>4. SameSums(f, f, u)
    BY <2>1, <2>2, AddsAgree, Zenon
  <2> QED BY <2>1, <2>2, <2>3, <2>4, Zenon DEF SameSums
<1>2. \A u \in SUBSET S : Rest(u) \in 0 .. N
  BY <1>0, OneLess
<1>3. 0 \in T
  <2>1. ASSUME NEW u \in SUBSET S, s \subseteq u, Rest(u) = 0 PROVE SizeSum(s) <= SizeSum(u)
    <3>1. u \ s \in SUBSET S /\ u \ s = {}
      <4>1. PICK w : w = u \ s /\ w \in SUBSET S /\ Cardinality(w) = 0
        BY <2>1, Zenon
      <4>2. w = {}
        BY <4>1, OneLess, Zenon
      <4> QED BY <4>1, <4>2, Zenon
    <3>2. u = s /\ SizeSum(s) \in Nat
      BY <1>1, <2>1, <3>1, Zenon
    <3> QED BY <3>2
  <2>2. 0 \in 0 .. N
    BY <1>0
  <2> QED BY <2>1, <2>2, Zenon
<1>4. ASSUME NEW n \in 1 .. N, n - 1 \in T PROVE n \in T
  <2>1. ASSUME NEW u \in SUBSET S, s \subseteq u, Rest(u) = n PROVE SizeSum(s) <= SizeSum(u)
    <3>1. n # 0 /\ n \in Nat
      BY <1>0
    <3>2. PICK y : y \in u \ s
      BY <2>1, <3>1, OneLess, Zenon
    <3> DEFINE v == u \ {y}
    <3>3. v \in SUBSET S /\ s \subseteq v /\ v \ s = (u \ s) \ {y} /\ v \cup {y} = u /\ y \notin v
      BY <2>1, <3>2, Zenon
    <3>4. u \ s \in SUBSET S /\ Cardinality((u \ s) \ {y}) = Cardinality(u \ s) - 1 /\ y.size \in Nat
      <4>1. PICK w : w = u \ s /\ w \in SUBSET S /\ y \in w
        BY <3>2, Zenon
      <4>2. Cardinality(w \ {y}) = Cardinality(w) - 1 /\ y.size \in Nat
        BY <4>1, OneFewer, Zenon
      <4> QED BY <4>1, <4>2, Zenon
    <3>5. Rest(v) = n - 1
      BY <2>1, <3>3, <3>4, Zenon
    <3>6. SizeSum(s) <= SizeSum(v)
      BY <1>4, <3>3, <3>5, Zenon
    <3>7. SizeSum(v) \in Nat /\ SizeSum(u) = y.size + SizeSum(v)
      BY <1>1, <3>3, <3>4, SumOfOneMore, Zenon
    <3>8. \A a, c, d \in Nat : a <= c => a <= d + c
      OBVIOUS
    <3> QED BY <1>1, <3>4, <3>6, <3>7, <3>8, Zenon
  <2>2. n \in 0 .. N
    BY <1>0
  <2> QED BY <2>1, <2>2, Zenon
<1>5. \A n \in 0 .. N : n \in T
  <2> HIDE DEF T, N
  <2> QED BY <1>0, <1>3, <1>4, InductionUpTo, Zenon
<1>6. S \in SUBSET S /\ s \subseteq S
  BY Zenon
<1>7. SizeSum(s) <= SizeSum(S)
  BY <1>2, <1>5, <1>6, Zenon
<1>8. Cardinality(s) \in Nat /\ Cardinality(s) <= Cardinality(S)
  BY OneLess, Zenon
<1> QED BY <1>1, <1>6, <1>7, <1>8, Zenon

-----------------------------------------------------------------------------
(* ImageStore: what is in the directory follows from how far the only import *)
(* that is, or was last, at work has come.                                   *)

\* The steps of an import.
Steps == {"idle", "mkdir", "preflight", "unpack", "config", "write", "cleanup",
          "over", "refused", "failed", "stuck", "dead"}

\* Every variable holds a value of its kind.
ImageTyped ==
    /\ alone \in BOOLEAN /\ taken \in BOOLEAN /\ config \in {"none", "partial", "whole"}
    /\ archive \in [Importers -> Archives]
    /\ ipc \in [Importers -> Steps]
    /\ cursor \in [Importers -> Nat]

\* What the first n entries of an archive leave in the directory.
Unpacked(a, n) == {a[k] : k \in 1 .. n}

\* What an import at step l of archive a, about to unpack entry n, has left.
Stage(l, a, n, files, t, c) ==
    /\ l = "mkdir" => ~t
    /\ l \in {"preflight", "unpack", "config", "write", "cleanup", "over"} => t
    /\ l \in {"preflight", "unpack", "config"} => c = "none"
    /\ l = "write" => c = "partial"
    /\ l = "cleanup" => c # "whole"
    /\ l \in {"idle", "mkdir", "preflight"} => n = 1
    /\ l = "preflight" => files = {}
    /\ l = "unpack" => n \in 1 .. Len(a) /\ Preflight(a) /\ files = Unpacked(a, n - 1)
    /\ l \in {"config", "write"} => Preflight(a) /\ files = Unpacked(a, Len(a))
    /\ l = "over" => c = "whole" /\ files = Unpacked(a, Len(a))

\* The directory holds nothing but entries of an archive that passed the preflight.
Within(files) ==
    files = {} \/ \E j \in Importers :
        /\ Preflight(archive[j])
        /\ \E n \in 1 .. Len(archive[j]) : files \subseteq Unpacked(archive[j], n)

\* While the imports take turns: at most one is at work, none after an image is
\* complete, and the directory is what the one that took the name has left there.
Alone ==
    /\ \A i, j \in Importers : Importing(i) /\ Importing(j) => i = j
    /\ \A i, j \in Importers : ipc[i] = "over" => ~Importing(j)
    /\ \A i \in Importers : Stage(ipc[i], archive[i], cursor[i], rootfs, taken, config)
    /\ ~taken => rootfs = {} /\ config = "none"
    /\ taken => \E i \in Importers : ipc[i] \in {"over", "dead", "stuck"} \/ Importing(i)
    /\ config = "whole" => \E i \in Importers : ipc[i] = "over"
    /\ config = "partial" => \E i \in Importers : ipc[i] \in {"dead", "stuck"} \/ Importing(i)
    /\ Within(rootfs)

\* The inductive invariant of imports that are killed or fail at any entry.
ImageInv == ImageTyped /\ (alone => Alone)

\* Unpacking an entry adds it.
LEMMA UnpackedFacts ==
    ASSUME NEW a \in Archives
    PROVE  /\ Len(a) \in Nat /\ (a = <<>> <=> Len(a) = 0)
           /\ Unpacked(a, 0) = {}
           /\ Unpacked(a, Len(a)) = Range(a)
           /\ \A n \in 1 .. Len(a) : Unpacked(a, n) = Unpacked(a, n - 1) \cup {a[n]}
           /\ \A n \in 0 .. Len(a) : Unpacked(a, n) \subseteq Range(a)
<1>1. a \in Seq(Range(a))
  BY ArchivesAssumption, Zenon
<1>2. Len(a) \in Nat /\ DOMAIN a = 1 .. Len(a) /\ (a = <<>> <=> Len(a) = 0)
  BY <1>1
<1>3. \A n \in 1 .. Len(a) : Unpacked(a, n) = Unpacked(a, n - 1) \cup {a[n]}
  <2> TAKE n \in 1 .. Len(a)
  <2>1. \A k \in Int : k \in 1 .. n <=> k \in 1 .. n - 1 \/ k = n
    BY <1>2
  <2>2. 1 .. n \subseteq Int /\ 1 .. n - 1 \subseteq Int /\ n \in Int
    BY <1>2
  <2> QED BY <2>1, <2>2, Zenon DEF Unpacked
<1>4. 1 .. 0 = {} /\ \A n \in 0 .. Len(a) : 1 .. n \subseteq 1 .. Len(a)
  BY <1>2
<1> QED BY <1>2, <1>3, <1>4, Zenon DEF Unpacked, Range

\* ImageInv holds of a store without the image.
LEMMA ImageInitInv == ImageInit => ImageInv
<1> SUFFICES ASSUME ImageInit PROVE ImageInv
  BY Zenon
<1>1. ImageTyped
  BY Zenon DEF ImageInit, ImageState, ImageTyped, Steps
<1>2. \A i \in Importers : ipc[i] = "idle" /\ cursor[i] = 1
  BY Zenon DEF ImageInit, ImageState
<1>3. Alone
  BY <1>2, Zenon DEF ImageInit, ImageState, Alone, Stage, Within, Importing
<1> QED BY <1>1, <1>3, Zenon DEF ImageInv

\* Every step of import_into keeps the types.
LEMMA ImageStepTyped == ImageTyped /\ ImageNext => ImageTyped'
<1> SUFFICES ASSUME ImageTyped, ImageNext PROVE ImageTyped'
  BY Zenon
<1> USE DEF ImageTyped, Steps, Proceed
<1>1. ASSUME NEW i \in Importers, CheckName(i) PROVE ImageTyped'
  BY <1>1, Zenon DEF CheckName
<1>2. ASSUME NEW i \in Importers, MakeImageDir(i) PROVE ImageTyped'
  BY <1>2, Zenon DEF MakeImageDir
<1>3. ASSUME NEW i \in Importers, PreflightArchive(i) PROVE ImageTyped'
  BY <1>3, Zenon DEF PreflightArchive
<1>4. ASSUME NEW i \in Importers, UnpackEntry(i) PROVE ImageTyped'
  BY <1>4 DEF UnpackEntry
<1>5. ASSUME NEW i \in Importers, WriteMinimalConfig(i) PROVE ImageTyped'
  BY <1>5, Zenon DEF WriteMinimalConfig
<1>8. ASSUME NEW i \in Importers, CreateConfig(i) PROVE ImageTyped'
  BY <1>8, Zenon DEF CreateConfig
<1>6. ASSUME NEW i \in Importers, RemoveImageDir(i) PROVE ImageTyped'
  BY <1>6, Zenon DEF RemoveImageDir
<1>7. ASSUME NEW i \in Importers, KillImporter(i) PROVE ImageTyped'
  BY <1>7, Zenon DEF KillImporter
<1> QED BY <1>1, <1>2, <1>3, <1>4, <1>5, <1>6, <1>7, <1>8, Zenon DEF ImageNext

\* Every step of import_into that has the store to itself keeps Alone.
LEMMA ImageStepAlone ==
    ASSUME ImageTyped, alone, Alone, ImageNext
    PROVE  Alone'
<1> USE DEF ImageTyped, Steps, Proceed, Importing, Stage
\* The import that is at work goes on.
<1>9. ASSUME NEW i \in Importers, Importing(i), Importing(i)', archive' = archive, taken, taken',
             \A j \in Importers \ {i} : ipc'[j] = ipc[j] /\ cursor'[j] = cursor[j],
             Stage(ipc'[i], archive'[i], cursor'[i], rootfs', taken', config'),
             ipc'[i] \in {"unpack", "config", "write", "cleanup"},
             Within(rootfs)'
      PROVE  Alone'
  <2>1. \A j \in Importers \ {i} : ipc[j] \in {"idle", "refused", "failed", "stuck", "dead"}
    BY <1>9 DEF Alone
  <2>2. \A j \in Importers \ {i} : ipc[j] = "idle" => cursor[j] = 1
    BY Zenon DEF Alone
  <2>3. \A j \in Importers \ {i} : Stage(ipc'[j], archive'[j], cursor'[j], rootfs', taken', config')
    BY <1>9, <2>1, <2>2, Zenon
  <2>4. \A j \in Importers : (Importing(j)' => j = i) /\ ipc'[j] # "over"
    BY <1>9, <2>1, Zenon
  <2>5. config' # "whole"
    BY <1>9, Zenon
  <2> HIDE DEF Stage, Importing
  <2> QED BY <1>9, <2>3, <2>4, <2>5, Zenon DEF Alone
<1>1. ASSUME NEW i \in Importers, CheckName(i) PROVE Alone'
  <2>1. /\ UNCHANGED <<alone, archive, cursor, rootfs, taken, config>> /\ ipc[i] = "idle"
        /\ \A j \in Importers : ~Importing(j)
        /\ \/ ipc' = [ipc EXCEPT ![i] = "refused"]
           \/ ipc' = [ipc EXCEPT ![i] = "mkdir"] /\ ~taken
    BY <1>1, Zenon DEF CheckName, NameTaken
  <2>2. Within(rootfs)'
    BY <2>1, Zenon DEF Alone, Within
  <2> QED BY <2>1, <2>2 DEF Alone
<1>2. ASSUME NEW i \in Importers, MakeImageDir(i) PROVE Alone'
  <2>1. /\ UNCHANGED <<alone, archive, cursor, rootfs, config>> /\ ipc[i] = "mkdir"
        /\ \/ ipc' = [ipc EXCEPT ![i] = "preflight"] /\ taken'
           \/ ipc' = [ipc EXCEPT ![i] = "stuck"]
    BY <1>2, Zenon DEF MakeImageDir
  <2>2. /\ \A j \in Importers \ {i} : ipc[j] \in {"idle", "refused", "failed", "stuck", "dead"}
        /\ ~taken /\ rootfs = {} /\ config = "none" /\ cursor[i] = 1
    BY <2>1 DEF Alone
  <2>3. Within(rootfs)'
    BY <2>1, <2>2, Zenon DEF Within
  <2>4. \A j \in Importers : Stage(ipc'[j], archive'[j], cursor'[j], rootfs', taken', config')
    <3>1. \A j \in Importers \ {i} : ipc'[j] = ipc[j] /\ (ipc[j] = "idle" => cursor[j] = 1)
      BY <2>1, Zenon DEF Alone
    <3>2. ipc'[i] \in {"preflight", "stuck"} /\ (ipc'[i] = "preflight" => taken')
      BY <2>1, Zenon
    <3> QED BY <2>1, <2>2, <3>1, <3>2, Zenon
  <2>5. \A j \in Importers : (Importing(j)' => j = i) /\ ipc'[j] # "over"
    BY <2>1, <2>2, Zenon
  <2>6. ipc'[i] = "stuck" \/ Importing(i)'
    BY <2>1, Zenon
  <2> HIDE DEF Stage, Importing
  <2> QED BY <2>1, <2>2, <2>3, <2>4, <2>5, <2>6, Zenon DEF Alone
<1>3. ASSUME NEW i \in Importers, PreflightArchive(i) PROVE Alone'
  <2> DEFINE a == archive[i]
  <2>1. a \in Archives
    BY Zenon
  <2>2. /\ Len(a) \in Nat /\ (a = <<>> <=> Len(a) = 0)
        /\ Unpacked(a, 0) = {}
    BY <2>1, UnpackedFacts, Zenon
  <2>3. ipc[i] = "preflight" /\ cursor[i] = 1 /\ rootfs = {} /\ taken /\ config = "none"
    BY <1>3, Zenon DEF PreflightArchive, Alone
  <2>4. Stage(ipc'[i], archive'[i], cursor'[i], rootfs', taken', config')
    BY <1>3, <2>2, <2>3 DEF PreflightArchive
  <2>5. /\ archive' = archive /\ taken' = taken /\ ipc'[i] \in {"cleanup", "config", "unpack"}
        /\ \A j \in Importers \ {i} : ipc'[j] = ipc[j] /\ cursor'[j] = cursor[j]
    BY <1>3, Zenon DEF PreflightArchive
  <2>6. Within(rootfs)'
    BY <1>3, <2>3, Zenon DEF PreflightArchive, Within
  <2>7. Importing(i) /\ Importing(i)' /\ ipc'[i] \in {"unpack", "config", "write", "cleanup"}
    BY <2>3, <2>5, Zenon
  <2> HIDE DEF Stage, Importing
  <2> QED BY <1>9, <2>3, <2>4, <2>5, <2>6, <2>7, Zenon
<1>4. ASSUME NEW i \in Importers, UnpackEntry(i) PROVE Alone'
  <2> DEFINE a == archive[i]
             n == cursor[i]
  <2>1. a \in Archives
    BY Zenon
  <2>2. ipc[i] = "unpack" /\ n \in 1 .. Len(a) /\ Preflight(a) /\ rootfs = Unpacked(a, n - 1)
        /\ taken /\ config = "none"
    BY <1>4, Zenon DEF UnpackEntry, Alone
  <2>3. /\ Len(a) \in Nat
        /\ Unpacked(a, n) = Unpacked(a, n - 1) \cup {a[n]}
        /\ Unpacked(a, n) \subseteq Range(a)
    BY <2>1, <2>2, UnpackedFacts
  <2>4. /\ alone' = alone /\ archive' = archive /\ taken' = taken /\ config' = config
        /\ \A j \in Importers \ {i} : ipc'[j] = ipc[j] /\ cursor'[j] = cursor[j]
        /\ \/ ipc'[i] = "config" /\ rootfs' = Unpacked(a, n) /\ n = Len(a)
           \/ ipc'[i] = "unpack" /\ rootfs' = Unpacked(a, n) /\ n # Len(a) /\ cursor'[i] = n + 1
           \/ ipc'[i] = "cleanup" /\ rootfs' = rootfs
    BY <1>4, <2>2, <2>3, Zenon DEF UnpackEntry
  <2>7. Stage(ipc'[i], archive'[i], cursor'[i], rootfs', taken', config')
    <3>1. n # Len(a) => n + 1 \in 1 .. Len(a) /\ (n + 1) - 1 = n
      BY <2>2, <2>3
    <3> QED BY <2>2, <2>4, <3>1, Zenon
  <2>6. Within(rootfs)'
    <3>1. rootfs' = rootfs \/ rootfs' = Unpacked(archive'[i], n)
      BY <2>4, Zenon
    <3>2. Within(rootfs) /\ archive' = archive
      BY <2>4, Zenon DEF Alone
    <3> QED BY <2>2, <3>1, <3>2, Zenon DEF Within
  <2>8. Importing(i) /\ Importing(i)' /\ ipc'[i] \in {"unpack", "config", "write", "cleanup"}
    BY <2>2, <2>4, Zenon
  <2> HIDE DEF Stage, Importing
  <2> QED BY <1>9, <2>2, <2>4, <2>6, <2>7, <2>8, Zenon
<1>5. ASSUME NEW i \in Importers, WriteMinimalConfig(i) PROVE Alone'
  <2>1. Within(rootfs)'
    BY <1>5, Zenon DEF WriteMinimalConfig, Alone, Within
  <2>2. /\ UNCHANGED <<alone, archive, cursor, rootfs, taken>> /\ ipc[i] = "write"
        /\ config = "partial" /\ taken /\ rootfs = Unpacked(archive[i], Len(archive[i]))
        /\ \/ ipc' = [ipc EXCEPT ![i] = "over"] /\ config' = "whole"
           \/ ipc' = [ipc EXCEPT ![i] = "cleanup"] /\ config' = config
    BY <1>5, Zenon DEF WriteMinimalConfig, Alone
  <2> QED BY <2>1, <2>2 DEF Alone
<1>8. ASSUME NEW i \in Importers, CreateConfig(i) PROVE Alone'
  <2>1. Within(rootfs)'
    BY <1>8, Zenon DEF CreateConfig, Alone, Within
  <2> QED BY <1>8, <2>1 DEF CreateConfig, Alone
<1>6. ASSUME NEW i \in Importers, RemoveImageDir(i) PROVE Alone'
  <2>1. Within(rootfs)'
    <3>1. rootfs' \subseteq rootfs /\ archive' = archive
      BY <1>6, Zenon DEF RemoveImageDir
    <3>2. Within(rootfs)
      BY Zenon DEF Alone
    <3> QED BY <3>1, <3>2, Zenon DEF Within
  <2> QED BY <1>6, <2>1 DEF RemoveImageDir, Alone
<1>7. ASSUME NEW i \in Importers, KillImporter(i) PROVE Alone'
  BY <1>7 DEF KillImporter, Alone, Within
<1> QED BY <1>1, <1>2, <1>3, <1>4, <1>5, <1>6, <1>7, <1>8, Zenon DEF ImageNext

\* The running total of the preflight, entry after entry.
LEMMA BytesStep ==
    ASSUME NEW a, NEW N \in Nat, \A k \in 1 .. N : a[k].size \in Nat
    PROVE  \E total \in [0 .. N -> Nat] :
               /\ total[0] = 0 /\ \A k \in 1 .. N : total[k] = total[k - 1] + a[k].size
               /\ Bytes(a, N) = total[N]
<1> DEFINE G == [x \in Nat \X (1 .. N) |-> x[1] + a[x[2]].size]
           Is(t) == t = [k \in 0 .. N |-> IF k = 0 THEN 0 ELSE t[k - 1] + a[k].size]
           total == CHOOSE t : Is(t)
<1>1. G \in [Nat \X (1 .. N) -> Nat]
  OBVIOUS
<1>2. \E g : Iterates(g, Nat, 0, N, G)
  <2> HIDE DEF G
  <2>1. 0 \in Nat
    BY Zenon
  <2> QED BY <1>1, <2>1, IterationExists, Zenon
<1>3. PICK g \in [0 .. N -> Nat] : g[0] = 0 /\ \A i \in 1 .. N : g[i] = G[<<g[i - 1], i>>]
  BY <1>2, Zenon DEF Iterates
<1>4. \A i \in 1 .. N : g[i - 1] \in Nat /\ <<g[i - 1], i>> \in Nat \X (1 .. N)
  OBVIOUS
<1>5. \A i \in 1 .. N : G[<<g[i - 1], i>>] = g[i - 1] + a[i].size
  BY <1>4, Zenon
<1>6. Is(g)
  <2>1. \A i \in 0 .. N : g[i] = IF i = 0 THEN 0 ELSE g[i - 1] + a[i].size
    <3>1. \A i \in 0 .. N : i # 0 => i \in 1 .. N
      OBVIOUS
    <3> QED BY <1>3, <1>5, <3>1, Zenon
  <2> QED BY <2>1, Zenon
<1>7. Is(total)
  <2> HIDE DEF Is
  <2> QED BY <1>6, Zenon
<1>8. Bytes(a, N) = total[N]
  BY Zenon DEF Bytes
<1> HIDE DEF total
<1>9. /\ total[0] = 0 /\ DOMAIN total = 0 .. N
      /\ \A k \in 1 .. N : total[k] = total[k - 1] + a[k].size
  BY <1>7
<1>10. \A k \in 0 .. N : total[k] \in Nat
  <2> DEFINE T == {k \in 0 .. N : total[k] \in Nat}
  <2>1. 0 \in T
    BY <1>9
  <2>2. ASSUME NEW k \in 1 .. N, k - 1 \in T PROVE k \in T
    <3>1. k \in 0 .. N /\ total[k - 1] \in Nat /\ a[k].size \in Nat
      BY <2>2
    <3>2. \A i, j \in Nat : i + j \in Nat
      OBVIOUS
    <3> QED BY <1>9, <3>1, <3>2, Zenon
  <2> HIDE DEF T
  <2>3. \A k \in 0 .. N : k \in T
    BY <2>1, <2>2, InductionUpTo, Zenon
  <2> QED BY <2>3, Zenon DEF T
<1>11. total \in [0 .. N -> Nat]
  BY <1>7, <1>10, Zenon
<1> QED BY <1>8, <1>9, <1>11, Zenon

\* What the preflight has counted bounds what is on disk, at every entry.
LEMMA UnpackedBounded ==
    ASSUME NEW a \in Archives, Preflight(a), NEW n \in 1 .. Len(a)
    PROVE  /\ Sized(Unpacked(a, n)) /\ SizeSum(Unpacked(a, n)) <= MaxUnpackedBytes
           /\ Cardinality(Unpacked(a, n)) \in Nat /\ Cardinality(Unpacked(a, n)) <= MaxEntries
<1>1. /\ Len(a) \in Nat /\ Unpacked(a, 0) = {} /\ Unpacked(a, Len(a)) = Range(a)
      /\ \A k \in 1 .. Len(a) : Unpacked(a, k) = Unpacked(a, k - 1) \cup {a[k]}
      /\ \A k \in 0 .. Len(a) : Unpacked(a, k) \subseteq Range(a)
  BY UnpackedFacts, Zenon
<1>2. n \in Nat /\ \A k \in 1 .. n : k \in 1 .. Len(a) /\ k \in 0 .. Len(a)
  BY <1>1
<1>3. \A k \in 1 .. n : a[k].size \in Nat
  <2>1. \A k \in 1 .. n : a[k] \in Range(a)
    BY <1>1, <1>2, Zenon DEF Unpacked
  <2> QED BY <2>1, ArchivesAssumption, Zenon
<1>4. PICK total \in [0 .. n -> Nat] :
          /\ total[0] = 0 /\ \A k \in 1 .. n : total[k] = total[k - 1] + a[k].size
          /\ Bytes(a, n) = total[n]
  BY <1>2, <1>3, BytesStep, Zenon
<1> DEFINE T == {k \in 0 .. n : /\ Sized(Unpacked(a, k))
                               /\ SizeSum(Unpacked(a, k)) \in Nat
                               /\ SizeSum(Unpacked(a, k)) <= total[k]
                               /\ Cardinality(Unpacked(a, k)) <= k}
<1>5. 0 \in T
  <2>1. Sized({}) /\ Cardinality({}) = 0
    BY FS_EmptySet, Zenon DEF Sized
  <2>2. 0 \in 0 .. n /\ 0 \in Nat /\ 0 <= 0
    BY <1>2
  <2> QED BY <1>1, <1>4, <2>1, <2>2, SumOfNone, Zenon
<1>6. ASSUME NEW k \in 1 .. n, k - 1 \in T PROVE k \in T
  <2> DEFINE S == Unpacked(a, k - 1)
             e == a[k]
  <2>1. Unpacked(a, k) = S \cup {e} /\ e.size \in Nat
    BY <1>1, <1>2, <1>3, Zenon
  <2>2. /\ Sized(S) /\ SizeSum(S) \in Nat /\ SizeSum(S) <= total[k - 1] /\ Cardinality(S) <= k - 1
        /\ k - 1 \in 0 .. n
    BY <1>6, Zenon
  <2>3. IsFiniteSet(S) /\ Cardinality(S) \in Nat
    BY <2>2, FS_CardinalityType, Zenon DEF Sized
  <2>4. total[k] = total[k - 1] + e.size /\ total[k - 1] \in Nat /\ total[k] \in Nat /\ k \in 0 .. n
    BY <1>2, <1>4, <2>2
  <2> HIDE DEF S, e
  <2>5. CASE e \in S
    <3>1. S \cup {e} = S
      BY <2>5, Zenon
    <3>2. SizeSum(S) <= total[k] /\ Cardinality(S) <= k
      <4>1. /\ \A x, y, z, t \in Nat : x <= y /\ t = y + z => x <= t
            /\ \A c, l \in Nat : c <= l - 1 => c <= l
        OBVIOUS
      <4>2. k \in Nat
        BY <1>2
      <4>3. SizeSum(S) <= total[k]
        BY <2>1, <2>2, <2>4, <4>1, Zenon
      <4>4. Cardinality(S) <= k
        BY <2>2, <2>3, <4>1, <4>2, Zenon
      <4> QED BY <4>3, <4>4
    <3> QED BY <2>1, <2>2, <2>4, <3>1, <3>2, Zenon
  <2>6. CASE e \notin S
    <3>1. Sized(S \cup {e}) /\ SizeSum(S \cup {e}) = e.size + SizeSum(S)
      BY <2>1, <2>2, <2>6, SumOfOneMore, Zenon
    <3>2. Cardinality(S \cup {e}) = Cardinality(S) + 1
      BY <2>3, <2>6, FS_AddElement, Zenon
    <3>3. /\ SizeSum(S \cup {e}) \in Nat /\ SizeSum(S \cup {e}) <= total[k]
          /\ Cardinality(S \cup {e}) <= k
      <4>1. \A u, v, w \in Nat : v <= w => u + v \in Nat /\ u + v <= w + u
        OBVIOUS
      <4>2. \A c \in Nat : c <= k - 1 => c + 1 <= k
        OBVIOUS
      <4>3. /\ e.size + SizeSum(S) \in Nat
            /\ e.size + SizeSum(S) <= total[k - 1] + e.size
        BY <2>1, <2>2, <2>4, <4>1, Zenon
      <4>4. Cardinality(S) + 1 <= k
        BY <2>2, <2>3, <4>2, Zenon
      <4> QED BY <2>4, <3>1, <3>2, <4>3, <4>4, Zenon
    <3> QED BY <2>1, <2>4, <3>1, <3>3, Zenon
  <2> QED BY <2>5, <2>6, Zenon
<1>7. \A k \in 0 .. n : k \in T
  <2> HIDE DEF T
  <2> QED BY <1>2, <1>5, <1>6, InductionUpTo, Zenon
<1>8. n \in T
  BY <1>2, <1>7
<1>9. n <= MaxEntries /\ Bytes(a, n) <= MaxUnpackedBytes
  BY Zenon DEF Preflight, EntryAllowed, SizeAllowed
<1>10. IsFiniteSet(Unpacked(a, n)) /\ Cardinality(Unpacked(a, n)) \in Nat
  BY <1>8, FS_CardinalityType, Zenon DEF Sized
<1>11. MaxEntries \in Nat /\ MaxUnpackedBytes \in Nat /\ total[n] \in Nat
  BY <1>2, LimitsAssumption
<1> QED BY <1>2, <1>4, <1>8, <1>9, <1>10, <1>11

\* For any archives, limits and number of imports that take turns, any of them
\* killed or failing at any entry: an image with a config is one whole archive,
\* a failed import leaves nothing, and what is unpacked is within the limits of
\* the preflight (import_into, preflight_archive, extract_rootfs).
THEOREM ImportsAreAtomic == ImageSpec => []ImportIsAtomic
<1>1. ImageInv /\ [ImageNext]_imageVars => ImageInv'
  <2> SUFFICES ASSUME ImageInv, [ImageNext]_imageVars PROVE ImageInv'
    BY Zenon
  <2>1. CASE ImageNext
    <3>1. alone' = alone
      BY <2>1, Zenon DEF ImageNext, CheckName, MakeImageDir, PreflightArchive, UnpackEntry,
          CreateConfig, WriteMinimalConfig, RemoveImageDir, KillImporter
    <3> QED BY <2>1, <3>1, ImageStepTyped, ImageStepAlone, Zenon DEF ImageInv
  <2>2. CASE UNCHANGED imageVars
    BY <2>2, Zenon DEF imageVars, ImageInv, ImageTyped, Alone, Importing, Within
  <2> QED BY <2>1, <2>2, Zenon
<1>2. ImageInv => ImportIsAtomic
  <2> SUFFICES ASSUME ImageInv, alone
               PROVE  ImportIsAtomic
    BY Zenon DEF ImportIsAtomic, ListedIsWhole, PartialIsExplained, ImportedIsListed, FailedLeavesName, StoreBounded
  <2>1. ImageTyped /\ Alone
    BY Zenon DEF ImageInv
  <2>2. ListedIsWhole
    BY <2>1, UnpackedFacts, Zenon DEF ListedIsWhole, Listed, ImageTyped, Alone, Stage
  <2>6. PartialIsExplained
    BY <2>1, Zenon DEF PartialIsExplained, Alone
  <2>3. ImportedIsListed
    BY <2>1, Zenon DEF ImportedIsListed, Listed, Alone, Stage
  <2>4. FailedLeavesName
    BY <2>1, Zenon DEF FailedLeavesName, Alone, Importing
  <2>5. StoreBounded
    <3>1. SizeSum(rootfs) <= MaxUnpackedBytes /\ Cardinality(rootfs) <= MaxEntries
      <4>1. CASE rootfs = {}
        <5>1. SizeSum({}) = 0 /\ Cardinality({}) = 0 /\ MaxUnpackedBytes \in Nat /\ MaxEntries \in Nat
          BY SumOfNone, FS_EmptySet, LimitsAssumption, Zenon
        <5>2. 0 <= MaxUnpackedBytes /\ 0 <= MaxEntries
          BY <5>1
        <5> QED BY <4>1, <5>1, <5>2, Zenon
      <4>2. CASE rootfs # {}
        <5>1. PICK j \in Importers, n \in Nat : /\ n \in 1 .. Len(archive[j]) /\ Preflight(archive[j])
                                               /\ rootfs \subseteq Unpacked(archive[j], n)
          BY <2>1, <4>2, UnpackedFacts DEF Alone, Within, ImageTyped
        <5>2. archive[j] \in Archives
          BY <2>1, Zenon DEF ImageTyped
        <5> DEFINE U == Unpacked(archive[j], n)
        <5>3. Sized(U) /\ SizeSum(U) <= MaxUnpackedBytes /\ Cardinality(U) \in Nat /\ Cardinality(U) <= MaxEntries
          BY <5>1, <5>2, UnpackedBounded, Zenon
        <5>4. /\ SizeSum(rootfs) \in Nat /\ SizeSum(U) \in Nat /\ SizeSum(rootfs) <= SizeSum(U)
              /\ Cardinality(rootfs) \in Nat /\ Cardinality(rootfs) <= Cardinality(U)
          <6>1. rootfs \in SUBSET U
            BY <5>1, Zenon
          <6> HIDE DEF U
          <6> QED BY <5>3, <6>1, SumOfPart, Zenon
        <5> HIDE DEF U
        <5>5. \A k, m, l \in Nat : k <= m /\ m <= l => k <= l
          OBVIOUS
        <5>6. MaxUnpackedBytes \in Nat /\ MaxEntries \in Nat
          BY LimitsAssumption, Zenon
        <5> QED BY <5>3, <5>4, <5>5, <5>6, Zenon
      <4> QED BY <4>1, <4>2, Zenon
    <3> QED BY <3>1, Zenon DEF StoreBounded, SizeSum
  <2> QED BY <2>2, <2>3, <2>4, <2>5, <2>6, Zenon DEF ImportIsAtomic
<1> QED BY <1>1, <1>2, ImageInitInv, PTL DEF ImageSpec

-----------------------------------------------------------------------------
(* BundleConfig *)

\* The checks of validate that a later stage repeats.
Validated(c) ==
    /\ c.args # <<>>
    /\ ValidEnvironment(c.env)
    /\ \A i \in DOMAIN c.mounts : ValidMount(c.mounts[i])
    /\ \A r \in c.rlimits : RlimitResource(r.type)
    /\ c.profile \in {"absent", "restricted", "debug"}
    /\ c.namespaces \subseteq {"pid", "mount", "uts", "ipc", "network", "user"}

\* A config that passes all checks of validate passes those that are repeated.
LEMMA ChecksValidate ==
    ASSUME NEW c, \A i \in DOMAIN ValidateChecks(c) : ValidateChecks(c)[i][2]
    PROVE  Validated(c)
<1>1. \A i \in 1 .. 11 : i \in DOMAIN ValidateChecks(c)
  BY DEF ValidateChecks
<1>2. 1 \in 1 .. 11 /\ 3 \in 1 .. 11 /\ 5 \in 1 .. 11 /\ 7 \in 1 .. 11 /\ 9 \in 1 .. 11 /\ 10 \in 1 .. 11
  OBVIOUS
<1>3. /\ ValidateChecks(c)[1][2] /\ ValidateChecks(c)[3][2] /\ ValidateChecks(c)[5][2] /\ ValidateChecks(c)[7][2]
      /\ ValidateChecks(c)[9][2] /\ ValidateChecks(c)[10][2]
  BY <1>1, <1>2, Zenon
<1>4. ValidEnvironment(c.env)
  BY <1>3, Zenon DEF ValidateChecks
<1>5. \A i \in DOMAIN c.mounts : ValidMount(c.mounts[i])
  BY <1>3, Zenon DEF ValidateChecks
<1>6. \A r \in c.rlimits : RlimitResource(r.type)
  BY <1>3, Zenon DEF ValidateChecks
<1>7. c.profile \in {"absent", "restricted", "debug"}
  BY <1>3, Zenon DEF ValidateChecks
<1>8. c.namespaces \subseteq {"pid", "mount", "uts", "ipc", "network", "user"}
  BY <1>3, Zenon DEF ValidateChecks
<1>9. c.args # <<>>
  BY <1>3, Zenon DEF ValidateChecks
<1> QED BY <1>4, <1>5, <1>6, <1>7, <1>8, <1>9, Zenon DEF Validated

\* Of the options 1 .. n, the last about the flag that o clears sets it.
SetsLast(options, n, o) ==
    \E i \in 1 .. n : /\ options[i] = ClearedBy[o]
                      /\ \A j \in 1 .. n : j > i => options[j] # o

\* What MountOptions::parse returns.
ParsedOptions(O) ==
    [flags : SUBSET MountFlags, propagation : Propagations \cup {"none"}, data : Seq(O)]

\* A clearing option clears one flag, and no other option clears that.
LEMMA FlagFacts ==
    /\ \A o \in DOMAIN ClearedBy : /\ ClearedBy[o] \in MountFlags /\ o \notin MountFlags
                                   /\ o \notin {"defaults", "bind", "rbind"}
                                   /\ ClearedBy[o] \notin {"defaults", "bind", "rbind"}
                                   /\ ClearedBy[o] # o
    /\ \A o, p \in DOMAIN ClearedBy : ClearedBy[o] = ClearedBy[p] => o = p
  BY DEF ClearedBy, MountFlags

\* The arms of the match of MountOptions::parse are apart.
LEMMA OptionKinds ==
    ASSUME NEW o
    PROVE  /\ o \in {"defaults", "bind", "rbind"} =>
                  o \notin MountFlags /\ o \notin DOMAIN ClearedBy /\ o \notin Propagations
           /\ o \in MountFlags => o \notin DOMAIN ClearedBy /\ o \notin Propagations
           /\ o \in DOMAIN ClearedBy => o \notin Propagations
  BY DEF ClearedBy, MountFlags, Propagations

\* So their order does not matter.
LEMMA OneOptionCases ==
    ASSUME NEW parsed, NEW o
    PROVE  OneOption(parsed, o) =
               IF o \in {"defaults", "bind", "rbind"} THEN parsed
               ELSE IF o \in MountFlags THEN [parsed EXCEPT !.flags = @ \cup {o}]
               ELSE IF o \in DOMAIN ClearedBy THEN [parsed EXCEPT !.flags = @ \ {ClearedBy[o]}]
               ELSE IF o \in Propagations THEN [parsed EXCEPT !.propagation = o]
               ELSE [parsed EXCEPT !.data = Append(@, o)]
  BY OptionKinds, Zenon DEF OneOption

\* One arm of the match returns options.
LEMMA OneOptionTyped ==
    ASSUME NEW O, NEW parsed \in ParsedOptions(O), NEW o \in O
    PROVE  OneOption(parsed, o) \in ParsedOptions(O)
<1>1. \/ OneOption(parsed, o) = parsed
      \/ o \in MountFlags /\ OneOption(parsed, o) = [parsed EXCEPT !.flags = @ \cup {o}]
      \/ OneOption(parsed, o) = [parsed EXCEPT !.flags = @ \ {ClearedBy[o]}]
      \/ o \in Propagations /\ OneOption(parsed, o) = [parsed EXCEPT !.propagation = o]
      \/ OneOption(parsed, o) = [parsed EXCEPT !.data = Append(@, o)]
  BY OneOptionCases, Zenon
<1>2. Append(parsed.data, o) \in Seq(O)
  BY DEF ParsedOptions
<1> QED BY <1>1, <1>2, Zenon DEF ParsedOptions

\* When a flag is set after one more option.
LEMMA OneOptionFlags ==
    ASSUME NEW O, NEW parsed \in ParsedOptions(O), NEW o \in O, NEW p \in DOMAIN ClearedBy
    PROVE  ClearedBy[p] \in OneOption(parsed, o).flags <=>
               o = ClearedBy[p] \/ (o # p /\ ClearedBy[p] \in parsed.flags)
<1>1. CASE o \in {"defaults", "bind", "rbind"}
  <2>1. OneOption(parsed, o) = parsed
    BY <1>1, OneOptionCases, Zenon
  <2> QED BY <1>1, <2>1, FlagFacts, Zenon
<1>2. CASE o \in MountFlags
  <2>1. OneOption(parsed, o).flags = parsed.flags \cup {o}
    BY <1>2, FlagFacts, OptionKinds, OneOptionCases, Zenon DEF ParsedOptions
  <2> QED BY <1>2, <2>1, FlagFacts, Zenon
<1>3. CASE o \in DOMAIN ClearedBy
  <2>1. OneOption(parsed, o).flags = parsed.flags \ {ClearedBy[o]}
    BY <1>3, FlagFacts, OptionKinds, OneOptionCases, Zenon DEF ParsedOptions
  <2> QED BY <1>3, <2>1, FlagFacts, Zenon
<1>4. CASE o \notin {"defaults", "bind", "rbind"} \cup MountFlags \cup DOMAIN ClearedBy
  <2>1. OneOption(parsed, o).flags = parsed.flags
    BY <1>4, OneOptionCases, Zenon DEF ParsedOptions
  <2> QED BY <1>4, <2>1, FlagFacts, Zenon
<1> QED BY <1>1, <1>2, <1>3, <1>4, Zenon

\* MountOptions::parse goes through the options one after the other.
LEMMA ParsedStep ==
    ASSUME NEW O, NEW options \in Seq(O)
    PROVE  LET N == Len(options)
           IN  \E parsed \in [0 .. N -> ParsedOptions(O)] :
                   /\ parsed[0] = NoOptions
                   /\ \A n \in 1 .. N : parsed[n] = OneOption(parsed[n - 1], options[n])
                   /\ ParseOptions(options) = parsed[N]
<1> DEFINE N == Len(options)
           V == ParsedOptions(O)
           G == [x \in V \X (1 .. N) |-> OneOption(x[1], options[x[2]])]
           Is(t) == t = [n \in 0 .. N |-> IF n = 0 THEN NoOptions ELSE OneOption(t[n - 1], options[n])]
           parsed == CHOOSE t : Is(t)
<1>0. N \in Nat /\ \A n \in 1 .. N : options[n] \in O
  OBVIOUS
<1>1. G \in [V \X (1 .. N) -> V]
  BY <1>0, OneOptionTyped, Zenon
<1>2. NoOptions \in V
  <2>1. <<>> \in Seq(O)
    OBVIOUS
  <2> QED BY <2>1, Zenon DEF NoOptions, ParsedOptions
<1>3. \E g : Iterates(g, V, NoOptions, N, G)
  <2> HIDE DEF G, V, N
  <2> QED BY <1>0, <1>1, <1>2, IterationExists, Zenon
<1>4. PICK g \in [0 .. N -> V] : g[0] = NoOptions /\ \A i \in 1 .. N : g[i] = G[<<g[i - 1], i>>]
  BY <1>3, Zenon DEF Iterates
<1> HIDE DEF V
<1>5. \A i \in 1 .. N : g[i - 1] \in V
  BY <1>0
<1>6. \A i \in 1 .. N : G[<<g[i - 1], i>>] = OneOption(g[i - 1], options[i])
  BY <1>5, Zenon
<1>7. Is(g)
  <2>1. \A i \in 0 .. N : g[i] = IF i = 0 THEN NoOptions ELSE OneOption(g[i - 1], options[i])
    <3>1. \A i \in 0 .. N : i # 0 => i \in 1 .. N
      BY <1>0
    <3> QED BY <1>4, <1>6, <3>1, Zenon
  <2> HIDE DEF N
  <2> QED BY <2>1, Zenon
<1>8. Is(parsed)
  <2> HIDE DEF Is
  <2> QED BY <1>7, Zenon
<1>9. ParseOptions(options) = parsed[N]
  BY Zenon DEF ParseOptions
<1> HIDE DEF parsed
<1>10. /\ parsed[0] = NoOptions /\ DOMAIN parsed = 0 .. N
       /\ parsed = [n \in 0 .. N |-> parsed[n]]
       /\ \A n \in 1 .. N : parsed[n] = OneOption(parsed[n - 1], options[n])
  <2> HIDE DEF N
  <2>1. \A n \in 0 .. N : parsed[n] = IF n = 0 THEN NoOptions ELSE OneOption(parsed[n - 1], options[n])
    BY <1>8, Zenon
  <2>2. 0 \in 0 .. N /\ \A n \in 1 .. N : n \in 0 .. N /\ n # 0
    BY <1>0
  <2>3. DOMAIN parsed = 0 .. N /\ parsed = [n \in 0 .. N |-> parsed[n]]
    BY <1>8, Zenon
  <2> QED BY <2>1, <2>2, <2>3, Zenon
<1>11. \A n \in 0 .. N : parsed[n] \in V
  <2> DEFINE T == {n \in 0 .. N : parsed[n] \in V}
  <2>1. 0 \in T
    BY <1>0, <1>2, <1>10
  <2>2. ASSUME NEW n \in 1 .. N, n - 1 \in T PROVE n \in T
    <3>1. n \in 0 .. N
      BY <1>0
    <3> QED BY <1>0, <1>10, <2>2, <3>1, OneOptionTyped, Zenon DEF V
  <2> HIDE DEF T, N
  <2>3. \A n \in 0 .. N : n \in T
    BY <1>0, <2>1, <2>2, InductionUpTo, Zenon
  <2> QED BY <2>3, Zenon DEF T
<1> HIDE DEF N
<1>12. parsed \in [0 .. N -> V]
  BY <1>10, <1>11, Zenon
<1> QED BY <1>9, <1>10, <1>12, Zenon DEF N, V

\* LastWord is the last option about a flag.
LEMMA LastWordSets ==
    ASSUME NEW O, NEW options \in Seq(O), NEW o \in DOMAIN ClearedBy
    PROVE  LastWord(options, ClearedBy[o], o) # o <=> SetsLast(options, Len(options), o)
<1> DEFINE N == Len(options)
           about == {i \in DOMAIN options : options[i] \in {ClearedBy[o], o}}
           m == Max(about)
<1>1. N \in Nat /\ DOMAIN options = 1 .. N
  OBVIOUS
<1>2. ClearedBy[o] # o
  BY FlagFacts, Zenon
<1> HIDE DEF N
<1>3. CASE about = {}
  BY <1>1, <1>3, Zenon DEF LastWord, SetsLast, N
<1>4. CASE about # {}
  <2>1. m \in about /\ \A k \in about : m >= k
    <3>1. about \in SUBSET (1 .. N)
      BY <1>1, Zenon
    <3> HIDE DEF about
    <3> QED BY <1>1, <1>4, <3>1, GreatestExists, Zenon
  <2>2. LastWord(options, ClearedBy[o], o) = options[m]
    BY <1>4, Zenon DEF LastWord
  <2> HIDE DEF m
  <2>3. m \in 1 .. N /\ options[m] \in {ClearedBy[o], o}
    BY <1>1, <2>1, Zenon
  <2>4. ASSUME options[m] = ClearedBy[o] PROVE SetsLast(options, N, o)
    <3>1. \A j \in 1 .. N : j > m => ~(m >= j)
      BY <1>1, <2>3
    <3>2. \A j \in 1 .. N : j > m => options[j] # o
      BY <1>1, <2>1, <3>1, Zenon
    <3> QED BY <2>3, <2>4, <3>2, Zenon DEF SetsLast
  <2>5. ASSUME options[m] = o, SetsLast(options, N, o) PROVE FALSE
    <3>1. PICK i \in 1 .. N : options[i] = ClearedBy[o] /\ \A j \in 1 .. N : j > i => options[j] # o
      BY <2>5, Zenon DEF SetsLast
    <3>2. m >= i /\ m # i
      BY <1>1, <1>2, <2>1, <2>5, <3>1, Zenon
    <3>3. m > i
      BY <1>1, <2>3, <3>2
    <3> QED BY <2>3, <2>5, <3>1, <3>3, Zenon
  <2> QED BY <1>2, <2>2, <2>3, <2>4, <2>5, Zenon DEF N
<1> QED BY <1>3, <1>4, Zenon

\* A flag is set exactly when the last option about it sets it: by induction on the
\* options that MountOptions::parse has gone through.
LEMMA LaterOptionHolds ==
    ASSUME NEW O, NEW options \in Seq(O), NEW o \in DOMAIN ClearedBy
    PROVE  ClearedBy[o] \in ParseOptions(options).flags <=>
               LastWord(options, ClearedBy[o], o) # o
<1> DEFINE N == Len(options)
<1>1. N \in Nat /\ \A n \in 1 .. N : options[n] \in O
  OBVIOUS
<1>2. PICK parsed \in [0 .. N -> ParsedOptions(O)] :
          /\ parsed[0] = NoOptions
          /\ \A n \in 1 .. N : parsed[n] = OneOption(parsed[n - 1], options[n])
          /\ ParseOptions(options) = parsed[N]
  BY ParsedStep, Zenon
<1> HIDE DEF N
<1> DEFINE T == {n \in 0 .. N : ClearedBy[o] \in parsed[n].flags <=> SetsLast(options, n, o)}
<1>3. 0 \in T
  <2>1. NoOptions.flags = {} /\ 1 .. 0 = {} /\ 0 \in 0 .. N
    BY <1>1 DEF NoOptions
  <2> QED BY <1>2, <2>1, Zenon DEF SetsLast
<1>4. ASSUME NEW n \in 1 .. N, n - 1 \in T PROVE n \in T
  <2>1. n \in 0 .. N /\ n - 1 \in 0 .. N
    BY <1>1
  <2>2. parsed[n - 1] \in ParsedOptions(O) /\ options[n] \in O
    BY <1>1, <2>1, Zenon
  <2>3. ClearedBy[o] \in parsed[n].flags <=>
            options[n] = ClearedBy[o] \/ (options[n] # o /\ ClearedBy[o] \in parsed[n - 1].flags)
    <3>1. ClearedBy[o] \in OneOption(parsed[n - 1], options[n]).flags <=>
              options[n] = ClearedBy[o] \/ (options[n] # o /\ ClearedBy[o] \in parsed[n - 1].flags)
      BY <2>2, OneOptionFlags, Zenon
    <3> QED BY <1>2, <3>1, Zenon
  <2>4. SetsLast(options, n, o) <=>
            options[n] = ClearedBy[o] \/ (options[n] # o /\ SetsLast(options, n - 1, o))
    <3>1. /\ \A i \in 1 .. n : ~(i > n) /\ (i \in 1 .. n - 1 \/ i = n)
          /\ \A i \in 1 .. n - 1 : i \in 1 .. n /\ n > i
          /\ n \in 1 .. n
      BY <1>1
    <3> QED BY <3>1, Zenon DEF SetsLast
  <2> QED BY <1>4, <2>1, <2>3, <2>4, Zenon
<1>5. \A n \in 0 .. N : n \in T
  <2> HIDE DEF T
  <2> QED BY <1>1, <1>3, <1>4, InductionUpTo, Zenon
<1>6. N \in 0 .. N
  BY <1>1
<1> QED BY <1>2, <1>5, <1>6, LastWordSets, Zenon DEF N

\* A mount that was made is the bundle's of the same place, with its options applied.
Honoured(made, declared) ==
    \A i \in DOMAIN made :
        /\ declared[i].options \in Seq(Range(declared[i].options))
        /\ made[i] = SetupMount(declared[i]) /\ declared[i].destination = "below"

\* The stages of a start, from the one at which a value has been checked.
FromCgroup == {"cstrings", "mounts", "rlimits", "setuid", "environment", "exec"}
FromArgs == FromCgroup \ {"cstrings"}
FromMounts == FromArgs \ {"mounts"}

\* What a config has passed when the next stage is pc.
Passed(c, made, pc) ==
    /\ pc \notin {"load", "refused"} => Validated(c)
    /\ pc \notin {"load", "user", "refused"} => ValidateProcessUser(c)
    /\ pc \in FromCgroup => \A l \in c.limits : l.value > 0
    /\ pc \in FromArgs => CStrings(c.args)
    /\ pc \in FromMounts => Len(made) = Len(c.mounts)

\* The inductive invariant of a bundle on its way: it has passed the stages before the
\* next one, and what is mounted is what it declares.
BundleInv ==
    /\ file \in ConfigFiles
    /\ Passed(file, mounted, bpc)
    /\ mounted \in Seq(Range(mounted)) /\ Len(mounted) <= Len(file.mounts)
    /\ Honoured(mounted, file.mounts)
    /\ bpc = "refused" => refusal[1] = "load" \/ LateRefusal(file, refusal)

\* A config that has passed all stages holds none of the values that are refused late.
LEMMA BundleInvAccepts == BundleInv => ValidatedIsAccepted
<1> SUFFICES ASSUME BundleInv, bpc = "exec" PROVE Startable(file) /\ Len(mounted) = Len(file.mounts)
  BY Zenon DEF BundleInv, ValidatedIsAccepted
<1>1. /\ ValidateProcessUser(file) /\ CStrings(file.args) /\ \A l \in file.limits : l.value > 0
      /\ Len(mounted) = Len(file.mounts)
  BY DEF BundleInv, Passed, FromCgroup, FromArgs, FromMounts
<1>2. \A i \in DOMAIN file.mounts : file.mounts[i].destination = "below"
  <2>1. DOMAIN mounted = 1 .. Len(mounted)
    BY DEF BundleInv
  <2>2. file.mounts \in Seq(Range(file.mounts))
    BY ConfigFilesAssumption, Zenon DEF BundleInv
  <2>3. DOMAIN file.mounts = 1 .. Len(file.mounts)
    BY <2>2
  <2> QED BY <1>1, <2>1, <2>3, Zenon DEF BundleInv, Honoured
<1>3. ASSUME NEW r, LateRefusal(file, r) PROVE FALSE
  BY <1>1, <1>2, <1>3, Zenon DEF LateRefusal, ValidateProcessUser, CStrings
<1> QED BY <1>1, <1>3, Zenon DEF Startable

\* The mounts that were made come to what their options say.
LEMMA HonouredInOrder ==
    ASSUME NEW declared, Honoured(mounted, declared) PROVE OptionsInOrder
<1> SUFFICES ASSUME NEW i \in DOMAIN mounted, NEW o \in DOMAIN ClearedBy
             PROVE  ClearedBy[o] \in mounted[i].did.flags <=>
                        IF mounted[i].bind THEN o = "rw" /\ "ro" \in Range(mounted[i].options)
                        ELSE LastWord(mounted[i].options, ClearedBy[o], o) # o
  BY Zenon DEF OptionsInOrder
<1>1. PICK m : m.options \in Seq(Range(m.options)) /\ mounted[i] = SetupMount(m)
  BY Zenon DEF Honoured
<1> DEFINE opts == m.options
<1>2. /\ mounted[i].bind = IsBind(m) /\ mounted[i].options = opts
      /\ mounted[i].did = IF IsBind(m) THEN BindOptions(opts) ELSE ParseOptions(opts)
  BY <1>1 DEF SetupMount
<1>3. CASE ~IsBind(m)
  BY <1>1, <1>2, <1>3, LaterOptionHolds, Zenon
<1>4. CASE IsBind(m)
  <2>1. ClearedBy[o] # "rec" /\ (ClearedBy[o] = "ro" <=> o = "rw")
    BY DEF ClearedBy
  <2>2. BindOptions(opts).flags =
            (Range(opts) \cap {"ro"}) \cup
                (IF Range(opts) \cap {"rbind", "rshared"} = {} THEN {} ELSE {"rec"})
    BY Zenon DEF BindOptions, NoOptions
  <2>3. ClearedBy[o] \in BindOptions(opts).flags <=> ClearedBy[o] = "ro" /\ "ro" \in Range(opts)
    BY <2>1, <2>2, Zenon
  <2> QED BY <1>2, <1>4, <2>1, <2>3, Zenon
<1> QED BY <1>3, <1>4, Zenon

\* BundleInv holds when the config is loaded.
LEMMA BundleInitInv == BundleInit => BundleInv
<1> SUFFICES ASSUME BundleInit PROVE BundleInv
  BY Zenon
<1>1. file.mounts \in Seq(Range(file.mounts))
  BY ConfigFilesAssumption, Zenon DEF BundleInit
<1>2. 0 <= Len(file.mounts)
  BY <1>1
<1>3. <<>> \in Seq(Range(<<>>)) /\ DOMAIN <<>> = {} /\ Len(<<>>) = 0
  OBVIOUS
<1>4. Passed(file, mounted, bpc) /\ bpc # "refused"
  BY DEF BundleInit, Passed, FromCgroup, FromArgs, FromMounts
<1> QED BY <1>2, <1>3, <1>4, Zenon DEF BundleInit, BundleInv, Honoured

\* Every stage keeps BundleInv.
LEMMA BundleStepInv == BundleInv /\ BundleNext => BundleInv'
<1> SUFFICES ASSUME BundleInv, BundleNext PROVE BundleInv'
  BY Zenon
<1> USE DEF BundleInv
<1>1. ASSUME NEW next, Pass(next), Passed(file, mounted, next), next # "refused" PROVE BundleInv'
  BY <1>1, Zenon DEF Pass
<1>2. ASSUME NEW where, NEW why, Refuse(where, why),
             where = "load" \/ LateRefusal(file, <<where, why>>)
      PROVE  BundleInv'
  <2>1. refusal' = <<where, why>> /\ refusal'[1] = where /\ bpc' = "refused"
    BY <1>2, Zenon DEF Refuse
  <2>2. Passed(file, mounted, "refused")
    BY DEF Passed, FromCgroup, FromArgs, FromMounts
  <2> QED BY <1>2, <2>1, <2>2, Zenon DEF Refuse
<1>3. ASSUME NEW where, NEW why, NEW ok, NEW next, Check(where, why, ok, next), next # "refused",
             ok => Passed(file, mounted, next), ok \/ LateRefusal(file, <<where, why>>)
      PROVE  BundleInv'
  BY <1>1, <1>2, <1>3, Zenon DEF Check
<1>4. CASE LoadConfig
  <2> DEFINE checks == ValidateChecks(file)
             failed == {i \in DOMAIN checks : ~checks[i][2]}
  <2>1. CASE failed = {}
    <3>1. Validated(file)
      BY <2>1, ChecksValidate, Zenon
    <3>2. Passed(file, mounted, "user") /\ "user" # "refused"
      BY <3>1 DEF Passed, FromCgroup, FromArgs, FromMounts
    <3>3. Pass("user")
      BY <1>4, <2>1, Zenon DEF LoadConfig, Check
    <3> QED BY <1>1, <3>2, <3>3, Zenon
  <2>2. CASE failed # {}
    <3>1. \E why : Refuse("load", why)
      BY <1>4, <2>2, Zenon DEF LoadConfig, Check
    <3> QED BY <1>2, <3>1, Zenon
  <2> QED BY <2>1, <2>2, Zenon
<1>5. CASE ProcessUser
  <2>1. ValidateProcessUser(file) => Passed(file, mounted, "policy")
    BY <1>5 DEF ProcessUser, Passed, FromCgroup, FromArgs, FromMounts
  <2>2. ValidateProcessUser(file) \/ LateRefusal(file, <<"parent", "user">>)
    BY Zenon DEF ValidateProcessUser, LateRefusal
  <2> QED BY <1>3, <1>5, <2>1, <2>2, Zenon DEF ProcessUser
<1>6. CASE ResolvePolicy
  <2>1. Passed(file, mounted, "flags") /\ Validated(file)
    BY <1>6 DEF ResolvePolicy, Passed, FromCgroup, FromArgs, FromMounts
  <2> QED BY <1>3, <1>6, <2>1, Zenon DEF ResolvePolicy, Validated
<1>7. CASE NamespaceFlags
  <2>1. Passed(file, mounted, "run") /\ Validated(file)
    BY <1>7 DEF NamespaceFlags, Passed, FromCgroup, FromArgs, FromMounts
  <2> QED BY <1>3, <1>7, <2>1, Zenon DEF NamespaceFlags, Validated
<1>8. CASE RunProcessArgs
  <2>1. Passed(file, mounted, "cgroup") /\ Validated(file)
    BY <1>8 DEF RunProcessArgs, Passed, FromCgroup, FromArgs, FromMounts
  <2> QED BY <1>3, <1>8, <2>1, Zenon DEF RunProcessArgs, Validated
<1>9. CASE ValidateCgroup
  <2> DEFINE ok == \A l \in file.limits : l.value > 0
  <2>1. ok => Passed(file, mounted, "cstrings")
    BY <1>9 DEF ValidateCgroup, Passed, FromCgroup, FromArgs, FromMounts
  <2>2. ok \/ LateRefusal(file, <<"parent", "limits">>)
    BY Zenon DEF LateRefusal
  <2>3. Check("parent", "limits", ok, "cstrings")
    BY <1>9, Zenon DEF ValidateCgroup
  <2> HIDE DEF ok
  <2> QED BY <1>3, <2>1, <2>2, <2>3, Zenon
<1>10. CASE ConvertArgs
  <2>1. CStrings(file.args) => Passed(file, mounted, "mounts")
    BY <1>10 DEF ConvertArgs, Passed, FromCgroup, FromArgs, FromMounts
  <2>2. CStrings(file.args) \/ LateRefusal(file, <<"child", "args">>)
    BY Zenon DEF CStrings, LateRefusal
  <2> QED BY <1>3, <1>10, <2>1, <2>2, Zenon DEF ConvertArgs
<1>11. CASE ApplyRlimits
  <2>1. Passed(file, mounted, "setuid") /\ Validated(file)
    BY <1>11 DEF ApplyRlimits, Passed, FromCgroup, FromArgs, FromMounts
  <2> QED BY <1>3, <1>11, <2>1, Zenon DEF ApplyRlimits, Validated
<1>12. CASE ApplyProcessUser
  <2>1. Passed(file, mounted, "environment") /\ ValidateProcessUser(file)
    BY <1>12 DEF ApplyProcessUser, Passed, FromCgroup, FromArgs, FromMounts
  <2> QED BY <1>3, <1>12, <2>1, Zenon DEF ApplyProcessUser, ValidateProcessUser
<1>13. CASE ReplaceEnvironment
  <2>1. Passed(file, mounted, "exec") /\ Validated(file)
    BY <1>13 DEF ReplaceEnvironment, Passed, FromCgroup, FromArgs, FromMounts
  <2> QED BY <1>3, <1>13, <2>1, Zenon DEF ReplaceEnvironment, Validated
<1>14. CASE SetupMounts
  <2>1. Validated(file) /\ bpc = "mounts"
    BY <1>14 DEF SetupMounts, Passed
  <2>2. file.mounts \in Seq(Range(file.mounts))
    BY ConfigFilesAssumption, Zenon
  <2>3. CASE Len(mounted) = Len(file.mounts)
    <3>1. Passed(file, mounted, "rlimits")
      BY <2>1, <2>3 DEF Passed, FromCgroup, FromArgs, FromMounts
    <3> QED BY <1>1, <1>14, <2>3, <3>1, Zenon DEF SetupMounts
  <2>4. CASE Len(mounted) # Len(file.mounts)
    <3> DEFINE n == Len(mounted) + 1
               m == file.mounts[n]
    <3>1. n \in 1 .. Len(file.mounts) /\ n \in DOMAIN file.mounts
      BY <2>2, <2>4
    <3>2. m \in Range(file.mounts)
      BY <3>1, Zenon DEF Range
    <3>3. m.options \in Seq(Range(m.options)) /\ ValidMount(m)
      BY <2>1, <3>1, <3>2, ConfigFilesAssumption, Zenon DEF Validated
    <3>4. DestinationAllowed(m) => MountAccepted(m)
      BY <3>3, Zenon DEF ValidMount, MountAccepted, IsSupportedMountType, IsBind
    <3>5. CASE ~MountAccepted(m)
      <4>1. Refuse("child", "destination")
        BY <1>14, <2>4, <3>4, <3>5, Zenon DEF SetupMounts
      <4>2. LateRefusal(file, <<"child", "destination">>)
        BY <3>1, <3>4, <3>5, Zenon DEF LateRefusal, DestinationAllowed
      <4> QED BY <1>2, <4>1, <4>2, Zenon
    <3>6. CASE MountAccepted(m)
      <4>1. /\ mounted' = Append(mounted, SetupMount(m))
            /\ file' = file /\ bpc' = bpc /\ refusal' = refusal
        BY <1>14, <2>4, <3>6, Zenon DEF SetupMounts
      <4>2. m.destination = "below"
        BY <3>6, Zenon DEF MountAccepted, DestinationAllowed
      <4> HIDE DEF m
      <4>3. /\ mounted' \in Seq(Range(mounted')) /\ Len(mounted') = n
            /\ DOMAIN mounted' = 1 .. n /\ DOMAIN mounted = 1 .. n - 1
            /\ \A i \in 1 .. n - 1 : mounted'[i] = mounted[i]
            /\ mounted'[n] = SetupMount(m)
        BY <4>1 DEF Range
      <4>4. \A i \in 1 .. n : i \in 1 .. n - 1 \/ i = n
        OBVIOUS
      <4>5. Honoured(mounted', file.mounts)
        BY <3>3, <4>2, <4>3, <4>4, Zenon DEF Honoured, m
      <4>6. n <= Len(file.mounts)
        BY <2>2, <3>1
      <4>7. Passed(file, mounted', "mounts")
        BY <2>1 DEF Passed, FromCgroup, FromArgs, FromMounts
      <4> QED BY <2>1, <4>1, <4>3, <4>5, <4>6, <4>7, Zenon
    <3> QED BY <3>5, <3>6, Zenon
  <2> QED BY <2>3, <2>4, Zenon
<1> QED BY <1>4, <1>5, <1>6, <1>7, <1>8, <1>9, <1>10, <1>11, <1>12, <1>13, <1>14, Zenon DEF BundleNext

\* For every config file: of the checks after validate only four can fail, for the
\* values they are about; a start that reaches exec has made all its mounts; and the
\* flags of a mount are those of the last options about them, of a bind `ro' alone
\* (validate, validate_process_user, run_child, MountOptions::parse, setup_bind_mount).
THEOREM ConfigIsHonoured == BundleSpec => []ValidatedIsHonoured
<1>1. BundleInv /\ [BundleNext]_bundleVars => BundleInv'
  <2>1. ASSUME BundleInv, UNCHANGED bundleVars PROVE BundleInv'
    BY <2>1, Zenon DEF bundleVars, BundleInv
  <2> QED BY <2>1, BundleStepInv, Zenon
<1>2. BundleInv => ValidatedIsHonoured
  BY BundleInvAccepts, HonouredInOrder, Zenon DEF BundleInv, ValidatedIsHonoured
<1> QED BY <1>1, <1>2, BundleInitInv, PTL DEF BundleSpec

-----------------------------------------------------------------------------
(* Overlay *)

\* Every variable holds a value of its kind.
OverlayTypeOK ==
    /\ saw \in [Starters -> SUBSET Dirs]
    /\ opc \in [Starters -> {"idle", "check", "mount", "undo", "running", "ended"} \cup Dirs]
    /\ phase \in [Starters -> {"none", "waits", "cleaned", "over"}]
    /\ there \subseteq Dirs

\* The child of r has looked and is creating, mounting or undoing.
Building(r) == opc[r] \in {"mount", "undo"} \cup Dirs

\* However starts overlap: what was there before is there, was seen by every
\* child, and is owned by no runner.
ForeignInv ==
    /\ native \subseteq there
    /\ \A r \in Starters :
           /\ Building(r) => native \subseteq saw[r]
           /\ r \in owns => "merged" \notin native
           /\ opc[r] = "idle" => r \notin owns

\* The record of r is open while its child lives, and stays so after its runner
\* only when that was lost; the runner cleans up after the child has ended.
RecordOf(r) ==
    /\ opc[r] \notin {"idle", "ended"} => r \in open
    /\ phase[r] = "over" /\ r \in open => r \in lost
    /\ phase[r] = "cleaned" => opc[r] = "ended"

RecordsInv == \A r \in Starters : RecordOf(r)

\* When nobody acts while a container starts or ends: what the runner found is
\* what its child finds, and a merged directory has an owner whose record is open.
SerialOf(r) ==
    /\ opc[r] = "check" => (r \in owns <=> "merged" \notin there)
    /\ Building(r) => r \in owns
    /\ phase[r] = "cleaned" /\ r \in owns => "merged" \notin there

OneBusy == \A r, o \in Starters : Busy(r) /\ Busy(o) => r = o

MergedHasOwner ==
    ~botched /\ "merged" \in there \ native => \E r \in Starters : r \in owns \cap open

SerialInv == serial => OneBusy /\ (\A r \in Starters : SerialOf(r)) /\ MergedHasOwner

\* When, moreover, no owner was lost: one container at a time has the overlay,
\* all of it is there, and whoever starts or ends meanwhile owns nothing.
OneRuns == \A r, o \in Starters : opc[r] = "running" /\ opc[o] = "running" => r = o

SpareStarter(r) == Busy(r) => opc[r] \in {"check", "ended"} /\ r \notin owns

RunnerHasAll ==
    (\E o \in Starters : opc[o] = "running") =>
        there = Dirs /\ \A r \in Starters : SpareStarter(r)

OccupiedInv == (serial /\ lost \cap owns = {}) => OneRuns /\ RunnerHasAll

OverlayInv == OverlayTypeOK /\ ForeignInv /\ RecordsInv /\ SerialInv /\ OccupiedInv

OverlayStep(r) ==
    \/ FromConfig(r) \/ Look(r) \/ CreateLayer(r) \/ MountOverlay(r) \/ Undo(r)
    \/ WriteUpper(r) \/ ProgramExits(r) \/ CleanupOverlay(r) \/ MarkStopped(r)
    \/ RunnerReturns(r) \/ KillStarter(r) \/ RecoverStale(r)

LEMMA DirsFact == Dirs = {"upper", "work", "merged"}
  BY DEF Dirs, Layers

-----------------------------------------------------------------------------
(* What each step does to the variables the invariant is about. *)

Goes(r, f, l) == f' = [f EXCEPT ![r] = l]

\* The steps of the child.
LookDoes(r) ==
    /\ opc[r] = "check" /\ UNCHANGED <<serial, there, native, owns, phase, open, lost, botched>>
    /\ \/ Goes(r, opc, "ended")
       \/ Goes(r, opc, "upper") /\ "merged" \notin there
    /\ (saw' = saw /\ Goes(r, opc, "ended")) \/ Goes(r, saw, there)

CreateDoes(r) ==
    /\ opc[r] \in Dirs /\ UNCHANGED <<serial, native, owns, saw, phase, open, lost, botched>>
    /\ \/ Goes(r, opc, "undo") /\ there' = there
       \/ opc[r] = "upper" /\ Goes(r, opc, "work") /\ there' = there \cup {"upper"}
       \/ opc[r] = "work" /\ Goes(r, opc, "merged") /\ there' = there \cup {"work"}
       \/ opc[r] = "merged" /\ Goes(r, opc, "mount") /\ there' = there \cup {"merged"}

MountDoes(r) ==
    /\ opc[r] = "mount" /\ UNCHANGED <<serial, there, native, owns, saw, phase, open, lost, botched>>
    /\ \/ Goes(r, opc, "running") /\ there = Dirs
       \/ Goes(r, opc, "undo")

UndoDoes(r) ==
    /\ opc[r] = "undo" /\ UNCHANGED <<serial, native, owns, saw, phase, open, lost, botched>>
    /\ Goes(r, opc, "ended") /\ there' \subseteq there /\ \A d \in saw[r] : d \in there => d \in there'

ExitDoes(r) ==
    /\ opc[r] = "running" /\ UNCHANGED <<serial, there, native, owns, saw, phase, open, lost, botched>>
    /\ Goes(r, opc, "ended")

ConfigDoes(r) ==
    /\ opc[r] = "idle" /\ UNCHANGED <<serial, there, native, saw, lost, botched>>
    /\ Goes(r, opc, "check") /\ Goes(r, phase, "waits") /\ open' = open \cup {r}
    /\ \/ "merged" \in there /\ owns' = owns
       \/ "merged" \notin there /\ owns' = owns \cup {r}

\* The steps of the runner, and of those who find its record.
Unmerged(r) == there' = there \/ (r \in owns /\ there' = there \ {"merged"})

CleanDoes(r) ==
    /\ phase[r] = "waits" /\ opc[r] = "ended"
    /\ UNCHANGED <<serial, native, owns, saw, opc, open, lost, botched>>
    /\ Goes(r, phase, "cleaned")
    /\ \/ r \notin owns /\ there' = there
       \/ r \in owns /\ there' = there \ {"merged"}

MarkDoes(r) ==
    /\ phase[r] = "cleaned" /\ UNCHANGED <<serial, there, native, owns, saw, opc, lost, botched>>
    /\ Goes(r, phase, "over") /\ open' = open \ {r}

EndDoes(r) ==
    /\ phase[r] \in {"waits", "cleaned"} /\ UNCHANGED <<serial, native, owns, saw, opc, open, botched>>
    /\ Goes(r, phase, "over") /\ lost' = lost \cup {r} /\ Unmerged(r)

RecoverDoes(r) ==
    /\ r \in open /\ opc[r] = "ended" /\ UNCHANGED <<serial, native, owns, saw, opc, phase, lost>>
    /\ Unmerged(r)
    /\ \/ open' = open /\ botched' = botched
       \/ open' = open \ {r} /\ botched'
       \/ open' = open \ {r} /\ r \notin owns
       \/ open' = open \ {r} /\ "merged" \notin there'
    /\ botched => botched'

RestDoes == UNCHANGED <<serial, there, native, owns, saw, opc, phase, open, lost, botched>>

ChildDoes(r) == LookDoes(r) \/ CreateDoes(r) \/ MountDoes(r) \/ UndoDoes(r) \/ ExitDoes(r) \/ ConfigDoes(r)

RunnerDoes(r) == CleanDoes(r) \/ MarkDoes(r) \/ RecoverDoes(r) \/ EndDoes(r)

\* Whoever changes a directory waits for the others to have started and ended.
Waits(r) == May(r) \/ (UNCHANGED <<there, opc, owns>>)

LEMMA StepDoes ==
  ASSUME NEW r \in Starters, OverlayStep(r)
  PROVE  /\ ChildDoes(r) \/ RunnerDoes(r) \/ RestDoes
         /\ Waits(r)
  <1> USE DEF Move, Goes
  <1>1. CASE FromConfig(r)
    <2>1. ConfigDoes(r) /\ May(r) BY <1>1, Zenon DEF FromConfig, ConfigDoes
    <2> QED BY <2>1, Zenon DEF ChildDoes, Waits
  <1>2. CASE Look(r)
    <2>1. LookDoes(r) /\ May(r) BY <1>2, Zenon DEF Look, Refuses, LookDoes
    <2> QED BY <2>1, Zenon DEF ChildDoes, Waits
  <1>3. CASE CreateLayer(r)
    <2>1. CreateDoes(r) /\ May(r) BY <1>3, DirsFact, Zenon DEF CreateLayer, After, CreateDoes
    <2> QED BY <2>1, Zenon DEF ChildDoes, Waits
  <1>4. CASE MountOverlay(r)
    <2>1. MountDoes(r) /\ May(r) BY <1>4, Zenon DEF MountOverlay, MountDoes
    <2> QED BY <2>1, Zenon DEF ChildDoes, Waits
  <1>5. CASE Undo(r)
    <2>1. UndoDoes(r) /\ May(r) BY <1>5, Zenon DEF Undo, Created, UndoDoes
    <2> QED BY <2>1, Zenon DEF ChildDoes, Waits
  <1>6. CASE WriteUpper(r)
    <2>1. RestDoes BY <1>6, Zenon DEF WriteUpper, RestDoes
    <2> QED BY <2>1, Zenon DEF RestDoes, Waits
  <1>7. CASE ProgramExits(r)
    <2>1. ExitDoes(r) /\ May(r) BY <1>7, Zenon DEF ProgramExits, ExitDoes
    <2> QED BY <2>1, Zenon DEF ChildDoes, Waits
  <1>8. CASE CleanupOverlay(r)
    <2>1. CleanDoes(r) /\ May(r) BY <1>8, Zenon DEF CleanupOverlay, RemoveMerged, CleanDoes
    <2> QED BY <2>1, Zenon DEF RunnerDoes, Waits
  <1>9. CASE MarkStopped(r)
    <2>1. MarkDoes(r) /\ May(r) BY <1>9, Zenon DEF MarkStopped, MarkDoes
    <2> QED BY <2>1, Zenon DEF RunnerDoes, Waits
  <1>10. CASE RunnerReturns(r)
    <2>1. EndDoes(r) /\ May(r)
      BY <1>10, Zenon DEF RunnerReturns, RemoveMerged, Ends, EndDoes, Unmerged
    <2> QED BY <2>1, Zenon DEF RunnerDoes, Waits
  <1>11. CASE KillStarter(r)
    <2>1. EndDoes(r) /\ UNCHANGED <<there, opc, owns>>
      BY <1>11, Zenon DEF KillStarter, Ends, EndDoes, Unmerged
    <2> QED BY <2>1, Zenon DEF RunnerDoes, Waits
  <1>12. CASE RecoverStale(r)
    <2>1. PICK ok \in BOOLEAN, saved \in BOOLEAN :
              /\ RemoveMerged(r, ok)
              /\ open' = IF saved THEN open \ {r} ELSE open
              /\ botched' = IF saved /\ ~ok THEN TRUE ELSE botched
      BY <1>12, Zenon DEF RecoverStale
    <2>2. r \in open /\ opc[r] = "ended" /\ UNCHANGED <<serial, native, owns, saw, opc, phase, lost>> /\ May(r)
      BY <1>12, Zenon DEF RecoverStale
    <2>3. Unmerged(r) /\ (ok /\ r \in owns => "merged" \notin there')
      BY <2>1, Zenon DEF RemoveMerged, Unmerged
    <2>4. RecoverDoes(r) BY <2>1, <2>2, <2>3, Zenon DEF RecoverDoes
    <2> QED BY <2>2, <2>4, Zenon DEF RunnerDoes, Waits
  <1> QED
    BY <1>1, <1>2, <1>3, <1>4, <1>5, <1>6, <1>7, <1>8, <1>9, <1>10, <1>11, <1>12, Zenon DEF OverlayStep

-----------------------------------------------------------------------------
(* Every step keeps the invariant. *)

LEMMA OverlayTypes ==
  ASSUME OverlayTypeOK, NEW r \in Starters, OverlayStep(r)
  PROVE  OverlayTypeOK'
  <1> USE DirsFact DEF OverlayTypeOK, Goes
  <1>1. CASE LookDoes(r) BY <1>1, Zenon DEF LookDoes
  <1>2. CASE CreateDoes(r) BY <1>2, Zenon DEF CreateDoes
  <1>3. CASE MountDoes(r) BY <1>3, Zenon DEF MountDoes
  <1>4. CASE UndoDoes(r) BY <1>4, Zenon DEF UndoDoes
  <1>5. CASE ExitDoes(r) BY <1>5, Zenon DEF ExitDoes
  <1>6. CASE ConfigDoes(r) BY <1>6, Zenon DEF ConfigDoes
  <1>7. CASE CleanDoes(r) BY <1>7, Zenon DEF CleanDoes
  <1>8. CASE MarkDoes(r) BY <1>8, Zenon DEF MarkDoes
  <1>9. CASE RecoverDoes(r) BY <1>9, Zenon DEF RecoverDoes, Unmerged
  <1>10. CASE EndDoes(r) BY <1>10, Zenon DEF EndDoes, Unmerged
  <1>11. CASE RestDoes BY <1>11, Zenon DEF RestDoes
  <1> QED
    BY <1>1, <1>2, <1>3, <1>4, <1>5, <1>6, <1>7, <1>8, <1>9, <1>10, <1>11, StepDoes, Zenon
       DEF ChildDoes, RunnerDoes

LEMMA OverlayForeign ==
  ASSUME OverlayTypeOK, ForeignInv, NEW r \in Starters, OverlayStep(r)
  PROVE  ForeignInv'
  <1> USE DirsFact DEF OverlayTypeOK, Goes, ForeignInv, Building
  <1>1. CASE LookDoes(r)
    <2>1. UNCHANGED <<there, native, owns>> /\ opc[r] = "check"
      BY <1>1, Zenon DEF LookDoes
    <2>2. \/ saw' = saw /\ opc' = [opc EXCEPT ![r] = "ended"]
          \/ saw' = [saw EXCEPT ![r] = there] /\ \E l \in {"ended", "upper"} : opc' = [opc EXCEPT ![r] = l]
      BY <1>1, Zenon DEF LookDoes
    <2>3. CASE saw' = saw /\ opc' = [opc EXCEPT ![r] = "ended"]
      BY <2>1, <2>3, Zenon
    <2>4. CASE saw' = [saw EXCEPT ![r] = there] /\ opc' = [opc EXCEPT ![r] = "ended"]
      BY <2>1, <2>4, Zenon
    <2>5. CASE saw' = [saw EXCEPT ![r] = there] /\ opc' = [opc EXCEPT ![r] = "upper"]
      BY <2>1, <2>5, Zenon
    <2> QED BY <2>2, <2>3, <2>4, <2>5, Zenon
  <1>2. CASE CreateDoes(r)
    <2>1. /\ UNCHANGED <<saw, native, owns>> /\ there \subseteq there' /\ Building(r)
          /\ \E l \in {"work", "merged", "mount", "undo"} : opc' = [opc EXCEPT ![r] = l]
      BY <1>2, Zenon DEF CreateDoes
    <2> QED BY <2>1, Zenon
  <1>3. CASE MountDoes(r)
    <2>1. /\ UNCHANGED <<saw, native, owns, there>> /\ Building(r)
          /\ \E l \in {"running", "undo"} : opc' = [opc EXCEPT ![r] = l]
      BY <1>3, Zenon DEF MountDoes
    <2> QED BY <2>1, Zenon
  <1>4. CASE UndoDoes(r) BY <1>4, Zenon DEF UndoDoes
  <1>5. CASE ExitDoes(r) BY <1>5, Zenon DEF ExitDoes
  <1>6. CASE ConfigDoes(r) BY <1>6, Zenon DEF ConfigDoes
  <1>7. CASE CleanDoes(r) \/ MarkDoes(r) \/ RecoverDoes(r) \/ EndDoes(r)
    <2>1. UNCHANGED <<saw, native, owns, opc>> /\ Unmerged(r)
      BY <1>7, Zenon DEF CleanDoes, MarkDoes, RecoverDoes, EndDoes, Unmerged
    <2> QED BY <2>1, Zenon DEF Unmerged
  <1>11. CASE RestDoes BY <1>11, Zenon DEF RestDoes
  <1> QED
    BY <1>1, <1>2, <1>3, <1>4, <1>5, <1>6, <1>7, <1>11, StepDoes, Zenon DEF ChildDoes, RunnerDoes

LEMMA OverlayRecords ==
  ASSUME OverlayTypeOK, RecordsInv, NEW r \in Starters, OverlayStep(r)
  PROVE  RecordsInv'
  <1> SUFFICES ASSUME NEW a \in Starters PROVE RecordOf(a)'
    BY Zenon DEF RecordsInv
  <1>0. RecordOf(a) /\ RecordOf(r)
    BY Zenon DEF RecordsInv
  <1> USE <1>0, DirsFact DEF OverlayTypeOK, Goes, RecordOf
  <1>1. CASE LookDoes(r) BY <1>1, Zenon DEF LookDoes
  <1>2. CASE CreateDoes(r) BY <1>2, Zenon DEF CreateDoes
  <1>3. CASE MountDoes(r) BY <1>3, Zenon DEF MountDoes
  <1>4. CASE UndoDoes(r) BY <1>4, Zenon DEF UndoDoes
  <1>5. CASE ExitDoes(r) BY <1>5, Zenon DEF ExitDoes
  <1>6. CASE ConfigDoes(r) BY <1>6, Zenon DEF ConfigDoes
  <1>7. CASE CleanDoes(r) BY <1>7, Zenon DEF CleanDoes
  <1>8. CASE MarkDoes(r) BY <1>8, Zenon DEF MarkDoes
  <1>9. CASE RecoverDoes(r) BY <1>9, Zenon DEF RecoverDoes
  <1>10. CASE EndDoes(r) BY <1>10, Zenon DEF EndDoes
  <1>11. CASE RestDoes BY <1>11, Zenon DEF RestDoes
  <1> QED
    BY <1>1, <1>2, <1>3, <1>4, <1>5, <1>6, <1>7, <1>8, <1>9, <1>10, <1>11, StepDoes, Zenon
       DEF ChildDoes, RunnerDoes

\* A step of r makes nobody else busy, and r only when nobody else was.
LEMMA OverlayBusy ==
  ASSUME OverlayTypeOK, serial, OneBusy, NEW r \in Starters, OverlayStep(r)
  PROVE  OneBusy' /\ \A o \in Starters \ {r} : Busy(o)' => Busy(o)
  <1>1. /\ \A o \in Starters \ {r} : opc'[o] = opc[o] /\ phase'[o] = phase[o]
        /\ (opc'[r] = opc[r] /\ (phase[r] = "over" => phase'[r] = "over")) \/ May(r)
    <2> USE DEF OverlayTypeOK, Goes
    <2>1. CASE ChildDoes(r) /\ May(r)
      <3>1. \E l \in {"check", "ended", "mount", "undo", "running"} \cup Dirs : Goes(r, opc, l)
        BY <2>1, DirsFact, Zenon DEF ChildDoes, LookDoes, CreateDoes, MountDoes, UndoDoes, ExitDoes, ConfigDoes
      <3>2. phase' = phase \/ Goes(r, phase, "waits")
        BY <2>1, Zenon DEF ChildDoes, LookDoes, CreateDoes, MountDoes, UndoDoes, ExitDoes, ConfigDoes
      <3> QED BY <2>1, <3>1, <3>2, Zenon
    <2>2. CASE RunnerDoes(r)
      <3>1. opc' = opc /\ (phase' = phase \/ (phase[r] # "over" /\ \E l \in {"cleaned", "over"} : Goes(r, phase, l)))
        BY <2>2, Zenon DEF RunnerDoes, CleanDoes, MarkDoes, RecoverDoes, EndDoes
      <3> QED BY <3>1, Zenon
    <2>3. CASE RestDoes BY <2>3, Zenon DEF RestDoes
    <2>4. CASE ChildDoes(r) /\ UNCHANGED <<there, opc, owns>>
      <3>1. phase' = phase \/ Goes(r, phase, "waits")
        BY <2>4, Zenon DEF ChildDoes, LookDoes, CreateDoes, MountDoes, UndoDoes, ExitDoes, ConfigDoes
      <3>2. opc' # opc
        BY <2>4, DirsFact, Zenon DEF ChildDoes, LookDoes, CreateDoes, MountDoes, UndoDoes, ExitDoes, ConfigDoes
      <3> QED BY <2>4, <3>2, Zenon
    <2> QED BY <2>1, <2>2, <2>3, <2>4, StepDoes, Zenon DEF Waits
  <1>2. \A o \in Starters \ {r} : Busy(o)' => Busy(o)
    BY <1>1, Zenon DEF Busy
  <1>3. Busy(r)' => Busy(r) \/ May(r)
    BY <1>1, Zenon DEF Busy
  <1>4. May(r) => \A o \in Starters \ {r} : ~Busy(o)
    BY Zenon DEF May
  <1> QED BY <1>2, <1>3, <1>4, Zenon DEF OneBusy

LEMMA OverlaySerial ==
  ASSUME OverlayTypeOK, ForeignInv, RecordsInv, SerialInv, NEW r \in Starters, OverlayStep(r)
  PROVE  SerialInv'
  <1>0. serial' = serial
    BY StepDoes, Zenon DEF ChildDoes, RunnerDoes, RestDoes, LookDoes, CreateDoes, MountDoes, UndoDoes,
                           ExitDoes, ConfigDoes, CleanDoes, MarkDoes, RecoverDoes, EndDoes
  <1> SUFFICES ASSUME serial PROVE SerialInv'
    BY <1>0, Zenon DEF SerialInv
  <1>1. OneBusy /\ (\A a \in Starters : SerialOf(a)) /\ MergedHasOwner
    BY Zenon DEF SerialInv
  <1>2. OneBusy'
    BY <1>1, OverlayBusy, Zenon
  <1>3. ASSUME NEW a \in Starters PROVE SerialOf(a)'
    <2>0. SerialOf(a) /\ SerialOf(r) /\ RecordOf(a) /\ (Busy(a) => a = r \/ UNCHANGED <<there, opc, owns>>)
          /\ (opc[r] = "idle" => r \notin owns)
      BY <1>1, StepDoes, Zenon DEF RecordsInv, Waits, May, ForeignInv
    <2>00. /\ opc[a] = "check" \/ Building(a) => Busy(a)
           /\ phase[a] = "cleaned" => Busy(a)
      BY <2>0, Zenon DEF Busy, Building, RecordOf
    <2> USE <2>0, <2>00, DirsFact DEF OverlayTypeOK, Goes, SerialOf, Building
    <2>1. CASE LookDoes(r) BY <2>1, Zenon DEF LookDoes
    <2>2. CASE CreateDoes(r)
      <3>1. /\ UNCHANGED <<owns, phase>> /\ Building(r) /\ phase[r] # "cleaned"
            /\ \E l \in {"work", "merged", "mount", "undo"} : opc' = [opc EXCEPT ![r] = l]
        BY <1>1, <2>2, Zenon DEF CreateDoes, RecordsInv, RecordOf
      <3>2. CASE a = r BY <3>1, <3>2, Zenon
      <3>3. CASE a # r BY <3>1, <3>3, Zenon
      <3> QED BY <3>2, <3>3, Zenon
    <2>3. CASE MountDoes(r) BY <2>3, Zenon DEF MountDoes
    <2>4. CASE UndoDoes(r) BY <2>4, Zenon DEF UndoDoes
    <2>5. CASE ExitDoes(r) BY <2>5, Zenon DEF ExitDoes
    <2>6. CASE ConfigDoes(r) BY <2>6, Zenon DEF ConfigDoes
    <2>7. CASE CleanDoes(r) BY <2>7, Zenon DEF CleanDoes
    <2>8. CASE MarkDoes(r) BY <2>8, Zenon DEF MarkDoes
    <2>9. CASE RecoverDoes(r) BY <2>9, Zenon DEF RecoverDoes, Unmerged
    <2>10. CASE EndDoes(r) BY <2>10, Zenon DEF EndDoes, Unmerged
    <2>11. CASE RestDoes BY <2>11, Zenon DEF RestDoes
    <2> QED
      BY <2>1, <2>2, <2>3, <2>4, <2>5, <2>6, <2>7, <2>8, <2>9, <2>10, <2>11, StepDoes, Zenon
         DEF ChildDoes, RunnerDoes
  <1>4. MergedHasOwner'
    <2>0. SerialOf(r) /\ RecordOf(r)
      BY <1>1, Zenon DEF RecordsInv
    <2> USE <1>1, <2>0 DEF MergedHasOwner
    <2>1. CASE LookDoes(r) BY <2>1, Zenon DEF LookDoes
    <2>2. CASE CreateDoes(r)
      <3>1. r \in owns /\ r \in open
        BY <2>2, DirsFact, Zenon DEF CreateDoes, SerialOf, Building, RecordOf
      <3>2. UNCHANGED <<owns, open>>
        BY <2>2, Zenon DEF CreateDoes
      <3> QED BY <3>1, <3>2, Zenon
    <2>3. CASE MountDoes(r) BY <2>3, Zenon DEF MountDoes
    <2>4. CASE UndoDoes(r) BY <2>4, Zenon DEF UndoDoes
    <2>5. CASE ExitDoes(r) BY <2>5, Zenon DEF ExitDoes
    <2>6. CASE ConfigDoes(r) BY <2>6, Zenon DEF ConfigDoes
    <2>7. CASE CleanDoes(r) BY <2>7, Zenon DEF CleanDoes
    <2>8. CASE MarkDoes(r) BY <2>8, Zenon DEF MarkDoes, SerialOf
    <2>9. CASE RecoverDoes(r) BY <2>9, Zenon DEF RecoverDoes, Unmerged
    <2>10. CASE EndDoes(r) BY <2>10, Zenon DEF EndDoes, Unmerged
    <2>11. CASE RestDoes BY <2>11, Zenon DEF RestDoes
    <2> QED
      BY <2>1, <2>2, <2>3, <2>4, <2>5, <2>6, <2>7, <2>8, <2>9, <2>10, <2>11, StepDoes, Zenon
         DEF ChildDoes, RunnerDoes
  <1> QED BY <1>2, <1>3, <1>4, Zenon DEF SerialInv

LEMMA OverlayOccupied ==
  ASSUME OverlayInv, NEW r \in Starters, OverlayStep(r)
  PROVE  OccupiedInv'
  <1>0. serial' = serial /\ lost \subseteq lost' /\ owns \subseteq owns'
    BY StepDoes, Zenon DEF ChildDoes, RunnerDoes, RestDoes, LookDoes, CreateDoes, MountDoes, UndoDoes,
                           ExitDoes, ConfigDoes, CleanDoes, MarkDoes, RecoverDoes, EndDoes
  <1> SUFFICES ASSUME serial, lost \cap owns = {}, lost' \cap owns' = {} PROVE OneRuns' /\ RunnerHasAll'
    BY <1>0, Zenon DEF OccupiedInv
  <1>1. OneRuns /\ RunnerHasAll /\ OneBusy
    BY Zenon DEF OverlayInv, OccupiedInv, SerialInv
  <1>2. OneBusy' /\ \A o \in Starters \ {r} : Busy(o)' => Busy(o)
    BY <1>1, OverlayBusy, Zenon DEF OverlayInv
  <1>3. (\E o \in Starters : opc[o] = "running") => there = Dirs /\ SpareStarter(r)
    BY <1>1, Zenon DEF RunnerHasAll
  <1>4. OverlayTypeOK /\ RecordOf(r) /\ OverlayTypeOK' /\ (opc[r] = "idle" => r \notin owns)
    BY OverlayTypes, Zenon DEF OverlayInv, RecordsInv, ForeignInv
  <1>5. (\A o \in Starters : opc'[o] = "running" => opc[o] = "running")
        \/ (opc[r] = "mount" /\ Goes(r, opc, "running") /\ UNCHANGED <<owns, there>> /\ there = Dirs)
    <2> USE <1>4, DirsFact DEF OverlayTypeOK, Goes
    <2>1. CASE LookDoes(r) BY <2>1, Zenon DEF LookDoes
    <2>2. CASE CreateDoes(r) BY <2>2, Zenon DEF CreateDoes
    <2>3. CASE MountDoes(r) BY <2>3, Zenon DEF MountDoes
    <2>4. CASE UndoDoes(r) BY <2>4, Zenon DEF UndoDoes
    <2>5. CASE ExitDoes(r) BY <2>5, Zenon DEF ExitDoes
    <2>6. CASE ConfigDoes(r) BY <2>6, Zenon DEF ConfigDoes
    <2>7. CASE RunnerDoes(r) \/ RestDoes
      BY <2>7, Zenon DEF RunnerDoes, CleanDoes, MarkDoes, RecoverDoes, EndDoes, RestDoes
    <2> QED
      BY <2>1, <2>2, <2>3, <2>4, <2>5, <2>6, <2>7, StepDoes, Zenon DEF ChildDoes
  <1>6. CASE opc[r] = "mount" /\ Goes(r, opc, "running") /\ UNCHANGED <<owns, there>> /\ there = Dirs
    <2>1. Busy(r) /\ ~\E o \in Starters : opc[o] = "running"
      BY <1>3, <1>6, Zenon DEF Busy, SpareStarter
    <2>2. \A o \in Starters \ {r} : opc'[o] # "running" /\ ~Busy(o)'
      BY <1>1, <1>2, <1>4, <1>6, <2>1, Zenon DEF OneBusy, Goes, OverlayTypeOK
    <2>3. opc'[r] = "running"
      BY <1>4, <1>6, Zenon DEF Goes, OverlayTypeOK
    <2>4. ~Busy(r)'
      BY <2>3, DirsFact, Zenon DEF Busy
    <2> QED BY <1>6, <2>2, <2>4, Zenon DEF OneRuns, RunnerHasAll, SpareStarter
  <1>7. CASE \A o \in Starters : opc'[o] = "running" => opc[o] = "running"
    <2>1. OneRuns'
      BY <1>1, <1>7, Zenon DEF OneRuns
    <2>2. ASSUME NEW o \in Starters, opc'[o] = "running" PROVE there' = Dirs /\ SpareStarter(r)' /\ owns' \subseteq owns
      <3>1. there = Dirs /\ SpareStarter(r)
        BY <1>3, <1>7, <2>2, Zenon
      <3>2. "merged" \in there
        BY <3>1, DirsFact, Zenon
      <3> USE <1>4, <3>1, <3>2, DirsFact DEF OverlayTypeOK, Goes, SpareStarter, Busy
      <3>3. CASE LookDoes(r) BY <3>3, Zenon DEF LookDoes
      <3>4. CASE CreateDoes(r) BY <3>4, Zenon DEF CreateDoes
      <3>5. CASE MountDoes(r) BY <3>5, Zenon DEF MountDoes
      <3>6. CASE UndoDoes(r) BY <3>6, Zenon DEF UndoDoes
      <3>7. CASE ExitDoes(r)
        <4>1. o = r BY <1>1, <1>7, <2>2, <3>7, Zenon DEF OneRuns, ExitDoes
        <4> QED BY <2>2, <3>7, <4>1, Zenon DEF ExitDoes
      <3>8. CASE ConfigDoes(r) BY <3>8, Zenon DEF ConfigDoes
      <3>9. CASE CleanDoes(r) BY <3>9, Zenon DEF CleanDoes
      <3>10. CASE MarkDoes(r) BY <3>10, Zenon DEF MarkDoes
      <3>11. CASE RecoverDoes(r)
        <4>1. r \notin owns
          BY <3>11, Zenon DEF RecoverDoes, RecordOf
        <4> QED BY <3>11, <4>1, Zenon DEF RecoverDoes, Unmerged
      <3>12. CASE EndDoes(r)
        <4>1. r \notin owns
          BY <3>12, Zenon DEF EndDoes
        <4> QED BY <3>12, <4>1, Zenon DEF EndDoes, Unmerged
      <3>13. CASE RestDoes BY <3>13, Zenon DEF RestDoes
      <3> QED
        BY <3>3, <3>4, <3>5, <3>6, <3>7, <3>8, <3>9, <3>10, <3>11, <3>12, <3>13, StepDoes, Zenon
           DEF ChildDoes, RunnerDoes
    <2>3. ASSUME NEW o \in Starters, opc'[o] = "running", NEW a \in Starters \ {r} PROVE SpareStarter(a)'
      <3>1. SpareStarter(a) /\ owns' \subseteq owns
        BY <1>1, <1>7, <2>2, <2>3, Zenon DEF RunnerHasAll
      <3>2. Busy(a)' => Busy(a)
        BY <1>2, Zenon
      <3>3. opc'[a] = opc[a]
        <4> USE <1>4 DEF OverlayTypeOK, Goes
        <4>1. opc' = opc \/ \E l \in {"check", "ended", "mount", "undo", "running"} \cup Dirs : Goes(r, opc, l)
          BY StepDoes, DirsFact, Zenon DEF ChildDoes, RunnerDoes, RestDoes, LookDoes, CreateDoes, MountDoes,
             UndoDoes, ExitDoes, ConfigDoes, CleanDoes, MarkDoes, RecoverDoes, EndDoes
        <4> QED BY <4>1, Zenon
      <3> QED BY <3>1, <3>2, <3>3, Zenon DEF SpareStarter
    <2> QED BY <2>1, <2>2, <2>3, Zenon DEF RunnerHasAll
  <1> QED BY <1>5, <1>6, <1>7, Zenon

\* Whoever starts, fails, exits, is killed or repairs in whatever order, foreign
\* overlay directories are kept; containers whose starts and ends do not overlap
\* share nothing (OverlayOwnership, setup_overlay_rootfs).
THEOREM OverlayInvariant == OverlaySpec => []OverlayInv
  <1>1. OverlayInit => OverlayInv
    BY DirsFact, Zenon
       DEF OverlayInit, OverlayState, OverlayInv, OverlayTypeOK, ForeignInv, RecordsInv, RecordOf, SerialInv,
           SerialOf, OneBusy, MergedHasOwner, OccupiedInv, OneRuns, RunnerHasAll, SpareStarter, Building, Busy
  <1>2. OverlayInv /\ [OverlayNext]_overlayVars => OverlayInv'
    <2>1. ASSUME OverlayInv, UNCHANGED overlayVars PROVE OverlayInv'
      <3>1. UNCHANGED <<serial, there, native, owns, saw, opc, phase, open, lost, botched>>
        BY <2>1, Zenon DEF overlayVars
      <3>2. OverlayTypeOK'
        BY <2>1, <3>1, Zenon DEF OverlayInv, OverlayTypeOK
      <3>3. ForeignInv'
        BY <2>1, <3>1, Zenon DEF OverlayInv, ForeignInv, Building
      <3>4. RecordsInv'
        BY <2>1, <3>1, Zenon DEF OverlayInv, RecordsInv, RecordOf
      <3>5. SerialInv'
        BY <2>1, <3>1 DEF OverlayInv, SerialInv, SerialOf, OneBusy, MergedHasOwner, Building, Busy
      <3>6. OccupiedInv'
        BY <2>1, <3>1 DEF OverlayInv, OccupiedInv, OneRuns, RunnerHasAll, SpareStarter, Busy
      <3> QED
        BY <3>2, <3>3, <3>4, <3>5, <3>6, Zenon DEF OverlayInv
    <2>2. OverlayInv /\ OverlayNext => OverlayInv'
      BY OverlayTypes, OverlayForeign, OverlayRecords, OverlaySerial, OverlayOccupied, Zenon
         DEF OverlayNext, OverlayStep, OverlayInv
    <2> QED
      BY <2>1, <2>2, Zenon
  <1> QED
    BY <1>1, <1>2, PTL DEF OverlaySpec

\* The directories of an overlay belong to whoever created them, and the merged
\* one goes with its container (OverlayOwnership::cleanup).
THEOREM OverlaySafety == OverlaySpec => []OverlayOwned
  <1>1. OverlayInv => OverlayOwned
    BY Zenon DEF OverlayInv, ForeignInv, SerialInv, MergedHasOwner, OccupiedInv, RunnerHasAll, OverlayOwned,
           NativeKept, RunningHasLayers, MergedRemoved
  <1> QED
    BY <1>1, OverlayInvariant, PTL

-----------------------------------------------------------------------------
(* RootfsDiff *)

\* The upper directory is a tree, and a whiteout hides something: a path that
\* is there below and that no directory above it hides already.  Marks lie in
\* directories of the upper one.
UpperInv ==
    /\ lower \in Lowers /\ ExistsOnHost /\ marks \subseteq Marks
    /\ \A m \in marks : Entered(Home(m))
    /\ upper \in [Paths -> {"none", "file", "dir", "opaque", "whiteout"}]
    /\ \A p \in Paths :
           /\ upper[p] # "none" => \A a \in Above(p) : IsDir(upper[a])
           /\ upper[p] = "whiteout" => BelowShows(p)

\* A directory above a path is a path, is not below it, and has above it only
\* what is above the path.
LEMMA AboveFact ==
  ASSUME NEW p \in Paths, NEW a \in Above(p)
  PROVE  /\ a \in Paths /\ a # p /\ p \notin Above(a)
         /\ Above(a) \subseteq Above(p)
  <1> DEFINE S == Range(p)
  <1>1. p \in Seq(S) /\ a \in Paths /\ Len(p) \in Nat
    BY PathsAssumption
  <1>2. PICK n \in 1..(Len(p) - 1) : a = SubSeq(p, 1, n)
    BY Zenon DEF Above
  <1>3. a \in Seq(S) /\ Len(a) = n
    <2>1. n \in Int /\ 1 \in Int /\ 1 <= n /\ \A i \in 1..n : p[i] \in S
      BY <1>1, <1>2
    <2> HIDE DEF S
    <2>2. /\ SubSeq(p, 1, n) \in Seq(S)
          /\ Len(SubSeq(p, 1, n)) = IF 1 <= n THEN n - 1 + 1 ELSE 0
      BY <1>1, <2>1
    <2> QED
      BY <1>2, <2>1, <2>2
  <1>4. ASSUME NEW m \in 1..(n - 1) PROVE SubSeq(a, 1, m) = SubSeq(p, 1, m)
    <2> HIDE DEF S
    <2>1. 1 \in 1..Len(p) /\ n \in 1..Len(p) /\ 1 \in 1..(n - 1 + 1) /\ m \in 1..(n - 1 + 1)
      BY <1>1, <1>2
    <2>2. SubSeq(SubSeq(p, 1, n), 1, m) = SubSeq(p, 1 + 1 - 1, 1 + m - 1)
      BY <1>1, <2>1
    <2> QED
      BY <1>2, <2>2
  <1>5. Above(a) \subseteq Above(p)
    <2> SUFFICES ASSUME NEW b \in Above(a) PROVE b \in Above(p)
      BY Zenon
    <2>1. PICK m \in 1..(n - 1) : b = SubSeq(a, 1, m)
      BY <1>3, Zenon DEF Above
    <2> QED
      BY <1>1, <1>2, <1>4, <2>1 DEF Above
  <1>6. p \notin Above(a)
    <2> SUFFICES ASSUME p \in Above(a) PROVE FALSE
      BY Zenon
    <2>1. PICK m \in 1..(n - 1) : p = SubSeq(a, 1, m)
      BY <1>3, Zenon DEF Above
    <2>2. p = SubSeq(p, 1, m) /\ m \in Int /\ 1 <= m /\ m < Len(p)
      BY <1>1, <1>2, <1>4, <2>1
    <2>3. \A i \in 1..m : p[i] \in S
      BY <1>1, <2>2
    <2> HIDE DEF S
    <2>4. Len(SubSeq(p, 1, m)) = IF 1 <= m THEN m - 1 + 1 ELSE 0
      BY <1>1, <2>2, <2>3
    <2> QED
      BY <2>2, <2>4
  <1> QED
    BY <1>1, <1>2, <1>3, <1>5, <1>6, Zenon

\* The directories on the way to a mark are paths, with all that is above them.
LEMMA HomeFact ==
  ASSUME NEW m \in Marks, NEW a \in Home(m)
  PROVE  a \in Paths /\ Above(a) \subseteq Home(m)
  <1>1. m.of \in Paths
    BY PathsAssumption
  <1>2. CASE a \in Above(m.of)
    BY <1>1, <1>2, AboveFact, Zenon DEF Home
  <1>3. CASE a = m.of
    BY <1>1, <1>3, Zenon DEF Home
  <1> QED
    BY <1>2, <1>3, Zenon DEF Home

\* A change at p: of kind, in directories that the container sees.  A file or a
\* directory is put where there is no directory; only what is shown from below
\* gets a whiteout.
LEMMA CopiedUpKeepsUpper ==
  ASSUME UpperInv, NEW p \in Paths, NEW kind \in {"none", "file", "dir", "opaque", "whiteout"},
         Holds(p), upper' = CopiedUp(p, kind), UNCHANGED <<lower, found, marks>>,
         kind \in {"none", "whiteout"} => \A m \in marks : p \notin Home(m),
         kind \in {"file", "dir", "opaque"} => ~IsDir(upper[p]),
         kind = "whiteout" => BelowShows(p)
  PROVE  UpperInv'
  <1>1. ASSUME NEW a \in Above(p) PROVE a \in Paths /\ (IsDir(upper[a]) \/ upper[a] = "none")
    <2>1. a \in Paths /\ Merged(a) = "dir"
      BY AboveFact, Zenon DEF Holds
    <2> QED
      BY <2>1, Zenon DEF Merged, UpperInv, IsDir
  <1>2. /\ upper' \in [Paths -> {"none", "file", "dir", "opaque", "whiteout"}]
        /\ upper'[p] = kind
        /\ \A q \in Paths \ {p} :
               \/ q \in Above(p) /\ upper[q] = "none" /\ upper'[q] = "dir"
               \/ p \in Above(q) /\ kind \in {"none", "whiteout"} /\ upper'[q] = "none"
               \/ /\ ~(q \in Above(p) /\ upper[q] = "none")
                  /\ ~(p \in Above(q) /\ kind \in {"none", "whiteout"}) /\ upper'[q] = upper[q]
    <2>1. p \notin Above(p) /\ \A q \in Above(p) : p \notin Above(q)
      BY AboveFact, Zenon
    <2>2. upper \in [Paths -> {"none", "file", "dir", "opaque", "whiteout"}]
      BY Zenon DEF UpperInv
    <2>3. upper'[p] = kind
      BY <2>1, Zenon DEF CopiedUp
    <2>4. ASSUME NEW q \in Paths \ {p}
          PROVE  /\ q \in Above(p) /\ upper[q] = "none" => upper'[q] = "dir"
                 /\ p \in Above(q) /\ kind \in {"none", "whiteout"} => upper'[q] = "none"
                 /\ ~(q \in Above(p) /\ upper[q] = "none") /\ ~(p \in Above(q) /\ kind \in {"none", "whiteout"})
                        => upper'[q] = upper[q]
      BY <2>1, Zenon DEF CopiedUp
    <2>5. \A q \in Paths : upper'[q] \in {"none", "file", "dir", "opaque", "whiteout"}
      BY <2>2, <2>3, <2>4, Zenon
    <2>6. upper' = [q \in Paths |-> upper'[q]]
      BY DEF CopiedUp
    <2> QED
      BY <2>1, <2>3, <2>4, <2>5, <2>6, Zenon
  <1>3. ASSUME NEW a \in Above(p)
        PROVE  IsDir(upper'[a]) /\ (upper'[a] = "dir" \/ upper'[a] = upper[a])
    <2>1. a \in Paths /\ a # p /\ p \notin Above(a)
      BY AboveFact, Zenon
    <2> QED
      BY <1>1, <1>2, <2>1, Zenon DEF IsDir
  <1>4. ASSUME NEW q \in Paths, upper'[q] # "none", NEW a \in Above(q)
        PROVE  IsDir(upper'[a])
    <2>1. CASE q = p
      BY <1>3, <2>1, Zenon
    <2>2. CASE q \in Above(p)
      <3>1. a \in Above(p)
        BY <2>2, AboveFact, Zenon
      <3> QED
        BY <1>3, <3>1, Zenon
    <2>3. CASE q # p /\ q \notin Above(p)
      <3>1. a \in Paths /\ Above(a) \subseteq Above(q)
        BY AboveFact, Zenon
      <3>2. upper'[q] = upper[q] /\ ~(p \in Above(q) /\ kind \in {"none", "whiteout"})
        BY <1>2, <1>4, <2>3, Zenon
      <3>3. IsDir(upper[a])
        BY <1>4, <3>2, Zenon DEF UpperInv
      <3>4. a # p
        BY <3>2, <3>3, Zenon
      <3> QED
        BY <1>2, <3>1, <3>2, <3>3, <3>4, Zenon DEF IsDir
    <2> QED
      BY <2>1, <2>2, <2>3, Zenon
  <1>5. ASSUME NEW q \in Paths, upper'[q] = "whiteout" PROVE BelowShows(q)'
    <2>1. CASE q = p
      <3>1. BelowShows(p)
        BY <1>2, <1>5, <2>1, Zenon
      <3> QED
        BY <1>3, <2>1, <3>1, Zenon DEF BelowShows, Hides
    <2>2. CASE q # p
      <3>1. upper[q] = "whiteout" /\ ~(p \in Above(q) /\ kind \in {"none", "whiteout"})
        BY <1>2, <1>5, <2>2, Zenon
      <3>2. BelowShows(q)
        BY <3>1, Zenon DEF UpperInv
      <3>3. ASSUME NEW a \in Above(q) PROVE ~Hides(a)'
        <4>1. a \in Paths /\ IsDir(upper[a]) /\ ~Hides(a)
          BY <3>1, <3>2, AboveFact, Zenon DEF UpperInv, BelowShows
        <4>2. a # p
          BY <3>1, <4>1, Zenon
        <4> QED
          BY <1>2, <4>1, <4>2, Zenon DEF Hides
      <3> QED
        BY <3>2, <3>3, Zenon DEF BelowShows
    <2> QED
      BY <2>1, <2>2, Zenon
  <1>6. ASSUME NEW m \in marks, NEW a \in Home(m) PROVE IsDir(upper'[a])
    <2>1. a \in Paths /\ Above(a) \subseteq Home(m) /\ IsDir(upper[a])
      BY HomeFact, Zenon DEF UpperInv, Entered
    <2>2. a # p /\ ~(p \in Above(a) /\ kind \in {"none", "whiteout"})
      BY <2>1, Zenon
    <2> QED
      BY <1>2, <2>1, <2>2, Zenon DEF IsDir
  <1>7. /\ lower' \in Lowers /\ ExistsOnHost' /\ marks' \subseteq Marks
        /\ \A m \in marks' : Entered(Home(m))'
    <2>1. ExistsOnHost'
      BY Zenon DEF UpperInv, ExistsOnHost, BelowLink
    <2> QED
      BY <1>6, <2>1, Zenon DEF UpperInv, Entered
  <1> QED
    BY <1>2, <1>4, <1>5, <1>7, Zenon DEF UpperInv

\* A mark is written in directories that the container sees.
LEMMA WriteMarkKeepsUpper ==
  ASSUME UpperInv, NEW m \in Marks, WriteMark(m)
  PROVE  UpperInv'
  <1>1. /\ lower' = lower /\ found' = found /\ marks' = marks \cup {m}
        /\ \A a \in Home(m) : Merged(a) = "dir"
        /\ upper' = [q \in Paths |-> IF q \in Home(m) /\ upper[q] = "none" THEN "dir" ELSE upper[q]]
    BY Zenon DEF WriteMark
  <1>2. upper \in [Paths -> {"none", "file", "dir", "opaque", "whiteout"}]
    BY Zenon DEF UpperInv
  <1>3. \A q \in Paths : \/ q \in Home(m) /\ upper[q] = "none" /\ upper'[q] = "dir"
                         \/ ~(q \in Home(m) /\ upper[q] = "none") /\ upper'[q] = upper[q]
    <2>1. \A q \in Paths : upper'[q] = IF q \in Home(m) /\ upper[q] = "none" THEN "dir" ELSE upper[q]
      BY <1>1, Zenon
    <2> QED
      BY <2>1, Zenon
  <1>4. \A a \in Home(m) : a \in Paths /\ IsDir(upper'[a])
    <2>1. ASSUME NEW a \in Home(m) PROVE IsDir(upper[a]) \/ upper[a] = "none"
      BY <1>1, <1>2, HomeFact, Zenon DEF Merged, IsDir
    <2> QED
      BY <1>3, <2>1, HomeFact, Zenon DEF IsDir
  <1>5. upper' \in [Paths -> {"none", "file", "dir", "opaque", "whiteout"}]
    BY <1>1, <1>2, Zenon
  <1>6. ASSUME NEW q \in Paths, upper'[q] # "none", NEW a \in Above(q) PROVE IsDir(upper'[a])
    <2>1. CASE q \in Home(m)
      BY <1>4, <2>1, HomeFact, Zenon
    <2>2. CASE q \notin Home(m)
      <3>1. a \in Paths /\ IsDir(upper[a])
        BY <1>3, <1>6, <2>2, AboveFact, Zenon DEF UpperInv
      <3> QED
        BY <1>3, <3>1, Zenon DEF IsDir
    <2> QED
      BY <2>1, <2>2, Zenon
  <1>7. ASSUME NEW q \in Paths, upper'[q] = "whiteout" PROVE BelowShows(q)'
    <2>1. upper[q] = "whiteout"
      BY <1>3, <1>7, Zenon
    <2>2. \A a \in Above(q) : a \in Paths /\ IsDir(upper[a]) /\ ~Hides(a)
      BY <2>1, AboveFact, Zenon DEF UpperInv, BelowShows
    <2>3. \A a \in Above(q) : upper'[a] = upper[a]
      BY <1>3, <2>2, Zenon DEF IsDir
    <2>4. lower[q] # "absent"
      BY <2>1, Zenon DEF UpperInv, BelowShows
    <2> QED
      BY <1>1, <2>2, <2>3, <2>4, Zenon DEF BelowShows, Hides
  <1>8. ASSUME NEW n \in marks', NEW a \in Home(n) PROVE IsDir(upper'[a])
    <2>1. CASE n = m
      BY <1>4, <2>1, Zenon
    <2>2. CASE n \in marks
      <3>1. n \in Marks /\ Entered(Home(n))
        BY <2>2, Zenon DEF UpperInv
      <3>2. a \in Paths /\ IsDir(upper[a])
        BY <3>1, HomeFact, Zenon DEF Entered
      <3> QED
        BY <1>3, <3>2, Zenon DEF IsDir
    <2> QED
      BY <1>1, <2>1, <2>2, Zenon
  <1>9. ExistsOnHost' /\ lower' \in Lowers /\ marks' \subseteq Marks
    BY <1>1, Zenon DEF UpperInv, ExistsOnHost, BelowLink
  <1> QED
    BY <1>5, <1>6, <1>7, <1>8, <1>9, Zenon DEF UpperInv, Entered

\* Whatever is written, made and removed, the upper directory stays a tree in
\* which a whiteout hides something (what collect_diff_entries relies on).
THEOREM UpperInvariant == DiffSpec => []UpperInv
  <1>1. DiffInit => UpperInv
    BY Zenon DEF DiffInit, UpperInv
  <1>2. ASSUME UpperInv, NEW p \in Paths, WriteFile(p) \/ MakeDirectory(p) \/ RemovePath(p)
        PROVE  UpperInv'
    <2>1. PICK kind \in {"none", "file", "dir", "opaque", "whiteout"} :
              /\ Holds(p) /\ upper' = CopiedUp(p, kind) /\ UNCHANGED <<lower, found, marks>>
              /\ kind \in {"none", "whiteout"} => \A m \in marks : p \notin Home(m)
              /\ kind \in {"file", "dir", "opaque"} => Merged(p) # "dir"
              /\ kind = "whiteout" => BelowShows(p)
      BY <1>2, Zenon DEF WriteFile, MakeDirectory, RemovePath
    <2>2. Merged(p) # "dir" => ~IsDir(upper[p])
      BY Zenon DEF Merged, IsDir
    <2> QED
      BY <1>2, <2>1, <2>2, CopiedUpKeepsUpper, Zenon
  <1>3. UpperInv /\ UNCHANGED diffVars => UpperInv'
    BY Zenon DEF diffVars, UpperInv, BelowShows, Hides, ExistsOnHost, BelowLink, Entered
  <1>4. ASSUME UpperInv, NEW m \in Marks, RemoveMark(m) PROVE UpperInv'
    BY <1>4, Zenon DEF RemoveMark, UpperInv, BelowShows, Hides, ExistsOnHost, BelowLink, Entered
  <1>5. UpperInv /\ [DiffNext]_diffVars => UpperInv'
    BY <1>2, <1>3, <1>4, WriteMarkKeepsUpper, Zenon DEF DiffNext
  <1> QED
    BY <1>1, <1>5, PTL DEF DiffSpec

\* Whatever a container writes and removes: the lines of `minicrun diff' say what
\* DiffIsTrue says, and only what DiffIsComplete lists is missing from them
\* (diff_overlay_dirs, collect_diff_entries, whiteout_deleted_path).
THEOREM DiffSafety == DiffSpec => []DiffIsExplained
  <1>1. ASSUME UpperInv PROVE DiffIsExplained
    <2>1. ASSUME NEW p \in Paths, upper[p] # "none" PROVE Entered(Above(p))
      BY <1>1, <2>1, Zenon DEF UpperInv, Entered
    <2>2. ASSUME NEW p \in Paths, NEW k, <<p, k>> \in DiffEntries
          PROVE  k \in EntryKinds(p) \/ \E m \in marks : m.of = p /\ MarkKind(m) = k /\ Entered(Home(m))
      BY <2>2 DEF DiffEntries
    <2>3. ASSUME NEW p \in Paths, NEW k \in {"created", "modified", "deleted"}, k \in EntryKinds(p)
          PROVE <<p, k>> \in DiffEntries
      <3>1. upper[p] # "none"
        BY <2>3, Zenon DEF EntryKinds, IsWhiteout, IsDir
      <3>2. Entered(Above(p))
        BY <2>1, <3>1, Zenon
      <3> QED
        BY <2>3, <3>2 DEF DiffEntries
    <2>4. ASSUME NEW p \in Paths, NEW m \in marks, m.of = p, Entered(Home(m))
          PROVE  /\ m = [of |-> p, form |-> m.form] /\ m.form \in {"deleted", "opaque"}
                 /\ m.form = "opaque" => Merged(p) = "dir"
      <3>1. m \in [of : Paths, form : {"deleted", "opaque"}]
        BY <1>1, PathsAssumption, Zenon DEF UpperInv
      <3>2. m = [of |-> p, form |-> m.form] /\ m.form \in {"deleted", "opaque"}
        BY <2>4, <3>1
      <3>3. m.form = "opaque" => IsDir(upper[p])
        BY <2>4, Zenon DEF Home, Entered
      <3> QED
        BY <3>2, <3>3, Zenon DEF IsDir, Merged
    <2>5. ASSUME NEW p \in Paths
          PROVE  /\ "created" \in EntryKinds(p) =>
                        Merged(p) # "absent" /\ (lower[p] = "absent" \/ (lower[p] = "link" /\ ~found[p]))
                 /\ "deleted" \in EntryKinds(p) => Removed(p)
                 /\ "modified" \in EntryKinds(p) =>
                        Merged(p) # "absent" /\ (lower[p] # "absent" \/ BelowLink(p))
      <3>1. /\ lower[p] \in {"absent", "file", "dir", "link"}
            /\ lower[p] \in {"file", "dir"} => found[p]
            /\ lower[p] = "absent" /\ found[p] => BelowLink(p)
        BY <1>1, PathsAssumption, Zenon DEF UpperInv, ExistsOnHost
      <3>2. "created" \in EntryKinds(p) => Merged(p) # "absent" /\ ~found[p]
        BY <1>1, Zenon DEF UpperInv, EntryKinds, IsWhiteout, IsDir, Merged
      <3>3. "modified" \in EntryKinds(p) => Merged(p) # "absent" /\ found[p]
        BY <1>1, Zenon DEF UpperInv, EntryKinds, IsWhiteout, IsDir, Merged
      <3>4. "deleted" \in EntryKinds(p) => Removed(p)
        BY <1>1, Zenon DEF UpperInv, EntryKinds, IsWhiteout, IsDir, Merged, Removed, BelowShows
      <3> QED
        BY <3>1, <3>2, <3>3, <3>4, Zenon
    <2>6. DiffIsTrue
      <3> SUFFICES ASSUME NEW p \in Paths
                   PROVE  /\ <<p, "created">> \in DiffEntries =>
                                 Merged(p) # "absent" /\ (lower[p] = "absent" \/ (lower[p] = "link" /\ ~found[p]))
                          /\ <<p, "modified">> \in DiffEntries =>
                                 \/ Merged(p) # "absent" /\ (lower[p] # "absent" \/ BelowLink(p))
                                 \/ Merged(p) = "dir" /\ [of |-> p, form |-> "opaque"] \in marks
                          /\ <<p, "deleted">> \in DiffEntries =>
                                 Removed(p) \/ [of |-> p, form |-> "deleted"] \in marks
        BY Zenon DEF DiffIsTrue
      <3>1. <<p, "created">> \in DiffEntries => "created" \in EntryKinds(p)
        <4>1. \A m : MarkKind(m) # "created"
          BY DEF MarkKind
        <4> QED
          BY <2>2, <4>1, Zenon
      <3>2. <<p, "modified">> \in DiffEntries =>
                \/ "modified" \in EntryKinds(p)
                \/ Merged(p) = "dir" /\ [of |-> p, form |-> "opaque"] \in marks
        <4>1. ASSUME NEW m \in marks, m.of = p, MarkKind(m) = "modified", Entered(Home(m))
              PROVE  Merged(p) = "dir" /\ [of |-> p, form |-> "opaque"] \in marks
          BY <2>4, <4>1, Zenon DEF MarkKind
        <4> QED
          BY <2>2, <4>1, Zenon
      <3>3. <<p, "deleted">> \in DiffEntries =>
                "deleted" \in EntryKinds(p) \/ [of |-> p, form |-> "deleted"] \in marks
        <4>1. ASSUME NEW m \in marks, m.of = p, MarkKind(m) = "deleted", Entered(Home(m))
              PROVE  [of |-> p, form |-> "deleted"] \in marks
          BY <2>4, <4>1, Zenon DEF MarkKind
        <4> QED
          BY <2>2, <4>1, Zenon
      <3> QED
        BY <2>5, <3>1, <3>2, <3>3, Zenon
    <2>7. ASSUME NEW p \in Paths, Merged(p) # "absent", lower[p] = "absent"
          PROVE  <<p, "created">> \in DiffEntries \/ BelowLink(p)
      <3>1. found[p] => BelowLink(p)
        BY <1>1, <2>7, Zenon DEF UpperInv, ExistsOnHost
      <3>2. ~found[p] => "created" \in EntryKinds(p)
        BY <1>1, <2>7, Zenon DEF UpperInv, Merged, EntryKinds, IsWhiteout, IsDir
      <3> QED
        BY <2>3, <3>1, <3>2, Zenon
    <2>8. ASSUME NEW p \in Paths, upper[p] = "whiteout" PROVE <<p, "deleted">> \in DiffEntries
      <3>1. "deleted" \in EntryKinds(p)
        BY <2>8, Zenon DEF EntryKinds, IsWhiteout, IsDir
      <3> QED
        BY <2>3, <3>1, Zenon
    <2>9. ASSUME NEW p \in Paths, upper[p] = "file", lower[p] \in {"file", "dir"}
          PROVE  <<p, "modified">> \in DiffEntries /\ Merged(p) = "file"
      <3>1. found[p]
        BY <1>1, <2>9, Zenon DEF UpperInv, ExistsOnHost
      <3>2. "modified" \in EntryKinds(p)
        BY <2>9, <3>1, Zenon DEF EntryKinds, IsWhiteout, IsDir
      <3> QED
        BY <2>3, <2>9, <3>2, Zenon DEF Merged
    <2>10. ASSUME NEW p \in Paths, Merged(p) = "file", lower[p] = "dir" PROVE upper[p] = "file"
      BY <1>1, <2>10, Zenon DEF UpperInv, Merged
    <2>11. ASSUME NEW p \in Paths, Removed(p)
          PROVE  \/ upper[p] = "whiteout"
                 \/ \E a \in Above(p) : Hides(a) /\ lower[a] = "dir"
      <3>1. \A a \in Above(p) : lower[a] = "dir"
        BY <1>1, <2>11, PathsAssumption, Zenon DEF UpperInv, Removed
      <3> QED
        BY <1>1, <2>11, <3>1, Zenon DEF UpperInv, Removed, Merged
    <2>12. ASSUME NEW p \in Paths, Removed(p)
          PROVE  \E a \in Above(p) \cup {p} :
                     \/ <<a, "deleted">> \in DiffEntries
                     \/ <<a, "modified">> \in DiffEntries /\ Merged(a) = "file"
                     \/ upper[a] = "opaque" /\ Merged(a) = "dir"
      <3>1. CASE upper[p] = "whiteout"
        BY <2>8, <3>1, Zenon
      <3>2. CASE \E a \in Above(p) : Hides(a) /\ lower[a] = "dir"
        <4>1. PICK a \in Above(p) : Hides(a) /\ lower[a] = "dir"
          BY <3>2, Zenon
        <4>2. a \in Paths
          BY AboveFact, Zenon
        <4>3. upper[a] = "opaque" => Merged(a) = "dir"
          BY Zenon DEF Merged
        <4> QED
          BY <2>8, <2>9, <4>1, <4>2, <4>3, Zenon DEF Hides
      <3> QED
        BY <2>11, <2>12, <3>1, <3>2, Zenon
    <2>13. DiffIsComplete
      BY <2>7, <2>9, <2>10, <2>12, Zenon DEF DiffIsComplete
    <2> QED
      BY <2>6, <2>13, Zenon DEF DiffIsExplained
  <1> QED
    BY <1>1, UpperInvariant, PTL

-----------------------------------------------------------------------------
(* Cgroup *)

\* The steps at which a container may have processes in its cgroup.
Populated == {"running", "poll", "rmdir", "busy"}
CgroupSteps == {"idle", "enable", "mkdir", "limit", "over"} \cup Populated

\* No limit outlives its controller, a container with processes has passed the
\* last write of new_at, and a directory belongs to a container that is not over.
CgroupInv ==
    /\ limits \in [Ids -> SUBSET subtree]
    /\ cpc \in [Ids -> CgroupSteps]
    /\ procs \subseteq Ids
    /\ \A i \in procs : cpc[i] \in Populated
    /\ \A i \in Ids : cpc[i] \in Populated => limits[i] = need[i]
    /\ \A i \in dirs : i \in Ids /\ cpc[i] \in Populated \cup {"limit"}

\* A step of container i that leaves the limits of the others alone, and leaves
\* its own limits, processes and directory right for where it goes on.
LEMMA CgroupStep ==
  ASSUME CgroupInv, NEW i \in Ids, NEW l \in CgroupSteps, cpc' = [cpc EXCEPT ![i] = l],
         need' = need, limits' \in [Ids -> SUBSET subtree'],
         \A j \in Ids : j # i => limits'[j] = limits[j],
         procs' \subseteq procs \cup {i}, dirs' \subseteq dirs \cup {i},
         i \in procs' => l \in Populated,
         l \in Populated => limits'[i] = need[i],
         i \in dirs' => l \in Populated \cup {"limit"}
  PROVE  CgroupInv'
  <1>1. cpc \in [Ids -> CgroupSteps] /\ procs \subseteq Ids /\ \A j \in dirs : j \in Ids
    BY Zenon DEF CgroupInv
  <1>2. cpc'[i] = l /\ \A j \in Ids : j # i => cpc'[j] = cpc[j]
    BY <1>1, Zenon
  <1>3. cpc' \in [Ids -> CgroupSteps]
    BY <1>1, Zenon
  <1>4. \A j \in procs' : j \in Ids /\ cpc'[j] \in Populated
    BY <1>1, <1>2, Zenon DEF CgroupInv
  <1>5. \A j \in Ids : cpc'[j] \in Populated => limits'[j] = need'[j]
    BY <1>2, Zenon DEF CgroupInv
  <1>6. \A j \in dirs' : j \in Ids /\ cpc'[j] \in Populated \cup {"limit"}
    BY <1>1, <1>2, Zenon DEF CgroupInv
  <1> QED
    BY <1>3, <1>4, <1>5, <1>6, Zenon DEF CgroupInv

\* For any containers that start, fail and are deleted concurrently: CgroupInv
\* is inductive, and with it CgroupFollowsContainer holds.
THEOREM CgroupSafety == CgroupSpec => []CgroupFollowsContainer
  <1>1. CgroupInit => CgroupInv
    BY Zenon DEF CgroupInit, CgroupState, CgroupInv, CgroupSteps, Populated
  <1>2. ASSUME CgroupInv, NEW i \in Ids,
               \/ ReadControllers(i) \/ EnableControllers(i) \/ MakeCgroup(i) \/ WriteLimit(i)
               \/ NewFails(i) \/ AddProcess(i) \/ BeginDelete(i) \/ PollProcs(i) \/ RemoveCgroup(i)
               \/ ProcessesEnd(i)
        PROVE  CgroupInv'
    <2>a. /\ limits \in [Ids -> SUBSET subtree] /\ cpc \in [Ids -> CgroupSteps]
          /\ i \in procs => cpc[i] \in Populated
          /\ cpc[i] \in Populated => limits[i] = need[i]
          /\ i \in dirs => cpc[i] \in Populated \cup {"limit"}
      BY <1>2, Zenon DEF CgroupInv
    <2>b. "limit" \notin Populated /\ Populated \cup {"enable", "mkdir", "limit", "over"} \subseteq CgroupSteps
      BY Zenon DEF Populated, CgroupSteps
    <2>c. {"idle", "enable", "mkdir", "over"} \cap (Populated \cup {"limit"}) = {}
      BY Zenon DEF Populated
    <2>1. CASE ReadControllers(i)
      <3>1. cpc[i] = "idle" /\ UNCHANGED <<need, subtree, dirs, limits, procs>>
        BY <2>1, Zenon DEF ReadControllers
      <3>2. PICK l \in {"enable", "over"} : cpc' = [cpc EXCEPT ![i] = l]
        BY <2>1, Zenon DEF ReadControllers, Turn
      <3> QED
        BY <1>2, <2>a, <2>b, <2>c, <3>1, <3>2, CgroupStep, Zenon
    <2>2. CASE EnableControllers(i)
      <3>1. cpc[i] = "enable" /\ UNCHANGED <<need, dirs, limits, procs>> /\ subtree \subseteq subtree'
        BY <2>2, Zenon DEF EnableControllers
      <3>2. PICK l \in {"mkdir", "over"} : cpc' = [cpc EXCEPT ![i] = l]
        BY <2>2, Zenon DEF EnableControllers, Turn
      <3>3. limits' \in [Ids -> SUBSET subtree']
        BY <2>a, <3>1, Zenon
      <3> QED
        BY <1>2, <2>a, <2>b, <2>c, <3>1, <3>2, <3>3, CgroupStep, Zenon
    <2>3. CASE MakeCgroup(i)
      <3>1. /\ cpc[i] = "mkdir" /\ UNCHANGED <<need, subtree, limits, procs>>
            /\ dirs' = dirs \cup {i} /\ cpc' = [cpc EXCEPT ![i] = "limit"]
        BY <2>3, Zenon DEF MakeCgroup, Turn
      <3> QED
        BY <1>2, <2>a, <2>b, <2>c, <3>1, CgroupStep, Zenon
    <2>4. CASE WriteLimit(i)
      BY <1>2, <2>b, <2>4, Zenon DEF WriteLimit, CgroupInv
    <2>5. CASE NewFails(i)
      <3>1. /\ cpc[i] \in {"mkdir", "limit"} /\ UNCHANGED <<need, subtree, procs>>
            /\ dirs' = dirs \ {i} /\ cpc' = [cpc EXCEPT ![i] = "over"]
            /\ limits' = [j \in Ids |-> IF j = i THEN {} ELSE limits[j] \cap subtree]
        BY <2>5, Zenon DEF NewFails, RollbackControllers, DropCgroup, Turn
      <3>2. \A j \in Ids : j # i => limits'[j] = limits[j]
        <4>1. \A j \in Ids : limits[j] \cap subtree = limits[j]
          BY <2>a, Zenon
        <4> QED
          BY <3>1, <4>1, Zenon
      <3>3. limits' \in [Ids -> SUBSET subtree']
        BY <3>1, Zenon
      <3> QED
        BY <1>2, <2>a, <2>b, <2>c, <3>1, <3>2, <3>3, CgroupStep, Zenon
    <2>6. CASE AddProcess(i)
      <3>1. /\ cpc[i] = "limit" /\ limits[i] = need[i] /\ UNCHANGED <<need, subtree, dirs, limits>>
            /\ procs' = procs \cup {i} /\ cpc' = [cpc EXCEPT ![i] = "running"]
        BY <2>6, Zenon DEF AddProcess, Turn
      <3>2. "running" \in Populated
        BY Zenon DEF Populated
      <3> QED
        BY <1>2, <2>a, <2>b, <3>1, <3>2, CgroupStep, Zenon
    <2>7. CASE BeginDelete(i) \/ PollProcs(i)
      <3>1. cpc[i] \in Populated /\ UNCHANGED <<need, subtree, dirs, limits, procs>>
        BY <2>7, Zenon DEF BeginDelete, PollProcs, Populated
      <3>2. PICK l \in {"poll", "rmdir"} : cpc' = [cpc EXCEPT ![i] = l]
        BY <2>a, <2>7, Zenon DEF BeginDelete, PollProcs, Turn
      <3>3. l \in Populated
        BY <3>2, Zenon DEF Populated
      <3> QED
        BY <1>2, <2>a, <2>b, <3>1, <3>2, <3>3, CgroupStep, Zenon
    <2>8. CASE RemoveCgroup(i)
      <3>1. cpc[i] \in Populated /\ UNCHANGED <<need, subtree, limits, procs>>
        BY <2>8, Zenon DEF RemoveCgroup, Populated
      <3>2. CASE i \in procs
        <4>1. cpc' = [cpc EXCEPT ![i] = "busy"] /\ dirs' = dirs /\ "busy" \in Populated
          BY <2>8, <3>2, Zenon DEF RemoveCgroup, Turn, Populated
        <4> QED
          BY <1>2, <2>a, <2>b, <3>1, <4>1, CgroupStep, Zenon
      <3>3. CASE i \notin procs
        <4>1. cpc' = [cpc EXCEPT ![i] = "over"] /\ dirs' = dirs \ {i}
          BY <2>8, <3>3, Zenon DEF RemoveCgroup, Turn
        <4> QED
          BY <1>2, <2>a, <2>b, <2>c, <3>1, <3>3, <4>1, CgroupStep, Zenon
      <3> QED
        BY <3>2, <3>3, Zenon
    <2>9. CASE ProcessesEnd(i)
      BY <1>2, <2>9, Zenon DEF ProcessesEnd, CgroupInv
    <2> QED
      BY <1>2, <2>1, <2>2, <2>3, <2>4, <2>5, <2>6, <2>7, <2>8, <2>9, Zenon
  <1>3. CgroupInv /\ UNCHANGED cgroupVars => CgroupInv'
    BY Zenon DEF cgroupVars, CgroupInv
  <1>4. CgroupInv => CgroupFollowsContainer
    BY Zenon DEF CgroupInv, CgroupFollowsContainer, LimitsInForce, NoCgroupLeft, Populated
  <1>5. CgroupInv /\ [CgroupNext]_cgroupVars => CgroupInv'
    BY <1>2, <1>3, Zenon DEF CgroupNext
  <1> QED
    BY <1>1, <1>4, <1>5, PTL DEF CgroupSpec
=============================================================================
