---------------------------- MODULE RootfsProofs -----------------------------
(***************************************************************************)
(* Proofs about RootfsSetup, for every list of mounts, every directory and *)
(* every set of masked and read-only paths: what a rollback removes, and   *)
(* what the default mounts hide.                                           *)
(***************************************************************************)
EXTENDS RootfsSetup, Induction

\* r holds the members of S among the first n of ps, in their order.
Selects(r, ps, n, S) ==
    \E at \in [1 .. Len(r) -> 1 .. n] :
        /\ \A i \in 1 .. Len(r) : r[i] = ps[at[i]] /\ ps[at[i]] \in S
        /\ \A i, j \in 1 .. Len(r) : i < j => at[i] < at[j]
        /\ \A k \in 1 .. n : ps[k] \in S => \E i \in 1 .. Len(r) : at[i] = k

\* What the filter Picked keeps of a sequence (the filters of
\* prospective_created_paths and of the paths that exist).
LEMMA PickedFacts ==
    ASSUME NEW X, NEW ps \in Seq(X), NEW S
    PROVE  Picked(ps, S) \in Seq(X) /\ Selects(Picked(ps, S), ps, Len(ps), S)
<1> DEFINE N == Len(ps)
           V == Seq(X)
           Step(v, n) == IF ps[n] \in S THEN Append(v, ps[n]) ELSE v
           G == [x \in V \X (1 .. N) |-> Step(x[1], x[2])]
           Is(t) == t = [n \in 0 .. N |-> IF n = 0 THEN <<>> ELSE
                             IF ps[n] \in S THEN Append(t[n - 1], ps[n]) ELSE t[n - 1]]
           kept == CHOOSE t : Is(t)
<1>0. N \in Nat /\ \A n \in 1 .. N : ps[n] \in X
  OBVIOUS
<1>1. \A v \in V, n \in 1 .. N : Step(v, n) \in V
  BY <1>0
<1>2. <<>> \in V
  OBVIOUS
<1> HIDE DEF N, V
<1>3. \E g : Iterates(g, V, <<>>, N, G)
  <2>1. G \in [V \X (1 .. N) -> V]
    <3> HIDE DEF Step
    <3> QED BY <1>1
  <2> HIDE DEF G
  <2> QED BY <1>0, <1>2, <2>1, IterationExists, Zenon
<1>4. PICK g \in [0 .. N -> V] : g[0] = <<>> /\ \A i \in 1 .. N : g[i] = G[<<g[i - 1], i>>]
  BY <1>3, Zenon DEF Iterates
<1>5. \A i \in 1 .. N : i \in 0 .. N /\ i - 1 \in 0 .. N /\ i # 0
  BY <1>0
<1>6. \A i \in 1 .. N : g[i] = Step(g[i - 1], i)
  <2>1. \A i \in 1 .. N : g[i - 1] \in V
    BY <1>5, Zenon
  <2>2. \A v \in V, i \in 1 .. N : G[<<v, i>>] = Step(v, i)
    <3> HIDE DEF Step
    <3> QED OBVIOUS
  <2> HIDE DEF Step, G
  <2> QED BY <1>4, <2>1, <2>2, Zenon
<1>7. Is(g)
  <2>1. \A i \in 0 .. N : i # 0 => i \in 1 .. N
    BY <1>0
  <2>2. \A i \in 0 .. N : g[i] = IF i = 0 THEN <<>> ELSE
                              IF ps[i] \in S THEN Append(g[i - 1], ps[i]) ELSE g[i - 1]
    BY <1>4, <1>6, <2>1, Zenon
  <2> QED BY <2>2, Zenon
<1>8. Is(kept)
  <2> HIDE DEF Is
  <2> QED BY <1>7, Zenon
<1>9. Picked(ps, S) = kept[N]
  BY Zenon DEF Picked, N
<1> HIDE DEF kept
<1>10. kept[0] = <<>> /\ \A n \in 1 .. N : kept[n] = Step(kept[n - 1], n)
  <2>1. 0 \in 0 .. N
    BY <1>0
  <2> QED BY <1>5, <1>8, <2>1, Zenon
<1> HIDE DEF Is, G
<1> DEFINE T == {n \in 0 .. N : kept[n] \in V /\ Selects(kept[n], ps, n, S)}
<1>11. 0 \in T
  <2> DEFINE at == [i \in 1 .. 0 |-> 0]
  <2>1. Len(<<>>) = 0 /\ 1 .. 0 = {} /\ at \in [1 .. 0 -> 1 .. 0] /\ 0 \in 0 .. N
    BY <1>0
  <2>2. kept[0] = <<>>
    BY <1>10, Zenon
  <2>3. Selects(<<>>, ps, 0, S)
    BY <2>1, Zenon DEF Selects
  <2> QED BY <1>2, <2>1, <2>2, <2>3, Zenon
<1>12. ASSUME NEW n \in 1 .. N, n - 1 \in T PROVE n \in T
  <2> DEFINE r == kept[n - 1]
  <2>1. r \in V /\ n \in 0 .. N
    BY <1>5, <1>12, Zenon
  <2>2. PICK at \in [1 .. Len(r) -> 1 .. n - 1] :
            /\ \A i \in 1 .. Len(r) : r[i] = ps[at[i]] /\ ps[at[i]] \in S
            /\ \A i, j \in 1 .. Len(r) : i < j => at[i] < at[j]
            /\ \A k \in 1 .. n - 1 : ps[k] \in S => \E i \in 1 .. Len(r) : at[i] = k
    BY <1>12, Zenon DEF Selects
  <2>3. \A k \in 1 .. n : k \in 1 .. n - 1 \/ k = n
    BY <1>0
  <2> HIDE DEF r
  <2>4. CASE ps[n] \notin S
    <3>1. kept[n] = r
      BY <1>10, <2>4, Zenon DEF r
    <3>2. at \in [1 .. Len(r) -> 1 .. n]
      BY <1>0, <2>1
    <3>3. Selects(r, ps, n, S)
      BY <2>2, <2>3, <2>4, <3>2, Zenon DEF Selects
    <3> QED BY <2>1, <3>1, <3>3, Zenon
  <2>5. CASE ps[n] \in S
    <3> DEFINE q == Append(r, ps[n])
               L == Len(r)
               bt == [i \in 1 .. L + 1 |-> IF i = L + 1 THEN n ELSE at[i]]
    <3>1. kept[n] = q
      BY <1>10, <2>5, Zenon DEF r
    <3>2. q \in V /\ Len(q) = L + 1 /\ q[L + 1] = ps[n] /\ L \in Nat
          /\ \A i \in 1 .. L : q[i] = r[i]
      BY <1>0, <2>1 DEF V
    <3> HIDE DEF q, L
    <3>3. \A i \in 1 .. L + 1 : i \in 1 .. L \/ i = L + 1
      BY <3>2
    <3>4. \A i \in 1 .. L : i \in 1 .. L + 1 /\ i # L + 1 /\ at[i] \in 1 .. n - 1
      BY <2>2, <3>2 DEF L
    <3>5. bt[L + 1] = n /\ \A i \in 1 .. L : bt[i] = at[i]
      BY <3>2, <3>4
    <3>6. bt \in [1 .. L + 1 -> 1 .. n]
      BY <1>0, <3>3, <3>4
    <3> HIDE DEF bt
    <3>7. \A i \in 1 .. L + 1 : q[i] = ps[bt[i]] /\ ps[bt[i]] \in S
      BY <2>2, <2>5, <3>2, <3>3, <3>5, Zenon DEF L
    <3>8. \A i, j \in 1 .. L + 1 : i < j => bt[i] < bt[j]
      <4>1. \A i, j \in 1 .. L : i < j => bt[i] < bt[j]
        BY <2>2, <3>5, Zenon DEF L
      <4>2. \A i \in 1 .. L : bt[i] < bt[L + 1]
        BY <3>4, <3>5
      <4>3. \A i \in 1 .. L + 1 : ~(L + 1 < i)
        BY <3>2
      <4> QED BY <3>3, <4>1, <4>2, <4>3, Zenon
    <3>9. \A k \in 1 .. n : ps[k] \in S => \E i \in 1 .. L + 1 : bt[i] = k
      <4>1. L + 1 \in 1 .. L + 1
        BY <3>2
      <4> QED BY <2>2, <2>3, <3>4, <3>5, <4>1, Zenon DEF L
    <3>10. 1 .. L + 1 = 1 .. Len(q)
      BY <3>2, Zenon
    <3>11. Selects(q, ps, n, S)
      <4>1. bt \in [1 .. Len(q) -> 1 .. n]
        BY <3>6, <3>10, Zenon
      <4>2. \A i \in 1 .. Len(q) : q[i] = ps[bt[i]] /\ ps[bt[i]] \in S
        BY <3>7, <3>10, Zenon
      <4>3. \A i, j \in 1 .. Len(q) : i < j => bt[i] < bt[j]
        BY <3>8, <3>10, Zenon
      <4>4. \A k \in 1 .. n : ps[k] \in S => \E i \in 1 .. Len(q) : bt[i] = k
        BY <3>9, <3>10, Zenon
      <4> QED BY <4>1, <4>2, <4>3, <4>4, Zenon DEF Selects
    <3> QED BY <2>1, <3>1, <3>2, <3>11, Zenon
  <2> QED BY <2>4, <2>5, Zenon
<1>13. \A n \in 0 .. N : n \in T
  <2> HIDE DEF T
  <2> QED BY <1>0, <1>11, <1>12, InductionUpTo, Zenon
<1>14. N \in 0 .. N
  BY <1>0
<1> QED BY <1>9, <1>13, <1>14, Zenon DEF N, V

-----------------------------------------------------------------------------
\* A mount other than the root is at q or above it.
HiddenBy(tab, q) == \E i \in 2 .. Len(tab) : Below(tab[i].at, q)

\* With a path, a directory has the path's parents.
Closed(t) == \A q \in t : \A p \in RootPaths : Below(p, q) => p \in t

\* The paths p and above are in the directory t, or in a mount.
Supported(p, tab, t) == \A q \in RootPaths : Below(q, p) => q \in t \/ HiddenBy(tab, q)

\* The parents of mount points are.
Upheld(tab, t) ==
    \A j \in 2 .. Len(tab) : \A q \in RootPaths :
        Below(q, tab[j].at) /\ q # tab[j].at => q \in t \/ HiddenBy(tab, q)

\* Parents come before their children.
Lengthening(ms) == \A i, j \in 1 .. Len(ms) : i < j => Len(ms[i]) < Len(ms[j])

\* What was made for the mount in progress, at p, is what the directory has gained.
Pending(made, p, tab, t, now) ==
    IF made = <<>> THEN t = now
    ELSE /\ Below(made[1], p)
         /\ Lengthening(made)
         /\ IF HiddenBy(tab, Parent(made[1])) THEN t = now
            ELSE t = now \cup Range(made) /\ Range(made) \cap now = {}

\* The entries of the mount table.
Mounts == [at : Seq(Names), what : {"root", "bundle", "proc", "dev", "shm", "empty_file", "cover"}]

\* Every variable holds a value of its kind.
RootTyped ==
    /\ bundle \in Seq([at : RootPaths, twice : BOOLEAN])
    /\ table \in Seq(Mounts) /\ Len(table) >= 1 /\ table[1].at = <<>>
    /\ tree \in Seq(SUBSET RootPaths) /\ Len(tree) = Len(table)
    /\ created \in Seq(RootPaths)
    /\ before \in [first : SUBSET RootPaths, now : SUBSET RootPaths]

\* The inductive invariant of a setup that may fail at any mount: the directory
\* has the parents of what it has and of every mount point, and while a mount is
\* in progress created_paths is what the directory has gained since it began.
RootInv ==
    /\ RootTyped
    /\ before.first \subseteq tree[1] /\ before.first \subseteq before.now
    /\ <<".old_root">> \notin before.first
    /\ fpc[1] \in {"prepare", "mount", "remount"} =>
           fpc[2] \in Nat \ {0} /\ Closed(tree[1]) /\ Upheld(table, tree[1])
    /\ fpc[1] \in {"mount", "remount"} =>
           /\ fpc[2] <= Len(bundle) /\ Closed(before.now)
           /\ Pending(created, Entry.at, table, tree[1], before.now)
    /\ At("mount") => Supported(Entry.at, table, tree[1])
    /\ At("remount") => Len(table) >= 2
    /\ RollbackComplete

-----------------------------------------------------------------------------
\* Below is an order.
LEMMA BelowTrans ==
    ASSUME NEW p \in Seq(Names), NEW q \in Seq(Names), NEW r \in Seq(Names),
           Below(p, q), Below(q, r)
    PROVE  Below(p, r)
<1>1. Len(p) \in Nat /\ Len(q) \in Nat /\ Len(r) \in Nat
  OBVIOUS
<1>2. \A i \in 1 .. Len(p) : i \in 1 .. Len(q)
  BY <1>1 DEF Below
<1>3. Len(p) <= Len(r)
  BY <1>1 DEF Below
<1> QED BY <1>2, <1>3, Zenon DEF Below

\* Of two paths above a third one is above the other.
LEMMA BelowBoth ==
    ASSUME NEW p \in Seq(Names), NEW q \in Seq(Names), NEW r \in Seq(Names),
           Below(p, r), Below(q, r), Len(p) <= Len(q)
    PROVE  Below(p, q)
<1>1. \A i \in 1 .. Len(p) : i \in 1 .. Len(q)
  OBVIOUS
<1> QED BY <1>1, Zenon DEF Below

\* A path above another of the same length is the same.
LEMMA BelowSame ==
    ASSUME NEW p \in Seq(Names), NEW q \in Seq(Names), Below(p, q), Len(p) = Len(q)
    PROVE  p = q
BY DEF Below

\* A prefix of a path is above it.
LEMMA PrefixFacts ==
    ASSUME NEW p \in RootPaths, NEW n \in 1 .. Len(p)
    PROVE  /\ SubSeq(p, 1, n) \in RootPaths
           /\ Len(SubSeq(p, 1, n)) = n
           /\ Below(SubSeq(p, 1, n), p)
<1>1. SubSeq(p, 1, n) \in Seq(Names) /\ Len(SubSeq(p, 1, n)) = n /\ n <= Len(p)
      /\ \A i \in 1 .. n : SubSeq(p, 1, n)[i] = p[i]
  BY DEF RootPaths
<1>2. SubSeq(p, 1, n) # <<>>
  BY <1>1
<1> QED BY <1>1, <1>2, Zenon DEF RootPaths, Below

\* What is above a path is one of its prefixes.
LEMMA BelowIsPrefix ==
    ASSUME NEW p \in RootPaths, NEW q \in RootPaths, Below(q, p)
    PROVE  Len(q) \in 1 .. Len(p) /\ q = SubSeq(p, 1, Len(q))
<1>0. p \in Seq(Names) /\ q \in Seq(Names) /\ q # <<>>
  BY Zenon DEF RootPaths
<1>1. Len(q) \in 1 .. Len(p)
  BY <1>0 DEF Below
<1>2. SubSeq(p, 1, Len(q)) \in Seq(Names) /\ Len(SubSeq(p, 1, Len(q))) = Len(q)
      /\ \A i \in 1 .. Len(q) : SubSeq(p, 1, Len(q))[i] = p[i]
  BY <1>0, <1>1
<1>3. Below(q, SubSeq(p, 1, Len(q)))
  <2>1. Len(q) <= Len(q)
    BY <1>0
  <2> QED BY <1>2, <2>1, Zenon DEF Below
<1> QED BY <1>0, <1>1, <1>2, <1>3, BelowSame, Zenon

\* The parent of a path is above it, and all above it but itself is above the parent.
LEMMA ParentFacts ==
    ASSUME NEW p \in RootPaths
    PROVE  /\ Parent(p) \in Seq(Names) /\ Len(Parent(p)) = Len(p) - 1
           /\ Below(Parent(p), p)
           /\ \A q \in Seq(Names) : Below(q, p) /\ q # p => Below(q, Parent(p))
<1>0. p \in Seq(Names) /\ p # <<>> /\ Len(p) \in Nat \ {0}
  BY DEF RootPaths
<1>1. Parent(p) \in Seq(Names) /\ Len(Parent(p)) = Len(p) - 1
      /\ \A i \in 1 .. Len(p) - 1 : Parent(p)[i] = p[i]
  <2> DEFINE n == Len(p) - 1
  <2>1. n \in Nat /\ n <= Len(p) /\ Len(p) \in Nat
    BY <1>0
  <2> HIDE DEF n
  <2>2. SubSeq(p, 1, n) \in Seq(Names) /\ Len(SubSeq(p, 1, n)) = n
        /\ \A i \in 1 .. n : SubSeq(p, 1, n)[i] = p[i]
    BY <1>0, <2>1
  <2> QED BY <2>2, Zenon DEF Parent, n
<1>2. Below(Parent(p), p)
  <2>1. Len(p) - 1 <= Len(p)
    BY <1>0
  <2> QED BY <1>1, <2>1, Zenon DEF Below
<1>3. ASSUME NEW q \in Seq(Names), Below(q, p), q # p PROVE Below(q, Parent(p))
  <2>1. Len(q) # Len(p)
    BY <1>0, <1>3, BelowSame, Zenon
  <2>2. Len(q) <= Len(Parent(p))
    BY <1>0, <1>1, <1>3, <2>1 DEF Below
  <2> QED BY <1>0, <1>1, <1>2, <1>3, <2>2, BelowBoth, Zenon
<1> QED BY <1>1, <1>2, <1>3, Zenon

\* A path is a sequence of names.
LEMMA RootPathsAreSequences == RootPaths \subseteq Seq(Names)
BY Zenon DEF RootPaths

\* The mount that serves a path is above it, and no later mount is.
LEMMA ServingFacts ==
    ASSUME RootTyped, NEW q \in Seq(Names)
    PROVE  /\ Serving(q) \in 1 .. Len(table)
           /\ Below(table[Serving(q)].at, q)
           /\ Serving(q) = 1 <=> ~HiddenBy(table, q)
<1> DEFINE S == {i \in 1 .. Len(table) : Below(table[i].at, q)}
<1>1. Len(table) \in Nat /\ 1 \in 1 .. Len(table) /\ table[1].at = <<>>
  BY DEF RootTyped
<1>2. Below(<<>>, q)
  BY DEF Below
<1>3. S \in SUBSET (1 .. Len(table)) /\ 1 \in S
  BY <1>1, <1>2, Zenon
<1>4. Serving(q) = Max(S)
  BY Zenon DEF Serving
<1> HIDE DEF S
<1>5. Serving(q) \in S /\ \A k \in S : Serving(q) >= k
  BY <1>1, <1>3, <1>4, GreatestExists, Zenon
<1> USE DEF S
<1>6. Serving(q) \in 1 .. Len(table) /\ Below(table[Serving(q)].at, q)
  BY <1>5, Zenon
<1>7. ASSUME Serving(q) # 1 PROVE HiddenBy(table, q)
  <2>1. Serving(q) \in 2 .. Len(table)
    BY <1>1, <1>6, <1>7
  <2> QED BY <1>6, <2>1, Zenon DEF HiddenBy
<1>8. ASSUME HiddenBy(table, q) PROVE Serving(q) # 1
  <2>1. PICK i \in 2 .. Len(table) : Below(table[i].at, q)
    BY <1>8, Zenon DEF HiddenBy
  <2>2. i \in 1 .. Len(table) /\ ~(1 >= i)
    BY <1>1
  <2> QED BY <1>5, <2>1, <2>2, Zenon
<1> QED BY <1>6, <1>7, <1>8, Zenon

\* What is below a hidden path is hidden.
LEMMA HiddenBelow ==
    ASSUME RootTyped, NEW p \in Seq(Names), NEW q \in Seq(Names), Below(p, q),
           HiddenBy(table, p)
    PROVE  HiddenBy(table, q)
<1>1. PICK i \in 2 .. Len(table) : Below(table[i].at, p)
  BY Zenon DEF HiddenBy
<1>2. table[i] \in Mounts
  BY DEF RootTyped
<1>3. table[i].at \in Seq(Names)
  BY <1>2, Zenon DEF Mounts
<1>4. Below(table[i].at, q)
  BY <1>1, <1>3, BelowTrans, Zenon
<1> QED BY <1>4, Zenon DEF HiddenBy

\* A path that no mount hides exists if it is in the directory.
LEMMA ExistsFacts ==
    ASSUME RootTyped, NEW q \in RootPaths
    PROVE  /\ ~HiddenBy(table, q) => (Exists(q) <=> q \in tree[1])
           /\ HiddenBy(table, q) /\ ~Exists(q) => HiddenBy(table, Parent(q))
<1>1. q \in Seq(Names) /\ q # <<>>
  BY Zenon DEF RootPaths
<1>2. table[1].at = <<>>
  BY Zenon DEF RootTyped
<1>3. ASSUME ~HiddenBy(table, q) PROVE Exists(q) <=> q \in tree[1]
  <2>1. Serving(q) = 1
    BY <1>1, <1>3, ServingFacts, Zenon
  <2> QED BY <1>1, <1>2, <2>1, Zenon DEF Exists
<1>4. ASSUME HiddenBy(table, q), ~Exists(q) PROVE HiddenBy(table, Parent(q))
  <2> DEFINE k == Serving(q)
  <2>1. k \in 1 .. Len(table) /\ k # 1 /\ Below(table[k].at, q) /\ table[k].at # q
    BY <1>1, <1>4, ServingFacts, Zenon DEF Exists
  <2>2. k \in 2 .. Len(table) /\ table[k].at \in Seq(Names)
    <3>1. Len(table) \in Nat /\ table[k] \in Mounts
      <4> HIDE DEF k
      <4> QED BY <2>1 DEF RootTyped
    <3>2. table[k].at \in Seq(Names)
      BY <3>1, Zenon DEF Mounts
    <3>3. k \in 2 .. Len(table)
      <4> HIDE DEF k
      <4> QED BY <2>1, <3>1
    <3> QED BY <3>2, <3>3, Zenon
  <2>3. Below(table[k].at, Parent(q))
    BY <2>1, <2>2, ParentFacts, Zenon
  <2> QED BY <2>2, <2>3, Zenon DEF HiddenBy
<1> QED BY <1>3, <1>4, Zenon

-----------------------------------------------------------------------------
\* ms are the missing prefixes of p.
AllMissing(ms, p) ==
    /\ ms \in Seq(RootPaths) /\ Lengthening(ms)
    /\ \A i \in 1 .. Len(ms) : Below(ms[i], p) /\ ~Exists(ms[i])
    /\ \A q \in RootPaths : Below(q, p) /\ ~Exists(q) => \E i \in 1 .. Len(ms) : ms[i] = q

\* prospective_created_paths: the missing prefixes, parents first.
LEMMA MissingFacts ==
    ASSUME NEW p \in RootPaths
    PROVE  AllMissing(Missing(p), p)
<1> DEFINE ps == PathPrefixes(p)
           N == Len(p)
           S == {q \in Range(ps) : ~Exists(q)}
           ms == Picked(ps, S)
<1>1. N \in Nat
  BY DEF RootPaths
<1>2. \A n \in 1 .. N : /\ ps[n] = SubSeq(p, 1, n) /\ ps[n] \in RootPaths
                        /\ Len(ps[n]) = n /\ Below(ps[n], p)
  BY PrefixFacts, Zenon DEF PathPrefixes
<1>3. ps = [n \in 1 .. N |-> ps[n]]
  BY Zenon DEF PathPrefixes
<1> HIDE DEF ps, N
<1>4. ps \in Seq(RootPaths) /\ Len(ps) = N /\ DOMAIN ps = 1 .. N
  BY <1>1, <1>2, <1>3
<1>5. \A n \in 1 .. N : ps[n] \in S <=> ~Exists(ps[n])
  BY <1>4, Zenon DEF Range
<1> HIDE DEF S
<1>6. ms \in Seq(RootPaths) /\ Selects(ms, ps, N, S)
  BY <1>4, PickedFacts, Zenon
<1>7. Missing(p) = ms
  BY Zenon DEF Missing, ps, S
<1> HIDE DEF ms
<1>8. PICK at \in [1 .. Len(ms) -> 1 .. N] :
        /\ \A i \in 1 .. Len(ms) : ms[i] = ps[at[i]] /\ ps[at[i]] \in S
        /\ \A i, j \in 1 .. Len(ms) : i < j => at[i] < at[j]
        /\ \A k \in 1 .. N : ps[k] \in S => \E i \in 1 .. Len(ms) : at[i] = k
  BY <1>6, Zenon DEF Selects
<1>9. \A i \in 1 .. Len(ms) : at[i] \in 1 .. N
  BY <1>8, Zenon
<1>10. Lengthening(ms)
  <2>1. \A i \in 1 .. Len(ms) : Len(ms[i]) = at[i]
    BY <1>2, <1>8, <1>9, Zenon
  <2>2. ASSUME NEW i \in 1 .. Len(ms), NEW j \in 1 .. Len(ms), i < j
        PROVE  Len(ms[i]) < Len(ms[j])
    BY <1>8, <2>1, <2>2, Zenon
  <2> QED BY <2>2, Zenon DEF Lengthening
<1>11. \A i \in 1 .. Len(ms) : Below(ms[i], p) /\ ~Exists(ms[i])
  BY <1>2, <1>5, <1>8, <1>9, Zenon
<1>12. ASSUME NEW q \in RootPaths, Below(q, p), ~Exists(q)
       PROVE  \E i \in 1 .. Len(ms) : ms[i] = q
  <2>1. Len(q) \in 1 .. N /\ q = ps[Len(q)]
    BY <1>2, <1>12, BelowIsPrefix, Zenon DEF N
  <2>2. ps[Len(q)] \in S
    BY <1>5, <1>12, <2>1, Zenon
  <2>3. PICK i \in 1 .. Len(ms) : at[i] = Len(q)
    BY <1>8, <2>1, <2>2, Zenon
  <2>4. ms[i] = q
    BY <1>8, <2>1, <2>3, Zenon
  <2> QED BY <2>4, Zenon
<1> QED BY <1>6, <1>7, <1>10, <1>11, <1>12, Zenon DEF AllMissing

\* What is created in a directory is added to it.
LEMMA CreateFacts ==
    ASSUME RootTyped, NEW ps \in Seq(RootPaths)
    PROVE  /\ Create(ps) \in Seq(SUBSET RootPaths) /\ Len(Create(ps)) = Len(tree)
           /\ tree[1] \subseteq Create(ps)[1]
           /\ ps # <<>> /\ HiddenBy(table, ps[1]) => Create(ps)[1] = tree[1]
           /\ ps # <<>> /\ ~HiddenBy(table, ps[1]) => Create(ps)[1] = tree[1] \cup Range(ps)
<1>1. CASE ps = <<>>
  <2>1. Create(ps) = tree
    BY <1>1, Zenon DEF Create
  <2> QED BY <1>1, <2>1, Zenon DEF RootTyped
<1>2. CASE ps # <<>>
  <2> DEFINE k == Serving(ps[1])
             R == Range(ps)
  <2>1. ps[1] \in RootPaths
    BY <1>2
  <2>2. ps[1] \in Seq(Names)
    BY <2>1, RootPathsAreSequences, Zenon
  <2>3. k \in 1 .. Len(table) /\ (k = 1 <=> ~HiddenBy(table, ps[1]))
    BY <2>2, ServingFacts, Zenon
  <2>4. R \in SUBSET RootPaths
    BY DEF Range
  <2>5. Create(ps) = [tree EXCEPT ![k] = @ \cup R]
    BY <1>2, Zenon DEF Create
  <2> HIDE DEF k, R
  <2>6. tree \in Seq(SUBSET RootPaths) /\ k \in 1 .. Len(tree) /\ 1 \in 1 .. Len(tree)
    BY <2>3 DEF RootTyped
  <2>7. tree[k] \cup R \in SUBSET RootPaths
    BY <2>4, <2>6
  <2>8. Create(ps) \in Seq(SUBSET RootPaths) /\ Len(Create(ps)) = Len(tree)
        /\ Create(ps)[1] = IF k = 1 THEN tree[1] \cup R ELSE tree[1]
    <3> DEFINE v == tree[k] \cup R
               c == [tree EXCEPT ![k] = v]
               U == SUBSET RootPaths
    <3>1. v \in U /\ Create(ps) = c /\ tree \in Seq(U) /\ (k = 1 => v = tree[1] \cup R)
      BY <2>5, <2>6, <2>7, Zenon
    <3> HIDE DEF v, U
    <3>2. c \in Seq(U) /\ Len(c) = Len(tree) /\ c[1] = IF k = 1 THEN v ELSE tree[1]
      BY <2>6, <3>1
    <3> QED BY <3>1, <3>2, Zenon DEF U
  <2> QED BY <1>2, <2>3, <2>8, Zenon DEF R
<1> QED BY <1>1, <1>2, Zenon

\* Without(v, p): what remove_dir of p leaves of the directory v.
Without(v, p) == IF Empty(p, v) THEN v \ {p} ELSE v

\* left[n] is what is left of t after the removal of the first n of ps.
Removes(left, ps, t) ==
    /\ left \in [0 .. Len(ps) -> SUBSET RootPaths] /\ left[0] = t
    /\ \A n \in 1 .. Len(ps) : left[n] = Without(left[n - 1], ps[n])
    /\ RemoveAll(ps, t) = left[Len(ps)]

\* RemoveAll is the removal of one path after the other.
LEMMA RemovalSteps ==
    ASSUME NEW ps, Len(ps) \in Nat, NEW t0 \in SUBSET RootPaths
    PROVE  \E left : Removes(left, ps, t0)
<1> DEFINE N == Len(ps)
           V == SUBSET RootPaths
           Step(v, n) == Without(v, ps[n])
           G == [x \in V \X (1 .. N) |-> Step(x[1], x[2])]
           Is(t) == t = [i \in 0 .. N |-> IF i = 0 THEN t0 ELSE
                             IF Empty(ps[i], t[i - 1]) THEN t[i - 1] \ {ps[i]} ELSE t[i - 1]]
           left == CHOOSE t : Is(t)
<1>1. \A v \in V, n \in 1 .. N : Step(v, n) \in V
  BY Zenon DEF Without
<1>2. RemoveAll(ps, t0) = left[N]
  BY Zenon DEF RemoveAll
<1> HIDE DEF N, V
<1>0. N \in Nat /\ t0 \in V
  BY Zenon DEF N, V
<1>3. \E g : Iterates(g, V, t0, N, G)
  <2>1. G \in [V \X (1 .. N) -> V]
    <3> HIDE DEF Step
    <3> QED BY <1>1
  <2> HIDE DEF G
  <2> QED BY <1>0, <2>1, IterationExists, Zenon
<1>4. PICK g \in [0 .. N -> V] : g[0] = t0 /\ \A i \in 1 .. N : g[i] = G[<<g[i - 1], i>>]
  BY <1>3, Zenon DEF Iterates
<1>5. \A i \in 1 .. N : i \in 0 .. N /\ i - 1 \in 0 .. N /\ i # 0
  BY <1>0
<1>6. \A i \in 1 .. N : g[i] = Step(g[i - 1], i)
  <2>1. \A i \in 1 .. N : g[i - 1] \in V
    BY <1>5, Zenon
  <2>2. \A v \in V, i \in 1 .. N : G[<<v, i>>] = Step(v, i)
    <3> HIDE DEF Step
    <3> QED OBVIOUS
  <2> HIDE DEF Step, G
  <2> QED BY <1>4, <2>1, <2>2, Zenon
<1>7. Is(g)
  <2>1. \A i \in 0 .. N : i # 0 => i \in 1 .. N
    BY <1>0
  <2>2. \A i \in 0 .. N : g[i] = IF i = 0 THEN t0 ELSE
                              IF Empty(ps[i], g[i - 1]) THEN g[i - 1] \ {ps[i]} ELSE g[i - 1]
    BY <1>4, <1>6, <2>1, Zenon DEF Without
  <2> QED BY <2>2, Zenon
<1>8. Is(left)
  <2> HIDE DEF Is
  <2> QED BY <1>7, Zenon
<1> HIDE DEF left
<1>9. 0 \in 0 .. N /\ N \in 0 .. N
  BY <1>0
<1>10. left[0] = t0 /\ \A n \in 1 .. N : left[n] = Step(left[n - 1], n)
  BY <1>5, <1>8, <1>9, Zenon DEF Without
<1>11. DOMAIN left = 0 .. N /\ left = [i \in 0 .. N |-> left[i]]
  BY <1>8, Zenon
<1> HIDE DEF Is, G
<1> DEFINE T == {n \in 0 .. N : left[n] \in V}
<1>12. 0 \in T
  BY <1>0, <1>9, <1>10, Zenon
<1>13. ASSUME NEW n \in 1 .. N, n - 1 \in T PROVE n \in T
  <2> HIDE DEF Step
  <2> QED BY <1>1, <1>5, <1>10, <1>13, Zenon
<1>14. \A n \in 0 .. N : n \in T
  <2> HIDE DEF T
  <2> QED BY <1>0, <1>12, <1>13, InductionUpTo, Zenon
<1>15. left \in [0 .. N -> V]
  BY <1>11, <1>14, Zenon
<1> QED BY <1>2, <1>10, <1>15, Zenon DEF Removes, N, V

\* Removing created paths adds none.
LEMMA RemoveTyped ==
    ASSUME NEW ms \in Seq(RootPaths), NEW t \in SUBSET RootPaths
    PROVE  RemoveAll(RemovalOrder(ms), t) \in SUBSET RootPaths
<1> DEFINE ps == RemovalOrder(ms)
<1>1. Len(ps) \in Nat
  BY DEF RemovalOrder
<1> HIDE DEF ps
<1>2. PICK left : Removes(left, ps, t)
  BY <1>1, RemovalSteps, Zenon
<1>3. Len(ps) \in 0 .. Len(ps)
  BY <1>1
<1> QED BY <1>2, <1>3, Zenon DEF Removes, ps

\* Removing what was created, children first, leaves what was there before.
LEMMA RemoveFacts ==
    ASSUME NEW ms \in Seq(RootPaths), Lengthening(ms),
           NEW now \in SUBSET RootPaths, Closed(now), Range(ms) \cap now = {}
    PROVE  RemoveAll(RemovalOrder(ms), now \cup Range(ms)) = now
<1> DEFINE N == Len(ms)
           ps == RemovalOrder(ms)
           t0 == now \cup Range(ms)
<1>0. N \in Nat /\ \A k \in 1 .. N : ms[k] \in RootPaths /\ ms[k] \in Range(ms)
  BY DEF Range
<1>a. Len(ps) = N /\ \A i \in 1 .. N : ps[i] = ms[N + 1 - i]
  BY <1>0 DEF RemovalOrder
<1>b. t0 \in SUBSET RootPaths /\ t0 = now \cup {ms[k] : k \in 1 .. N}
  BY <1>0 DEF Range
<1> HIDE DEF N, ps, t0
<1>1. PICK left : Removes(left, ps, t0)
  BY <1>0, <1>a, <1>b, RemovalSteps, Zenon
<1>9. RemoveAll(ps, t0) = left[N]
  BY <1>1, <1>a, Zenon DEF Removes
<1>10. left[0] = t0 /\ \A n \in 1 .. N : left[n] = Without(left[n - 1], ps[n])
  BY <1>1, <1>a, Zenon DEF Removes
<1> DEFINE Kept(n) == now \cup {ms[k] : k \in 1 .. n}
           T == {n \in 0 .. N : left[n] = Kept(N - n)}
<1>11. 0 \in T
  <2>1. N - 0 = N /\ 0 \in 0 .. N
    BY <1>0
  <2> QED BY <1>b, <1>10, <2>1, Zenon
<1>12. ASSUME NEW n \in 1 .. N, n - 1 \in T PROVE n \in T
  <2> DEFINE m == N + 1 - n
  <2>1. m \in 1 .. N /\ N - (n - 1) = m /\ N - n = m - 1 /\ n \in 0 .. N
    BY <1>0
  <2> HIDE DEF m
  <2>2. left[n - 1] = Kept(m) /\ ps[n] = ms[m]
    BY <1>12, <1>a, <2>1, Zenon DEF m
  <2>3. \A k \in 1 .. m : k \in 1 .. N /\ (k = m \/ (k < m /\ k \in 1 .. m - 1))
    BY <1>0, <2>1
  <2>4. \A k \in 1 .. m - 1 : k \in 1 .. N /\ k < m /\ k \in 1 .. m
    BY <1>0, <2>1
  <2>5. \A k \in 1 .. N : Len(ms[k]) \in Nat
    BY <1>0 DEF RootPaths
  <2>6. \A k \in 1 .. N : k < m => ~(Len(ms[m]) <= Len(ms[k]))
    BY <2>1, <2>5 DEF Lengthening, N
  <2>7. ms[m] \notin now
    BY <1>0, <2>1, Zenon
  <2>8. Empty(ms[m], Kept(m))
    <3>1. SUFFICES ASSUME NEW q \in Kept(m), q # ms[m], Below(ms[m], q) PROVE FALSE
      BY Zenon DEF Empty
    <3>2. CASE q \in now
      BY <1>0, <2>1, <2>7, <3>1, <3>2, Zenon DEF Closed
    <3>3. CASE q \in {ms[k] : k \in 1 .. m}
      BY <2>3, <2>6, <3>1, <3>3, Zenon DEF Below
    <3> QED BY <3>1, <3>2, <3>3, Zenon
  <2>9. left[n] = Kept(m) \ {ms[m]}
    <3> HIDE DEF Kept
    <3> QED BY <1>10, <2>2, <2>8, Zenon DEF Without
  <2>10. \A k \in 1 .. m - 1 : ms[k] # ms[m]
    <3>1. Len(ms[m]) <= Len(ms[m])
      BY <2>1, <2>5
    <3> QED BY <2>4, <2>6, <3>1, Zenon
  <2>11. Kept(m) \ {ms[m]} = Kept(m - 1)
    BY <2>3, <2>4, <2>7, <2>10, Zenon
  <2> HIDE DEF Kept
  <2> QED BY <2>1, <2>9, <2>11, Zenon
<1>13. \A n \in 0 .. N : n \in T
  <2> HIDE DEF T
  <2> QED BY <1>0, <1>11, <1>12, InductionUpTo, Zenon
<1>14. N \in 0 .. N /\ N - N = 0 /\ 1 .. 0 = {}
  BY <1>0
<1>15. left[N] = Kept(0)
  <2> HIDE DEF Kept
  <2> QED BY <1>13, <1>14, Zenon
<1>16. Kept(0) = now
  BY <1>14, Zenon
<1> QED BY <1>9, <1>15, <1>16, Zenon DEF ps, t0

\* What preparing a mount point does to the bundle's directory.
LEMMA PreparedFacts ==
    ASSUME RootTyped, Closed(tree[1]), Upheld(table, tree[1]), NEW p \in RootPaths
    PROVE  /\ Closed(Create(Missing(p))[1])
           /\ Supported(p, table, Create(Missing(p))[1])
           /\ Pending(Missing(p), p, table, Create(Missing(p))[1], tree[1])
<1> DEFINE ms == Missing(p)
           t == tree[1]
           u == Create(ms)[1]
<1> HIDE DEF ms, u
<1>1. AllMissing(ms, p)
  BY MissingFacts, Zenon DEF ms
<1>2. ms \in Seq(RootPaths) /\ p \in Seq(Names)
  BY <1>1, RootPathsAreSequences, Zenon DEF AllMissing
<1>3. \A q \in RootPaths : Below(q, p) /\ Exists(q) => q \in t \/ HiddenBy(table, q)
  BY ExistsFacts, Zenon
<1>4. t \subseteq u
  BY <1>2, CreateFacts, Zenon DEF u
<1>5. CASE ms = <<>>
  <2>1. u = t
    BY <1>5, Zenon DEF u, Create
  <2>2. \A q \in RootPaths : Below(q, p) => Exists(q)
    <3>1. 1 .. Len(ms) = {}
      BY <1>5
    <3> QED BY <1>1, <3>1, Zenon DEF AllMissing
  <2>3. Supported(p, table, u)
    BY <1>3, <2>1, <2>2, Zenon DEF Supported
  <2>4. Pending(ms, p, table, u, t)
    BY <1>5, <2>1, Zenon DEF Pending
  <2> QED BY <2>1, <2>3, <2>4, Zenon DEF ms, u
<1>6. CASE ms # <<>>
  <2>1. 1 \in 1 .. Len(ms) /\ \A i \in 1 .. Len(ms) : ms[i] \in RootPaths /\ Len(ms[i]) \in Nat
    BY <1>2, <1>6 DEF RootPaths
  <2>2. \A i \in 1 .. Len(ms) : /\ Below(ms[i], p) /\ ~Exists(ms[i])
                                /\ ms[i] \in Seq(Names)
    BY <1>1, <2>1, RootPathsAreSequences, Zenon DEF AllMissing
  <2>3. \A i \in 1 .. Len(ms) : Len(ms[1]) <= Len(ms[i])
    <3>1. Lengthening(ms)
      BY <1>1, Zenon DEF AllMissing
    <3> QED BY <1>2, <2>1, <3>1 DEF Lengthening
  <2>4. \A i \in 1 .. Len(ms) : Below(ms[1], ms[i])
    BY <1>2, <2>1, <2>2, <2>3, BelowBoth, Zenon
  <2>5. HiddenBy(table, ms[1]) <=> HiddenBy(table, Parent(ms[1]))
    <3>1. HiddenBy(table, ms[1]) => HiddenBy(table, Parent(ms[1]))
      BY <2>1, <2>2, ExistsFacts, Zenon
    <3>2. HiddenBy(table, Parent(ms[1])) => HiddenBy(table, ms[1])
      BY <2>1, <2>2, ParentFacts, HiddenBelow, Zenon
    <3> QED BY <3>1, <3>2, Zenon
  <2>6. Below(ms[1], p) /\ Lengthening(ms)
    BY <1>1, <2>1, <2>2, Zenon DEF AllMissing
  <2>7. CASE HiddenBy(table, ms[1])
    <3>1. u = t
      BY <1>2, <1>6, <2>7, CreateFacts, Zenon DEF u
    <3>2. \A i \in 1 .. Len(ms) : HiddenBy(table, ms[i])
      BY <2>1, <2>2, <2>4, <2>7, HiddenBelow, Zenon
    <3>3. Supported(p, table, u)
      BY <1>1, <1>3, <3>1, <3>2, Zenon DEF Supported, AllMissing
    <3>4. Pending(ms, p, table, u, t)
      BY <1>6, <2>5, <2>6, <2>7, <3>1, Zenon DEF Pending
    <3> QED BY <3>1, <3>3, <3>4, Zenon DEF ms, u
  <2>8. CASE ~HiddenBy(table, ms[1])
    <3>1. u = t \cup Range(ms)
      BY <1>2, <1>6, <2>8, CreateFacts, Zenon DEF u
    <3>2. Range(ms) = {ms[i] : i \in 1 .. Len(ms)}
      BY <1>2 DEF Range
    <3>3. \A q \in RootPaths : Below(q, p) => ~HiddenBy(table, q)
      <4>1. SUFFICES ASSUME NEW q \in RootPaths, Below(q, p),
                            NEW j \in 2 .. Len(table), Below(table[j].at, q)
                     PROVE  FALSE
        BY Zenon DEF HiddenBy
      <4> DEFINE a == table[j].at
      <4>2. a \in Seq(Names) /\ Len(a) \in Nat /\ q \in Seq(Names)
        <5>1. table[j] \in Mounts
          BY DEF RootTyped
        <5>2. a \in Seq(Names)
          BY <5>1, Zenon DEF Mounts
        <5>3. Len(a) \in Nat
          <6> HIDE DEF a
          <6> QED BY <5>2
        <5> QED BY <5>2, <5>3, RootPathsAreSequences, Zenon
      <4> HIDE DEF a
      <4>3. Below(a, p)
        BY <1>2, <4>1, <4>2, BelowTrans, Zenon DEF a
      <4>4. ~Below(a, ms[1])
        BY <2>8, Zenon DEF HiddenBy, a
      <4>5. ~(Len(a) <= Len(ms[1]))
        BY <1>2, <2>1, <2>2, <4>2, <4>3, <4>4, BelowBoth, Zenon
      <4>6. Len(ms[1]) <= Len(a)
        BY <2>1, <4>2, <4>5
      <4>7. Below(ms[1], a)
        BY <1>2, <2>1, <2>2, <4>2, <4>3, <4>6, BelowBoth, Zenon
      <4>8. ms[1] # a
        BY <4>5, <4>6, Zenon
      <4>9. ms[1] \in t
        BY <2>1, <2>8, <4>7, <4>8, Zenon DEF Upheld, a
      <4> QED BY <2>1, <2>2, <2>8, <4>9, ExistsFacts, Zenon
    <3>4. Supported(p, table, u)
      BY <1>1, <1>3, <3>1, <3>2, Zenon DEF Supported, AllMissing
    <3>5. Range(ms) \cap t = {}
      BY <2>1, <2>2, <3>2, <3>3, ExistsFacts, Zenon
    <3>6. Pending(ms, p, table, u, t)
      BY <1>6, <2>5, <2>6, <2>8, <3>1, <3>5, Zenon DEF Pending
    <3>7. Closed(u)
      <4>1. SUFFICES ASSUME NEW q \in u, NEW r \in RootPaths, Below(r, q) PROVE r \in u
        BY Zenon DEF Closed
      <4>2. CASE q \in t
        BY <1>4, <4>1, <4>2, Zenon DEF Closed
      <4>3. CASE q \in Range(ms)
        <5>1. q \in Seq(Names) /\ Below(q, p)
          BY <2>2, <3>2, <4>3, Zenon
        <5>2. Below(r, p)
          BY <1>2, <4>1, <5>1, BelowTrans, RootPathsAreSequences, Zenon
        <5> QED BY <3>3, <3>4, <5>2, Zenon DEF Supported
      <4> QED BY <3>1, <4>1, <4>2, <4>3, Zenon
    <3> QED BY <3>4, <3>6, <3>7, Zenon DEF ms, u
  <2> QED BY <2>7, <2>8, Zenon
<1> QED BY <1>5, <1>6, Zenon

-----------------------------------------------------------------------------
\* RootInv holds when setup_rootfs begins.
LEMMA RootInitInv == RootInit => RootInv
<1> SUFFICES ASSUME RootInit PROVE RootInv
  BY Zenon
<1>1. PICK t \in Roots : tree = <<t>>
  BY Zenon DEF RootInit
<1>2. t \in SUBSET RootPaths /\ <<".old_root">> \notin t
      /\ \A q \in t : \A n \in 1 .. Len(q) : SubSeq(q, 1, n) \in t
  BY RootfsAssumption, Zenon
<1>3. Closed(t)
  BY <1>2, BelowIsPrefix, Zenon DEF Closed
<1>4. /\ table = <<[at |-> <<>>, what |-> "root"]>> /\ created = <<>>
      /\ before = [first |-> tree[1], now |-> tree[1]] /\ fpc = <<"prepare", 1>>
  BY Zenon DEF RootInit, RootState
<1>5. tree[1] = t /\ Len(tree) = 1 /\ Len(table) = 1 /\ table[1].at = <<>> /\ 2 .. 1 = {}
      /\ fpc[1] = "prepare" /\ fpc[2] = 1
  BY <1>1, <1>4
<1>6. bundle \in Seq([at : RootPaths, twice : BOOLEAN])
  BY RootfsAssumption, Zenon DEF RootInit
<1>7. before.first = t /\ before.now = t /\ before \in [first : SUBSET RootPaths, now : SUBSET RootPaths]
  BY <1>2, <1>4, <1>5
<1>8. tree \in Seq(SUBSET RootPaths) /\ table \in Seq(Mounts) /\ created \in Seq(RootPaths)
  <2>1. [at |-> <<>>, what |-> "root"] \in Mounts
    BY DEF Mounts
  <2>2. tree \in Seq(SUBSET RootPaths)
    BY <1>1, <1>2
  <2>3. table \in Seq(Mounts)
    BY <1>4, <2>1
  <2>4. created \in Seq(RootPaths)
    BY <1>4
  <2> QED BY <2>2, <2>3, <2>4, Zenon
<1>9. RootTyped
  <2>1. Len(table) >= 1
    BY <1>5
  <2> QED BY <1>5, <1>6, <1>7, <1>8, <2>1, Zenon DEF RootTyped
<1>10. Upheld(table, tree[1])
  <2>1. 2 .. Len(table) = {}
    BY <1>5, Zenon
  <2> QED BY <2>1, Zenon DEF Upheld
<1>11. fpc[2] \in Nat \ {0} /\ ~At("mount") /\ ~At("remount") /\ ~At("rolled_back")
       /\ fpc[1] \notin {"mount", "remount"}
  BY <1>5 DEF At
<1> QED BY <1>2, <1>3, <1>5, <1>7, <1>9, <1>10, <1>11, Zenon DEF RootInv, RollbackComplete

\* The steps after the mounts of the bundle.
LEMMA LaterStep ==
    ASSUME RootInv, RootTyped', UNCHANGED before, before.first \subseteq tree'[1],
           fpc'[1] \notin {"prepare", "mount", "remount", "rolled_back"}
    PROVE  RootInv'
<1>1. before'.first \subseteq tree'[1] /\ before'.first \subseteq before'.now
      /\ <<".old_root">> \notin before'.first
  BY Zenon DEF RootInv
<1>2. /\ fpc'[1] \notin {"prepare", "mount", "remount"} /\ fpc'[1] \notin {"mount", "remount"}
      /\ fpc'[1] # "mount" /\ fpc'[1] # "remount" /\ fpc'[1] # "rolled_back"
  BY Zenon
<1> QED BY <1>1, <1>2, Zenon DEF RootInv, At, RollbackComplete

\* The mount in progress is one of the bundle's.
LEMMA EntryFacts ==
    ASSUME RootTyped, fpc[2] \in Nat \ {0}, fpc[2] <= Len(bundle)
    PROVE  Entry.at \in RootPaths /\ Entry.at \in Seq(Names)
<1> DEFINE k == fpc[2]
           E == [at : RootPaths, twice : BOOLEAN]
<1>1. Entry \in E
  <2>1. k \in Nat \ {0} /\ k <= Len(bundle) /\ Entry = bundle[k] /\ bundle \in Seq(E)
    BY Zenon DEF Entry, RootTyped
  <2> HIDE DEF k, E
  <2>2. bundle[k] \in E
    BY <2>1
  <2> QED BY <2>1, <2>2, Zenon
<1>2. Entry.at \in RootPaths
  BY <1>1, Zenon
<1> QED BY <1>2, RootPathsAreSequences, Zenon

\* prepare_mount_destination creates what it noted in created_paths.
LEMMA PrepareMountInv == RootInv /\ PrepareMount => RootInv'
<1> SUFFICES ASSUME RootInv, PrepareMount PROVE RootInv'
  BY Zenon
<1> DEFINE p == Entry.at
           ms == Missing(p)
           t == tree[1]
<1>1. RootTyped /\ fpc[2] \in Nat \ {0} /\ fpc[2] <= Len(bundle) /\ Closed(t) /\ Upheld(table, t)
  BY Zenon DEF RootInv, PrepareMount, At
<1>2. p \in RootPaths
  BY <1>1, EntryFacts, Zenon
<1>3. /\ UNCHANGED <<bundle, mknods, table>> /\ created' = ms
      /\ before' = [before EXCEPT !.now = t]
  BY Zenon DEF PrepareMount
<1>4. ms \in Seq(RootPaths)
  BY <1>2, MissingFacts, Zenon DEF AllMissing
<1> HIDE DEF ms
<1>5. t \in SUBSET RootPaths /\ before.first \subseteq t
  <2>1. t \in SUBSET RootPaths
    BY <1>1 DEF RootTyped
  <2> QED BY <2>1, Zenon DEF RootInv
<1>6. before' \in [first : SUBSET RootPaths, now : SUBSET RootPaths]
      /\ before'.first = before.first /\ before'.now = t
  BY <1>1, <1>3, <1>5 DEF RootTyped
<1>7. ASSUME NEW qs \in Seq(RootPaths), tree' = Create(qs)
      PROVE  RootTyped' /\ before.first \subseteq tree'[1]
  <2>1. tree' \in Seq(SUBSET RootPaths) /\ Len(tree') = Len(tree) /\ t \subseteq tree'[1]
    BY <1>1, <1>7, CreateFacts, Zenon
  <2> QED BY <1>1, <1>3, <1>4, <1>5, <1>6, <2>1, Zenon DEF RootTyped
<1>8. CASE tree' = Create(ms) /\ fpc' = <<"mount", fpc[2]>>
  <2>1. fpc'[1] = "mount" /\ fpc'[2] = fpc[2]
    BY <1>8
  <2>2. RootTyped' /\ before.first \subseteq tree'[1]
    BY <1>4, <1>7, <1>8, Zenon
  <2>3. Entry' = Entry
    BY <1>3, <2>1, Zenon DEF Entry
  <2>4. /\ Closed(tree'[1]) /\ Supported(p, table, tree'[1])
        /\ Pending(ms, p, table, tree'[1], t)
    BY <1>1, <1>2, <1>8, PreparedFacts, Zenon DEF ms
  <2>5. Upheld(table, tree'[1])
    <3>1. t \subseteq tree'[1]
      BY <1>1, <1>4, <1>8, CreateFacts, Zenon
    <3> QED BY <1>1, <3>1, Zenon DEF Upheld
  <2>6. fpc'[1] # "remount" /\ fpc'[1] # "rolled_back"
    BY <2>1
  <2>7. Closed(t) /\ table' = table /\ bundle' = bundle
    BY <1>1, <1>3, Zenon
  <2>8. /\ before'.first \subseteq tree'[1] /\ before'.first \subseteq before'.now
        /\ <<".old_root">> \notin before'.first
    BY <1>5, <1>6, <2>2, Zenon DEF RootInv
  <2>9. Pending(created', Entry'.at, table', tree'[1], before'.now)
    BY <1>3, <1>6, <2>3, <2>4, <2>7, Zenon
  <2>10. Supported(Entry'.at, table', tree'[1]) /\ Upheld(table', tree'[1]) /\ Closed(before'.now)
         /\ fpc'[2] \in Nat \ {0} /\ fpc'[2] <= Len(bundle')
    BY <1>1, <1>6, <2>1, <2>3, <2>4, <2>5, <2>7, Zenon
  <2> QED BY <2>1, <2>2, <2>4, <2>6, <2>8, <2>9, <2>10, Zenon DEF RootInv, At, RollbackComplete
<1>9. CASE /\ \E n \in 0 .. Len(ms) : tree' = Create(SubSeq(ms, 1, n))
           /\ RootfsGoto("failed_to_prepare")
  <2>1. PICK n \in 0 .. Len(ms) : tree' = Create(SubSeq(ms, 1, n))
    BY <1>9, Zenon
  <2>2. SubSeq(ms, 1, n) \in Seq(RootPaths)
    BY <1>4
  <2>3. RootTyped' /\ before.first \subseteq tree'[1]
    BY <1>7, <2>1, <2>2, Zenon
  <2>4. /\ fpc'[1] \notin {"prepare", "mount", "remount"} /\ fpc'[1] \notin {"mount", "remount"}
        /\ fpc'[1] # "mount" /\ fpc'[1] # "remount" /\ fpc'[1] # "rolled_back"
    BY <1>9 DEF RootfsGoto
  <2>5. /\ before'.first \subseteq tree'[1] /\ before'.first \subseteq before'.now
        /\ <<".old_root">> \notin before'.first
    BY <1>5, <1>6, <2>3, Zenon DEF RootInv
  <2> QED BY <2>3, <2>4, <2>5, Zenon DEF RootInv, At, RollbackComplete
<1> QED BY <1>8, <1>9, Zenon DEF PrepareMount, ms

\* What a new mount hides.
LEMMA HiddenWithOneMore ==
    ASSUME RootTyped, NEW m \in Mounts, NEW q
    PROVE  /\ HiddenBy(Append(table, m), q) <=> HiddenBy(table, q) \/ Below(m.at, q)
<1> DEFINE L == Len(table)
           b == Append(table, m)
<1>1. L \in Nat /\ L >= 1 /\ Len(b) = L + 1 /\ b[L + 1] = m /\ \A i \in 1 .. L : b[i] = table[i]
  BY DEF RootTyped
<1> HIDE DEF b, L
<1>2. \A i \in 2 .. L : i \in 2 .. L + 1 /\ b[i] = table[i]
  BY <1>1
<1>3. \A i \in 2 .. L + 1 : i \in 2 .. L \/ i = L + 1
  BY <1>1
<1>4. L + 1 \in 2 .. L + 1
  BY <1>1
<1> QED BY <1>1, <1>2, <1>3, <1>4, Zenon DEF HiddenBy, L, b

\* A mount on a supported path keeps the parents of mount points.
LEMMA UpheldWithOneMore ==
    ASSUME RootTyped, NEW m \in Mounts, NEW t, Upheld(table, t), Supported(m.at, table, t)
    PROVE  Upheld(Append(table, m), t)
<1> DEFINE L == Len(table)
           b == Append(table, m)
<1>1. L \in Nat /\ L >= 1 /\ Len(b) = L + 1 /\ b[L + 1] = m /\ \A i \in 1 .. L : b[i] = table[i]
  BY DEF RootTyped
<1>2. \A q : HiddenBy(table, q) => HiddenBy(b, q)
  BY HiddenWithOneMore, Zenon
<1> HIDE DEF b, L
<1>3. \A i \in 2 .. L + 1 : i = L + 1 \/ (i \in 2 .. L /\ b[i] = table[i])
  BY <1>1
<1>4. ASSUME NEW j \in 2 .. L + 1, NEW q \in RootPaths, Below(q, b[j].at), q # b[j].at
      PROVE  q \in t \/ HiddenBy(b, q)
  <2>1. CASE j = L + 1
    BY <1>1, <1>2, <1>4, <2>1, Zenon DEF Supported
  <2>2. CASE j \in 2 .. L /\ b[j] = table[j]
    BY <1>2, <1>4, <2>2, Zenon DEF Upheld, L
  <2> QED BY <1>3, <2>1, <2>2, Zenon
<1> QED BY <1>1, <1>4, Zenon DEF Upheld, b

\* One more mount.
LEMMA AppendTyped ==
    ASSUME RootTyped, NEW m \in Mounts, NEW t \in Seq(SUBSET RootPaths), Len(t) = Len(tree),
           table' = Append(table, m), tree' = Append(t, {}), UNCHANGED <<bundle, created, before>>
    PROVE  RootTyped' /\ tree'[1] = t[1] /\ Len(table') = Len(table) + 1
<1>1. Len(table) \in Nat /\ Len(table) >= 1 /\ Len(t) = Len(table) /\ table \in Seq(Mounts)
  BY DEF RootTyped
<1>2. table' \in Seq(Mounts) /\ Len(table') = Len(table) + 1 /\ table'[1] = table[1]
      /\ Len(table') >= 1
  BY <1>1
<1>3. tree' \in Seq(SUBSET RootPaths) /\ Len(tree') = Len(table) + 1 /\ tree'[1] = t[1]
  <2> DEFINE U == SUBSET RootPaths
  <2>1. {} \in U
    BY Zenon
  <2> HIDE DEF U
  <2>2. t \in Seq(U)
    BY Zenon DEF U
  <2>3. tree' \in Seq(U) /\ Len(tree') = Len(table) + 1 /\ tree'[1] = t[1]
    BY <1>1, <2>1, <2>2
  <2> QED BY <2>3, Zenon DEF U
<1> QED BY <1>2, <1>3, Zenon DEF RootTyped

\* mount(2) hides the mount point and leaves the directory alone.
LEMMA AttachMountInv == RootInv /\ AttachMount => RootInv'
<1> SUFFICES ASSUME RootInv, AttachMount PROVE RootInv'
  BY Zenon
<1> DEFINE p == Entry.at
           m == [at |-> p, what |-> "bundle"]
<1>1. /\ RootTyped /\ fpc[2] \in Nat \ {0} /\ fpc[2] <= Len(bundle) /\ Closed(tree[1])
      /\ Upheld(table, tree[1]) /\ Closed(before.now)
      /\ Pending(created, p, table, tree[1], before.now) /\ Supported(p, table, tree[1])
  BY Zenon DEF RootInv, AttachMount, At
<1>2. p \in RootPaths /\ p \in Seq(Names)
  BY <1>1, EntryFacts, Zenon
<1>3. /\ UNCHANGED <<bundle, created, before>> /\ table' = Append(table, m)
      /\ tree' = Append(tree, {})
      /\ fpc' = IF Entry.twice THEN <<"remount", fpc[2]>> ELSE <<"prepare", fpc[2] + 1>>
  BY Zenon DEF AttachMount
<1>4. m \in Mounts /\ m.at = p
  <2> HIDE DEF p
  <2> QED BY <1>2 DEF Mounts
<1> HIDE DEF p, m
<1>5. RootTyped' /\ tree'[1] = tree[1] /\ Len(table') = Len(table) + 1
  <2>1. tree \in Seq(SUBSET RootPaths) /\ Len(tree) = Len(tree)
    BY <1>1, Zenon DEF RootTyped
  <2> QED BY <1>1, <1>3, <1>4, <2>1, AppendTyped, Zenon
<1>6. Upheld(table', tree'[1])
  BY <1>1, <1>3, <1>4, <1>5, UpheldWithOneMore, Zenon
<1>7. Pending(created, p, table', tree[1], before.now)
  <2>1. CASE created = <<>>
    BY <1>1, <2>1, Zenon DEF Pending
  <2>2. CASE created # <<>>
    <3> DEFINE c == Parent(created[1])
    <3>1. created[1] \in RootPaths /\ Len(created[1]) \in Nat \ {0}
      BY <1>1, <2>2 DEF RootTyped, RootPaths
    <3>2. Below(created[1], p)
      BY <1>1, <2>2, Zenon DEF Pending
    <3>3. c \in Seq(Names) /\ Len(c) = Len(created[1]) - 1
      BY <3>1, ParentFacts, Zenon
    <3>4. ~Below(p, c)
      <4>1. Len(created[1]) <= Len(p)
        BY <3>2, Zenon DEF Below
      <4>2. ~(Len(p) <= Len(c))
        <5> HIDE DEF c
        <5> QED BY <1>2, <3>1, <3>3, <4>1
      <4> QED BY <4>2, Zenon DEF Below
    <3>5. HiddenBy(table', c) <=> HiddenBy(table, c)
      BY <1>1, <1>3, <1>4, <3>4, HiddenWithOneMore, Zenon
    <3> QED BY <1>1, <2>2, <3>5, Zenon DEF Pending
  <2> QED BY <2>1, <2>2, Zenon
<1>8. /\ before'.first \subseteq tree'[1] /\ before'.first \subseteq before'.now
      /\ <<".old_root">> \notin before'.first /\ Closed(tree'[1]) /\ Closed(before'.now)
  BY <1>1, <1>3, <1>5, Zenon DEF RootInv
<1>9. CASE Entry.twice
  <2>1. fpc'[1] = "remount" /\ fpc'[2] = fpc[2]
    BY <1>3, <1>9
  <2>2. Entry' = Entry
    BY <1>3, <2>1, Zenon DEF Entry
  <2>3. Len(table') >= 2 /\ fpc'[1] # "mount" /\ fpc'[1] # "rolled_back"
    BY <1>1, <1>5, <2>1 DEF RootTyped
  <2>4. Pending(created', Entry'.at, table', tree'[1], before'.now)
    BY <1>3, <1>5, <1>7, <2>2, Zenon DEF p
  <2>5. fpc'[2] \in Nat \ {0} /\ fpc'[2] <= Len(bundle')
    BY <1>1, <1>3, <2>1, Zenon
  <2> QED BY <1>5, <1>6, <1>8, <2>1, <2>3, <2>4, <2>5, Zenon DEF RootInv, At, RollbackComplete
<1>10. CASE ~Entry.twice
  <2>1. fpc'[1] = "prepare" /\ fpc'[2] = fpc[2] + 1
    BY <1>3, <1>10
  <2>2. /\ fpc'[1] \notin {"mount", "remount"} /\ fpc'[2] \in Nat \ {0}
        /\ fpc'[1] # "mount" /\ fpc'[1] # "remount" /\ fpc'[1] # "rolled_back"
    BY <1>1, <2>1
  <2> QED BY <1>5, <1>6, <1>8, <2>1, <2>2, Zenon DEF RootInv, At, RollbackComplete
<1> QED BY <1>9, <1>10, Zenon

\* A remount leaves the directory alone.
LEMMA SecondMountCallInv == RootInv /\ SecondMountCall => RootInv'
<1> SUFFICES ASSUME RootInv, SecondMountCall PROVE RootInv'
  BY Zenon
<1>1. /\ fpc[1] = "remount" /\ fpc' = <<"prepare", fpc[2] + 1>>
      /\ UNCHANGED <<bundle, mknods, tree, table, created, before>>
  BY Zenon DEF SecondMountCall, At
<1>2. fpc[2] \in Nat \ {0} /\ Closed(tree[1]) /\ Upheld(table, tree[1])
  BY <1>1, Zenon DEF RootInv
<1>3. /\ fpc'[1] = "prepare" /\ fpc'[1] \notin {"mount", "remount"} /\ fpc'[2] \in Nat \ {0}
      /\ fpc'[1] # "mount" /\ fpc'[1] # "remount" /\ fpc'[1] # "rolled_back"
  BY <1>1, <1>2
<1>4. RootTyped'
  BY <1>1, Zenon DEF RootInv, RootTyped
<1>5. /\ before'.first \subseteq tree'[1] /\ before'.first \subseteq before'.now
      /\ <<".old_root">> \notin before'.first /\ Closed(tree'[1]) /\ Upheld(table', tree'[1])
  BY <1>1, <1>2, Zenon DEF RootInv
<1> QED BY <1>3, <1>4, <1>5, Zenon DEF RootInv, At, RollbackComplete

\* rollback removes what the mount in progress has created and nothing else.
LEMMA RollbackMountInv == RootInv /\ RollbackMount => RootInv'
<1> SUFFICES ASSUME RootInv, RollbackMount PROVE RootInv'
  BY Zenon
<1> DEFINE n == IF At("remount") THEN Len(table) - 1 ELSE Len(table)
           home == Serving(Parent(created[1]))
           Left(i) == RemoveAll(RemovalOrder(created), tree[i])
           U == SUBSET RootPaths
<1>1. fpc[1] \in {"mount", "remount"} /\ RootTyped
  BY Zenon DEF RollbackMount, At, RootInv
<1>2. Closed(before.now) /\ Pending(created, Entry.at, table, tree[1], before.now)
  BY <1>1, Zenon DEF RootInv
<1>3. /\ table' = SubSeq(table, 1, n)
      /\ tree' = [i \in 1 .. n |-> IF created # <<>> /\ i = home THEN Left(i) ELSE tree[i]]
      /\ fpc' = <<"rolled_back", 0>> /\ UNCHANGED <<bundle, mknods, created, before>>
  BY Zenon DEF RollbackMount, RootfsGoto
<1>4. Len(table) \in Nat /\ Len(table) >= 1 /\ Len(tree) = Len(table) /\ tree \in Seq(U)
  BY <1>1 DEF RootTyped
<1>5. n \in 1 .. Len(table)
  BY <1>4 DEF RootInv
<1> HIDE DEF n, home, Left
<1>6. 1 \in 1 .. n /\ n \in Nat /\ \A i \in 1 .. n : i \in 1 .. Len(tree)
  BY <1>4, <1>5
<1>7. \A i \in 1 .. n : tree[i] \in U
  <2> HIDE DEF U
  <2> QED BY <1>4, <1>6
<1>8. \A i \in 1 .. n : Left(i) \in U
  BY <1>1, <1>7, RemoveTyped, Zenon DEF RootTyped, Left
<1>9. table' \in Seq(Mounts) /\ Len(table') = n /\ table'[1] = table[1]
  BY <1>1, <1>3, <1>4, <1>5 DEF RootTyped
<1>10. tree' \in Seq(U) /\ Len(tree') = n
  <2> DEFINE W(i) == IF created # <<>> /\ i = home THEN Left(i) ELSE tree[i]
  <2>1. \A i \in 1 .. n : W(i) \in U
    BY <1>7, <1>8, Zenon
  <2>2. tree' = [i \in 1 .. n |-> W(i)]
    BY <1>3, Zenon
  <2> HIDE DEF W, U
  <2> QED BY <1>6, <2>1, <2>2
<1>11. RootTyped'
  <2>1. n >= 1
    BY <1>5
  <2> QED BY <1>1, <1>3, <1>9, <1>10, <2>1, Zenon DEF RootTyped, U
<1>12. tree'[1] = before.now
  <2>1. tree'[1] = IF created # <<>> /\ 1 = home THEN Left(1) ELSE tree[1]
    BY <1>3, <1>6, Zenon
  <2>2. CASE created = <<>>
    BY <1>2, <2>1, <2>2, Zenon DEF Pending
  <2>3. CASE created # <<>>
    <3>1. created[1] \in RootPaths
      BY <1>1, <2>3 DEF RootTyped
    <3>2. Parent(created[1]) \in Seq(Names)
      BY <3>1, ParentFacts, Zenon
    <3>3. home = 1 <=> ~HiddenBy(table, Parent(created[1]))
      BY <1>1, <3>2, ServingFacts, Zenon DEF home
    <3>4. CASE home # 1
      BY <1>2, <2>1, <2>3, <3>3, <3>4, Zenon DEF Pending
    <3>5. CASE home = 1
      <4>1. /\ tree[1] = before.now \cup Range(created) /\ Range(created) \cap before.now = {}
            /\ Lengthening(created)
        BY <1>2, <2>3, <3>3, <3>5, Zenon DEF Pending
      <4>2. created \in Seq(RootPaths) /\ before.now \in SUBSET RootPaths
        BY <1>1, Zenon DEF RootTyped
      <4>3. Left(1) = before.now
        BY <1>2, <4>1, <4>2, RemoveFacts, Zenon DEF Left
      <4> QED BY <2>1, <2>3, <3>5, <4>3, Zenon
    <3> QED BY <3>4, <3>5, Zenon
  <2> QED BY <2>2, <2>3, Zenon
<1>13. /\ fpc'[1] = "rolled_back" /\ fpc'[1] \notin {"prepare", "mount", "remount"}
       /\ fpc'[1] \notin {"mount", "remount"} /\ fpc'[1] # "mount" /\ fpc'[1] # "remount"
  BY <1>3
<1>14. /\ before'.first \subseteq tree'[1] /\ before'.first \subseteq before'.now
       /\ <<".old_root">> \notin before'.first /\ tree'[1] = before'.now
  BY <1>3, <1>12, Zenon DEF RootInv
<1> QED BY <1>11, <1>13, <1>14, Zenon DEF RootInv, At, RollbackComplete

\* Creating paths keeps the types.
LEMMA CreatedTyped ==
    ASSUME RootTyped, tree' \in Seq(SUBSET RootPaths), Len(tree') = Len(tree),
           UNCHANGED <<bundle, table, created, before>>
    PROVE  RootTyped'
BY Zenon DEF RootTyped

\* The names of the paths that the runtime itself creates.
LEMMA OwnPaths ==
    /\ <<".old_root">> \in RootPaths /\ <<"proc">> \in RootPaths /\ <<"dev">> \in RootPaths
    /\ <<"dev", "shm">> \in RootPaths /\ <<"dev", "null">> \in RootPaths
    /\ <<"etc", "resolv.conf">> \in RootPaths
<1>1. /\ "proc" \in Names /\ "dev" \in Names /\ "shm" \in Names /\ "null" \in Names
      /\ "etc" \in Names /\ "resolv.conf" \in Names /\ ".old_root" \in Names
  BY RootfsAssumption
<1> QED BY <1>1 DEF RootPaths

\* Creating paths adds them to one mount.
LEMMA CreatedAt ==
    ASSUME RootInv, NEW p \in RootPaths
    PROVE  /\ Create(Missing(p)) \in Seq(SUBSET RootPaths)
           /\ Len(Create(Missing(p))) = Len(tree)
           /\ before.first \subseteq Create(Missing(p))[1]
<1>1. RootTyped /\ before.first \subseteq tree[1]
  BY Zenon DEF RootInv
<1>2. Missing(p) \in Seq(RootPaths)
  BY MissingFacts, Zenon DEF AllMissing
<1> QED BY <1>1, <1>2, CreateFacts, Zenon

\* A later step that creates paths.
LEMMA CreateStep ==
    ASSUME RootInv, NEW p \in RootPaths, tree' = Create(Missing(p)),
           UNCHANGED <<bundle, table, created, before>>,
           fpc'[1] \notin {"prepare", "mount", "remount", "rolled_back"}
    PROVE  RootInv'
<1>1. RootTyped
  BY Zenon DEF RootInv
<1>2. RootTyped' /\ before.first \subseteq tree'[1]
  BY <1>1, CreatedAt, CreatedTyped, Zenon
<1> QED BY <1>2, LaterStep, Zenon

\* A later step that creates paths and mounts one.
LEMMA CreateAndMountStep ==
    ASSUME RootInv, NEW p \in RootPaths, NEW m \in Mounts, tree' = Append(Create(Missing(p)), {}),
           table' = Append(table, m), UNCHANGED <<bundle, created, before>>,
           fpc'[1] \notin {"prepare", "mount", "remount", "rolled_back"}
    PROVE  RootInv'
<1>1. RootTyped
  BY Zenon DEF RootInv
<1>2. RootTyped' /\ tree'[1] = Create(Missing(p))[1]
  BY <1>1, CreatedAt, AppendTyped, Zenon
<1>3. before.first \subseteq tree'[1]
  BY <1>2, CreatedAt, Zenon
<1> QED BY <1>2, <1>3, LaterStep, Zenon

\* A later step that does nothing.
LEMMA IdleStep ==
    ASSUME RootInv, UNCHANGED <<bundle, tree, table, created, before>>,
           fpc'[1] \notin {"prepare", "mount", "remount", "rolled_back"}
    PROVE  RootInv'
<1>1. RootTyped' /\ before.first \subseteq tree'[1]
  BY Zenon DEF RootInv, RootTyped
<1> QED BY <1>1, LaterStep, Zenon

\* A default mount keeps RootInv.
LEMMA MountDefaultInv ==
    ASSUME RootInv, NEW step, NEW p \in RootPaths, NEW what, NEW next,
           [at |-> p, what |-> what] \in Mounts,
           next \notin {"prepare", "mount", "remount", "rolled_back"},
           MountDefault(step, p, what, next)
    PROVE  RootInv'
<1>1. fpc'[1] \notin {"prepare", "mount", "remount", "rolled_back"}
  <2>1. fpc' = <<next, 0>>
    BY Zenon DEF MountDefault, RootfsGoto
  <2>2. fpc'[1] = next
    BY <2>1
  <2> QED BY <2>2, Zenon
<1>2. UNCHANGED <<bundle, created, before>>
  BY Zenon DEF MountDefault
<1>3. CASE DefaultNeeded(p)
  <2>1. /\ tree' = Append(Create(Missing(p)), {})
        /\ table' = Append(table, [at |-> p, what |-> what])
    BY <1>3, Zenon DEF MountDefault
  <2> QED BY <1>1, <1>2, <2>1, CreateAndMountStep, Zenon
<1>4. CASE ~DefaultNeeded(p)
  <2>1. UNCHANGED <<tree, table>>
    BY <1>4, Zenon DEF MountDefault
  <2> QED BY <1>1, <1>2, <2>1, IdleStep, Zenon
<1> QED BY <1>3, <1>4, Zenon

\* The length of two sequences.
LEMMA ConcatLength ==
    ASSUME NEW A, NEW s \in Seq(A), NEW r \in Seq(A)
    PROVE  Len(s \o r) = Len(s) + Len(r)
OBVIOUS

\* apply_oci_linux_paths mounts over paths that exist.
LEMMA CoverPathsInv == RootInv /\ CoverPaths => RootInv'
<1> SUFFICES ASSUME RootInv, CoverPaths PROVE RootInv'
  BY Zenon
<1> DEFINE ps == Picked(Covered, {q \in Range(Covered) : Exists(q)})
           U == SUBSET RootPaths
           ms == [i \in 1 .. Len(ps) |-> [at |-> ps[i], what |-> "cover"]]
           es == [i \in 1 .. Len(ps) |-> {}]
<1>1. /\ fpc' = <<"done", 0>> /\ UNCHANGED <<bundle, created, before>>
      /\ table' = table \o ms /\ tree' = tree \o es
  BY Zenon DEF CoverPaths, RootfsGoto
<1>2. ps \in Seq(RootPaths)
  BY RootfsAssumption, PickedFacts, Zenon
<1> HIDE DEF ps
<1>3. \A i \in 1 .. Len(ps) : [at |-> ps[i], what |-> "cover"] \in Mounts
  <2>1. \A i \in 1 .. Len(ps) : ps[i] \in Seq(Names)
    BY <1>2, RootPathsAreSequences
  <2> QED BY <2>1 DEF Mounts
<1>4. Len(ps) \in Nat /\ ms \in Seq(Mounts) /\ Len(ms) = Len(ps)
  BY <1>2, <1>3
<1>5. {} \in U
  BY Zenon
<1> HIDE DEF U, ms
<1>6. es \in Seq(U) /\ Len(es) = Len(ps)
  BY <1>4, <1>5
<1> HIDE DEF es
<1>7. /\ RootTyped /\ table \in Seq(Mounts) /\ tree \in Seq(U) /\ Len(table) \in Nat /\ Len(table) >= 1
      /\ Len(tree) = Len(table) /\ before.first \subseteq tree[1]
  <2>1. table \in Seq(Mounts) /\ RootTyped
    BY Zenon DEF RootInv, RootTyped
  <2>2. Len(table) \in Nat
    BY <2>1
  <2> QED BY <2>1, <2>2, Zenon DEF RootInv, RootTyped, U
<1>8. table' \in Seq(Mounts) /\ Len(table') >= 1 /\ table'[1] = table[1]
  BY <1>1, <1>4, <1>7
<1>9. tree' \in Seq(U) /\ Len(tree') = Len(table') /\ tree'[1] = tree[1]
  <2>1. Len(tree') = Len(tree) + Len(es)
    BY <1>1, <1>6, <1>7, ConcatLength, Zenon
  <2>3. Len(table') = Len(table) + Len(ms)
    BY <1>1, <1>4, <1>7, ConcatLength, Zenon
  <2>2. tree' \in Seq(U) /\ tree'[1] = tree[1]
    BY <1>1, <1>6, <1>7
  <2> QED BY <1>4, <1>6, <1>7, <2>1, <2>2, <2>3, Zenon
<1>10. RootTyped' /\ before.first \subseteq tree'[1]
  BY <1>1, <1>7, <1>8, <1>9, Zenon DEF RootTyped, U
<1>11. fpc'[1] \notin {"prepare", "mount", "remount", "rolled_back"}
  BY <1>1
<1> QED BY <1>1, <1>10, <1>11, LaterStep, Zenon

\* remove_dir of the old root removes a directory that the bundle did not have.
LEMMA DetachOldRootInv == RootInv /\ DetachOldRoot => RootInv'
<1> SUFFICES ASSUME RootInv, DetachOldRoot PROVE RootInv'
  BY Zenon
<1>1. /\ fpc' = <<"proc", 0>> /\ UNCHANGED <<bundle, table, created, before>>
      /\ tree' = tree \/ tree' = [tree EXCEPT ![1] = @ \ {<<".old_root">>}]
  BY Zenon DEF DetachOldRoot, RootfsGoto
<1>2. fpc'[1] \notin {"prepare", "mount", "remount", "rolled_back"}
  BY <1>1
<1>3. CASE tree' = tree
  BY <1>1, <1>2, <1>3, IdleStep, Zenon
<1>4. CASE tree' = [tree EXCEPT ![1] = @ \ {<<".old_root">>}]
  <2> DEFINE U == SUBSET RootPaths
             v == tree[1] \ {<<".old_root">>}
  <2>1. RootTyped /\ tree \in Seq(U) /\ 1 \in 1 .. Len(tree)
    BY DEF RootInv, RootTyped
  <2>2. v \in U
    <3>1. tree[1] \in U
      <4> HIDE DEF U
      <4> QED BY <2>1
    <3> QED BY <3>1, Zenon
  <2>3. tree' = [tree EXCEPT ![1] = v]
    BY <1>4, Zenon
  <2>4. before.first \subseteq v
    BY Zenon DEF RootInv
  <2> HIDE DEF U, v
  <2>5. tree' \in Seq(U) /\ Len(tree') = Len(tree) /\ tree'[1] = v
    BY <2>1, <2>2, <2>3
  <2>6. RootTyped'
    BY <1>1, <2>1, <2>5, CreatedTyped, Zenon DEF U
  <2> QED BY <1>1, <1>2, <2>4, <2>5, <2>6, LaterStep, Zenon
<1> QED BY <1>1, <1>3, <1>4, Zenon

\* Every step of setup_rootfs keeps RootInv.
LEMMA RootStepInv == RootInv /\ [RootNext]_rootVars => RootInv'
<1> SUFFICES ASSUME RootInv, [RootNext]_rootVars PROVE RootInv'
  BY Zenon
<1> DEFINE Late(s) == s \notin {"prepare", "mount", "remount", "rolled_back"}
<1>0. /\ Late("failed") /\ Late("detach") /\ Late("proc") /\ Late("dns") /\ Late("dev")
      /\ Late("null") /\ Late("shm") /\ Late("cover")
  BY Zenon
<1>a. \A s : fpc' = <<s, 0>> => fpc'[1] = s
  OBVIOUS
<1> HIDE DEF Late
<1>b. \A s : RootfsGoto(s) /\ Late(s) => Late(fpc'[1])
  BY <1>a, Zenon DEF RootfsGoto
<1>c. \A p \in RootPaths : /\ [at |-> p, what |-> "proc"] \in Mounts
                           /\ [at |-> p, what |-> "dev"] \in Mounts
                           /\ [at |-> p, what |-> "shm"] \in Mounts
                           /\ [at |-> p, what |-> "empty_file"] \in Mounts
  BY RootPathsAreSequences DEF Mounts
<1> USE DEF Late
<1>1. CASE PrepareMount
  BY <1>1, PrepareMountInv, Zenon
<1>2. CASE AttachMount
  BY <1>2, AttachMountInv, Zenon
<1>3. CASE SecondMountCall
  BY <1>3, SecondMountCallInv, Zenon
<1>4. CASE RollbackMount
  BY <1>4, RollbackMountInv, Zenon
<1>5. CASE Pivot
  <2>1. /\ tree' = Create(Missing(<<".old_root">>)) /\ UNCHANGED <<bundle, table, created, before>>
        /\ RootfsGoto("detach")
    BY <1>5, Zenon DEF Pivot
  <2> QED BY <1>0, <1>b, <2>1, OwnPaths, CreateStep, Zenon
<1>6. CASE DetachOldRoot
  BY <1>6, DetachOldRootInv, Zenon
<1>7. CASE SetupProc
  BY <1>0, <1>c, <1>7, OwnPaths, MountDefaultInv, Zenon DEF SetupProc
<1>8. CASE SetupDns
  <2>1. /\ tree' = IF Declared(<<"etc", "resolv.conf">>) THEN tree
                   ELSE Create(Missing(<<"etc", "resolv.conf">>))
        /\ UNCHANGED <<bundle, table, created, before>> /\ RootfsGoto("dev")
    BY <1>8, Zenon DEF SetupDns
  <2>2. CASE tree' = tree
    BY <1>0, <1>b, <2>1, <2>2, IdleStep, Zenon
  <2>3. CASE tree' = Create(Missing(<<"etc", "resolv.conf">>))
    BY <1>0, <1>b, <2>1, <2>3, OwnPaths, CreateStep, Zenon
  <2> QED BY <2>1, <2>2, <2>3, Zenon
<1>9. CASE SetupDev
  BY <1>0, <1>c, <1>9, OwnPaths, MountDefaultInv, Zenon DEF SetupDev
<1>10. CASE CreateCharDevice
  <2> DEFINE p == <<"dev", "null">>
  <2>1. RootfsGoto("shm") /\ UNCHANGED <<bundle, created, before>>
    BY <1>10, Zenon DEF CreateCharDevice
  <2>2. p \in RootPaths /\ [at |-> p, what |-> "empty_file"] \in Mounts
    BY <1>c, OwnPaths, Zenon
  <2>3. CASE UNCHANGED <<tree, table>>
    BY <1>0, <1>b, <2>1, <2>3, IdleStep, Zenon
  <2>4. CASE tree' = Create(Missing(p)) /\ UNCHANGED table
    BY <1>0, <1>b, <2>1, <2>2, <2>4, CreateStep, Zenon
  <2>5. CASE /\ tree' = Append(Create(Missing(p)), {})
             /\ table' = Append(table, [at |-> p, what |-> "empty_file"])
    BY <1>0, <1>b, <2>1, <2>2, <2>5, CreateAndMountStep, Zenon
  <2> QED BY <1>10, <2>3, <2>4, <2>5, Zenon DEF CreateCharDevice
<1>11. CASE SetupDevShm
  BY <1>0, <1>c, <1>11, OwnPaths, MountDefaultInv, Zenon DEF SetupDevShm
<1>12. CASE CoverPaths
  BY <1>12, CoverPathsInv, Zenon
<1>13. CASE RootFails
  <2>1. RootfsGoto("failed") /\ UNCHANGED <<bundle, tree, table, created, before>>
    BY <1>13, Zenon DEF RootFails, RootfsFails
  <2> QED BY <1>0, <1>b, <2>1, IdleStep, Zenon
<1>14. CASE UNCHANGED rootVars
  <2>1. UNCHANGED <<bundle, tree, table, fpc, created, before>>
    BY <1>14, Zenon DEF rootVars
  <2>2. RootTyped' /\ Entry' = Entry
    BY <2>1, Zenon DEF RootInv, RootTyped, Entry
  <2> QED BY <2>1, <2>2, Zenon DEF RootInv, At, RollbackComplete
<1> QED BY <1>1, <1>2, <1>3, <1>4, <1>5, <1>6, <1>7, <1>8, <1>9, <1>10, <1>11, <1>12, <1>13,
           <1>14, Zenon DEF RootNext

\* For every bundle, every directory and every call that fails: what the directory
\* had is never removed, and a mount that fails leaves no mount point behind
\* (prepare_mount_destination, and rollback of its created_paths).
THEOREM RollbacksAreExact == RootSpec => []RollbackExact
<1>1. RootInit => RootInv
  BY RootInitInv, Zenon
<1>2. RootInv /\ [RootNext]_rootVars => RootInv'
  BY RootStepInv, Zenon
<1>3. RootInv => RollbackExact
  BY Zenon DEF RootInv, RollbackExact, DirectoryKept
<1> QED BY <1>1, <1>2, <1>3, PTL DEF RootSpec

-----------------------------------------------------------------------------
(* The defaults. *)

\* The steps after the mounts of the bundle; the setup has not failed.
Later == {"detach", "proc", "dns", "dev", "null", "shm", "cover", "done"}
Live == fpc[1] \in {"prepare", "mount", "remount"} \cup Later

\* How many mounts there are.
Progress ==
    /\ At("prepare") => Len(table) = fpc[2] /\ fpc[2] <= Len(bundle) + 1
    /\ At("mount") => Len(table) = fpc[2]
    /\ At("remount") => Len(table) = fpc[2] + 1
    /\ fpc[1] \in Later => Len(table) > Len(bundle)

\* The mounts of the bundle come first, in order.
Lined ==
    \A i \in 1 .. Len(bundle) :
        i < Len(table) => table[i + 1] = [at |-> bundle[i].at, what |-> "bundle"]

\* A default, or something the bundle itself asks for, is above mount i.
OutOfSight(i) == Overlaid(bundle[i].at) \/ CoveredLater(i)

\* The mounts that the runtime adds, each where the bundle leaves room for it.
Added(m) ==
    \/ m.what = "proc" /\ m.at = <<"proc">> /\ ~Declared(<<"proc">>)
    \/ m.what = "dev" /\ m.at = <<"dev">> /\ ~Declared(<<"dev">>)
    \/ m.what = "shm" /\ m.at = <<"dev", "shm">> /\ ~Declared(<<"dev", "shm">>)
    \/ /\ m.what = "empty_file" /\ m.at = <<"dev", "null">>
       /\ \A i \in 1 .. Len(bundle) : Below(<<"dev", "null">>, bundle[i].at) => OutOfSight(i)
    \/ m.what = "cover" /\ Masked(m.at)

\* What is mounted after the mounts of the bundle are defaults.
Extras ==
    \A j \in Len(bundle) + 2 .. Len(table) : \A m \in Mounts : table[j] = m => Added(m)

\* The removal of the old root leaves this path alone.
Ordinary(p) == p[1] # ".old_root"

\* The paths above a mount point exist, or a later mount is above them.
Upright ==
    \A j \in 2 .. Len(table) : Ordinary(table[j].at) =>
        \A q \in RootPaths : Below(q, table[j].at) => Exists(q) \/ Serving(q) > j

\* A mount of the bundle at or below /dev/null is out of sight, or /dev/null exists.
NullKept ==
    \A i \in 1 .. Len(bundle) :
        i < Len(table) /\ Below(<<"dev", "null">>, bundle[i].at) =>
            OutOfSight(i) \/ Exists(<<"dev", "null">>)

\* The mount point of the mount in progress, and all above it, exist.
Reached == Ordinary(Entry.at) => \A q \in RootPaths : Below(q, Entry.at) => Exists(q)

\* Something is mounted at p.
MountedAt(p) == \E j \in 2 .. Len(table) : table[j].at = p

\* Nothing but masked and read-only paths is above the default /dev/shm.
ShmOnTop ==
    \E j \in 2 .. Len(table) :
        /\ table[j].at = <<"dev", "shm">> /\ table[j].what = "shm"
        /\ \A k \in j + 1 .. Len(table) : Masked(table[k].at)

\* p exists, or the bundle asks for it to be covered.
Kept(p) == Masked(p) \/ Exists(p)

\* The defaults that have been given, from the step after each on.
Given ==
    /\ fpc[1] \in {"dns", "dev", "null", "shm", "cover", "done"} =>
           Declared(<<"proc">>) \/ MountedAt(<<"proc">>)
    /\ fpc[1] \in {"null", "shm", "cover", "done"} => Declared(<<"dev">>) \/ MountedAt(<<"dev">>)
    /\ fpc[1] \in {"cover", "done"} => Declared(<<"dev", "shm">>) \/ ShmOnTop
    /\ fpc[1] \in {"shm", "cover", "done"} => Kept(<<"dev", "null">>)
    /\ fpc[1] \in {"dev", "null", "shm", "cover", "done"} =>
           Declared(<<"etc", "resolv.conf">>) \/ Kept(<<"etc", "resolv.conf">>)

\* The inductive invariant of the mount table: the mounts of the bundle in order,
\* then defaults where the bundle declares nothing, and every mount point in reach.
GapInv ==
    /\ Live => Progress /\ Lined /\ Extras
    /\ Live /\ ~At("done") => Upright /\ NullKept
    /\ At("mount") => Reached
    /\ Given

-----------------------------------------------------------------------------
\* The mount of the table tab that serves q.
Served(tab, q) == Max({i \in 1 .. Len(tab) : Below(tab[i].at, q)})
Tabled(tab) == tab \in Seq(Mounts) /\ Len(tab) >= 1 /\ tab[1].at = <<>>

\* Max of the mounts above a path is the last of them.
LEMMA ServedFacts ==
    ASSUME NEW tab, Tabled(tab), NEW q \in Seq(Names)
    PROVE  /\ Served(tab, q) \in 1 .. Len(tab)
           /\ Below(tab[Served(tab, q)].at, q)
           /\ \A k \in 1 .. Len(tab) : Below(tab[k].at, q) => k <= Served(tab, q)
<1> DEFINE S == {i \in 1 .. Len(tab) : Below(tab[i].at, q)}
<1>1. Len(tab) \in Nat /\ 1 \in 1 .. Len(tab) /\ tab[1].at = <<>>
  BY DEF Tabled
<1>2. Below(<<>>, q)
  BY DEF Below
<1>3. S \in SUBSET (1 .. Len(tab)) /\ 1 \in S
  BY <1>1, <1>2, Zenon
<1>4. Served(tab, q) = Max(S)
  BY Zenon DEF Served
<1> HIDE DEF S
<1>5. Served(tab, q) \in S /\ \A k \in S : Served(tab, q) >= k
  BY <1>1, <1>3, <1>4, GreatestExists, Zenon
<1> USE DEF S
<1>6. Served(tab, q) \in 1 .. Len(tab) /\ Below(tab[Served(tab, q)].at, q)
  BY <1>5, Zenon
<1>7. \A m, k \in 1 .. Len(tab) : m >= k => k <= m
  BY <1>1
<1> QED BY <1>5, <1>6, <1>7, Zenon

\* The last mount above a path serves it.
LEMMA ServedIs ==
    ASSUME NEW tab, Tabled(tab), NEW q \in Seq(Names), NEW k \in 1 .. Len(tab),
           Below(tab[k].at, q), \A j \in k + 1 .. Len(tab) : ~Below(tab[j].at, q)
    PROVE  Served(tab, q) = k
<1> DEFINE s == Served(tab, q)
<1>1. s \in 1 .. Len(tab) /\ Below(tab[s].at, q) /\ k <= s
  BY ServedFacts, Zenon
<1>2. s \notin k + 1 .. Len(tab)
  BY <1>1, Zenon
<1> HIDE DEF s
<1>3. Len(tab) \in Nat
  BY DEF Tabled
<1>4. s = k
  BY <1>1, <1>2, <1>3
<1> QED BY <1>4, Zenon DEF s

\* The mount table begins with the root.
LEMMA TypedTable == RootTyped => Tabled(table)
BY Zenon DEF RootTyped, Tabled

\* So it does after a step.
LEMMA TypedTableAfter == RootTyped' => Tabled(table')
BY Zenon DEF RootTyped, Tabled

\* Serving is about the present table.
LEMMA ServingIsServed == \A q : Serving(q) = Served(table, q)
BY Zenon DEF Serving, Served

\* Or about the next.
LEMMA ServingAfterIsServed == \A q : Serving(q)' = Served(table', q)
BY Zenon DEF Serving, Served

\* Paths above each other begin with the same name.
LEMMA FirstName ==
    ASSUME NEW p \in RootPaths, NEW q, Below(p, q)
    PROVE  p[1] = q[1]
<1>1. 1 \in 1 .. Len(p)
  BY DEF RootPaths
<1> QED BY <1>1, Zenon DEF Below

\* The mounts that a step adds are not above q.
Clear(q) == \A k \in Len(table) + 1 .. Len(table') : ~Below(table'[k].at, q)

\* A step that unmounts nothing and removes at most the old root.
Grown ==
    /\ RootTyped /\ RootTyped' /\ bundle' = bundle
    /\ Len(table) <= Len(table') /\ \A i \in 1 .. Len(table) : table'[i] = table[i]
    /\ \A i \in 1 .. Len(table) : \A q \in RootPaths :
           Ordinary(q) /\ q \in tree[i] => q \in tree'[i]

\* A path that no new mount is above is served as before.
LEMMA GrownServing ==
    ASSUME Grown, NEW q \in Seq(Names), Clear(q)
    PROVE  Serving(q)' = Serving(q)
<1> DEFINE s == Serving(q)
<1>1. Tabled(table) /\ Tabled(table')
  BY TypedTable, TypedTableAfter, Zenon DEF Grown
<1>2. /\ s \in 1 .. Len(table) /\ Below(table[s].at, q)
      /\ \A k \in 1 .. Len(table) : Below(table[k].at, q) => k <= s
  BY <1>1, ServedFacts, ServingIsServed, Zenon
<1> HIDE DEF s
<1>3. Len(table) \in Nat /\ Len(table') \in Nat /\ Len(table) <= Len(table')
  BY <1>1 DEF Tabled, Grown
<1>4. s \in 1 .. Len(table') /\ Below(table'[s].at, q)
  <2>1. s \in 1 .. Len(table')
    BY <1>2, <1>3
  <2> QED BY <1>2, <2>1, Zenon DEF Grown
<1>5. \A j \in s + 1 .. Len(table') : ~Below(table'[j].at, q)
  <2>1. \A j \in s + 1 .. Len(table') :
            j \in Len(table) + 1 .. Len(table') \/ (j \in 1 .. Len(table) /\ ~(j <= s))
    BY <1>2, <1>3
  <2> QED BY <1>2, <2>1, Zenon DEF Clear, Grown
<1>6. Served(table', q) = s
  BY <1>1, <1>4, <1>5, ServedIs, Zenon
<1> QED BY <1>6, ServingAfterIsServed, Zenon DEF s

\* Such a path exists if it did.
LEMMA GrownExists ==
    ASSUME Grown, NEW q \in RootPaths, Ordinary(q), Exists(q), Clear(q)
    PROVE  Exists(q)'
<1>1. q \in Seq(Names)
  BY RootPathsAreSequences, Zenon
<1>2. Serving(q)' = Serving(q)
  BY <1>1, GrownServing, Zenon
<1>3. Serving(q) \in 1 .. Len(table)
  BY <1>1, ServedFacts, TypedTable, ServingIsServed, Zenon DEF Grown
<1>4. table'[Serving(q)] = table[Serving(q)]
  BY <1>3, Zenon DEF Grown
<1>5. q \in tree[Serving(q)] => q \in tree'[Serving(q)]
  BY <1>3, Zenon DEF Grown
<1> QED BY <1>2, <1>4, <1>5, Zenon DEF Exists

\* What is above the new mounts exists.
NewFound ==
    \A k \in Len(table) + 1 .. Len(table') : Ordinary(table'[k].at) =>
        \A q \in RootPaths : Below(q, table'[k].at) => Exists(q)'

\* New mounts at paths that can be reached keep Upright.
LEMMA GrownUpright ==
    ASSUME Grown, Upright, NewFound
    PROVE  Upright'
<1>1. Tabled(table) /\ Tabled(table')
  BY TypedTable, TypedTableAfter, Zenon DEF Grown
<1>2. Len(table) \in Nat /\ Len(table') \in Nat /\ Len(table) <= Len(table')
  BY <1>1 DEF Tabled, Grown
<1>3. SUFFICES ASSUME NEW j \in 2 .. Len(table'), Ordinary(table'[j].at), NEW q \in RootPaths,
                      Below(q, table'[j].at)
               PROVE  Exists(q)' \/ Serving(q)' > j
  BY Zenon DEF Upright
<1>4. j \in Len(table) + 1 .. Len(table') \/ (j \in 2 .. Len(table) /\ j \in 1 .. Len(table))
  BY <1>2
<1>5. CASE j \in Len(table) + 1 .. Len(table')
  BY <1>3, <1>5, Zenon DEF NewFound
<1>6. CASE j \in 2 .. Len(table) /\ j \in 1 .. Len(table)
  <2>1. table'[j] = table[j]
    BY <1>6, Zenon DEF Grown
  <2>2. Exists(q) \/ Serving(q) > j
    BY <1>3, <1>6, <2>1, Zenon DEF Upright
  <2>3. q \in Seq(Names)
    BY RootPathsAreSequences, Zenon
  <2>4. Ordinary(q)
    BY <1>3, FirstName, Zenon DEF Ordinary
  <2>5. CASE Clear(q)
    BY <2>2, <2>3, <2>4, <2>5, GrownExists, GrownServing, Zenon
  <2>6. CASE ~Clear(q)
    <3>1. PICK k \in Len(table) + 1 .. Len(table') : Below(table'[k].at, q)
      BY <2>6, Zenon DEF Clear
    <3>2. k \in 1 .. Len(table')
      BY <1>2
    <3>3. k <= Served(table', q) /\ Served(table', q) \in 1 .. Len(table')
      BY <1>1, <2>3, <3>1, <3>2, ServedFacts, Zenon
    <3>4. Served(table', q) > j
      BY <1>2, <1>6, <3>3
    <3> QED BY <3>4, ServingAfterIsServed, Zenon
  <2> QED BY <2>5, <2>6, Zenon
<1> QED BY <1>4, <1>5, <1>6, Zenon

\* Creating paths unmounts and removes nothing.
LEMMA CreateGrows ==
    ASSUME RootTyped, NEW ps \in Seq(RootPaths)
    PROVE  /\ \A i \in 1 .. Len(tree) : tree[i] \subseteq Create(ps)[i]
           /\ ps # <<>> => Range(ps) \subseteq Create(ps)[Serving(ps[1])]
<1>1. CASE ps = <<>>
  BY <1>1, Zenon DEF Create
<1>2. CASE ps # <<>>
  <2> DEFINE k == Serving(ps[1])
             v == tree[k] \cup Range(ps)
  <2>1. ps[1] \in Seq(Names)
    BY <1>2, RootPathsAreSequences
  <2>2. k \in 1 .. Len(tree)
    BY <2>1, ServingFacts, Zenon DEF RootTyped
  <2>3. Create(ps) = [tree EXCEPT ![k] = v]
    BY <1>2, Zenon DEF Create
  <2>4. DOMAIN tree = 1 .. Len(tree) /\ tree[k] \subseteq v /\ Range(ps) \subseteq v
    BY DEF RootTyped
  <2> HIDE DEF k, v
  <2>5. Create(ps)[k] = v /\ \A i \in 1 .. Len(tree) : i # k => Create(ps)[i] = tree[i]
    BY <2>2, <2>3, <2>4
  <2> QED BY <2>4, <2>5, Zenon DEF k
<1> QED BY <1>1, <1>2, Zenon

\* With tr for tree, q exists.
Found(tr, q) == q = table[Serving(q)].at \/ q \in tr[Serving(q)]

\* A path exists, and all above it, once its missing prefixes are created.
LEMMA AllFound ==
    ASSUME RootTyped, Upright, NEW p \in RootPaths, Ordinary(p), NEW q \in RootPaths, Below(q, p)
    PROVE  Found(Create(Missing(p)), q)
<1> DEFINE ms == Missing(p)
           s == Serving(q)
<1> HIDE DEF ms
<1>1. AllMissing(ms, p) /\ ms \in Seq(RootPaths) /\ Lengthening(ms)
  BY MissingFacts, Zenon DEF AllMissing, ms
<1>2. q \in Seq(Names) /\ p \in Seq(Names) /\ Tabled(table)
  BY RootPathsAreSequences, TypedTable, Zenon
<1>3. s \in 1 .. Len(table) /\ Below(table[s].at, q) /\ s \in 1 .. Len(tree)
      /\ \A k \in 1 .. Len(table) : Below(table[k].at, q) => k <= s
  BY <1>2, ServedFacts, ServingIsServed, Zenon DEF RootTyped
<1>4. CASE Exists(q)
  BY <1>1, <1>3, <1>4, CreateGrows, Zenon DEF Exists, Found, ms
<1>5. CASE ~Exists(q)
  <2>1. PICK k \in 1 .. Len(ms) : ms[k] = q
    BY <1>1, <1>5, Zenon DEF AllMissing
  <2> DEFINE f == ms[1]
             z == Serving(f)
             a == table[s].at
  <2>2. 1 \in 1 .. Len(ms) /\ ms # <<>> /\ q \in Range(ms)
    BY <1>1, <2>1 DEF Range
  <2>3. f \in RootPaths /\ f \in Seq(Names) /\ Below(f, p) /\ ~Exists(f)
    BY <1>1, <2>2, RootPathsAreSequences DEF AllMissing
  <2> HIDE DEF f
  <2>4. Len(f) <= Len(q)
    BY <1>1, <1>2, <2>1, <2>2, <2>3 DEF Lengthening, f
  <2>5. Below(f, q)
    BY <1>2, <2>3, <2>4, BelowBoth, Zenon
  <2>6. z \in 1 .. Len(table) /\ Below(table[z].at, f)
        /\ \A j \in 1 .. Len(table) : Below(table[j].at, f) => j <= z
    BY <1>2, <2>3, ServedFacts, ServingIsServed, Zenon
  <2>7. table[z].at \in Seq(Names) /\ a \in Seq(Names)
    <3>1. \A j \in 1 .. Len(table) : table[j] \in Mounts
      BY DEF RootTyped
    <3> HIDE DEF z, s
    <3>2. table[z].at \in Seq(Names)
      BY <2>6, <3>1, Zenon DEF Mounts
    <3>3. a \in Seq(Names)
      BY <1>3, <3>1, Zenon DEF Mounts
    <3> QED BY <3>2, <3>3, Zenon
  <2>8. Below(table[z].at, q)
    BY <1>2, <2>3, <2>5, <2>6, <2>7, BelowTrans, Zenon
  <2>9. z <= s
    BY <1>3, <2>6, <2>8, Zenon
  <2>10. SUFFICES ASSUME s # z PROVE FALSE
    BY <1>1, <2>2, CreateGrows, Zenon DEF Found, ms, f
  <2> HIDE DEF s, z
  <2>11. ~(s <= z) /\ ~(z > s) /\ s \in 2 .. Len(table)
    BY <1>2, <1>3, <2>6, <2>9, <2>10 DEF Tabled
  <2>12. ~Below(a, f)
    BY <1>3, <2>6, <2>11, Zenon
  <2> HIDE DEF a
  <2>13. ~(Len(a) <= Len(f)) /\ Below(a, q)
    BY <1>2, <1>3, <2>3, <2>5, <2>7, <2>12, BelowBoth, Zenon DEF a
  <2>14. Len(f) <= Len(a)
    BY <2>3, <2>7, <2>13
  <2>15. Below(f, a)
    BY <1>2, <2>3, <2>5, <2>7, <2>13, <2>14, BelowBoth, Zenon
  <2>16. Ordinary(a)
    BY <2>3, <2>15, FirstName, Zenon DEF Ordinary
  <2> QED BY <2>3, <2>11, <2>15, <2>16, Zenon DEF Upright, a, z
<1> QED BY <1>4, <1>5, Zenon

\* A step without a mount.
LEMMA SameTableGrown ==
    ASSUME RootTyped, RootTyped', UNCHANGED <<bundle, table>>,
           \A i \in 1 .. Len(tree) : \A q \in RootPaths :
               Ordinary(q) /\ q \in tree[i] => q \in tree'[i]
    PROVE  Grown /\ \A q : Clear(q)
<1>1. Len(table) \in Nat /\ Len(tree) = Len(table)
  BY DEF RootTyped
<1>2. Len(table) <= Len(table') /\ Len(table) + 1 .. Len(table') = {}
  BY <1>1
<1> QED BY <1>1, <1>2, Zenon DEF Grown, Clear

\* A step with one mount.
LEMMA AppendGrown ==
    ASSUME RootTyped, NEW m \in Mounts, NEW tr \in Seq(SUBSET RootPaths), Len(tr) = Len(tree),
           \A i \in 1 .. Len(tree) : tree[i] \subseteq tr[i],
           table' = Append(table, m), tree' = Append(tr, {}), UNCHANGED <<bundle, created, before>>
    PROVE  /\ Grown /\ Len(table') = Len(table) + 1 /\ table'[Len(table) + 1] = m
           /\ Len(table) + 1 .. Len(table') = {Len(table) + 1}
           /\ \A i \in 1 .. Len(table) : tree'[i] = tr[i]
<1>1. Len(table) \in Nat /\ Len(tree) = Len(table) /\ table \in Seq(Mounts)
  BY DEF RootTyped
<1>2. RootTyped' /\ Len(table') = Len(table) + 1
  BY AppendTyped, Zenon
<1>3. table'[Len(table) + 1] = m /\ \A i \in 1 .. Len(table) : table'[i] = table[i]
  BY <1>1
<1>4. \A i \in 1 .. Len(table) : tree'[i] = tr[i]
  <2> DEFINE U == SUBSET RootPaths
  <2>1. {} \in U /\ tr \in Seq(U)
    BY Zenon
  <2> HIDE DEF U
  <2> QED BY <1>1, <2>1
<1>5. Len(table) + 1 .. Len(table') = {Len(table) + 1} /\ Len(table) <= Len(table')
  BY <1>1, <1>2
<1>6. \A i \in 1 .. Len(table) : \A q \in RootPaths : q \in tree[i] => q \in tree'[i]
  BY <1>1, <1>4, Zenon
<1> QED BY <1>2, <1>3, <1>4, <1>5, <1>6, Zenon DEF Grown

\* What exists above a new mount, and its mount point.
LEMMA AppendFound ==
    ASSUME Grown, NEW m, Len(table') = Len(table) + 1, table'[Len(table) + 1] = m,
           NEW tr, \A i \in 1 .. Len(table) : tree'[i] = tr[i], m.at \in RootPaths,
           NEW q \in RootPaths, Below(q, m.at), Found(tr, q)
    PROVE  Exists(q)'
<1> DEFINE L == Len(table)
<1>1. L \in Nat /\ Tabled(table) /\ Tabled(table') /\ q \in Seq(Names) /\ m.at \in Seq(Names)
  <2>1. Tabled(table) /\ Tabled(table')
    BY TypedTable, TypedTableAfter, Zenon DEF Grown
  <2>2. L \in Nat
    BY <2>1 DEF Tabled
  <2> QED BY <2>1, <2>2, RootPathsAreSequences, Zenon
<1> HIDE DEF L
<1>2. CASE q = m.at
  <2>1. L + 1 \in 1 .. Len(table') /\ L + 2 .. Len(table') = {} /\ (L + 1) + 1 = L + 2
    BY <1>1 DEF L
  <2>2. Below(table'[L + 1].at, q)
    BY <1>2, Zenon DEF L
  <2>3. Served(table', q) = L + 1
    BY <1>1, <2>1, <2>2, ServedIs, Zenon
  <2> QED BY <1>2, <2>3, ServingAfterIsServed, Zenon DEF Exists, L
<1>3. CASE q # m.at
  <2>1. ~Below(m.at, q)
    <3>1. SUFFICES ASSUME Below(m.at, q) PROVE FALSE
      BY Zenon
    <3>2. Len(m.at) = Len(q)
      <4>1. Len(q) \in Nat /\ Len(m.at) \in Nat
        BY <1>1
      <4> QED BY <3>1, <4>1 DEF Below
    <3> QED BY <1>1, <1>3, <3>2, BelowSame, Zenon
  <2>2. Clear(q)
    <3>1. \A k \in L + 1 .. Len(table') : k = L + 1
      BY <1>1 DEF L
    <3> QED BY <2>1, <3>1, Zenon DEF Clear, L
  <2>3. Serving(q)' = Serving(q)
    BY <1>1, <2>2, GrownServing, Zenon
  <2>4. Serving(q) \in 1 .. Len(table)
    BY <1>1, ServedFacts, ServingIsServed, Zenon
  <2>5. table'[Serving(q)] = table[Serving(q)] /\ tree'[Serving(q)] = tr[Serving(q)]
    BY <2>4, Zenon DEF Grown
  <2> QED BY <2>3, <2>5, Zenon DEF Found, Exists
<1> QED BY <1>2, <1>3, Zenon

-----------------------------------------------------------------------------
LEMMA SameBundle ==
    ASSUME bundle' = bundle
    PROVE  /\ \A p : Declared(p)' = Declared(p) /\ Overlaid(p)' = Overlaid(p)
           /\ \A p : Masked(p)' = Masked(p)
           /\ \A i : OutOfSight(i)' = OutOfSight(i)
           /\ \A m : Added(m)' = Added(m)
<1>1. \A p : Declared(p)' = Declared(p)
  BY Zenon DEF Declared
<1>2. \A p : Overlaid(p)' = Overlaid(p)
  BY <1>1, Zenon DEF Overlaid
<1>3. \A p : Masked(p)' = Masked(p)
  BY Zenon DEF Masked
<1>4. \A i : OutOfSight(i)' = OutOfSight(i)
  BY <1>2, <1>3, Zenon DEF OutOfSight, CoveredLater
<1>5. ASSUME NEW m PROVE Added(m)' = Added(m)
  <2>1. Declared(<<"proc">>)' = Declared(<<"proc">>) /\ Declared(<<"dev">>)' = Declared(<<"dev">>)
    BY <1>1, Zenon
  <2>2. Declared(<<"dev", "shm">>)' = Declared(<<"dev", "shm">>) /\ Masked(m.at)' = Masked(m.at)
    BY <1>1, <1>3, Zenon
  <2> QED BY <2>1, <2>2, <1>4, Zenon DEF Added
<1> QED BY <1>1, <1>2, <1>3, <1>4, <1>5, Zenon

\* The lengths of the tables are numbers.
LEMMA GrownLengths ==
    ASSUME Grown
    PROVE  Len(table) \in Nat /\ Len(table') \in Nat /\ Len(table) >= 1 /\ Len(bundle) \in Nat
<1>1. RootTyped /\ RootTyped'
  BY Zenon DEF Grown
<1>2. table \in Seq(Mounts) /\ table' \in Seq(Mounts) /\ Len(table) >= 1
  BY <1>1, Zenon DEF RootTyped
<1>3. Len(bundle) \in Nat
  BY <1>1 DEF RootTyped
<1> QED BY <1>2, <1>3

\* A new mount that has the place of one of the bundle's is that.
NewLined ==
    \A i \in 1 .. Len(bundle) : i >= Len(table) /\ i < Len(table') =>
        table'[i + 1] = [at |-> bundle[i].at, what |-> "bundle"]

\* A step that adds mounts keeps Lined.
LEMMA GrownLined ==
    ASSUME Grown, Lined, NewLined
    PROVE  Lined'
<1>1. \A i \in 1 .. Len(bundle) : i >= Len(table) \/ (i < Len(table) /\ i + 1 \in 1 .. Len(table))
  BY GrownLengths
<1>2. \A i \in 1 .. Len(table) : table'[i] = table[i]
  BY Zenon DEF Grown
<1>3. bundle' = bundle
  BY Zenon DEF Grown
<1>4. ASSUME NEW i \in 1 .. Len(bundle), i < Len(table')
      PROVE  table'[i + 1] = [at |-> bundle[i].at, what |-> "bundle"]
  <2>1. CASE i >= Len(table)
    BY <1>4, <2>1, Zenon DEF NewLined
  <2>2. CASE i < Len(table) /\ i + 1 \in 1 .. Len(table)
    BY <1>2, <2>2, Zenon DEF Lined
  <2> QED BY <1>1, <2>1, <2>2, Zenon
<1> QED BY <1>3, <1>4, Zenon DEF Lined

\* The others are defaults.
NewAdded ==
    \A k \in Len(table) + 1 .. Len(table') : \A m \in Mounts :
        k >= Len(bundle) + 2 /\ table'[k] = m => Added(m)

\* A step that adds mounts keeps Extras.
LEMMA GrownExtras ==
    ASSUME Grown, Extras, NewAdded
    PROVE  Extras'
<1>1. \A j \in Len(bundle) + 2 .. Len(table') :
          \/ j \in Len(table) + 1 .. Len(table') /\ j >= Len(bundle) + 2
          \/ j \in Len(bundle) + 2 .. Len(table) /\ j \in 1 .. Len(table)
  BY GrownLengths
<1>2. bundle' = bundle /\ \A i \in 1 .. Len(table) : table'[i] = table[i]
  BY Zenon DEF Grown
<1>3. ASSUME NEW j \in Len(bundle) + 2 .. Len(table'), NEW m \in Mounts, table'[j] = m
      PROVE  Added(m)
  <2>1. CASE j \in Len(table) + 1 .. Len(table') /\ j >= Len(bundle) + 2
    BY <1>3, <2>1, Zenon DEF NewAdded
  <2>2. CASE j \in Len(bundle) + 2 .. Len(table) /\ j \in 1 .. Len(table)
    BY <1>2, <1>3, <2>2, Zenon DEF Extras
  <2> QED BY <1>1, <2>1, <2>2, Zenon
<1> QED BY <1>2, <1>3, SameBundle, Zenon DEF Extras

\* The null device is not hidden, or what the bundle mounts below it is.
NullSafe ==
    \/ Clear(<<"dev", "null">>) \/ Exists(<<"dev", "null">>)'
    \/ \A i \in 1 .. Len(bundle) :
           i < Len(table) /\ Below(<<"dev", "null">>, bundle[i].at) => OutOfSight(i)

\* A new mount of the bundle below /dev/null is out of sight, or /dev/null exists.
NewNull ==
    \A i \in 1 .. Len(bundle) :
        i >= Len(table) /\ i < Len(table') /\ Below(<<"dev", "null">>, bundle[i].at) =>
            Exists(<<"dev", "null">>)'

\* A step that adds mounts keeps NullKept.
LEMMA GrownNull ==
    ASSUME Grown, NullKept, NullSafe, NewNull
    PROVE  NullKept'
<1> DEFINE n == <<"dev", "null">>
<1>1. n \in RootPaths /\ Ordinary(n)
  <2>1. n \in RootPaths
    BY OwnPaths, Zenon
  <2>2. Ordinary(n)
    BY DEF Ordinary
  <2> QED BY <2>1, <2>2, Zenon
<1> HIDE DEF n
<1>2. \A i \in 1 .. Len(bundle) : i >= Len(table) \/ i < Len(table)
  BY GrownLengths
<1>3. bundle' = bundle
  BY Zenon DEF Grown
<1>4. ASSUME NEW i \in 1 .. Len(bundle), i < Len(table'), Below(n, bundle[i].at)
      PROVE  OutOfSight(i) \/ Exists(n)'
  <2>1. CASE i >= Len(table)
    BY <1>4, <2>1, Zenon DEF NewNull, n
  <2>2. CASE i < Len(table)
    <3>1. OutOfSight(i) \/ Exists(n)
      BY <1>4, <2>2, Zenon DEF NullKept, n
    <3> QED BY <1>1, <1>4, <2>2, <3>1, GrownExists, Zenon DEF NullSafe, n
  <2> QED BY <1>2, <2>1, <2>2, Zenon
<1> QED BY <1>3, <1>4, SameBundle, Zenon DEF NullKept, n

\* What is mounted stays mounted.
LEMMA GrownMounted ==
    ASSUME Grown, NEW p, MountedAt(p)
    PROVE  MountedAt(p)'
<1>1. PICK j \in 2 .. Len(table) : table[j].at = p
  BY Zenon DEF MountedAt
<1>2. j \in 2 .. Len(table') /\ j \in 1 .. Len(table)
  BY GrownLengths DEF Grown
<1> QED BY <1>1, <1>2, Zenon DEF MountedAt, Grown

\* What exists, or is covered, stays so unless a new mount is above it.
LEMMA GrownKept ==
    ASSUME Grown, NEW p \in RootPaths, Ordinary(p), Kept(p), Clear(p)
    PROVE  Kept(p)'
<1>1. bundle' = bundle
  BY Zenon DEF Grown
<1> QED BY <1>1, GrownExists, SameBundle, Zenon DEF Kept

\* The own paths of the runtime, and which are above which.
LEMMA OwnPathsApart ==
    /\ ~Below(<<"proc">>, <<"dev", "null">>) /\ ~Below(<<"proc">>, <<"etc", "resolv.conf">>)
    /\ ~Below(<<"dev">>, <<"etc", "resolv.conf">>) /\ ~Below(<<"dev">>, <<"proc">>)
    /\ ~Below(<<"dev", "null">>, <<"etc", "resolv.conf">>) /\ ~Below(<<"dev", "null">>, <<"proc">>)
    /\ ~Below(<<"dev", "shm">>, <<"etc", "resolv.conf">>) /\ ~Below(<<"dev", "shm">>, <<"proc">>)
    /\ ~Below(<<"dev", "shm">>, <<"dev", "null">>) /\ Below(<<"dev">>, <<"dev", "null">>)
    /\ Ordinary(<<"proc">>) /\ Ordinary(<<"dev">>) /\ Ordinary(<<"dev", "null">>)
    /\ Ordinary(<<"dev", "shm">>) /\ Ordinary(<<"etc", "resolv.conf">>)
<1>1. /\ ~Below(<<"proc">>, <<"dev", "null">>) /\ ~Below(<<"proc">>, <<"etc", "resolv.conf">>)
      /\ ~Below(<<"dev">>, <<"etc", "resolv.conf">>) /\ ~Below(<<"dev">>, <<"proc">>)
  BY DEF Below
<1>2. /\ ~Below(<<"dev", "null">>, <<"etc", "resolv.conf">>) /\ ~Below(<<"dev", "null">>, <<"proc">>)
      /\ ~Below(<<"dev", "shm">>, <<"etc", "resolv.conf">>) /\ ~Below(<<"dev", "shm">>, <<"proc">>)
  BY DEF Below
<1>3. ~Below(<<"dev", "shm">>, <<"dev", "null">>) /\ Below(<<"dev">>, <<"dev", "null">>)
  BY DEF Below
<1>4. /\ Ordinary(<<"proc">>) /\ Ordinary(<<"dev">>) /\ Ordinary(<<"dev", "null">>)
      /\ Ordinary(<<"dev", "shm">>) /\ Ordinary(<<"etc", "resolv.conf">>)
  BY DEF Ordinary
<1> QED BY <1>1, <1>2, <1>3, <1>4, Zenon

\* The parts of GapInv that a live setup has.
LEMMA GapNow ==
    ASSUME GapInv, Live, fpc[1] # "done"
    PROVE  Progress /\ Lined /\ Extras /\ Upright /\ NullKept
BY Zenon DEF GapInv, At

\* The parts that its next state needs.
LEMMA GapStep ==
    ASSUME Grown, GapInv, Live, fpc[1] # "done", fpc'[1] # "done",
           NewFound, NewLined, NewAdded, NullSafe, NewNull,
           Progress', fpc'[1] = "mount" => Reached', Given'
    PROVE  GapInv'
<1>1. Lined' /\ Extras' /\ Upright' /\ NullKept'
  BY GapNow, GrownLined, GrownExtras, GrownUpright, GrownNull, Zenon
<1> QED BY <1>1, Zenon DEF GapInv, At

\* The end of a failed setup.
LEMMA GapOver ==
    ASSUME fpc'[1] \in {"failed", "failed_to_prepare", "rolled_back"}
    PROVE  GapInv'
<1>1. fpc'[1] \notin {"prepare", "mount", "remount"} \cup Later
  BY DEF Later
<1>2. /\ fpc'[1] \notin {"dns", "dev", "null", "shm", "cover", "done"}
      /\ fpc'[1] \notin {"null", "shm", "cover", "done"} /\ fpc'[1] \notin {"cover", "done"}
      /\ fpc'[1] \notin {"shm", "cover", "done"}
      /\ fpc'[1] \notin {"dev", "null", "shm", "cover", "done"} /\ fpc'[1] # "mount"
  OBVIOUS
<1> QED BY <1>1, <1>2, Zenon DEF GapInv, Live, Given, At

\* The steps that mount nothing.
LEMMA NothingNew ==
    ASSUME RootTyped, RootTyped', UNCHANGED <<bundle, table>>,
           \A i \in 1 .. Len(tree) : \A q \in RootPaths :
               Ordinary(q) /\ q \in tree[i] => q \in tree'[i]
    PROVE  /\ Grown /\ NewFound /\ NewLined /\ NewAdded /\ NullSafe /\ NewNull
           /\ \A q : Clear(q)
<1>1. Grown /\ \A q : Clear(q)
  BY SameTableGrown, Zenon
<1>2. Len(table) + 1 .. Len(table') = {}
  BY <1>1, GrownLengths
<1>3. \A i \in 1 .. Len(bundle) : ~(i >= Len(table) /\ i < Len(table'))
  BY <1>1, GrownLengths
<1> QED BY <1>1, <1>2, <1>3, Zenon DEF NewFound, NewLined, NewAdded, NullSafe, NewNull

\* No default is given before the bundle is mounted.
LEMMA EarlyGiven ==
    ASSUME fpc'[1] \in {"prepare", "mount", "remount", "detach", "proc"}
    PROVE  Given'
<1>2. /\ fpc'[1] \notin {"dns", "dev", "null", "shm", "cover", "done"}
      /\ fpc'[1] \notin {"null", "shm", "cover", "done"} /\ fpc'[1] \notin {"cover", "done"}
      /\ fpc'[1] \notin {"shm", "cover", "done"}
      /\ fpc'[1] \notin {"dev", "null", "shm", "cover", "done"}
  OBVIOUS
<1> QED BY <1>2, Zenon DEF Given

\* prepare_mount_destination makes the mount point reachable.
LEMMA PrepareMountGap == RootInv /\ RootInv' /\ GapInv /\ PrepareMount => GapInv'
<1> SUFFICES ASSUME RootInv, RootInv', GapInv, PrepareMount PROVE GapInv'
  BY Zenon
<1>1. RootTyped /\ RootTyped' /\ fpc[1] = "prepare" /\ fpc[2] \in Nat \ {0} /\ fpc[2] <= Len(bundle)
  BY Zenon DEF RootInv, PrepareMount, At
<1>2. CASE RootfsGoto("failed_to_prepare")
  <2>1. fpc'[1] = "failed_to_prepare"
    BY <1>2 DEF RootfsGoto
  <2> QED BY <2>1, GapOver, Zenon
<1>3. CASE tree' = Create(Missing(Entry.at)) /\ fpc' = <<"mount", fpc[2]>>
  <2> DEFINE p == Entry.at
  <2>1. fpc'[1] = "mount" /\ fpc'[2] = fpc[2]
    BY <1>3
  <2>2. UNCHANGED <<bundle, table>>
    BY Zenon DEF PrepareMount
  <2>3. p \in RootPaths
    BY <1>1, EntryFacts, Zenon
  <2>4. Missing(p) \in Seq(RootPaths)
    BY <2>3, MissingFacts, Zenon DEF AllMissing
  <2>5. \A i \in 1 .. Len(tree) : tree[i] \subseteq tree'[i]
    BY <1>1, <1>3, <2>4, CreateGrows, Zenon
  <2>6. Live /\ fpc[1] # "done" /\ fpc'[1] # "done"
    BY <1>1, <2>1 DEF Live
  <2>7. /\ Grown /\ NewFound /\ NewLined /\ NewAdded /\ NullSafe /\ NewNull
        /\ \A q : Clear(q)
    BY <1>1, <2>2, <2>5, NothingNew, Zenon
  <2>8. Progress /\ Upright
    BY <2>6, GapNow, Zenon
  <2>9. Progress'
    <3>1. Len(table') = fpc'[2]
      BY <1>1, <2>1, <2>2, <2>8, Zenon DEF Progress, At
    <3>2. fpc'[1] # "prepare" /\ fpc'[1] # "remount" /\ fpc'[1] \notin Later
      BY <2>1 DEF Later
    <3> QED BY <3>1, <3>2, Zenon DEF Progress, At
  <2>10. Entry' = Entry
    BY <2>1, <2>2, Zenon DEF Entry
  <2>11. ASSUME Ordinary(p), NEW q \in RootPaths, Below(q, p) PROVE Exists(q)'
    <3>1. Found(tree', q)
      BY <1>1, <1>3, <2>3, <2>8, <2>11, AllFound, Zenon
    <3>2. q \in Seq(Names)
      BY RootPathsAreSequences, Zenon
    <3>3. Serving(q)' = Serving(q)
      BY <2>7, <3>2, GrownServing, Zenon
    <3> QED BY <2>2, <3>1, <3>3, Zenon DEF Found, Exists
  <2>12. Reached'
    BY <2>10, <2>11, Zenon DEF Reached
  <2>13. Given'
    BY <2>1, EarlyGiven, Zenon
  <2> QED BY <2>6, <2>7, <2>9, <2>12, <2>13, GapStep, Zenon
<1> QED BY <1>2, <1>3, Zenon DEF PrepareMount

\* The mounts of the bundle come first and in order.
LEMMA AttachMountGap == RootInv /\ RootInv' /\ GapInv /\ AttachMount => GapInv'
<1> SUFFICES ASSUME RootInv, RootInv', GapInv, AttachMount PROVE GapInv'
  BY Zenon
<1> DEFINE p == Entry.at
           m == [at |-> p, what |-> "bundle"]
           f == fpc[2]
           n == <<"dev", "null">>
<1>1. RootTyped /\ fpc[1] = "mount" /\ f \in Nat \ {0} /\ f <= Len(bundle)
  BY Zenon DEF RootInv, AttachMount, At
<1>2. p \in RootPaths /\ p \in Seq(Names)
  BY <1>1, EntryFacts, Zenon
<1>3. /\ UNCHANGED <<bundle, created, before>> /\ table' = Append(table, m)
      /\ tree' = Append(tree, {})
      /\ fpc' = IF Entry.twice THEN <<"remount", f>> ELSE <<"prepare", f + 1>>
  BY Zenon DEF AttachMount
<1>4. m \in Mounts /\ m.at = p
  <2> HIDE DEF p
  <2> QED BY <1>2 DEF Mounts
<1>5. Live /\ fpc[1] # "done"
  BY <1>1 DEF Live
<1>6. Progress /\ Upright /\ Reached /\ Len(table) = f
  <2>1. Progress /\ Upright
    BY <1>5, GapNow, Zenon
  <2> QED BY <1>1, <2>1, Zenon DEF Progress, GapInv, At
<1> HIDE DEF m, p
<1>7. /\ Grown /\ Len(table') = Len(table) + 1 /\ table'[Len(table) + 1] = m
      /\ Len(table) + 1 .. Len(table') = {Len(table) + 1}
      /\ \A i \in 1 .. Len(table) : tree'[i] = tree[i]
  <2>1. tree \in Seq(SUBSET RootPaths) /\ Len(tree) = Len(tree)
        /\ \A i \in 1 .. Len(tree) : tree[i] \subseteq tree[i]
    BY <1>1, Zenon DEF RootTyped
  <2> QED BY <1>1, <1>3, <1>4, <2>1, AppendGrown, Zenon
<1>8. ASSUME Ordinary(p), NEW q \in RootPaths, Below(q, p) PROVE Exists(q)'
  <2>1. Found(tree, q)
    BY <1>6, <1>8, Zenon DEF Reached, Found, Exists, p
  <2>2. m.at \in RootPaths /\ Below(q, m.at)
    BY <1>2, <1>4, <1>8, Zenon
  <2> QED BY <1>7, <2>1, <2>2, AppendFound, Zenon
<1>9. NewFound
  BY <1>4, <1>7, <1>8, Zenon DEF NewFound
<1>10. Entry = bundle[f] /\ p = bundle[f].at
  BY Zenon DEF Entry, p
<1> HIDE DEF f
<1>11. NewLined
  <2>1. \A i \in 1 .. Len(bundle) : i >= Len(table) /\ i < Len(table') => i = f
    BY <1>1, <1>6, <1>7
  <2> QED BY <1>6, <1>7, <1>10, <2>1, Zenon DEF NewLined, m
<1>12. NewAdded
  <2>1. ~(Len(table) + 1 >= Len(bundle) + 2)
    BY <1>1, <1>6, <1>7, GrownLengths
  <2> QED BY <1>7, <2>1, Zenon DEF NewAdded
<1>13. n \in RootPaths /\ n \in Seq(Names) /\ n[1] = "dev"
  <2>1. n \in RootPaths
    BY OwnPaths, Zenon
  <2>2. n[1] = "dev"
    OBVIOUS
  <2> QED BY <2>1, <2>2, RootPathsAreSequences, Zenon
<1> HIDE DEF n
<1>14. NewNull
  <2>1. \A i \in 1 .. Len(bundle) : i >= Len(table) /\ i < Len(table') => i = f
    BY <1>1, <1>6, <1>7
  <2>2. ASSUME Below(n, p) PROVE Exists(n)'
    <3>1. p[1] = "dev"
      BY <1>13, <2>2, FirstName, Zenon
    <3>2. Ordinary(p)
      BY <3>1 DEF Ordinary
    <3> QED BY <1>8, <1>13, <2>2, <3>2, Zenon
  <2> QED BY <1>10, <2>1, <2>2, Zenon DEF NewNull, n
<1>15. NullSafe
  <2>1. CASE Below(p, n)
    <3>1. ASSUME NEW i \in 1 .. Len(bundle), i < Len(table), Below(n, bundle[i].at)
          PROVE  OutOfSight(i)
      <4>1. f \in i + 1 .. Len(bundle)
        BY <1>1, <1>6, <3>1, GrownLengths
      <4>2. bundle[i].at \in Seq(Names)
        <5> DEFINE E == [at : RootPaths, twice : BOOLEAN]
        <5>1. bundle \in Seq(E)
          BY <1>1, Zenon DEF RootTyped
        <5> HIDE DEF E
        <5>2. bundle[i] \in E
          BY <5>1
        <5>3. bundle[i].at \in RootPaths
          BY <5>2, Zenon DEF E
        <5> QED BY <5>3, RootPathsAreSequences, Zenon
      <4>3. Below(bundle[f].at, bundle[i].at)
        BY <1>2, <1>10, <1>13, <2>1, <3>1, <4>2, BelowTrans, Zenon
      <4> QED BY <4>1, <4>3, Zenon DEF OutOfSight, CoveredLater
    <3> QED BY <3>1, Zenon DEF NullSafe, n
  <2>2. CASE ~Below(p, n)
    <3>1. Clear(n)
      BY <1>4, <1>7, <2>2, Zenon DEF Clear
    <3> QED BY <3>1, Zenon DEF NullSafe, n
  <2> QED BY <2>1, <2>2, Zenon
<1>16. CASE Entry.twice
  <2>1. fpc'[1] = "remount" /\ fpc'[2] = f
    BY <1>3, <1>16
  <2>2. fpc'[1] # "done" /\ fpc'[1] # "mount" /\ fpc'[1] # "prepare" /\ fpc'[1] \notin Later
    BY <2>1 DEF Later
  <2>3. Progress'
    BY <1>6, <1>7, <2>1, <2>2, Zenon DEF Progress, At
  <2>4. Given'
    BY <2>1, EarlyGiven, Zenon
  <2> QED BY <1>5, <1>7, <1>9, <1>11, <1>12, <1>14, <1>15, <2>2, <2>3, <2>4, GapStep, Zenon
<1>17. CASE ~Entry.twice
  <2>1. fpc'[1] = "prepare" /\ fpc'[2] = f + 1
    BY <1>3, <1>17
  <2>2. fpc'[1] # "done" /\ fpc'[1] # "mount" /\ fpc'[1] # "remount" /\ fpc'[1] \notin Later
    BY <2>1 DEF Later
  <2>3. f + 1 <= Len(bundle) + 1 /\ bundle' = bundle
    BY <1>1, <1>3, <1>7, GrownLengths
  <2>4. Progress'
    BY <1>6, <1>7, <2>1, <2>2, <2>3, Zenon DEF Progress, At
  <2>5. Given'
    BY <2>1, EarlyGiven, Zenon
  <2> QED BY <1>5, <1>7, <1>9, <1>11, <1>12, <1>14, <1>15, <2>2, <2>4, <2>5, GapStep, Zenon
<1> QED BY <1>16, <1>17, Zenon

\* A remount changes no mount point.
LEMMA SecondMountCallGap == RootInv /\ RootInv' /\ GapInv /\ SecondMountCall => GapInv'
<1> SUFFICES ASSUME RootInv, RootInv', GapInv, SecondMountCall PROVE GapInv'
  BY Zenon
<1>1. /\ RootTyped /\ RootTyped' /\ fpc[1] = "remount" /\ fpc[2] \in Nat \ {0} /\ fpc[2] <= Len(bundle)
      /\ fpc' = <<"prepare", fpc[2] + 1>> /\ UNCHANGED <<bundle, tree, table>>
  BY Zenon DEF RootInv, SecondMountCall, At
<1>2. Live /\ fpc[1] # "done"
  BY <1>1 DEF Live
<1>3. /\ fpc'[1] = "prepare" /\ fpc'[2] = fpc[2] + 1 /\ fpc'[1] # "done" /\ fpc'[1] # "mount"
      /\ fpc'[1] # "remount" /\ fpc'[1] \notin Later
  BY <1>1 DEF Later
<1>4. Grown /\ NewFound /\ NewLined /\ NewAdded /\ NullSafe /\ NewNull
  BY <1>1, NothingNew, Zenon
<1>5. Len(table) = fpc[2] + 1
  BY <1>1, <1>2, GapNow, Zenon DEF Progress, At
<1>6. fpc[2] + 1 <= Len(bundle) + 1
  BY <1>1, <1>4, GrownLengths
<1>7. Progress'
  BY <1>1, <1>3, <1>5, <1>6, Zenon DEF Progress, At
<1>8. Given'
  BY <1>3, EarlyGiven, Zenon
<1> QED BY <1>2, <1>3, <1>4, <1>7, <1>8, GapStep, Zenon

\* Creating the missing prefixes of p, and mounting nothing.
LEMMA OnlyCreate ==
    ASSUME RootTyped, RootTyped', NEW p \in RootPaths, tree' = Create(Missing(p)),
           UNCHANGED <<bundle, table>>
    PROVE  /\ Grown /\ NewFound /\ NewLined /\ NewAdded /\ NullSafe /\ NewNull
           /\ \A q : Clear(q)
           /\ Upright /\ Ordinary(p) => Exists(p)'
<1>1. Missing(p) \in Seq(RootPaths)
  BY MissingFacts, Zenon DEF AllMissing
<1>2. \A i \in 1 .. Len(tree) : tree[i] \subseteq tree'[i]
  BY <1>1, CreateGrows, Zenon
<1>3. /\ Grown /\ NewFound /\ NewLined /\ NewAdded /\ NullSafe /\ NewNull
      /\ \A q : Clear(q)
  BY <1>2, NothingNew, Zenon
<1>4. ASSUME Upright, Ordinary(p) PROVE Exists(p)'
  <2>1. p \in Seq(Names)
    BY RootPathsAreSequences, Zenon
  <2>2. Below(p, p)
    BY <2>1 DEF Below
  <2>3. Found(tree', p)
    BY <1>4, <2>2, AllFound, Zenon
  <2>4. Serving(p)' = Serving(p)
    BY <1>3, <2>1, GrownServing, Zenon
  <2> QED BY <2>3, <2>4, Zenon DEF Found, Exists
<1> QED BY <1>3, <1>4, Zenon

\* The pivot changes no mount of the bundle.
LEMMA PivotGap == RootInv /\ RootInv' /\ GapInv /\ Pivot => GapInv'
<1> SUFFICES ASSUME RootInv, RootInv', GapInv, Pivot PROVE GapInv'
  BY Zenon
<1>1. /\ RootTyped /\ RootTyped' /\ fpc[1] = "prepare" /\ fpc[2] > Len(bundle)
      /\ fpc' = <<"detach", 0>> /\ UNCHANGED <<bundle, table>>
      /\ tree' = Create(Missing(<<".old_root">>))
  BY Zenon DEF RootInv, Pivot, At, RootfsGoto
<1>2. Live /\ fpc[1] # "done"
  BY <1>1 DEF Live
<1>3. /\ fpc'[1] = "detach" /\ fpc'[1] # "done" /\ fpc'[1] # "mount"
      /\ fpc'[1] # "remount" /\ fpc'[1] # "prepare"
  BY <1>1
<1>4. Grown /\ NewFound /\ NewLined /\ NewAdded /\ NullSafe /\ NewNull
  BY <1>1, OwnPaths, OnlyCreate, Zenon
<1>5. Len(table) = fpc[2]
  BY <1>1, <1>2, GapNow, Zenon DEF Progress, At
<1>6. Progress'
  BY <1>1, <1>3, <1>5, Zenon DEF Progress, At
<1>7. Given'
  BY <1>3, EarlyGiven, Zenon
<1> QED BY <1>2, <1>3, <1>4, <1>6, <1>7, GapStep, Zenon

\* The steps between the pivot and the last.
Middle == {"detach", "proc", "dns", "dev", "null", "shm", "cover"}

\* What a step between the pivot and the last has to show.
LEMMA MiddleStep ==
    ASSUME Grown, GapInv, fpc[1] \in Middle, fpc'[1] \in Middle, NewFound, NewAdded, NullSafe, Given'
    PROVE  GapInv'
<1>1. Live /\ fpc[1] # "done" /\ fpc[1] \in Later
  BY DEF Live, Later, Middle
<1>2. /\ fpc'[1] # "done" /\ fpc'[1] # "mount" /\ fpc'[1] # "remount"
      /\ fpc'[1] # "prepare"
  BY DEF Later, Middle
<1>3. Len(table) > Len(bundle) /\ bundle' = bundle /\ Len(table) <= Len(table')
  BY <1>1, GapNow, Zenon DEF Progress, Grown
<1>4. /\ Len(table') > Len(bundle)
      /\ \A i \in 1 .. Len(bundle) : ~(i >= Len(table))
  BY <1>3, GrownLengths
<1>5. NewLined /\ NewNull
  BY <1>4, Zenon DEF NewLined, NewNull
<1>6. Progress'
  BY <1>2, <1>3, <1>4, Zenon DEF Progress, At
<1> QED BY <1>1, <1>2, <1>5, <1>6, GapStep, Zenon

\* umount2 and remove_dir of the old root remove nothing else.
LEMMA DetachOldRootGap == RootInv /\ RootInv' /\ GapInv /\ DetachOldRoot => GapInv'
<1> SUFFICES ASSUME RootInv, RootInv', GapInv, DetachOldRoot PROVE GapInv'
  BY Zenon
<1>1. /\ RootTyped /\ RootTyped' /\ fpc[1] = "detach"
      /\ fpc' = <<"proc", 0>> /\ UNCHANGED <<bundle, table>>
      /\ tree' = tree \/ tree' = [tree EXCEPT ![1] = @ \ {<<".old_root">>}]
  BY Zenon DEF RootInv, DetachOldRoot, At, RootfsGoto
<1>2. ~Ordinary(<<".old_root">>)
  BY DEF Ordinary
<1>3. ASSUME NEW i \in 1 .. Len(tree), NEW q \in RootPaths, Ordinary(q), q \in tree[i]
      PROVE  q \in tree'[i]
  <2>1. CASE tree' = tree
    BY <1>3, <2>1, Zenon
  <2>2. CASE tree' = [tree EXCEPT ![1] = @ \ {<<".old_root">>}]
    <3> DEFINE v == tree[1] \ {<<".old_root">>}
    <3>1. tree' = [tree EXCEPT ![1] = v]
      BY <2>2, Zenon
    <3>2. DOMAIN tree = 1 .. Len(tree)
      BY <1>1 DEF RootTyped
    <3>3. q # <<".old_root">>
      BY <1>2, <1>3, Zenon
    <3>4. i = 1 => q \in v
      BY <1>3, <3>3, Zenon
    <3> HIDE DEF v
    <3>5. tree'[i] = IF i = 1 THEN v ELSE tree[i]
      BY <3>1, <3>2
    <3> QED BY <1>3, <3>4, <3>5, Zenon
  <2> QED BY <1>1, <2>1, <2>2, Zenon
<1>4. Grown /\ NewFound /\ NewAdded /\ NullSafe
  BY <1>1, <1>3, NothingNew, Zenon
<1>5. fpc[1] \in Middle /\ fpc'[1] \in Middle /\ fpc'[1] = "proc"
  BY <1>1 DEF Middle
<1>6. Given'
  BY <1>5, EarlyGiven, Zenon
<1> QED BY <1>4, <1>5, <1>6, MiddleStep, Zenon

\* Creating the missing prefixes of p, and a mount there.
LEMMA PutOne ==
    ASSUME RootTyped, Upright, NEW p \in RootPaths, Ordinary(p), NEW m \in Mounts, m.at = p,
           Added(m), tree' = Append(Create(Missing(p)), {}), table' = Append(table, m),
           UNCHANGED <<bundle, created, before>>
    PROVE  /\ Grown /\ NewFound /\ NewAdded
           /\ Len(table') = Len(table) + 1 /\ table'[Len(table) + 1] = m
           /\ \A q : ~Below(p, q) => Clear(q)
           /\ Exists(p)'
<1> DEFINE tr == Create(Missing(p))
<1>1. Missing(p) \in Seq(RootPaths)
  BY MissingFacts, Zenon DEF AllMissing
<1>2. tr \in Seq(SUBSET RootPaths) /\ Len(tr) = Len(tree)
  BY <1>1, CreateFacts, Zenon
<1>3. \A i \in 1 .. Len(tree) : tree[i] \subseteq tr[i]
  BY <1>1, CreateGrows, Zenon
<1>4. \A q \in RootPaths : Below(q, p) => Found(tr, q)
  BY AllFound, Zenon
<1> HIDE DEF tr
<1>5. /\ Grown /\ Len(table') = Len(table) + 1 /\ table'[Len(table) + 1] = m
      /\ Len(table) + 1 .. Len(table') = {Len(table) + 1}
      /\ \A i \in 1 .. Len(table) : tree'[i] = tr[i]
  BY <1>2, <1>3, AppendGrown, Zenon DEF tr
<1>6. \A q \in RootPaths : Below(q, p) => Exists(q)'
  BY <1>4, <1>5, AppendFound, Zenon
<1>7. Below(p, p)
  <2>1. p \in Seq(Names)
    BY RootPathsAreSequences, Zenon
  <2> QED BY <2>1 DEF Below
<1>8. NewFound
  BY <1>5, <1>6, Zenon DEF NewFound
<1>9. NewAdded
  BY <1>5, Zenon DEF NewAdded
<1>10. \A q : ~Below(p, q) => Clear(q)
  BY <1>5, Zenon DEF Clear
<1> QED BY <1>5, <1>6, <1>7, <1>8, <1>9, <1>10, Zenon

\* A step that puts a default at p, or leaves it to the bundle.
LEMMA PutDefault ==
    ASSUME RootInv, RootInv', GapInv, Live, fpc[1] # "done", NEW p \in RootPaths, Ordinary(p),
           NEW step, NEW what, NEW next, MountDefault(step, p, what, next),
           [at |-> p, what |-> what] \in Mounts, ~Declared(p) => Added([at |-> p, what |-> what])
    PROVE  /\ Grown /\ NewFound /\ NewAdded
           /\ \A q : ~Below(p, q) => Clear(q)
           /\ Declared(p) => \A q : Clear(q)
           /\ ~Declared(p) => /\ Len(table') = Len(table) + 1
                              /\ table'[Len(table) + 1] = [at |-> p, what |-> what]
<1> DEFINE m == [at |-> p, what |-> what]
<1>1. m.at = p
  OBVIOUS
<1> HIDE DEF m
<1>2. RootTyped /\ RootTyped' /\ Upright /\ UNCHANGED <<bundle, created, before>>
  BY GapNow, Zenon DEF RootInv, MountDefault
<1>3. CASE Declared(p)
  <2>1. UNCHANGED <<tree, table>>
    BY <1>3, Zenon DEF MountDefault, DefaultNeeded
  <2> QED BY <1>2, <1>3, <2>1, NothingNew, Zenon
<1>4. CASE ~Declared(p)
  <2>1. tree' = Append(Create(Missing(p)), {}) /\ table' = Append(table, m)
    BY <1>4, Zenon DEF MountDefault, DefaultNeeded, m
  <2>2. m \in Mounts /\ Added(m)
    BY <1>4, Zenon DEF m
  <2> QED BY <1>1, <1>2, <1>4, <2>1, <2>2, PutOne, Zenon DEF m
<1> QED BY <1>3, <1>4, Zenon

\* A mount that was added is there.
LEMMA NewMounted ==
    ASSUME Grown, NEW p, NEW what, Len(table') = Len(table) + 1,
           table'[Len(table) + 1] = [at |-> p, what |-> what]
    PROVE  MountedAt(p)'
<1>1. Len(table) + 1 \in 2 .. Len(table')
  BY GrownLengths
<1>2. table'[Len(table) + 1].at = p
  OBVIOUS
<1> QED BY <1>1, <1>2, Zenon DEF MountedAt

\* The default mounts are where the bundle declares none.
LEMMA DefaultMounts ==
    /\ [at |-> <<"proc">>, what |-> "proc"] \in Mounts
    /\ [at |-> <<"dev">>, what |-> "dev"] \in Mounts
    /\ [at |-> <<"dev", "shm">>, what |-> "shm"] \in Mounts
    /\ [at |-> <<"dev", "null">>, what |-> "empty_file"] \in Mounts
    /\ ~Declared(<<"proc">>) => Added([at |-> <<"proc">>, what |-> "proc"])
    /\ ~Declared(<<"dev">>) => Added([at |-> <<"dev">>, what |-> "dev"])
    /\ ~Declared(<<"dev", "shm">>) => Added([at |-> <<"dev", "shm">>, what |-> "shm"])
<1>1. /\ <<"proc">> \in Seq(Names) /\ <<"dev">> \in Seq(Names) /\ <<"dev", "shm">> \in Seq(Names)
      /\ <<"dev", "null">> \in Seq(Names)
  BY OwnPaths, RootPathsAreSequences, Zenon
<1>2. /\ [at |-> <<"proc">>, what |-> "proc"] \in Mounts
      /\ [at |-> <<"dev">>, what |-> "dev"] \in Mounts
      /\ [at |-> <<"dev", "shm">>, what |-> "shm"] \in Mounts
      /\ [at |-> <<"dev", "null">>, what |-> "empty_file"] \in Mounts
  BY <1>1 DEF Mounts
<1>3. ~Declared(<<"proc">>) => Added([at |-> <<"proc">>, what |-> "proc"])
  BY DEF Added
<1>4. ~Declared(<<"dev">>) => Added([at |-> <<"dev">>, what |-> "dev"])
  BY DEF Added
<1>5. ~Declared(<<"dev", "shm">>) => Added([at |-> <<"dev", "shm">>, what |-> "shm"])
  BY DEF Added
<1> QED BY <1>2, <1>3, <1>4, <1>5, Zenon

\* The default /proc.
LEMMA SetupProcGap == RootInv /\ RootInv' /\ GapInv /\ SetupProc => GapInv'
<1> SUFFICES ASSUME RootInv, RootInv', GapInv, SetupProc PROVE GapInv'
  BY Zenon
<1> DEFINE p == <<"proc">>
<1>1. MountDefault("proc", p, "proc", "dns")
  BY Zenon DEF SetupProc
<1>2. fpc[1] = "proc" /\ fpc' = <<"dns", 0>>
  BY <1>1, Zenon DEF MountDefault, At, RootfsGoto
<1>3. fpc[1] \in Middle /\ fpc'[1] \in Middle /\ fpc'[1] = "dns" /\ Live /\ fpc[1] # "done"
  BY <1>2 DEF Middle, Live, Later
<1>4. p \in RootPaths /\ Ordinary(p)
  BY OwnPaths, OwnPathsApart, Zenon
<1>5. /\ Grown /\ NewFound /\ NewAdded /\ \A q : ~Below(p, q) => Clear(q)
      /\ ~Declared(p) => /\ Len(table') = Len(table) + 1
                         /\ table'[Len(table) + 1] = [at |-> p, what |-> "proc"]
  BY <1>1, <1>3, <1>4, DefaultMounts, PutDefault, Zenon
<1>6. NullSafe
  BY <1>5, OwnPathsApart, Zenon DEF NullSafe
<1>7. Declared(p)' = Declared(p)
  BY <1>5, SameBundle, Zenon DEF Grown
<1>8. Declared(p)' \/ MountedAt(p)'
  BY <1>5, <1>7, NewMounted, Zenon
<1>9. /\ fpc'[1] \notin {"null", "shm", "cover", "done"} /\ fpc'[1] \notin {"cover", "done"}
      /\ fpc'[1] \notin {"shm", "cover", "done"}
      /\ fpc'[1] \notin {"dev", "null", "shm", "cover", "done"}
  BY <1>3
<1>10. Given'
  BY <1>8, <1>9, Zenon DEF Given
<1> QED BY <1>3, <1>5, <1>6, <1>10, MiddleStep, Zenon

\* The resolv.conf of setup_dns.
LEMMA SetupDnsGap == RootInv /\ RootInv' /\ GapInv /\ SetupDns => GapInv'
<1> SUFFICES ASSUME RootInv, RootInv', GapInv, SetupDns PROVE GapInv'
  BY Zenon
<1> DEFINE p == <<"etc", "resolv.conf">>
<1>1. /\ RootTyped /\ RootTyped' /\ fpc[1] = "dns" /\ fpc' = <<"dev", 0>>
      /\ UNCHANGED <<bundle, table>>
      /\ tree' = IF Declared(p) THEN tree ELSE Create(Missing(p))
  BY Zenon DEF RootInv, SetupDns, At, RootfsGoto
<1>2. fpc[1] \in Middle /\ fpc'[1] \in Middle /\ fpc'[1] = "dev" /\ Live /\ fpc[1] # "done"
      /\ fpc[1] \in {"dns", "dev", "null", "shm", "cover", "done"}
  BY <1>1 DEF Middle, Live, Later
<1>3. p \in RootPaths /\ Ordinary(p) /\ Upright
  BY <1>2, OwnPaths, OwnPathsApart, GapNow, Zenon
<1>4. Grown /\ NewFound /\ NewAdded /\ NullSafe /\ (~Declared(p) => Exists(p)')
  <2>1. CASE Declared(p)
    <3>1. tree' = tree
      BY <1>1, <2>1, Zenon
    <3> QED BY <1>1, <2>1, <3>1, NothingNew, Zenon
  <2>2. CASE ~Declared(p)
    <3>1. tree' = Create(Missing(p))
      BY <1>1, <2>2, Zenon
    <3> QED BY <1>1, <1>3, <3>1, OnlyCreate, Zenon
  <2> QED BY <2>1, <2>2, Zenon
<1>5. \A q : Declared(q)' = Declared(q)
  BY <1>1, SameBundle, Zenon
<1>6. Declared(<<"proc">>)' \/ MountedAt(<<"proc">>)'
  BY <1>2, <1>4, <1>5, GrownMounted, Zenon DEF GapInv, Given
<1>7. Declared(p)' \/ Kept(p)'
  BY <1>4, <1>5, Zenon DEF Kept
<1>8. /\ fpc'[1] \notin {"null", "shm", "cover", "done"} /\ fpc'[1] \notin {"cover", "done"}
      /\ fpc'[1] \notin {"shm", "cover", "done"}
  BY <1>2
<1>9. Given'
  BY <1>6, <1>7, <1>8, Zenon DEF Given
<1> QED BY <1>2, <1>4, <1>9, MiddleStep, Zenon

\* What the steps before have given.
LEMMA StillGiven ==
    ASSUME Grown, Given
    PROVE  /\ fpc[1] \in {"dns", "dev", "null", "shm", "cover", "done"} =>
                  Declared(<<"proc">>)' \/ MountedAt(<<"proc">>)'
           /\ fpc[1] \in {"null", "shm", "cover", "done"} => Declared(<<"dev">>)' \/ MountedAt(<<"dev">>)'
           /\ fpc[1] \in {"shm", "cover", "done"} /\ Clear(<<"dev", "null">>) => Kept(<<"dev", "null">>)'
           /\ fpc[1] \in {"dev", "null", "shm", "cover", "done"} /\ Clear(<<"etc", "resolv.conf">>) =>
                  Declared(<<"etc", "resolv.conf">>)' \/ Kept(<<"etc", "resolv.conf">>)'
<1>1. \A q : Declared(q)' = Declared(q)
  BY SameBundle, Zenon DEF Grown
<1>2. \A q : MountedAt(q) => MountedAt(q)'
  BY GrownMounted, Zenon
<1>3. \A q \in RootPaths : Ordinary(q) /\ Kept(q) /\ Clear(q) => Kept(q)'
  BY GrownKept, Zenon
<1>4. /\ <<"dev", "null">> \in RootPaths /\ <<"etc", "resolv.conf">> \in RootPaths
      /\ Ordinary(<<"dev", "null">>) /\ Ordinary(<<"etc", "resolv.conf">>)
  BY OwnPaths, OwnPathsApart, Zenon
<1> QED BY <1>1, <1>2, <1>3, <1>4, Zenon DEF Given

\* The default /dev of setup_dev.
LEMMA SetupDevGap == RootInv /\ RootInv' /\ GapInv /\ SetupDev => GapInv'
<1> SUFFICES ASSUME RootInv, RootInv', GapInv, SetupDev PROVE GapInv'
  BY Zenon
<1> DEFINE p == <<"dev">>
<1>1. MountDefault("dev", p, "dev", "null")
  BY Zenon DEF SetupDev
<1>2. fpc[1] = "dev" /\ fpc' = <<"null", 0>>
  BY <1>1, Zenon DEF MountDefault, At, RootfsGoto
<1>3. /\ fpc[1] \in Middle /\ fpc'[1] \in Middle /\ fpc'[1] = "null" /\ Live /\ fpc[1] # "done"
      /\ fpc[1] \in {"dns", "dev", "null", "shm", "cover", "done"}
      /\ fpc[1] \in {"dev", "null", "shm", "cover", "done"}
  BY <1>2 DEF Middle, Live, Later
<1>4. p \in RootPaths /\ Ordinary(p)
  BY OwnPaths, OwnPathsApart, Zenon
<1>5. /\ Grown /\ NewFound /\ NewAdded /\ \A q : ~Below(p, q) => Clear(q)
      /\ Declared(p) => \A q : Clear(q)
      /\ ~Declared(p) => /\ Len(table') = Len(table) + 1
                         /\ table'[Len(table) + 1] = [at |-> p, what |-> "dev"]
  BY <1>1, <1>3, <1>4, DefaultMounts, PutDefault, Zenon
<1>6. NullSafe
  <2>1. CASE Declared(p)
    BY <1>5, <2>1, Zenon DEF NullSafe
  <2>2. CASE ~Declared(p)
    <3>1. ASSUME NEW i \in 1 .. Len(bundle), Below(<<"dev", "null">>, bundle[i].at) PROVE OutOfSight(i)
      <4>1. bundle[i].at \in Seq(Names)
        <5> DEFINE E == [at : RootPaths, twice : BOOLEAN]
        <5>1. bundle \in Seq(E)
          BY Zenon DEF RootInv, RootTyped
        <5> HIDE DEF E
        <5>2. bundle[i] \in E
          BY <5>1
        <5>3. bundle[i].at \in RootPaths
          BY <5>2, Zenon DEF E
        <5> QED BY <5>3, RootPathsAreSequences, Zenon
      <4>2. Below(p, bundle[i].at)
        BY <3>1, <4>1, BelowTrans, OwnPaths, OwnPathsApart, RootPathsAreSequences, Zenon
      <4>3. p \in {<<"proc">>, <<"dev">>, <<"dev", "shm">>}
        BY Zenon
      <4> QED BY <2>2, <4>2, <4>3, Zenon DEF OutOfSight, Overlaid
    <3> QED BY <3>1, Zenon DEF NullSafe
  <2> QED BY <2>1, <2>2, Zenon
<1>7. /\ Declared(<<"proc">>)' \/ MountedAt(<<"proc">>)'
      /\ Declared(<<"etc", "resolv.conf">>)' \/ Kept(<<"etc", "resolv.conf">>)'
  <2>1. Clear(<<"etc", "resolv.conf">>) /\ Given
    BY <1>5, OwnPathsApart, Zenon DEF GapInv
  <2> QED BY <1>3, <1>5, <2>1, StillGiven, Zenon
<1>8. Declared(p)' \/ MountedAt(p)'
  <2>1. Declared(p)' = Declared(p)
    BY <1>5, SameBundle, Zenon DEF Grown
  <2> QED BY <1>5, <2>1, NewMounted, Zenon
<1>9. fpc'[1] \notin {"cover", "done"} /\ fpc'[1] \notin {"shm", "cover", "done"}
  BY <1>3
<1>10. Given'
  BY <1>7, <1>8, <1>9, Zenon DEF Given
<1> QED BY <1>3, <1>5, <1>6, <1>10, MiddleStep, Zenon

\* create_char_device hides nothing that can be seen: it acts only where there is
\* no /dev/null, and then nothing of the bundle below it is in sight.
LEMMA CreateCharDeviceGap == RootInv /\ RootInv' /\ GapInv /\ CreateCharDevice => GapInv'
<1> SUFFICES ASSUME RootInv, RootInv', GapInv, CreateCharDevice PROVE GapInv'
  BY Zenon
<1> DEFINE p == <<"dev", "null">>
           m == [at |-> p, what |-> "empty_file"]
<1>1. /\ RootTyped /\ RootTyped' /\ fpc[1] = "null" /\ fpc' = <<"shm", 0>>
      /\ UNCHANGED <<bundle, created, before>>
  BY Zenon DEF RootInv, CreateCharDevice, At, RootfsGoto
<1>2. /\ fpc[1] \in Middle /\ fpc'[1] \in Middle /\ fpc'[1] = "shm" /\ Live /\ fpc[1] # "done"
      /\ fpc[1] \in {"dns", "dev", "null", "shm", "cover", "done"}
      /\ fpc[1] \in {"dev", "null", "shm", "cover", "done"}
      /\ fpc[1] \in {"null", "shm", "cover", "done"}
  BY <1>1 DEF Middle, Live, Later
<1>3. p \in RootPaths /\ Ordinary(p) /\ Upright /\ NullKept /\ Progress
  BY <1>2, OwnPaths, OwnPathsApart, GapNow, Zenon
<1>4. /\ Grown /\ NewFound /\ NewAdded /\ NullSafe /\ Exists(p)'
      /\ Clear(<<"etc", "resolv.conf">>)
  <2>1. CASE Exists(p)
    <3>1. UNCHANGED <<tree, table>>
      BY <2>1, Zenon DEF CreateCharDevice
    <3>2. /\ Grown /\ NewFound /\ NewLined /\ NewAdded /\ NullSafe /\ NewNull
          /\ \A q : Clear(q)
      BY <1>1, <3>1, NothingNew, Zenon
    <3> QED BY <1>3, <2>1, <3>2, GrownExists, Zenon
  <2>2. CASE ~Exists(p) /\ mknods
    <3>1. tree' = Create(Missing(p)) /\ UNCHANGED table
      BY <2>2, Zenon DEF CreateCharDevice
    <3> QED BY <1>1, <1>3, <3>1, OnlyCreate, Zenon
  <2>3. CASE ~Exists(p) /\ ~mknods
    <3>1. tree' = Append(Create(Missing(p)), {}) /\ table' = Append(table, m)
      BY <2>3, Zenon DEF CreateCharDevice
    <3>2. fpc[1] \in Later
      BY <1>1 DEF Later
    <3>3. \A i \in 1 .. Len(bundle) : i < Len(table)
      <4>1. Len(table) > Len(bundle)
        BY <1>3, <3>2, Zenon DEF Progress
      <4>2. Len(bundle) \in Nat /\ Len(table) \in Nat
        BY <1>1 DEF RootTyped
      <4> QED BY <4>1, <4>2
    <3>4. \A i \in 1 .. Len(bundle) : Below(p, bundle[i].at) => OutOfSight(i)
      BY <1>3, <2>3, <3>3, Zenon DEF NullKept
    <3>5. m \in Mounts /\ m.at = p /\ m.what = "empty_file"
      BY DefaultMounts
    <3> HIDE DEF m
    <3>6. Added(m)
      BY <3>4, <3>5, Zenon DEF Added
    <3>7. Grown /\ NewFound /\ NewAdded /\ (\A q : ~Below(p, q) => Clear(q)) /\ Exists(p)'
      BY <1>1, <1>3, <3>1, <3>5, <3>6, PutOne, Zenon
    <3> QED BY <3>7, OwnPathsApart, Zenon DEF NullSafe
  <2> QED BY <2>1, <2>2, <2>3, Zenon
<1>5. /\ Declared(<<"proc">>)' \/ MountedAt(<<"proc">>)'
      /\ Declared(<<"dev">>)' \/ MountedAt(<<"dev">>)'
      /\ Declared(<<"etc", "resolv.conf">>)' \/ Kept(<<"etc", "resolv.conf">>)'
  BY <1>2, <1>4, StillGiven, Zenon DEF GapInv
<1>6. Kept(p)'
  BY <1>4, Zenon DEF Kept
<1>7. fpc'[1] \notin {"cover", "done"}
  BY <1>2
<1>8. Given'
  BY <1>5, <1>6, <1>7, Zenon DEF Given
<1> QED BY <1>2, <1>4, <1>8, MiddleStep, Zenon

\* The default /dev/shm of setup_dev_shm.
LEMMA SetupDevShmGap == RootInv /\ RootInv' /\ GapInv /\ SetupDevShm => GapInv'
<1> SUFFICES ASSUME RootInv, RootInv', GapInv, SetupDevShm PROVE GapInv'
  BY Zenon
<1> DEFINE p == <<"dev", "shm">>
<1>1. MountDefault("shm", p, "shm", "cover")
  BY Zenon DEF SetupDevShm
<1>2. fpc[1] = "shm" /\ fpc' = <<"cover", 0>>
  BY <1>1, Zenon DEF MountDefault, At, RootfsGoto
<1>3. /\ fpc[1] \in Middle /\ fpc'[1] \in Middle /\ Live /\ fpc[1] # "done"
      /\ fpc[1] \in {"dns", "dev", "null", "shm", "cover", "done"}
      /\ fpc[1] \in {"dev", "null", "shm", "cover", "done"}
      /\ fpc[1] \in {"null", "shm", "cover", "done"} /\ fpc[1] \in {"shm", "cover", "done"}
  BY <1>2 DEF Middle, Live, Later
<1>4. p \in RootPaths /\ Ordinary(p)
  BY OwnPaths, OwnPathsApart, Zenon
<1>5. /\ Grown /\ NewFound /\ NewAdded /\ \A q : ~Below(p, q) => Clear(q)
      /\ ~Declared(p) => /\ Len(table') = Len(table) + 1
                         /\ table'[Len(table) + 1] = [at |-> p, what |-> "shm"]
  BY <1>1, <1>3, <1>4, DefaultMounts, PutDefault, Zenon
<1>6. NullSafe /\ Clear(<<"dev", "null">>) /\ Clear(<<"etc", "resolv.conf">>)
  BY <1>5, OwnPathsApart, Zenon DEF NullSafe
<1>7. /\ Declared(<<"proc">>)' \/ MountedAt(<<"proc">>)'
      /\ Declared(<<"dev">>)' \/ MountedAt(<<"dev">>)'
      /\ Kept(<<"dev", "null">>)'
      /\ Declared(<<"etc", "resolv.conf">>)' \/ Kept(<<"etc", "resolv.conf">>)'
  BY <1>3, <1>5, <1>6, StillGiven, Zenon DEF GapInv
<1>8. Declared(p)' \/ ShmOnTop'
  <2>1. Declared(p)' = Declared(p)
    BY <1>5, SameBundle, Zenon DEF Grown
  <2>2. ASSUME ~Declared(p) PROVE ShmOnTop'
    <3> DEFINE j == Len(table) + 1
    <3>1. j \in 2 .. Len(table') /\ j + 1 .. Len(table') = {}
      BY <1>5, <2>2, GrownLengths
    <3>2. table'[j].at = p /\ table'[j].what = "shm"
      BY <1>5, <2>2
    <3> QED BY <3>1, <3>2, Zenon DEF ShmOnTop
  <2> QED BY <2>1, <2>2, Zenon
<1>9. Given'
  BY <1>7, <1>8, Zenon DEF Given
<1> QED BY <1>3, <1>5, <1>6, <1>9, MiddleStep, Zenon

\* What covering adds to the mount table.
LEMMA Covers ==
    ASSUME RootInv, RootInv', CoverPaths
    PROVE  /\ Grown
           /\ \A k \in Len(table) + 1 .. Len(table') : table'[k].what = "cover" /\ Masked(table'[k].at)
<1> DEFINE S == {q \in Range(Covered) : Exists(q)}
           ps == Picked(Covered, S)
           ms == [i \in 1 .. Len(ps) |-> [at |-> ps[i], what |-> "cover"]]
           es == [i \in 1 .. Len(ps) |-> {}]
           U == SUBSET RootPaths
<1>1. /\ UNCHANGED <<bundle, created, before>> /\ table' = table \o ms /\ tree' = tree \o es
  BY Zenon DEF CoverPaths
<1>2. Covered \in Seq(RootPaths)
  BY RootfsAssumption, Zenon
<1>3. ps \in Seq(RootPaths) /\ Selects(ps, Covered, Len(Covered), S)
  BY <1>2, PickedFacts, Zenon
<1> HIDE DEF ps, S
<1>4. \A i \in 1 .. Len(ps) : Masked(ps[i])
  <2>1. SUFFICES ASSUME NEW i \in 1 .. Len(ps) PROVE Masked(ps[i])
    BY Zenon
  <2>2. PICK k \in 1 .. Len(Covered) : ps[i] = Covered[k]
    BY <1>3, Zenon DEF Selects
  <2>3. Covered[k] \in RootPaths
    BY <1>2
  <2>4. Covered[k] \in Seq(Names)
    BY <2>3, RootPathsAreSequences, Zenon
  <2>5. Below(Covered[k], Covered[k])
    BY <2>4 DEF Below
  <2> QED BY <2>2, <2>5, Zenon DEF Masked
<1>5. \A i \in 1 .. Len(ps) : [at |-> ps[i], what |-> "cover"] \in Mounts
  <2>1. \A i \in 1 .. Len(ps) : ps[i] \in Seq(Names)
    BY <1>3, RootPathsAreSequences
  <2> QED BY <2>1 DEF Mounts
<1>6. Len(ps) \in Nat /\ ms \in Seq(Mounts) /\ Len(ms) = Len(ps)
  BY <1>3, <1>5
<1>7. \A i \in 1 .. Len(ms) : ms[i].what = "cover" /\ Masked(ms[i].at)
  <2>1. \A i \in 1 .. Len(ps) : ms[i] = [at |-> ps[i], what |-> "cover"]
    BY Zenon
  <2> HIDE DEF ms
  <2>2. ASSUME NEW i \in 1 .. Len(ps) PROVE ms[i].what = "cover" /\ ms[i].at = ps[i]
    <3>1. ms[i] = [at |-> ps[i], what |-> "cover"]
      BY <2>1, Zenon
    <3> QED BY <3>1
  <2> QED BY <1>4, <1>6, <2>2, Zenon
<1>8. {} \in U
  BY Zenon
<1> HIDE DEF U, ms
<1>9. es \in Seq(U)
  BY <1>6, <1>8
<1> HIDE DEF es
<1>10. RootTyped /\ RootTyped' /\ table \in Seq(Mounts) /\ tree \in Seq(U) /\ Len(tree) = Len(table)
  BY Zenon DEF RootInv, RootTyped, U
<1>11. Len(table') = Len(table) + Len(ms) /\ Len(table) \in Nat /\ Len(ms) \in Nat
  <2>1. Len(table') = Len(table) + Len(ms)
    BY <1>1, <1>6, <1>10, ConcatLength, Zenon
  <2> QED BY <1>6, <1>10, <2>1
<1>12. \A i \in 1 .. Len(table) : table'[i] = table[i]
  BY <1>1, <1>6, <1>10
<1>13. \A k \in Len(table) + 1 .. Len(table') :
           k - Len(table) \in 1 .. Len(ms) /\ table'[k] = ms[k - Len(table)]
  BY <1>1, <1>6, <1>10, <1>11
<1>14. \A i \in 1 .. Len(tree) : tree'[i] = tree[i]
  BY <1>1, <1>9, <1>10
<1>15. Len(table) <= Len(table')
  BY <1>11
<1>16. Grown
  BY <1>1, <1>10, <1>12, <1>14, <1>15, Zenon DEF Grown
<1> QED BY <1>7, <1>13, <1>16, Zenon

\* A path below a masked one is masked.
LEMMA MaskedBelow ==
    ASSUME NEW p \in Seq(Names), NEW q \in Seq(Names), Masked(p), Below(p, q)
    PROVE  Masked(q)
<1>1. PICK j \in 1 .. Len(Covered) : Below(Covered[j], p)
  BY Zenon DEF Masked
<1>2. Covered[j] \in RootPaths
  BY RootfsAssumption
<1>3. Covered[j] \in Seq(Names)
  BY <1>2, RootPathsAreSequences, Zenon
<1> QED BY <1>1, <1>3, BelowTrans, Zenon DEF Masked

\* The entries of a mount table are mounts.
LEMMA TableTyped ==
    ASSUME NEW tab, Tabled(tab)
    PROVE  \A j \in 1 .. Len(tab) : tab[j] \in Mounts /\ tab[j].at \in Seq(Names)
<1>1. \A j \in 1 .. Len(tab) : tab[j] \in Mounts
  BY DEF Tabled
<1> QED BY <1>1, Zenon DEF Mounts

\* The masked and read-only paths are mounted over what exists.
LEMMA CoverPathsGap == RootInv /\ RootInv' /\ GapInv /\ CoverPaths => GapInv'
<1> SUFFICES ASSUME RootInv, RootInv', GapInv, CoverPaths PROVE GapInv'
  BY Zenon
<1>1. fpc[1] = "cover" /\ fpc' = <<"done", 0>>
  BY Zenon DEF CoverPaths, At, RootfsGoto
<1>2. /\ fpc[1] \in Later /\ Live /\ fpc[1] # "done"
      /\ fpc[1] \in {"dns", "dev", "null", "shm", "cover", "done"}
      /\ fpc[1] \in {"dev", "null", "shm", "cover", "done"}
      /\ fpc[1] \in {"null", "shm", "cover", "done"} /\ fpc[1] \in {"shm", "cover", "done"}
      /\ fpc[1] \in {"cover", "done"}
  BY <1>1 DEF Live, Later
<1>3. /\ Grown
      /\ \A k \in Len(table) + 1 .. Len(table') : table'[k].what = "cover" /\ Masked(table'[k].at)
  BY Covers, Zenon
<1>4. Progress /\ Lined /\ Extras /\ Given
  BY <1>2, GapNow, Zenon DEF GapInv
<1>5. Len(table) > Len(bundle) /\ bundle' = bundle /\ Len(table) <= Len(table')
  BY <1>2, <1>3, <1>4, Zenon DEF Progress, Grown
<1>6. /\ Len(table') > Len(bundle)
      /\ \A i \in 1 .. Len(bundle) : ~(i >= Len(table))
  BY <1>3, <1>5, GrownLengths
<1>7. Lined'
  BY <1>3, <1>4, <1>6, GrownLined, Zenon DEF NewLined
<1>8. Extras'
  BY <1>3, <1>4, GrownExtras, Zenon DEF NewAdded, Added
<1>9. Progress'
  <2>1. fpc'[1] # "mount" /\ fpc'[1] # "remount" /\ fpc'[1] # "prepare"
    BY <1>1
  <2> QED BY <1>5, <1>6, <2>1, Zenon DEF Progress, At
<1>10. (\A q : Declared(q)' = Declared(q)) /\ (\A q : Masked(q)' = Masked(q))
  BY <1>5, SameBundle, Zenon
<1>11. ASSUME NEW q \in RootPaths, Ordinary(q), Kept(q) PROVE Kept(q)'
  <2>1. CASE Clear(q)
    BY <1>3, <1>11, <2>1, GrownKept, Zenon
  <2>2. CASE ~Clear(q)
    <3>1. PICK k \in Len(table) + 1 .. Len(table') : Below(table'[k].at, q)
      BY <2>2, Zenon DEF Clear
    <3>2. k \in 1 .. Len(table')
      BY <1>3, GrownLengths
    <3>3. table'[k].at \in Seq(Names)
      BY <1>3, <3>2, TypedTableAfter, TableTyped, Zenon DEF Grown
    <3>4. Masked(q)
      BY <1>3, <3>1, <3>3, MaskedBelow, RootPathsAreSequences, Zenon
    <3> QED BY <1>10, <3>4, Zenon DEF Kept
  <2> QED BY <2>1, <2>2, Zenon
<1>12. Kept(<<"dev", "null">>)' /\ (Declared(<<"etc", "resolv.conf">>)' \/ Kept(<<"etc", "resolv.conf">>)')
  BY <1>2, <1>4, <1>10, <1>11, OwnPaths, OwnPathsApart, Zenon DEF Given
<1>13. /\ Declared(<<"proc">>)' \/ MountedAt(<<"proc">>)'
       /\ Declared(<<"dev">>)' \/ MountedAt(<<"dev">>)'
  BY <1>2, <1>3, <1>4, StillGiven, Zenon
<1>14. ASSUME ShmOnTop PROVE ShmOnTop'
  <2>1. PICK j \in 2 .. Len(table) : /\ table[j].at = <<"dev", "shm">> /\ table[j].what = "shm"
                                    /\ \A k \in j + 1 .. Len(table) : Masked(table[k].at)
    BY <1>14, Zenon DEF ShmOnTop
  <2>2. j \in 2 .. Len(table') /\ j \in 1 .. Len(table)
    BY <1>3, <1>5, GrownLengths
  <2>3. \A k \in j + 1 .. Len(table') :
            \/ k \in Len(table) + 1 .. Len(table')
            \/ k \in j + 1 .. Len(table) /\ k \in 1 .. Len(table)
    BY <1>3, GrownLengths
  <2>4. \A k \in 1 .. Len(table) : table'[k] = table[k]
    BY <1>3, Zenon DEF Grown
  <2>5. \A k \in j + 1 .. Len(table') : Masked(table'[k].at)
    BY <1>3, <2>1, <2>3, <2>4, Zenon
  <2>6. table'[j] = table[j]
    BY <2>2, <2>4, Zenon
  <2> QED BY <2>1, <2>2, <2>5, <2>6, Zenon DEF ShmOnTop, Masked
<1>15. Declared(<<"dev", "shm">>)' \/ ShmOnTop'
  BY <1>2, <1>4, <1>10, <1>14, Zenon DEF Given
<1>16. Given'
  BY <1>12, <1>13, <1>15, Zenon DEF Given
<1>17. fpc'[1] = "done" /\ fpc'[1] # "mount"
  BY <1>1
<1> QED BY <1>7, <1>8, <1>9, <1>16, <1>17, Zenon DEF GapInv, At

\* GapInv holds when setup_rootfs begins.
LEMMA RootInitGap == RootInit => GapInv
<1> SUFFICES ASSUME RootInit PROVE GapInv
  BY Zenon
<1>1. /\ table = <<[at |-> <<>>, what |-> "root"]>> /\ fpc = <<"prepare", 1>>
  BY Zenon DEF RootInit, RootState
<1>2. bundle \in Seq([at : RootPaths, twice : BOOLEAN])
  BY RootfsAssumption, Zenon DEF RootInit
<1>3. Len(bundle) \in Nat
  <2> DEFINE E == [at : RootPaths, twice : BOOLEAN]
  <2>1. bundle \in Seq(E)
    BY <1>2, Zenon
  <2> HIDE DEF E
  <2> QED BY <2>1
<1>4. Len(table) = 1 /\ fpc[1] = "prepare" /\ fpc[2] = 1
  BY <1>1
<1>5. /\ fpc[1] # "mount" /\ fpc[1] # "remount" /\ fpc[1] \notin Later
      /\ fpc[1] \notin {"dns", "dev", "null", "shm", "cover", "done"}
      /\ fpc[1] \notin {"null", "shm", "cover", "done"} /\ fpc[1] \notin {"cover", "done"}
      /\ fpc[1] \notin {"shm", "cover", "done"}
      /\ fpc[1] \notin {"dev", "null", "shm", "cover", "done"}
  BY <1>4 DEF Later
<1>6. /\ 1 <= Len(bundle) + 1 /\ \A i \in 1 .. Len(bundle) : ~(i < Len(table))
      /\ Len(bundle) + 2 .. Len(table) = {} /\ 2 .. Len(table) = {}
  BY <1>3, <1>4
<1>7. Progress
  BY <1>4, <1>5, <1>6, Zenon DEF Progress, At
<1>8. Lined /\ Extras /\ Upright /\ NullKept
  BY <1>6, Zenon DEF Lined, Extras, Upright, NullKept
<1>9. Given
  BY <1>5, Zenon DEF Given
<1> QED BY <1>5, <1>7, <1>8, <1>9, Zenon DEF GapInv, At

\* Every step of setup_rootfs keeps GapInv.
LEMMA RootStepGap == RootInv /\ RootInv' /\ GapInv /\ [RootNext]_rootVars => GapInv'
<1> SUFFICES ASSUME RootInv, RootInv', GapInv, [RootNext]_rootVars PROVE GapInv'
  BY Zenon
<1>1. CASE UNCHANGED rootVars
  <2>1. UNCHANGED <<bundle, tree, table, fpc>>
    BY <1>1, Zenon DEF rootVars
  <2>2. /\ \A p : Declared(p)' = Declared(p) /\ Overlaid(p)' = Overlaid(p)
        /\ \A p : Masked(p)' = Masked(p)
        /\ \A k : OutOfSight(k)' = OutOfSight(k)
        /\ \A m : Added(m)' = Added(m)
    BY <2>1, SameBundle, Zenon
  <2>3. \A q : Serving(q)' = Serving(q) /\ Exists(q)' = Exists(q)
    BY <2>1, Zenon DEF Serving, Exists
  <2>4. Live' = Live /\ Progress' = Progress /\ Lined' = Lined /\ At("done")' = At("done")
        /\ At("mount")' = At("mount")
    BY <2>1, Zenon DEF Live, Progress, Lined, At
  <2>5. Extras' = Extras
    BY <2>1, <2>2, Zenon DEF Extras
  <2>6. Upright' = Upright /\ NullKept' = NullKept /\ Reached' = Reached
    BY <2>1, <2>2, <2>3, Zenon DEF Upright, NullKept, Reached, Entry
  <2>7. Given' = Given
    <3>1. (\A q : MountedAt(q)' = MountedAt(q)) /\ (\A q : Kept(q)' = Kept(q))
      BY <2>1, <2>2, <2>3, Zenon DEF MountedAt, Kept
    <3>2. ShmOnTop' = ShmOnTop
      BY <2>1, Zenon DEF ShmOnTop, Masked
    <3> QED BY <2>1, <2>2, <3>1, <3>2, Zenon DEF Given
  <2> QED BY <2>4, <2>5, <2>6, <2>7, Zenon DEF GapInv
<1>2. CASE RollbackMount
  <2>1. fpc'[1] = "rolled_back"
    BY <1>2 DEF RollbackMount, RootfsGoto
  <2> QED BY <2>1, GapOver, Zenon
<1>3. CASE RootFails
  <2>1. fpc'[1] = "failed"
    BY <1>3 DEF RootFails, RootfsFails, RootfsGoto
  <2> QED BY <2>1, GapOver, Zenon
<1> QED BY <1>1, <1>2, <1>3, PrepareMountGap, AttachMountGap, SecondMountCallGap, PivotGap,
           DetachOldRootGap, SetupProcGap, SetupDnsGap, SetupDevGap, CreateCharDeviceGap,
           SetupDevShmGap, CoverPathsGap, Zenon DEF RootNext

-----------------------------------------------------------------------------
\* Nothing is in the default /dev before create_char_device, and afterwards its
\* /dev/null is what the program finds.
NullFresh == OnTop(<<"dev", "null">>).what = "dev" /\ ~Exists(<<"dev", "null">>)
NullInv ==
    /\ At("null") => Declared(<<"dev">>) \/ NullFresh
    /\ fpc[1] \in {"shm", "cover", "done"} =>
           Declared(<<"dev">>) \/ Shows(<<"dev", "null">>, NullServedBy)

\* A mount that was added last serves what is below it.
LEMMA LastServes ==
    ASSUME Grown, NEW m, Len(table') = Len(table) + 1, table'[Len(table) + 1] = m,
           NEW q \in Seq(Names), Below(m.at, q)
    PROVE  Serving(q)' = Len(table) + 1 /\ OnTop(q)' = m
<1> DEFINE k == Len(table) + 1
<1>1. k \in 1 .. Len(table') /\ k + 1 .. Len(table') = {}
  BY GrownLengths
<1>2. Tabled(table')
  BY TypedTableAfter, Zenon DEF Grown
<1>3. Below(table'[k].at, q)
  BY Zenon
<1> HIDE DEF k
<1>4. Served(table', q) = k
  BY <1>1, <1>2, <1>3, ServedIs, Zenon
<1> QED BY <1>4, ServingAfterIsServed, Zenon DEF OnTop, k

\* What serves a path serves it after a step that mounts nothing above it.
LEMMA ClearServes ==
    ASSUME Grown, NEW q \in Seq(Names), Clear(q)
    PROVE  OnTop(q)' = OnTop(q)
<1>1. Serving(q)' = Serving(q)
  BY GrownServing, Zenon
<1>2. Serving(q) \in 1 .. Len(table)
  BY ServedFacts, TypedTable, ServingIsServed, Zenon DEF Grown
<1> QED BY <1>1, <1>2, Zenon DEF OnTop, Grown

\* The default /dev begins empty.
LEMMA SetupDevNull == RootInv /\ RootInv' /\ GapInv /\ SetupDev => NullInv'
<1> SUFFICES ASSUME RootInv, RootInv', GapInv, SetupDev PROVE NullInv'
  BY Zenon
<1> DEFINE p == <<"dev">>
           n == <<"dev", "null">>
           m == [at |-> p, what |-> "dev"]
<1>1. MountDefault("dev", p, "dev", "null") /\ RootTyped /\ bundle' = bundle
  BY Zenon DEF SetupDev, MountDefault, RootInv
<1>2. fpc[1] = "dev" /\ fpc' = <<"null", 0>>
  BY <1>1, Zenon DEF MountDefault, At, RootfsGoto
<1>3. Live /\ fpc[1] # "done" /\ fpc'[1] \notin {"shm", "cover", "done"}
  BY <1>2 DEF Live, Later
<1>4. p \in RootPaths /\ Ordinary(p) /\ n \in Seq(Names) /\ Below(p, n)
  BY OwnPaths, OwnPathsApart, RootPathsAreSequences, Zenon
<1>5. Declared(p)' = Declared(p)
  BY <1>1, SameBundle, Zenon
<1>6. ASSUME ~Declared(p) PROVE NullFresh'
  <2>1. Grown /\ Len(table') = Len(table) + 1 /\ table'[Len(table) + 1] = m
    BY <1>1, <1>3, <1>4, <1>6, DefaultMounts, PutDefault, Zenon
  <2>2. m.at = p /\ m.what = "dev" /\ p # n
    OBVIOUS
  <2> HIDE DEF m
  <2>3. Serving(n)' = Len(table) + 1 /\ OnTop(n)' = m
    BY <1>4, <2>1, <2>2, LastServes, Zenon
  <2>4. tree'[Len(table) + 1] = {}
    <3> DEFINE U == SUBSET RootPaths
               tr == Create(Missing(p))
    <3>1. tree' = Append(tr, {})
      BY <1>1, <1>6, Zenon DEF MountDefault, DefaultNeeded
    <3>2. tr \in Seq(U) /\ Len(tr) = Len(table)
      <4>1. Missing(p) \in Seq(RootPaths)
        BY <1>1, <1>4, MissingFacts, Zenon DEF AllMissing
      <4>2. tr \in Seq(U) /\ Len(tr) = Len(tree)
        BY <1>1, <4>1, CreateFacts, Zenon
      <4> QED BY <1>1, <4>2, Zenon DEF RootTyped
    <3> HIDE DEF U, tr
    <3> QED BY <3>1, <3>2
  <2> QED BY <2>1, <2>2, <2>3, <2>4, Zenon DEF NullFresh, Exists
<1> QED BY <1>3, <1>5, <1>6, Zenon DEF NullInv

\* create_char_device makes a device, or binds an empty file on itself.
LEMMA CreateCharDeviceNull ==
    RootInv /\ RootInv' /\ GapInv /\ NullInv /\ CreateCharDevice => NullInv'
<1> SUFFICES ASSUME RootInv, RootInv', GapInv, NullInv, CreateCharDevice PROVE NullInv'
  BY Zenon
<1> DEFINE n == <<"dev", "null">>
           m == [at |-> n, what |-> "empty_file"]
<1>1. /\ RootTyped /\ RootTyped' /\ fpc[1] = "null" /\ fpc' = <<"shm", 0>>
      /\ UNCHANGED <<bundle, mknods, created, before>>
  BY Zenon DEF RootInv, CreateCharDevice, At, RootfsGoto
<1>2. fpc'[1] # "null" /\ Live /\ fpc[1] # "done"
  BY <1>1 DEF Live, Later
<1>3. n \in RootPaths /\ n \in Seq(Names) /\ Upright /\ Ordinary(n)
  BY <1>2, OwnPaths, OwnPathsApart, RootPathsAreSequences, GapNow, Zenon
<1>4. Declared(<<"dev">>)' = Declared(<<"dev">>)
  BY <1>1, SameBundle, Zenon
<1>5. ASSUME ~Declared(<<"dev">>) PROVE Shows(n, NullServedBy)'
  <2>1. NullFresh
    BY <1>1, <1>5, Zenon DEF NullInv, At
  <2>2. CASE mknods
    <3>1. table' = table /\ NullServedBy' = "dev"
      BY <1>1, <2>1, <2>2, Zenon DEF CreateCharDevice, NullFresh, NullServedBy
    <3>2. OnTop(n)' = OnTop(n)
      BY <3>1, Zenon DEF OnTop, Serving
    <3> QED BY <2>1, <3>1, <3>2, Zenon DEF Shows, NullFresh
  <2>3. CASE ~mknods
    <3>1. tree' = Append(Create(Missing(n)), {}) /\ table' = Append(table, m)
      BY <2>1, <2>3, Zenon DEF CreateCharDevice, NullFresh
    <3>2. NullServedBy' = "empty_file"
      BY <1>1, <2>3, Zenon DEF NullServedBy
    <3>3. m \in Mounts /\ m.at = n /\ m.what = "empty_file"
      BY DefaultMounts
    <3> HIDE DEF m
    <3>4. Grown /\ Len(table') = Len(table) + 1 /\ table'[Len(table) + 1] = m
      <4> DEFINE tr == Create(Missing(n))
      <4>1. Missing(n) \in Seq(RootPaths)
        BY <1>1, <1>3, MissingFacts, Zenon DEF AllMissing
      <4>2. tr \in Seq(SUBSET RootPaths) /\ Len(tr) = Len(tree)
        BY <1>1, <4>1, CreateFacts, Zenon
      <4>3. \A i \in 1 .. Len(tree) : tree[i] \subseteq tr[i]
        BY <1>1, <4>1, CreateGrows, Zenon
      <4> QED BY <1>1, <3>1, <3>3, <4>2, <4>3, AppendGrown, Zenon
    <3>5. Below(n, n)
      BY <1>3 DEF Below
    <3>6. OnTop(n)' = m
      BY <1>3, <3>3, <3>4, <3>5, LastServes, Zenon
    <3> QED BY <3>2, <3>3, <3>6, Zenon DEF Shows
  <2> QED BY <2>2, <2>3, Zenon
<1> QED BY <1>2, <1>4, <1>5, Zenon DEF NullInv, At

\* Neither the default /dev/shm nor what is covered later replaces it.
LEMMA LaterNull ==
    ASSUME RootInv, RootInv', GapInv, NullInv, SetupDevShm \/ CoverPaths
    PROVE  NullInv'
<1> DEFINE n == <<"dev", "null">>
<1>1. /\ fpc[1] \in {"shm", "cover"} /\ fpc'[1] \in {"cover", "done"}
      /\ UNCHANGED <<bundle, mknods>>
  BY DEF SetupDevShm, CoverPaths, MountDefault, At, RootfsGoto
<1>2. /\ fpc[1] \in {"shm", "cover", "done"} /\ fpc'[1] # "null" /\ Live /\ fpc[1] # "done"
  BY <1>1 DEF Live, Later
<1>3. n \in Seq(Names)
  BY OwnPaths, RootPathsAreSequences, Zenon
<1>4. /\ Declared(<<"dev">>)' = Declared(<<"dev">>) /\ Masked(n)' = Masked(n)
      /\ NullServedBy' = NullServedBy
  BY <1>1, SameBundle, Zenon DEF NullServedBy
<1>5. Grown /\ (Clear(n) \/ Masked(n))
  <2>1. CASE SetupDevShm
    <3>1. MountDefault("shm", <<"dev", "shm">>, "shm", "cover")
      BY <2>1, Zenon DEF SetupDevShm
    <3> QED BY <1>2, <3>1, OwnPaths, OwnPathsApart, DefaultMounts, PutDefault, Zenon
  <2>2. CASE CoverPaths
    <3>1. /\ Grown
          /\ \A k \in Len(table) + 1 .. Len(table') : Masked(table'[k].at)
      BY <2>2, Covers, Zenon
    <3>2. ASSUME NEW k \in Len(table) + 1 .. Len(table'), Below(table'[k].at, n) PROVE Masked(n)
      <4>1. k \in 1 .. Len(table')
        BY <3>1, GrownLengths
      <4>2. table'[k].at \in Seq(Names)
        BY <3>1, <4>1, TypedTableAfter, TableTyped, Zenon DEF Grown
      <4> QED BY <1>3, <3>1, <3>2, <4>2, MaskedBelow, Zenon
    <3> QED BY <3>1, <3>2, Zenon DEF Clear
  <2> QED BY <2>1, <2>2, Zenon
<1>6. ASSUME Shows(n, NullServedBy) PROVE Shows(n, NullServedBy)'
  <2>1. CASE Masked(n)
    BY <1>4, <2>1, Zenon DEF Shows
  <2>2. CASE ~Masked(n)
    <3>1. OnTop(n)' = OnTop(n)
      BY <1>3, <1>5, <2>2, ClearServes, Zenon
    <3> QED BY <1>4, <1>6, <2>2, <3>1, Zenon DEF Shows
  <2> QED BY <2>1, <2>2, Zenon
<1> QED BY <1>2, <1>4, <1>6, Zenon DEF NullInv, At

\* Every step of setup_rootfs keeps NullInv.
LEMMA RootStepNull ==
    RootInv /\ RootInv' /\ GapInv /\ NullInv /\ [RootNext]_rootVars => NullInv'
<1> SUFFICES ASSUME RootInv, RootInv', GapInv, NullInv, [RootNext]_rootVars PROVE NullInv'
  BY Zenon
<1>1. CASE UNCHANGED rootVars
  <2>1. UNCHANGED <<bundle, mknods, tree, table, fpc>>
    BY <1>1, Zenon DEF rootVars
  <2>2. \A q : Serving(q)' = Serving(q) /\ Exists(q)' = Exists(q) /\ OnTop(q)' = OnTop(q)
    BY <2>1, Zenon DEF Serving, Exists, OnTop
  <2>3. /\ Declared(<<"dev">>)' = Declared(<<"dev">>) /\ NullServedBy' = NullServedBy
        /\ \A q : Masked(q)' = Masked(q)
    BY <2>1, SameBundle, Zenon DEF NullServedBy
  <2>4. NullFresh' = NullFresh
    BY <2>2, Zenon DEF NullFresh
  <2>5. Shows(<<"dev", "null">>, NullServedBy)' = Shows(<<"dev", "null">>, NullServedBy)
    BY <2>2, <2>3, Zenon DEF Shows
  <2> QED BY <2>1, <2>3, <2>4, <2>5, Zenon DEF NullInv, At
<1>2. CASE \/ PrepareMount \/ AttachMount \/ SecondMountCall \/ RollbackMount \/ Pivot
           \/ DetachOldRoot \/ SetupProc \/ SetupDns \/ RootFails
  <2>1. fpc'[1] \in {"prepare", "mount", "remount", "rolled_back", "failed_to_prepare", "failed",
                     "detach", "proc", "dns", "dev"}
    BY <1>2 DEF PrepareMount, AttachMount, SecondMountCall, RollbackMount, Pivot, DetachOldRoot,
                SetupProc, SetupDns, RootFails, RootfsFails, MountDefault, RootfsGoto
  <2>2. fpc'[1] # "null" /\ fpc'[1] \notin {"shm", "cover", "done"}
    BY <2>1
  <2> QED BY <2>2, Zenon DEF NullInv, At
<1>3. CASE SetupDevShm \/ CoverPaths
  BY <1>3, LaterNull, Zenon
<1> QED BY <1>1, <1>2, <1>3, SetupDevNull, CreateCharDeviceNull, Zenon DEF RootNext

\* What serves a path that a mount of the bundle or a default is at.
LEMMA ServedBy ==
    ASSUME RootInv, GapInv, At("done"), NEW q \in Seq(Names), NEW j \in 2 .. Len(table),
           Below(table[j].at, q)
    PROVE  /\ Serving(q) \in 2 .. Len(table) /\ j <= Serving(q)
           /\ \/ \E i \in 1 .. Len(bundle) : OnTop(q) = [at |-> bundle[i].at, what |-> "bundle"]
              \/ Added(OnTop(q))
           /\ Below(OnTop(q).at, q) /\ OnTop(q).at \in Seq(Names)
<1> DEFINE s == Serving(q)
<1>1. Tabled(table) /\ Len(table) \in Nat /\ Len(bundle) \in Nat
  <2>1. RootTyped
    BY Zenon DEF RootInv
  <2>2. Len(bundle) \in Nat
    BY <2>1 DEF RootTyped
  <2>3. Tabled(table)
    BY <2>1, TypedTable, Zenon
  <2> QED BY <2>2, <2>3 DEF Tabled
<1>2. Live /\ Lined /\ Extras
  <2>1. Live
    BY DEF Live, Later, At
  <2> QED BY <2>1, Zenon DEF GapInv
<1>3. j \in 1 .. Len(table)
  BY <1>1
<1>4. s \in 1 .. Len(table) /\ Below(table[s].at, q) /\ j <= s
  BY <1>1, <1>3, ServedFacts, ServingIsServed, Zenon
<1>5. table[s] \in Mounts /\ table[s].at \in Seq(Names)
  BY <1>1, <1>4, TableTyped, Zenon
<1> HIDE DEF s
<1>6. s \in 2 .. Len(table)
  BY <1>1, <1>4
<1>7. \/ \E i \in 1 .. Len(bundle) : table[s] = [at |-> bundle[i].at, what |-> "bundle"]
      \/ Added(table[s])
  <2>1. CASE s \in Len(bundle) + 2 .. Len(table)
    BY <1>2, <1>5, <2>1, Zenon DEF Extras
  <2>2. CASE s \notin Len(bundle) + 2 .. Len(table)
    <3> DEFINE i == s - 1
    <3>1. i \in 1 .. Len(bundle) /\ i < Len(table) /\ i + 1 = s
      BY <1>1, <1>6, <2>2
    <3> HIDE DEF i
    <3> QED BY <1>2, <3>1, Zenon DEF Lined
  <2> QED BY <2>1, <2>2, Zenon
<1> QED BY <1>4, <1>5, <1>6, <1>7, Zenon DEF OnTop, s

\* What the invariants say of a finished setup is DefaultsFillGaps.
LEMMA GapsFilled == RootInv /\ GapInv /\ NullInv => DefaultsFillGaps
<1> SUFFICES ASSUME RootInv, GapInv, NullInv, At("done") PROVE DefaultsFillGaps
  BY Zenon DEF DefaultsFillGaps, MountsInSight, DefaultsGiven
<1>1. /\ fpc[1] \in {"dns", "dev", "null", "shm", "cover", "done"}
      /\ fpc[1] \in {"null", "shm", "cover", "done"} /\ fpc[1] \in {"cover", "done"}
      /\ fpc[1] \in {"shm", "cover", "done"} /\ fpc[1] \in {"dev", "null", "shm", "cover", "done"}
      /\ Live /\ fpc[1] \in Later
  BY DEF At, Live, Later
<1>2. Given /\ Progress /\ Lined /\ Extras
  BY <1>1, Zenon DEF GapInv
<1>3. ASSUME NEW i \in 1 .. Len(bundle) PROVE bundle[i].at \in RootPaths /\ bundle[i].at \in Seq(Names)
  <2> DEFINE E == [at : RootPaths, twice : BOOLEAN]
  <2>1. bundle \in Seq(E)
    BY Zenon DEF RootInv, RootTyped
  <2> HIDE DEF E
  <2>2. bundle[i] \in E
    BY <2>1
  <2>3. bundle[i].at \in RootPaths
    BY <2>2, Zenon DEF E
  <2> QED BY <2>3, RootPathsAreSequences, Zenon
<1>4. Len(table) \in Nat /\ Len(bundle) \in Nat /\ Len(table) > Len(bundle) /\ Tabled(table)
  <2>1. RootTyped /\ Len(table) > Len(bundle)
    BY <1>1, <1>2, Zenon DEF Progress, RootInv
  <2>2. Len(table) \in Nat /\ Len(bundle) \in Nat
    BY <2>1 DEF RootTyped
  <2> QED BY <2>1, <2>2, TypedTable, Zenon
<1>5. ASSUME NEW i \in 1 .. Len(bundle)
      PROVE  i + 1 \in 1 .. Len(table) /\ table[i + 1] = [at |-> bundle[i].at, what |-> "bundle"]
                                       /\ table[i + 1].at = bundle[i].at
  <2>1. i < Len(table) /\ i + 1 \in 1 .. Len(table)
    BY <1>4
  <2>2. table[i + 1] = [at |-> bundle[i].at, what |-> "bundle"]
    BY <1>2, <2>1, Zenon DEF Lined
  <2> QED BY <2>1, <2>2
<1>6. MountsInSight
  <2>1. SUFFICES ASSUME NEW i \in 1 .. Len(bundle), ~Masked(bundle[i].at)
                 PROVE  Serving(bundle[i].at) = i + 1 <=> ~OutOfSight(i)
    BY Zenon DEF MountsInSight, OutOfSight
  <2> DEFINE b == bundle[i].at
             s == Serving(b)
  <2>2. b \in Seq(Names) /\ Below(b, b)
    <3>1. b \in Seq(Names)
      BY <1>3, Zenon
    <3> HIDE DEF b
    <3> QED BY <3>1 DEF Below
  <2>3. /\ s \in 1 .. Len(table) /\ Below(table[s].at, b)
        /\ \A k \in 1 .. Len(table) : Below(table[k].at, b) => k <= s
    BY <1>4, <2>2, ServedFacts, ServingIsServed, Zenon
  <2>4. i + 1 <= s
    BY <1>5, <2>2, <2>3, Zenon
  <2> HIDE DEF s
  <2>5. ASSUME s # i + 1 PROVE OutOfSight(i)
    <3>1. CASE s \in Len(bundle) + 2 .. Len(table)
      <4>1. table[s] \in Mounts /\ table[s].at \in Seq(Names)
        BY <1>4, <2>3, TableTyped, Zenon
      <4>2. Added(table[s])
        BY <1>2, <3>1, <4>1, Zenon DEF Extras
      <4>3. CASE Masked(table[s].at)
        BY <2>1, <2>2, <2>3, <4>1, <4>3, MaskedBelow, Zenon
      <4>4. CASE table[s].at = <<"dev", "null">>
                 /\ \A k \in 1 .. Len(bundle) : Below(<<"dev", "null">>, bundle[k].at) => OutOfSight(k)
        BY <2>3, <4>4, Zenon
      <4>5. CASE \E d \in {<<"proc">>, <<"dev">>, <<"dev", "shm">>} : table[s].at = d /\ ~Declared(d)
        BY <2>3, <4>5, Zenon DEF OutOfSight, Overlaid
      <4> QED BY <4>2, <4>3, <4>4, <4>5, Zenon DEF Added
    <3>2. CASE s \notin Len(bundle) + 2 .. Len(table)
      <4> DEFINE k == s - 1
      <4>1. k \in i + 1 .. Len(bundle) /\ k \in 1 .. Len(bundle) /\ k + 1 = s
        BY <1>4, <2>3, <2>4, <2>5, <3>2
      <4> HIDE DEF k
      <4>2. Below(bundle[k].at, b)
        BY <1>5, <2>3, <4>1, Zenon
      <4> QED BY <4>1, <4>2, Zenon DEF OutOfSight, CoveredLater
    <3> QED BY <3>1, <3>2, Zenon
  <2>6. ASSUME OutOfSight(i) PROVE s # i + 1
    <3>1. PICK k \in i + 2 .. Len(table) : Below(table[k].at, b)
      <4>1. CASE \E j \in i + 1 .. Len(bundle) : Below(bundle[j].at, b)
        <5>1. PICK j \in i + 1 .. Len(bundle) : Below(bundle[j].at, b)
          BY <4>1, Zenon
        <5>2. j \in 1 .. Len(bundle) /\ j + 1 \in i + 2 .. Len(table)
          BY <1>4
        <5> QED BY <1>5, <5>1, <5>2, Zenon
      <4>2. CASE Overlaid(b)
        <5>1. PICK d \in {<<"proc">>, <<"dev">>, <<"dev", "shm">>} : ~Declared(d) /\ Below(d, b)
          BY <4>2, Zenon DEF Overlaid
        <5>2. MountedAt(d)
          BY <1>1, <1>2, <5>1, Zenon DEF Given, ShmOnTop, MountedAt
        <5>3. PICK j \in 2 .. Len(table) : table[j].at = d
          BY <5>2, Zenon DEF MountedAt
        <5>4. j \notin 2 .. Len(bundle) + 1
          <6>1. SUFFICES ASSUME j \in 2 .. Len(bundle) + 1 PROVE FALSE
            BY Zenon
          <6> DEFINE k == j - 1
          <6>2. k \in 1 .. Len(bundle) /\ k + 1 = j
            BY <1>4, <6>1
          <6> HIDE DEF k
          <6>3. bundle[k].at = d
            BY <1>5, <5>3, <6>2, Zenon
          <6> QED BY <5>1, <6>2, <6>3, Zenon DEF Declared
        <5>5. j \in i + 2 .. Len(table)
          BY <1>4, <5>4
        <5> QED BY <5>1, <5>3, <5>5, Zenon
      <4> QED BY <2>1, <2>6, <4>1, <4>2, Zenon DEF OutOfSight, CoveredLater
    <3>2. k \in 1 .. Len(table)
      BY <1>4
    <3>3. k <= s
      BY <2>3, <3>1, <3>2, Zenon
    <3> QED BY <1>4, <2>3, <3>3
  <2> QED BY <2>5, <2>6, Zenon DEF s
<1>7. /\ <<"proc">> \in Seq(Names) /\ <<"dev", "shm">> \in Seq(Names)
      /\ <<"dev", "null">> \in Seq(Names)
  BY OwnPaths, RootPathsAreSequences, Zenon
<1>8. Declared(<<"proc">>) \/ Shows(<<"proc">>, "proc")
  <2> SUFFICES ASSUME ~Declared(<<"proc">>) PROVE Shows(<<"proc">>, "proc")
    BY Zenon
  <2> DEFINE q == <<"proc">>
             m == OnTop(q)
  <2>1. PICK j \in 2 .. Len(table) : table[j].at = q
    BY <1>1, <1>2, Zenon DEF Given, MountedAt
  <2>2. Below(table[j].at, q)
    BY <2>1 DEF Below
  <2>3. /\ \/ \E i \in 1 .. Len(bundle) : m = [at |-> bundle[i].at, what |-> "bundle"]
           \/ Added(m)
        /\ Below(m.at, q) /\ m.at \in Seq(Names)
    BY <1>7, <2>2, ServedBy, Zenon
  <2> HIDE DEF m
  <2>4. ~\E i \in 1 .. Len(bundle) : m = [at |-> bundle[i].at, what |-> "bundle"]
    <3>1. SUFFICES ASSUME NEW i \in 1 .. Len(bundle), m = [at |-> bundle[i].at, what |-> "bundle"]
                   PROVE  FALSE
      BY Zenon
    <3>2. m.at = bundle[i].at /\ m.at \in RootPaths
      BY <1>3, <3>1
    <3>3. Len(m.at) = Len(q)
      <4>1. Len(m.at) \in Nat /\ Len(m.at) # 0
        BY <3>2 DEF RootPaths
      <4>2. Len(m.at) <= 1 /\ Len(q) = 1
        BY <2>3 DEF Below
      <4>3. \A l \in Nat : l # 0 /\ l <= 1 => l = 1
        OBVIOUS
      <4> QED BY <4>1, <4>2, <4>3, Zenon
    <3>4. m.at = q
      BY <1>7, <2>3, <3>3, BelowSame, Zenon
    <3> QED BY <3>2, <3>4, Zenon DEF Declared
  <2>5. CASE m.what = "cover" /\ Masked(m.at)
    BY <1>7, <2>3, <2>5, MaskedBelow, Zenon DEF Shows
  <2> QED BY <2>3, <2>4, <2>5, OwnPathsApart, Zenon DEF Added, Shows, m
<1>9. Declared(<<"dev", "shm">>) \/ Shows(<<"dev", "shm">>, "shm")
  <2> SUFFICES ASSUME ~Declared(<<"dev", "shm">>) PROVE Shows(<<"dev", "shm">>, "shm")
    BY Zenon
  <2> DEFINE q == <<"dev", "shm">>
             s == Serving(q)
  <2>1. PICK j \in 2 .. Len(table) : /\ table[j].at = q /\ table[j].what = "shm"
                                    /\ \A k \in j + 1 .. Len(table) : Masked(table[k].at)
    BY <1>1, <1>2, Zenon DEF Given, ShmOnTop
  <2>2. Below(table[j].at, q)
    BY <2>1 DEF Below
  <2>3. s \in 2 .. Len(table) /\ j <= s /\ Below(table[s].at, q) /\ table[s].at \in Seq(Names)
    BY <1>7, <2>2, ServedBy, Zenon DEF OnTop
  <2> HIDE DEF s
  <2>4. s = j \/ s \in j + 1 .. Len(table)
    BY <2>3
  <2>5. CASE s = j
    BY <2>1, <2>5, Zenon DEF Shows, OnTop, s
  <2>6. CASE s \in j + 1 .. Len(table)
    BY <1>7, <2>1, <2>3, <2>6, MaskedBelow, Zenon DEF Shows
  <2> QED BY <2>4, <2>5, <2>6, Zenon
<1>10. DefaultsGiven
  BY <1>1, <1>2, <1>8, <1>9, Zenon DEF DefaultsGiven, Given, Kept, NullInv
<1> QED BY <1>6, <1>10, Zenon DEF DefaultsFillGaps

\* For every bundle and every directory: each default of setup_rootfs is there where
\* the bundle declares none, and of the declared mounts exactly those are hidden that
\* a default or the bundle itself is mounted over (declared_destinations, setup_dev).
THEOREM DefaultsAreGaps == RootSpec => []DefaultsFillGaps
<1> DEFINE I == RootInv /\ GapInv /\ NullInv
<1>1. RootInit => I
  <2> SUFFICES ASSUME RootInit PROVE I
    BY Zenon
  <2>1. fpc[1] = "prepare"
    BY DEF RootInit, RootState
  <2>2. fpc[1] # "null" /\ fpc[1] \notin {"shm", "cover", "done"}
    BY <2>1
  <2> QED BY <2>2, RootInitInv, RootInitGap, Zenon DEF NullInv, At
<1>2. I /\ [RootNext]_rootVars => I'
  <2> SUFFICES ASSUME I, [RootNext]_rootVars PROVE I'
    BY Zenon
  <2>1. RootInv'
    BY RootStepInv, Zenon
  <2> QED BY <2>1, RootStepGap, RootStepNull, Zenon
<1>3. I => DefaultsFillGaps
  BY GapsFilled, Zenon
<1> QED BY <1>1, <1>2, <1>3, PTL DEF RootSpec
=============================================================================
