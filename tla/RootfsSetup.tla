----------------------------- MODULE RootfsSetup -----------------------------
(***************************************************************************)
(* The root file system of a container (filesystem/mod.rs): setup_rootfs   *)
(* mounts what the bundle declares, creating the mount points it misses,   *)
(* pivots, adds a default /proc, resolv.conf, /dev and /dev/shm, and then  *)
(* the masked and read-only paths are covered.  Any call may fail.         *)
(*                                                                         *)
(* A path is the sequence of its components.  The mount table is a         *)
(* sequence that begins with the root: a path belongs to the last mount    *)
(* whose mount point is a prefix of it.                                    *)
(***************************************************************************)
EXTENDS Naturals, Sequences, FiniteSetsExt, Functions

CONSTANTS
    Names,     \* the components of paths
    Bundles,   \* the mount lists that a bundle may declare: destinations, and
               \* whether a second mount call follows (propagation, or the
               \* read-only remount of a bind)
    Roots,     \* the sets of paths that its directory may have
    Covered    \* its masked and read-only paths

RootPaths == Seq(Names) \ {<<>>}

\* A destination is below the root, a directory has the parents of what it has, and
\* nothing in it has the name that is used for the old root.
ASSUME RootfsAssumption ==
    /\ {"proc", "dev", "shm", "null", "etc", "resolv.conf", ".old_root"} \subseteq Names
    /\ Bundles \subseteq Seq([at : RootPaths, twice : BOOLEAN])
    /\ Covered \in Seq(RootPaths)
    /\ Roots \subseteq SUBSET RootPaths
    /\ \A t \in Roots : /\ <<".old_root">> \notin t
                       /\ \A p \in t : \A n \in 1 .. Len(p) : SubSeq(p, 1, n) \in t

VARIABLES
    bundle,    \* the declared mounts
    mknods,    \* whether mknod is permitted: not in a user namespace
    tree,      \* tree[i]: the paths that exist in mount i; tree[1] is on disk
    table,     \* table[i]: the mount point of mount i and what is mounted there
    fpc,       \* the next step, and the mount it is about
    created,   \* created_paths of the mount in progress, parents first
    before     \* what was on disk at first, and when the mount in progress began

rootVars == <<bundle, mknods, tree, table, fpc, created, before>>

\* q is p or below it.
Below(p, q) == Len(p) <= Len(q) /\ \A i \in 1 .. Len(p) : p[i] = q[i]

Serving(p) == Max({i \in 1 .. Len(table) : Below(table[i].at, p)})
Exists(p) == p = table[Serving(p)].at \/ p \in tree[Serving(p)]
PathPrefixes(p) == [n \in 1 .. Len(p) |-> SubSeq(p, 1, n)]
Parent(p) == SubSeq(p, 1, Len(p) - 1)

\* The members of S in ps, in their order there.
Picked(ps, S) ==
    LET kept[n \in 0 .. Len(ps)] ==
            IF n = 0 THEN <<>>
            ELSE IF ps[n] \in S THEN Append(kept[n - 1], ps[n]) ELSE kept[n - 1]
    IN  kept[Len(ps)]

\* prospective_created_paths.
Missing(p) == Picked(PathPrefixes(p), {q \in Range(PathPrefixes(p)) : ~Exists(q)})

\* The missing prefixes are created in the mount of the first that exists.
Create(ps) == IF ps = <<>> THEN tree ELSE [tree EXCEPT ![Serving(ps[1])] = @ \cup Range(ps)]

RootState(step) ==
    /\ created = <<>> /\ fpc = step
    /\ table = <<[at |-> <<>>, what |-> "root"]>>
    /\ before = [first |-> tree[1], now |-> tree[1]]

RootInit ==
    /\ bundle \in Bundles /\ mknods \in BOOLEAN
    /\ tree \in {<<t>> : t \in Roots}
    /\ RootState(<<"prepare", 1>>)

RootAbsent ==
    /\ bundle = <<>> /\ mknods = TRUE /\ tree = <<{}>>
    /\ RootState(<<"absent", 0>>)

At(step) == fpc[1] = step
RootfsGoto(step) == fpc' = <<step, 0>>
Entry == bundle[fpc[2]]

\* Any step may fail; the child reports the error and ends.
RootfsFails == RootfsGoto("failed") /\ UNCHANGED <<bundle, mknods, tree, table, created, before>>

-----------------------------------------------------------------------------
(* setup_mounts. *)

\* prepare_mount_destination: what was created stays when a later component
\* cannot be created or opened.
PrepareMount ==
    /\ At("prepare") /\ fpc[2] <= Len(bundle)
    /\ created' = Missing(Entry.at)
    /\ before' = [before EXCEPT !.now = tree[1]]
    /\ \/ tree' = Create(Missing(Entry.at)) /\ fpc' = <<"mount", fpc[2]>>
       \/ /\ \E n \in 0 .. Len(Missing(Entry.at)) : tree' = Create(SubSeq(Missing(Entry.at), 1, n))
          /\ RootfsGoto("failed_to_prepare")
    /\ UNCHANGED <<bundle, mknods, table>>

AttachMount ==
    /\ At("mount")
    /\ table' = Append(table, [at |-> Entry.at, what |-> "bundle"])
    /\ tree' = Append(tree, {})
    /\ fpc' = IF Entry.twice THEN <<"remount", fpc[2]>> ELSE <<"prepare", fpc[2] + 1>>
    /\ UNCHANGED <<bundle, mknods, created, before>>

SecondMountCall ==
    /\ At("remount") /\ fpc' = <<"prepare", fpc[2] + 1>>
    /\ UNCHANGED <<bundle, mknods, tree, table, created, before>>

\* Mutant: parents before children.
ParentsFirst(s) == s

\* remove_dir of the created paths, in this order: one that is not empty stays.
RemovalOrder(s) == [i \in 1 .. Len(s) |-> s[Len(s) + 1 - i]]

Empty(p, t) == ~\E q \in t : q # p /\ Below(p, q)

RemoveAll(ps, t) ==
    LET left[i \in 0 .. Len(ps)] ==
            IF i = 0 THEN t
            ELSE IF Empty(ps[i], left[i - 1]) THEN left[i - 1] \ {ps[i]} ELSE left[i - 1]
    IN  left[Len(ps)]

\* rollback: unmount what was mounted, and remove what was created for it.
RollbackMount ==
    /\ At("mount") \/ At("remount")
    /\ LET n == IF At("remount") THEN Len(table) - 1 ELSE Len(table)
       IN  /\ table' = SubSeq(table, 1, n)
           /\ tree' = [i \in 1 .. n |->
                  IF created # <<>> /\ i = Serving(Parent(created[1]))
                  THEN RemoveAll(RemovalOrder(created), tree[i]) ELSE tree[i]]
    /\ RootfsGoto("rolled_back")
    /\ UNCHANGED <<bundle, mknods, created, before>>

-----------------------------------------------------------------------------
(* The pivot and the defaults. *)

\* declared_destinations.
Declared(p) == \E i \in 1 .. Len(bundle) : bundle[i].at = p

Pivot ==
    /\ At("prepare") /\ fpc[2] > Len(bundle)
    /\ tree' = Create(Missing(<<".old_root">>))
    /\ RootfsGoto("detach")
    /\ UNCHANGED <<bundle, mknods, table, created, before>>

\* umount2 and remove_dir of the old root; a failure of the latter is logged.
DetachOldRoot ==
    /\ At("detach")
    /\ tree' \in {tree, [tree EXCEPT ![1] = @ \ {<<".old_root">>}]}
    /\ RootfsGoto("proc")
    /\ UNCHANGED <<bundle, mknods, table, created, before>>

\* Mutant: the default is mounted whatever the bundle declares.
DefaultAlways(p) == TRUE

DefaultNeeded(p) == ~Declared(p)

MountDefault(step, p, what, next) ==
    /\ At(step) /\ RootfsGoto(next)
    /\ IF DefaultNeeded(p)
       THEN /\ tree' = Append(Create(Missing(p)), {})
            /\ table' = Append(table, [at |-> p, what |-> what])
       ELSE UNCHANGED <<tree, table>>
    /\ UNCHANGED <<bundle, mknods, created, before>>

SetupProc == MountDefault("proc", <<"proc">>, "proc", "dns")
SetupDev == MountDefault("dev", <<"dev">>, "dev", "null")
SetupDevShm == MountDefault("shm", <<"dev", "shm">>, "shm", "cover")

SetupDns ==
    /\ At("dns") /\ RootfsGoto("dev")
    /\ tree' = IF Declared(<<"etc", "resolv.conf">>) THEN tree
               ELSE Create(Missing(<<"etc", "resolv.conf">>))
    /\ UNCHANGED <<bundle, mknods, table, created, before>>

\* create_char_device.  Where mknod is refused it makes an empty file and binds
\* the path of the device to it, which by then is that file.
CreateCharDevice ==
    /\ At("null") /\ RootfsGoto("shm")
    /\ IF Exists(<<"dev", "null">>) THEN UNCHANGED <<tree, table>>
       ELSE IF mknods
       THEN tree' = Create(Missing(<<"dev", "null">>)) /\ UNCHANGED table
       ELSE /\ tree' = Append(Create(Missing(<<"dev", "null">>)), {})
            /\ table' = Append(table, [at |-> <<"dev", "null">>, what |-> "empty_file"])
    /\ UNCHANGED <<bundle, mknods, created, before>>

\* remount_root_readonly and apply_oci_linux_paths: paths that do not exist are
\* skipped.
CoverPaths ==
    /\ At("cover") /\ RootfsGoto("done")
    /\ LET ps == Picked(Covered, {q \in Range(Covered) : Exists(q)})
       IN  /\ table' = table \o [i \in 1 .. Len(ps) |-> [at |-> ps[i], what |-> "cover"]]
           /\ tree' = tree \o [i \in 1 .. Len(ps) |-> {}]
    /\ UNCHANGED <<bundle, mknods, created, before>>

RootFails ==
    /\ fpc[1] \in {"detach", "proc", "dns", "dev", "null", "shm", "cover"}
    /\ RootfsFails

RootNext ==
    \/ PrepareMount \/ AttachMount \/ SecondMountCall \/ RollbackMount \/ Pivot
    \/ DetachOldRoot \/ SetupProc \/ SetupDns \/ SetupDev \/ CreateCharDevice \/ SetupDevShm
    \/ CoverPaths \/ RootFails

RootSpec == RootInit /\ [][RootNext]_rootVars

-----------------------------------------------------------------------------
OnTop(p) == table[Serving(p)]

\* What the bundle's directory had is never removed, whatever fails.
DirectoryKept == before.first \subseteq tree[1]

\* A mount that fails leaves no mount point behind: the directory is as it was
\* when that mount began, also when the mount points of others are inside it.
RollbackComplete == At("rolled_back") => tree[1] = before.now

\* A mount that is rolled back gives the bundle's directory back as it was: no more
\* and no less is removed than this mount has created (prospective_created_paths,
\* rollback).  A mount point that cannot be prepared is not rolled back.
RollbackExact == DirectoryKept /\ RollbackComplete

Masked(p) == \E j \in 1 .. Len(Covered) : Below(Covered[j], p)

\* A later mount of the bundle, or a masked or read-only path, is above mount i.
CoveredLater(i) ==
    \/ \E j \in i + 1 .. Len(bundle) : Below(bundle[j].at, bundle[i].at)
    \/ Masked(bundle[i].at)

\* It is at or below a default mount that the bundle leaves to the runtime.
Overlaid(p) ==
    \E d \in {<<"proc">>, <<"dev">>, <<"dev", "shm">>} : ~Declared(d) /\ Below(d, p)

\* Which declared mounts the program finds at their destinations.  It does not find
\* those that the bundle itself covers, and none below a /proc, /dev or /dev/shm that
\* the bundle does not declare: the default is mounted over them, although
\* filesystem/mod.rs 244 says that the bundle owns any destination it declares.
\* It finds all the others.
MountsInSight ==
    At("done") =>
        \A i \in 1 .. Len(bundle) :
            LET p == bundle[i].at
            IN  Masked(p) \/ (Serving(p) = i + 1 <=> ~(Overlaid(p) \/ CoveredLater(i)))

\* What the default /dev has as /dev/null: a device where mknod is permitted, and
\* otherwise an empty file that is bound on itself and is no device.
NullServedBy == IF mknods THEN "dev" ELSE "empty_file"

Shows(p, what) == Masked(p) \/ OnTop(p).what = what

\* Each default is there exactly where the bundle declares none, whatever it has on
\* its disk: a /proc, a /dev/shm, a /dev with what create_char_device makes of
\* /dev/null, and a resolv.conf; masked and read-only paths are above them.
DefaultsGiven ==
    At("done") =>
        /\ Declared(<<"proc">>) \/ Shows(<<"proc">>, "proc")
        /\ Declared(<<"dev", "shm">>) \/ Shows(<<"dev", "shm">>, "shm")
        /\ Declared(<<"dev">>) \/ Shows(<<"dev", "null">>, NullServedBy)
        /\ Masked(<<"dev", "null">>) \/ Exists(<<"dev", "null">>)
        /\ \/ Declared(<<"etc", "resolv.conf">>) \/ Masked(<<"etc", "resolv.conf">>)
           \/ Exists(<<"etc", "resolv.conf">>)

\* The default mounts go where the bundle declares none, and hide of what it declares
\* exactly what is below them (declared_destinations, setup_dev).
DefaultsFillGaps == MountsInSight /\ DefaultsGiven
=============================================================================
