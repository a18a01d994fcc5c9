----------------------------- MODULE RootfsDiff -----------------------------
(***************************************************************************)
(* `minicrun diff` (rootfs_diff.rs): what a container changed in its       *)
(* rootfs, read off the upper directory of its overlay.  The container     *)
(* changes files through the merged directory; overlayfs keeps the changes *)
(* in the upper one, a deletion as a 0:0 device, a directory that hides    *)
(* the one below it as a directory with an attribute (an opaque one).  How *)
(* overlayfs does that is the kernel's.                                    *)
(*                                                                         *)
(* The code knows a second form of both: a file `.wh.x' for a deleted x,   *)
(* a file `.wh..wh..opq' in an opaque directory.  To overlayfs these are   *)
(* ordinary files: they are there when the container writes them.          *)
(*                                                                         *)
(* A path is a sequence of names; a file is anything but a directory and,  *)
(* in the lower directory, a symbolic link.                                *)
(***************************************************************************)
EXTENDS Naturals, Sequences, Functions

CONSTANTS
    Paths,      \* the paths of the container, closed under prefixes
    Lowers,     \* the lower directories tried: functions from Paths to kinds
    Marks       \* the files with a name that starts with `.wh.' it may write: records of
                \* the path it is `of' and its `form', "deleted" or "opaque"

VARIABLES
    lower,      \* the lower directory: absent, file, dir or link for each path
    found,      \* what Path::exists answers for a path of the lower directory
    upper,      \* the upper directory: also none, whiteout and opaque
    marks       \* the marks in the upper directory

diffVars == <<lower, found, upper, marks>>

\* The directories on the way to p.
Above(p) == {SubSeq(p, 1, n) : n \in 1..(Len(p) - 1)}

ASSUME PathsAssumption ==
    /\ \A p \in Paths : p \in Seq(Range(p)) /\ Above(p) \subseteq Paths
    /\ \A l \in Lowers : \A p \in Paths :
           l[p] \in {"absent", "file", "dir", "link"}
               /\ (l[p] # "absent" => \A a \in Above(p) : l[a] = "dir")
    /\ Marks \subseteq [of : Paths, form : {"deleted", "opaque"}]
----------------------------------------------------------------------------
(* overlayfs *)

Hides(p) == upper[p] \in {"file", "whiteout", "opaque"}

\* What the container sees at p.
Merged(p) ==
    CASE upper[p] = "file" -> "file"
      [] upper[p] \in {"dir", "opaque"} -> "dir"
      [] upper[p] = "whiteout" -> "absent"
      [] upper[p] = "none" -> IF \E a \in Above(p) : Hides(a) THEN "absent" ELSE lower[p]

Holds(p) == \A a \in Above(p) : Merged(a) = "dir"

\* The upper directory after p changed: the directories above it are copied up.
CopiedUp(p, kind) ==
    [q \in Paths |-> CASE q = p -> kind
                       [] q \in Above(p) /\ upper[q] = "none" -> "dir"
                       [] p \in Above(q) /\ kind \in {"none", "whiteout"} -> "none"
                       [] OTHER -> upper[q]]

BelowShows(p) == lower[p] # "absent" /\ \A a \in Above(p) : ~Hides(a)

\* The directories on the way to a mark, which lies beside the path or in it.
Home(m) == Above(m.of) \cup (IF m.form = "opaque" THEN {m.of} ELSE {})

WriteFile(p) ==
    /\ Holds(p) /\ Merged(p) \in {"absent", "file", "link"}
    /\ upper' = CopiedUp(p, "file") /\ UNCHANGED <<lower, found, marks>>

MakeDirectory(p) ==
    /\ Holds(p) /\ Merged(p) = "absent"
    /\ upper' = CopiedUp(p, IF upper[p] = "whiteout" THEN "opaque" ELSE "dir")
    /\ UNCHANGED <<lower, found, marks>>

RemovePath(p) ==
    /\ Holds(p) /\ Merged(p) # "absent"
    /\ \A q \in Paths : p \in Above(q) => Merged(q) = "absent"
    /\ \A m \in marks : p \notin Home(m)
    /\ upper' = CopiedUp(p, IF BelowShows(p) THEN "whiteout" ELSE "none")
    /\ UNCHANGED <<lower, found, marks>>

WriteMark(m) ==
    /\ m \notin marks /\ \A a \in Home(m) : Merged(a) = "dir"
    /\ marks' = marks \cup {m}
    /\ upper' = [q \in Paths |-> IF q \in Home(m) /\ upper[q] = "none" THEN "dir" ELSE upper[q]]
    /\ UNCHANGED <<lower, found>>

RemoveMark(m) == m \in marks /\ marks' = marks \ {m} /\ UNCHANGED <<lower, found, upper>>

\* A path below a link of the lower directory: the host follows the link.
BelowLink(p) == \E a \in Above(p) : lower[a] = "link"

\* Path::exists follows links, on the host and not in the container: what a link leads
\* to may be there or not.
ExistsOnHost ==
    \A p \in Paths : /\ lower[p] \in {"file", "dir"} => found[p]
                     /\ lower[p] = "absent" /\ found[p] => BelowLink(p)
                     /\ found[p] => \A a \in Above(p) : found[a]

DiffInit ==
    /\ lower \in Lowers /\ found \in [Paths -> BOOLEAN] /\ ExistsOnHost
    /\ upper = [p \in Paths |-> "none"] /\ marks = {}

DiffAbsent ==
    /\ lower = [p \in Paths |-> "unmounted"] /\ found = [p \in Paths |-> FALSE]
    /\ upper = [p \in Paths |-> "none"] /\ marks = {}

DiffNext == \/ \E p \in Paths : WriteFile(p) \/ MakeDirectory(p) \/ RemovePath(p)
            \/ \E m \in Marks : WriteMark(m) \/ RemoveMark(m)

DiffSpec == DiffInit /\ [][DiffNext]_diffVars
----------------------------------------------------------------------------
(* rootfs_diff.rs *)

NoWhiteout(kind) == FALSE

IsWhiteout(kind) == kind = "whiteout"

IsDir(kind) == kind \in {"dir", "opaque"}

\* The recursion enters every directory of the upper one.
Entered(dirs) == \A a \in dirs : IsDir(upper[a])

\* What collect_diff_entries pushes for one entry of the upper directory.
EntryKinds(p) ==
    CASE upper[p] = "none" -> {}
      [] IsWhiteout(upper[p]) -> {"deleted"}
      [] IsDir(upper[p]) -> IF found[p] THEN {} ELSE {"created"}
      [] OTHER -> IF found[p] THEN {"modified"} ELSE {"created"}

\* What it pushes for a mark instead of the file's own line.
MarkKind(m) == IF m.form = "deleted" THEN "deleted" ELSE "modified"

\* The sorted entries without duplicates: a set.
DiffEntries ==
    {e \in Paths \X {"created", "modified", "deleted"} :
        \/ Entered(Above(e[1])) /\ e[2] \in EntryKinds(e[1])
        \/ \E m \in marks : m.of = e[1] /\ MarkKind(m) = e[2] /\ Entered(Home(m))}
----------------------------------------------------------------------------
Removed(p) == lower[p] # "absent" /\ Merged(p) = "absent"

(***************************************************************************)
(* What a line of the diff says.  A created path is there, and was not or  *)
(* was a link the host cannot follow.  A modified path is there, and was   *)
(* or is below a link that the host follows, or is a directory in which    *)
(* the container wrote `.wh..wh..opq'.  A deleted path was there and is    *)
(* not, or the container wrote `.wh.x' beside x.                           *)
(***************************************************************************)
DiffIsTrue ==
    \A p \in Paths :
        /\ <<p, "created">> \in DiffEntries =>
              Merged(p) # "absent" /\ (lower[p] = "absent" \/ (lower[p] = "link" /\ ~found[p]))
        /\ <<p, "modified">> \in DiffEntries =>
              \/ Merged(p) # "absent" /\ (lower[p] # "absent" \/ BelowLink(p))
              \/ Merged(p) = "dir" /\ [of |-> p, form |-> "opaque"] \in marks
        /\ <<p, "deleted">> \in DiffEntries =>
              Removed(p) \/ [of |-> p, form |-> "deleted"] \in marks

(***************************************************************************)
(* What the diff leaves out.  A new path has its line, if it is not below  *)
(* a link that the host follows.  A directory that became a file has its   *)
(* line.  A path that vanished has a line or lies below one, or below a    *)
(* directory that was removed and made again: overlayfs makes that one     *)
(* opaque by an attribute, and the code only looks for the mark            *)
(* (is_opaque_marker; the test of opaque directories at rootfs_diff.rs 259 *)
(* writes that file).  A file that became a directory, and the files that  *)
(* are marks, have no line.                                                *)
(***************************************************************************)
DiffIsComplete ==
    \A p \in Paths :
        /\ Merged(p) # "absent" /\ lower[p] = "absent" =>
              <<p, "created">> \in DiffEntries \/ BelowLink(p)
        /\ Merged(p) = "file" /\ lower[p] = "dir" => <<p, "modified">> \in DiffEntries
        /\ Removed(p) => \E a \in Above(p) \cup {p} :
              \/ <<a, "deleted">> \in DiffEntries
              \/ <<a, "modified">> \in DiffEntries /\ Merged(a) = "file"
              \/ upper[a] = "opaque" /\ Merged(a) = "dir"

\* What `minicrun diff' says of a container's root file system (diff_overlay_dirs): the
\* lines are true and none is missing, with the exceptions above and no others.
DiffIsExplained == DiffIsTrue /\ DiffIsComplete
=============================================================================
