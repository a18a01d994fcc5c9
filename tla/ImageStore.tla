------------------------------ MODULE ImageStore ------------------------------
(***************************************************************************)
(* The image store (image.rs).  An import of an archive under a name       *)
(* refuses a name that is taken, makes the directory, walks the archive    *)
(* once to check it (preflight_archive), unpacks it entry by entry and     *)
(* last creates and writes config.json, which makes the image visible to   *)
(* list and run-image; on an error it removes the directory, unless the    *)
(* directory itself could not be made.  Importers of one name run          *)
(* concurrently, any system call may fail, and an importer may be killed.  *)
(***************************************************************************)
EXTENDS Naturals, Sequences, FiniteSetsExt, Functions

CONSTANTS
    Importers,
    Archives,      \* the archives: sequences of entries [path, kind, size]
    MaxEntries, MaxFileBytes, MaxUnpackedBytes,
    Perishable     \* the importers that may be killed

\* An archive is a sequence of entries with sizes, and the limits are numbers.
ASSUME ArchivesAssumption ==
    \A a \in Archives : a \in Seq(Range(a)) /\ \A e \in Range(a) : e.size \in Nat

ASSUME LimitsAssumption == {MaxEntries, MaxFileBytes, MaxUnpackedBytes} \subseteq Nat

VARIABLES
    alone,     \* no importer starts while another is at work
    archive,   \* archive[i]: the archive of i
    ipc,       \* ipc[i]: the next step
    cursor,    \* cursor[i]: the entry that it unpacks next
    rootfs,    \* the paths under rootfs, each with its size
    taken,     \* the image directory exists
    config     \* config.json beside rootfs: "none", "partial" (being written) or "whole"

imageVars == <<alone, archive, ipc, cursor, rootfs, taken, config>>

ImageState(step) ==
    /\ ipc = [i \in Importers |-> step] /\ cursor = [i \in Importers |-> 1]
    /\ rootfs = {} /\ taken = FALSE /\ config = "none"

ImageInit ==
    /\ alone \in BOOLEAN
    /\ archive \in [Importers -> Archives]
    /\ ImageState("idle")

ImageAbsent == alone = TRUE /\ archive = [i \in Importers |-> <<>>] /\ ImageState("unused")

-----------------------------------------------------------------------------
(* preflight_archive. *)

\* The size of the first n entries.
Bytes(a, n) ==
    LET total[k \in 0 .. n] == IF k = 0 THEN 0 ELSE total[k - 1] + a[k].size IN total[n]

SizeAllowed(a, n) == a[n].size <= MaxFileBytes /\ Bytes(a, n) <= MaxUnpackedBytes

\* Links and paths that leave the rootfs have the kind "escaping", devices,
\* fifos and the like "special"; only files have a size.
EntryAllowed(a, n) ==
    /\ n <= MaxEntries
    /\ a[n].kind \notin {"escaping", "special"}
    /\ SizeAllowed(a, n)

Preflight(a) == \A n \in 1..Len(a) : EntryAllowed(a, n)

-----------------------------------------------------------------------------
(* import_into. *)

Importing(i) == ipc[i] \notin {"idle", "over", "refused", "failed", "stuck", "dead", "unused"}

Proceed(i, from, to) ==
    /\ ipc[i] = from
    /\ ipc' = [ipc EXCEPT ![i] = to]

\* Mutant: the name is not looked up.
NeverTaken == FALSE

NameTaken == taken

\* It also ends here when there is no such archive or no image root.
CheckName(i) ==
    /\ alone => \A j \in Importers : ~Importing(j)
    /\ Proceed(i, "idle", "refused") \/ Proceed(i, "idle", IF NameTaken THEN "refused" ELSE "mkdir")
    /\ UNCHANGED <<alone, archive, cursor, rootfs, taken, config>>

\* create_dir_all also succeeds when the directory is there; when it fails, perhaps
\* after making the image directory, import_into returns and removes nothing.
MakeImageDir(i) ==
    /\ \/ Proceed(i, "mkdir", "preflight") /\ taken' = TRUE
       \/ Proceed(i, "mkdir", "stuck") /\ taken' \in {taken, TRUE}
    /\ UNCHANGED <<alone, archive, cursor, rootfs, config>>

PreflightArchive(i) ==
    /\ Proceed(i, "preflight", 
          IF ~Preflight(archive[i]) THEN "cleanup"
          ELSE IF archive[i] = <<>> THEN "config" ELSE "unpack")
    /\ UNCHANGED <<alone, archive, cursor, rootfs, taken, config>>

\* unpack, which overwrites nothing; an error (also of a directory that was
\* removed) ends it.
UnpackEntry(i) ==
    /\ LET e == archive[i][cursor[i]]
           last == cursor[i] = Len(archive[i])
       IN  \/ /\ Proceed(i, "unpack", IF last THEN "config" ELSE "unpack")
              /\ taken /\ (e.kind = "dir" \/ \A f \in rootfs : f.path # e.path)
              /\ rootfs' = rootfs \cup {e}
              /\ cursor' = [cursor EXCEPT ![i] = IF last THEN @ ELSE @ + 1]
           \/ Proceed(i, "unpack", "cleanup") /\ UNCHANGED <<cursor, rootfs>>
    /\ UNCHANGED <<alone, archive, taken, config>>

\* fs::write creates, or truncates, the file before it writes.
CreateConfig(i) ==
    /\ \/ taken /\ Proceed(i, "config", "write") /\ config' = "partial"
       \/ Proceed(i, "config", "cleanup") /\ UNCHANGED config
    /\ UNCHANGED <<alone, archive, cursor, rootfs, taken>>

\* A file that was removed meanwhile is written all the same.
WriteMinimalConfig(i) ==
    /\ \/ Proceed(i, "write", "over") /\ config' = IF config = "none" THEN config ELSE "whole"
       \/ Proceed(i, "write", "cleanup") /\ UNCHANGED config
    /\ UNCHANGED <<alone, archive, cursor, rootfs, taken>>

\* remove_dir_all; when it fails, the name stays taken by whatever is left.
RemoveImageDir(i) ==
    /\ \/ Proceed(i, "cleanup", "failed") /\ taken' = FALSE /\ rootfs' = {} /\ config' = "none"
       \/ /\ Proceed(i, "cleanup", "stuck")
          /\ rootfs' \in SUBSET rootfs /\ config' \in {config, "none"} /\ UNCHANGED taken
    /\ UNCHANGED <<alone, archive, cursor>>

KillImporter(i) ==
    /\ i \in Perishable /\ Importing(i)
    /\ ipc' = [ipc EXCEPT ![i] = "dead"]
    /\ UNCHANGED <<alone, archive, cursor, rootfs, taken, config>>

ImageNext ==
    \E i \in Importers :
        \/ CheckName(i) \/ MakeImageDir(i) \/ PreflightArchive(i) \/ UnpackEntry(i)
        \/ CreateConfig(i) \/ WriteMinimalConfig(i) \/ RemoveImageDir(i) \/ KillImporter(i)

ImageSpec == ImageInit /\ [][ImageNext]_imageVars

-----------------------------------------------------------------------------
\* What list_from shows and bundle_path gives to run-image.
Listed == taken /\ config # "none"

\* When imports do not overlap, an image with a whole config is one whole archive:
\* neither a part of one nor of two, whoever failed or was killed before.
ListedIsWhole ==
    (alone /\ Listed /\ config = "whole") =>
        \E i \in Importers : ipc[i] = "over" /\ rootfs = Range(archive[i])

\* When imports do not overlap, an image is listed without a whole config only while
\* an import is at work, or after one that was killed as it wrote the config or
\* could not remove what it had made: list_from looks only for the file.
PartialIsExplained ==
    (alone /\ Listed /\ config = "partial") =>
        \E i \in Importers : Importing(i) \/ ipc[i] \in {"dead", "stuck"}

\* When imports do not overlap, an import that succeeded stays listed.
ImportedIsListed ==
    (alone /\ \E i \in Importers : ipc[i] = "over") => Listed /\ config = "whole"

\* When imports do not overlap, a failed or refused one leaves the name free; only a
\* killed one, or one that could not make or remove the directory, may take it.
FailedLeavesName ==
    (alone /\ \A i \in Importers : ipc[i] \in {"idle", "failed", "refused"}) => ~taken

\* When imports do not overlap, the image never takes more than the limits
\* allow, however its archive splits the bytes into files.
StoreBounded ==
    alone => /\ MapThenSumSet(LAMBDA e : e.size, rootfs) <= MaxUnpackedBytes
             /\ Cardinality(rootfs) <= MaxEntries

\* An import succeeds or leaves nothing that is taken for an image, whatever fails
\* (import_into): an image with a whole config was unpacked as a whole and within the
\* limits, and stays; one that only seems to be there is the trace of a kill or of a
\* removal that failed.
ImportIsAtomic ==
    ListedIsWhole /\ PartialIsExplained /\ ImportedIsListed /\ FailedLeavesName /\ StoreBounded
=============================================================================
