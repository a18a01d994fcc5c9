------------------------------ MODULE AuditLog ------------------------------
(***************************************************************************)
(* The runtime log of one container id (audit_log.rs) and the calls that   *)
(* use it: record_created_event, the appends of exec, health, events and   *)
(* the run, --history, and lifecycle::delete, which carries the log over   *)
(* the removal of its directory.  The log is a current and a rotated file, *)
(* guarded by an flock on a lock file in the same directory.               *)
(*                                                                         *)
(* A file is a sequence of tokens: the record of a process, or the newline *)
(* that ends it; a token counts as one unit of size.                       *)
(***************************************************************************)
EXTENDS Naturals, Sequences, SequencesExt

CONSTANTS
    Writers,   \* processes that append one record each
    Readers,   \* processes that read the history
    Creator,   \* the process that creates the container
    Deleter,   \* the process that deletes it
    Slayable,  \* the processes that may be killed
    MaxLog     \* MAX_RUNTIME_LOG_BYTES, in tokens

ASSUME MaxLogAssumption == MaxLog \in Nat \ {0, 1}

Actors == Writers \cup Readers \cup {Creator, Deleter}

VARIABLES
    present,   \* whether state.json exists
    gen,       \* how often the directory was removed: names the lock file in it
    newest,   \* runtime.log
    rotated,   \* runtime.log.1
    lock,      \* lock[g]: who holds the flock on the lock file of generation g
    apc,       \* apc[p]: the next step of p
    plan,      \* plan[p]: the calls p has yet to make
    opened,    \* opened[p]: the generation of the lock file that p opened
    text,      \* text[p]: what p has read
    acked,     \* the records whose append returned, since the last reset
    slain,     \* the processes that were killed
    raced      \* whether a call overlapped the carrying over of the log by a delete

auditVars == <<present, gen, newest, rotated, lock, apc, plan, opened, text, acked, slain, raced>>

None == <<"none">>       \* a file that does not exist
Content(f) == IF f = None THEN <<>> ELSE f
History == Content(rotated) \o Content(newest)

PlanOf(p) ==
    CASE p = Creator -> <<"reset", "append">>
      [] p = Deleter -> <<"append", "read", "remove", "write">>
      [] p \in Writers -> <<"append">>
      [] p \in Readers -> <<"read">>

AuditState(started) ==
    /\ present = FALSE /\ gen = 0 /\ newest = None /\ rotated = None
    /\ lock = [g \in {0, 1} |-> "none"]
    /\ apc = [p \in Actors |-> IF started THEN "idle" ELSE "over"]
    /\ plan = [p \in Actors |-> IF started THEN PlanOf(p) ELSE <<>>]
    /\ opened = [p \in Actors |-> 0] /\ text = [p \in Actors |-> None]
    /\ acked = <<>> /\ slain = {} /\ raced = FALSE

AuditInit == AuditState(TRUE)
AuditAbsent == AuditState(FALSE)

Go(p, l) == apc' = [apc EXCEPT ![p] = l]
Doing(p, l) == apc[p] = l
Inside(p) == apc[p] \notin {"idle", "flock", "over", "between"}

\* The end of a call: the guard is dropped, and the next call begins.
Finish(p) ==
    /\ lock' = [g \in {0, 1} |-> IF lock[g] = p THEN "none" ELSE lock[g]]
    /\ plan' = [plan EXCEPT ![p] = Tail(@)]
    /\ Go(p, IF Len(plan[p]) = 1 THEN "over" ELSE "between")

-----------------------------------------------------------------------------
(* acquire_lock. *)

\* Calls are made for a container that exists; create makes it.
OpenLogLock(p) ==
    /\ apc[p] \in {"idle", "between"} /\ Head(plan[p]) # "remove"
    /\ Doing(p, "idle") => (p = Creator) # present
    /\ present' = (present \/ (Doing(p, "idle") /\ p = Creator))
    /\ opened' = [opened EXCEPT ![p] = gen]
    /\ Go(p, "flock")
    /\ UNCHANGED <<gen, newest, rotated, lock, plan, text, acked, slain, raced>>

\* A delete of another process that has read the log and not yet written it back.
Carrying(p) == \E q \in Actors \ {p} :
    plan[q] # <<>> /\ Head(plan[q]) \in {"remove", "write"} /\ ~Doing(q, "over")

FirstStep(call) ==
    CASE call = "append" -> "stat" [] call = "read" -> "readrot" [] OTHER -> "unlinkrot"

LockExclusive(p) ==
    /\ lock[opened[p]] = "none"
    /\ lock' = [lock EXCEPT ![opened[p]] = p]

AcquireLock(p) ==
    /\ Doing(p, "flock")
    /\ LockExclusive(p)
    /\ raced' = (raced \/ opened[p] # gen \/ Carrying(p))
    /\ Go(p, FirstStep(Head(plan[p])))
    /\ UNCHANGED <<present, gen, newest, rotated, plan, opened, text, acked, slain>>

-----------------------------------------------------------------------------
(* append_at_path: rotate_if_needed, the line, the newline. *)

Fits(f) == Len(Content(f)) + 2 <= MaxLog

RotateIfNeeded(p) ==
    /\ Doing(p, "stat")
    /\ Go(p, IF Fits(newest) THEN "line" ELSE "unlinkrot")
    /\ UNCHANGED <<present, gen, newest, rotated, lock, plan, opened, text, acked, slain, raced>>

\* remove_if_exists, of rotation, reset and write_raw.
RemoveRotated(p) ==
    /\ Doing(p, "unlinkrot")
    /\ rotated' = None
    /\ Go(p, IF Head(plan[p]) = "append" THEN "rename" ELSE "truncate")
    /\ UNCHANGED <<present, gen, newest, lock, plan, opened, text, acked, slain, raced>>

RenameCurrent(p) ==
    /\ Doing(p, "rename")
    /\ rotated' = newest /\ newest' = None
    /\ Go(p, "line")
    /\ UNCHANGED <<present, gen, lock, plan, opened, text, acked, slain, raced>>

WriteLine(p) ==
    /\ Doing(p, "line")
    /\ newest' = Append(Content(newest), p)
    /\ Go(p, "newline")
    /\ UNCHANGED <<present, gen, rotated, lock, plan, opened, text, acked, slain, raced>>

\* Mutant: records are not separated.
NoNewline(f) == f

EndLine(f) == Append(f, "newline")

\* Nothing shows of a write to a file that a delete has removed.
WriteNewline(p) ==
    /\ Doing(p, "newline")
    /\ newest' = IF newest = None THEN None ELSE EndLine(newest)
    /\ acked' = Append(acked, p)
    /\ Finish(p)
    /\ UNCHANGED <<present, gen, rotated, opened, text, slain, raced>>

-----------------------------------------------------------------------------
(* read_raw_at_path, reset and write_raw. *)

ReadRotated(p) ==
    /\ Doing(p, "readrot")
    /\ text' = [text EXCEPT ![p] = rotated]
    /\ Go(p, "readcur")
    /\ UNCHANGED <<present, gen, newest, rotated, lock, plan, opened, acked, slain, raced>>

ReadCurrent(p) ==
    /\ Doing(p, "readcur")
    /\ text' = [text EXCEPT ![p] = IF @ = None THEN newest ELSE @ \o Content(newest)]
    /\ Finish(p)
    /\ UNCHANGED <<present, gen, newest, rotated, opened, acked, slain, raced>>

\* Mutant: the head is kept.
RetainHead(s) == SubSeq(s, 1, IF Len(s) < MaxLog THEN Len(s) ELSE MaxLog)

\* What follows the first newline in the last MaxLog tokens.
RetainTail(s) ==
    IF Len(s) <= MaxLog THEN s
    ELSE LET start == Len(s) - MaxLog
             ends == {i \in start + 1 .. Len(s) : s[i] = "newline"}
         IN  SubSeq(s, 1 + (IF ends = {} THEN start ELSE CHOOSE i \in ends : \A j \in ends : i <= j),
                    Len(s))

\* File::create; reset has nothing to write.
TruncateLog(p) ==
    /\ Doing(p, "truncate")
    /\ newest' = <<>>
    /\ IF Head(plan[p]) = "reset"
       THEN Finish(p) /\ acked' = <<>>
       ELSE Go(p, "fill") /\ UNCHANGED <<lock, plan, acked>>
    /\ UNCHANGED <<present, gen, rotated, opened, text, slain, raced>>

\* The write goes to the start of the file, whatever was appended meanwhile.
FillLog(p) ==
    /\ Doing(p, "fill")
    /\ LET kept == RetainTail(text[p]) IN
           newest' = kept \o SubSeq(Content(newest), Len(kept) + 1, Len(Content(newest)))
    /\ Finish(p)
    /\ UNCHANGED <<present, gen, rotated, opened, text, acked, slain, raced>>

\* state::delete, with the directory and all in it.
RemoveContainer(p) ==
    /\ Doing(p, "between") /\ Head(plan[p]) = "remove"
    /\ present' = FALSE /\ gen' = gen + 1 /\ newest' = None /\ rotated' = None
    /\ raced' = (raced \/ \E q \in Actors : Inside(q))
    /\ plan' = [plan EXCEPT ![p] = Tail(@)]
    /\ UNCHANGED <<lock, apc, opened, text, acked, slain>>

\* It refuses, for instance because the container runs: delete returns the error.
RemoveRefused(p) ==
    /\ Doing(p, "between") /\ Head(plan[p]) = "remove"
    /\ Go(p, "over")
    /\ UNCHANGED <<present, gen, newest, rotated, lock, plan, opened, text, acked, slain, raced>>

\* Killed between two steps; the kernel frees the lock.
KillActor(p) ==
    /\ p \in Slayable /\ apc[p] \notin {"idle", "over"}
    /\ lock' = [g \in {0, 1} |-> IF lock[g] = p THEN "none" ELSE lock[g]]
    /\ slain' = slain \cup {p}
    /\ Go(p, "over")
    /\ UNCHANGED <<present, gen, newest, rotated, plan, opened, text, acked, raced>>

AuditNext ==
    \E p \in Actors :
        \/ OpenLogLock(p) \/ AcquireLock(p) \/ RotateIfNeeded(p) \/ RemoveRotated(p)
        \/ RenameCurrent(p) \/ WriteLine(p) \/ WriteNewline(p) \/ ReadRotated(p)
        \/ ReadCurrent(p) \/ TruncateLog(p) \/ FillLog(p) \/ RemoveContainer(p)
        \/ RemoveRefused(p) \/ KillActor(p)

AuditSpec == AuditInit /\ [][AuditNext]_auditVars

-----------------------------------------------------------------------------
\* parse_history accepts it: no two records share a line.
Parses(s) ==
    \A i \in 1 .. Len(s) - 1 : s[i] \in Actors => s[i + 1] = "newline"

\* The history that a reader or a delete gets parses, however appends,
\* rotations and reads interleave, unless a writer was killed within a record
\* or a delete raced it.
HistoryParses ==
    (slain = {} /\ ~raced) => \A p \in Actors : text[p] # None => Parses(text[p])

Quiescent == ~\E p \in Actors : Inside(p) \/ Carrying(p)

\* What is lost is lost from the old end: the acknowledged records in the
\* history are the last ones, in order, through rotations and the rewrite of a
\* delete, and whoever is killed.
HistoryIsTail ==
    (Quiescent /\ ~raced) =>
        IsSuffix(SelectSeq(History, LAMBDA t : t \in Range(acked)), acked)

\* The record that was acknowledged last is in the history, unless a process was
\* killed: a rewrite may be cut off, and retain_tail takes a record that was cut
\* off for one with the next.
LastRecordKept ==
    (Quiescent /\ ~raced /\ acked # <<>> /\ slain = {}) =>
        Contains(History, Last(acked))

\* Neither file exceeds the limit.
LogBounded == ~raced => Len(Content(newest)) <= MaxLog /\ Len(Content(rotated)) <= MaxLog

\* The audit log is a faithful, bounded tail of what was recorded, through
\* concurrent appends, rotations and deletes (audit_log.rs).
HistoryKept == HistoryParses /\ HistoryIsTail /\ LastRecordKept /\ LogBounded
=============================================================================
