--------------------------- MODULE BridgeAllocator ---------------------------
(***************************************************************************)
(* Bridge subnets (network/mod.rs): allocations.json, and the lock around  *)
(* it, which is a directory that holds an owner.json.  A process allocates *)
(* the subnet of its container, uses it and releases it; every file system *)
(* call is a step, and a process may be killed between any two.  A file    *)
(* that was created and not yet written does not parse.                    *)
(*                                                                         *)
(* A process is its (pid, starttime) pair: the branch of                   *)
(* allocation_lock_is_stale for an owner without a starttime needs a /proc *)
(* that the owner could not read itself, and is left out.                  *)
(***************************************************************************)
EXTENDS Naturals, FiniteSets, FiniteSetsExt

CONSTANTS
    Proc,      \* the processes that run bridge containers
    Nobody,    \* no process
    Id,        \* container ids
    IdOf,      \* IdOf[p]: the container that p runs
    Octet,     \* BRIDGE_OCTET_START .. BRIDGE_OCTET_END
    MaxTries,  \* bound on the rounds of one acquire before its deadline
    Modes,     \* TRUE: the operator runs one process at a time; FALSE: several at once
    Rivals,    \* the processes that may run at once
    Mortal     \* the processes that may be killed

ASSUME NobodyAssumption == Nobody \notin Proc
ASSUME ModesAssumption == Modes \subseteq BOOLEAN
ASSUME IdAssumption == IdOf \in [Proc -> Id]
ASSUME OctetAssumption == Octet \subseteq Nat \ {0}
\* LOCK_TIMEOUT is longer than one round.
ASSUME TriesAssumption == MaxTries \in Nat \ {0}

VARIABLES
    serial,   \* the mode of the operator
    lockdir,  \* whether the directory allocations.lock exists
    owner,    \* owner.json in it: which file it is and whose pid it holds
    table,    \* allocations.json
    pc,       \* pc[p]: the next step of p
    phase,    \* phase[p]: what p takes the lock for
    tries,    \* tries[p]: the rounds of its acquire
    ofd,      \* ofd[p]: the owner.json that p created
    mem,      \* mem[p]: the allocations it read
    octet,    \* octet[p]: the subnet that the container of p uses, 0 for none
    gone      \* processes whose /proc entry is gone

bridgeVars == <<serial, lockdir, owner, table, pc, phase, tries, ofd, mem, octet, gone>>

Ended == {"ok", "err", "crashed"}
Section == {"read", "truncate", "store"}

\* owner.json: pid Nobody when it does not parse.
NoOwner == [file |-> Nobody, pid |-> Nobody]
Empty == [i \in Id |-> 0]
Whole(m) == [kind |-> "whole", map |-> m]
Unparsable == [kind |-> "torn", map |-> Empty]

\* A missing allocations.json reads as the empty table.
Untouched ==
    /\ lockdir = FALSE /\ owner = NoOwner /\ table = Whole(Empty)
    /\ phase = [p \in Proc |-> "allocate"]
    /\ tries = [p \in Proc |-> 0]
    /\ ofd = [p \in Proc |-> Nobody]
    /\ mem = [p \in Proc |-> Empty]
    /\ octet = [p \in Proc |-> 0]

BridgeInit ==
    /\ Untouched /\ serial \in Modes
    /\ pc = [p \in Proc |-> "idle"] /\ gone = {}

BridgeAbsent ==
    /\ Untouched /\ serial = TRUE
    /\ pc = [p \in Proc |-> "ok"] /\ gone = Proc

Goto(p, l) == pc' = [pc EXCEPT ![p] = l]
Active(p) == pc[p] \notin Ended \cup {"idle"}

\* The locals of a call go with it.
Forget(p) ==
    /\ tries' = [tries EXCEPT ![p] = 0]
    /\ ofd' = [ofd EXCEPT ![p] = Nobody]
    /\ mem' = [mem EXCEPT ![p] = Empty]

\* With serial the operator makes one call at a time and waits for its process.
Quiet(p) ==
    \A q \in Proc \ {p} :
        pc[q] \in {"idle", "using", "ok", "err"} \/ (pc[q] = "crashed" /\ q \in gone)

\* A container id is run again once the container of its last run is over.
Begin(p) ==
    /\ pc[p] = "idle"
    /\ \A q \in Proc : Active(q) => IdOf[q] # IdOf[p]
    /\ IF serial THEN Quiet(p) ELSE p \in Rivals
    /\ octet' = [q \in Proc |-> IF IdOf[q] = IdOf[p] THEN 0 ELSE octet[q]]
    /\ Goto(p, "mkdir")
    /\ UNCHANGED <<lockdir, owner, table, phase, tries, ofd, mem, gone>>

-----------------------------------------------------------------------------
(* acquire_allocation_lock. *)

MakeLockDir(p) ==
    /\ pc[p] = "mkdir"
    /\ lockdir' = TRUE
    /\ Goto(p, IF lockdir THEN "probe" ELSE "create")
    /\ UNCHANGED <<owner, table, phase, tries, ofd, mem, octet, gone>>

\* Mutant: the deadline is never looked at.
NextRoundForever(p) ==
    Goto(p, "mkdir") /\ UNCHANGED tries

\* The end of a round: the deadline passes after MaxTries of them.
NextRound(p) ==
    IF tries[p] < MaxTries
    THEN tries' = [tries EXCEPT ![p] = @ + 1] /\ Goto(p, "mkdir")
    ELSE Goto(p, "err") /\ UNCHANGED tries

\* Mutant: a lock whose owner is dead is respected.
StaleUnlessOwned == owner.file = Nobody

\* allocation_lock_is_stale: nobody's, or of a process that is gone.
AllocationLockIsStale == owner.file = Nobody \/ owner.pid \in gone

ProbeLock(p) ==
    /\ pc[p] = "probe"
    /\ \/ AllocationLockIsStale /\ Goto(p, "unlink") /\ UNCHANGED tries
       \/ ~AllocationLockIsStale /\ owner.pid = Nobody /\ Goto(p, "err") /\ UNCHANGED tries
       \/ ~AllocationLockIsStale /\ owner.pid # Nobody /\ NextRound(p)
    /\ UNCHANGED <<lockdir, owner, table, phase, ofd, mem, octet, gone>>

\* remove_dir_all of a stale lock: owner.json, then the directory.
UnlinkStale(p) ==
    /\ pc[p] = "unlink"
    /\ owner' = NoOwner
    /\ Goto(p, IF lockdir THEN "rmdir" ELSE "err")
    /\ UNCHANGED <<lockdir, table, phase, tries, ofd, mem, octet, gone>>

RemoveStale(p) ==
    /\ pc[p] = "rmdir"
    /\ IF lockdir /\ owner.file = Nobody
       THEN lockdir' = FALSE /\ NextRound(p)
       ELSE Goto(p, "err") /\ UNCHANGED <<lockdir, tries>>
    /\ UNCHANGED <<owner, table, phase, ofd, mem, octet, gone>>

\* write_lock_owner: create or truncate owner.json, then write it.
CreateOwner(p) ==
    /\ pc[p] = "create"
    /\ IF lockdir
       THEN LET f == IF owner.file = Nobody THEN p ELSE owner.file IN
            /\ owner' = [file |-> f, pid |-> Nobody]
            /\ ofd' = [ofd EXCEPT ![p] = f]
            /\ Goto(p, "write")
       ELSE Goto(p, "err") /\ UNCHANGED <<owner, ofd>>
    /\ UNCHANGED <<lockdir, table, phase, tries, mem, octet, gone>>

\* A file that was removed meanwhile takes the write with it; writing over the
\* text of another owner may leave some of it.
WriteOwner(p) ==
    /\ pc[p] = "write"
    /\ \/ owner.file = ofd[p] /\ owner' = [owner EXCEPT !.pid = p]
       \/ owner.file = ofd[p] /\ owner.pid # Nobody /\ owner' = [owner EXCEPT !.pid = Nobody]
       \/ owner.file # ofd[p] /\ UNCHANGED owner
    /\ ofd' = [ofd EXCEPT ![p] = Nobody]
    /\ Goto(p, "read")
    /\ UNCHANGED <<lockdir, table, phase, tries, mem, octet, gone>>

-----------------------------------------------------------------------------
(* allocate_bridge_network_from and release_bridge_network_from. *)

Free(m) == {o \in Octet : \A i \in Id : m[i] # o}

\* Mutant: the first octet, free or not.
FirstOctet(m) == Min(Octet)

\* next_free_bridge_octet.
NextFreeBridgeOctet(m) == Min(Free(m))

Parses == table.kind = "whole"

\* An allocation that is already there is returned without a save.
ReadAllocations(p) ==
    LET m == table.map IN
    /\ pc[p] = "read"
    /\ IF \/ ~Parses
          \/ phase[p] = "allocate" /\ m[IdOf[p]] = 0 /\ Free(m) = {}
       THEN Goto(p, "fail") /\ UNCHANGED mem
       ELSE IF phase[p] = "release"
       THEN mem' = [mem EXCEPT ![p] = [m EXCEPT ![IdOf[p]] = 0]] /\ Goto(p, "truncate")
       ELSE IF m[IdOf[p]] # 0
       THEN mem' = [mem EXCEPT ![p] = m] /\ Goto(p, "drop")
       ELSE /\ mem' = [mem EXCEPT ![p] = [m EXCEPT ![IdOf[p]] = NextFreeBridgeOctet(m)]]
            /\ Goto(p, "truncate")
    /\ UNCHANGED <<lockdir, owner, table, phase, tries, ofd, octet, gone>>

\* save_allocations is a plain write: the file is truncated first.
TruncateAllocations(p) ==
    /\ pc[p] = "truncate"
    /\ table' = Unparsable
    /\ Goto(p, "store")
    /\ UNCHANGED <<lockdir, owner, phase, tries, ofd, mem, octet, gone>>

\* Two writers at once may leave a mixture.
StoreAllocations(p) ==
    /\ pc[p] = "store"
    /\ table' \in {Whole(mem[p])} \cup (IF table.kind = "whole" THEN {Unparsable} ELSE {})
    /\ Goto(p, "drop")
    /\ UNCHANGED <<lockdir, owner, phase, tries, ofd, mem, octet, gone>>

-----------------------------------------------------------------------------
(* Drop of AllocationLock, by path: errors are only logged. *)

DropUnlink(p) ==
    /\ pc[p] \in {"drop", "fail"}
    /\ owner' = NoOwner
    /\ Goto(p, IF pc[p] = "drop" THEN "drop2" ELSE "fail2")
    /\ UNCHANGED <<lockdir, table, phase, tries, ofd, mem, octet, gone>>

\* The call returns: the runner uses its subnet, or is done.
DropRemoveDir(p) ==
    /\ pc[p] \in {"drop2", "fail2"}
    /\ lockdir' = (lockdir /\ owner.file # Nobody)
    /\ \/ /\ pc[p] = "fail2"
          /\ Goto(p, "err") /\ UNCHANGED octet
       \/ /\ pc[p] = "drop2" /\ phase[p] = "release"
          /\ Goto(p, "ok") /\ UNCHANGED octet
       \/ /\ pc[p] = "drop2" /\ phase[p] = "allocate"
          /\ octet' = [octet EXCEPT ![p] = mem[p][IdOf[p]]]
          /\ Goto(p, "using")
    /\ Forget(p)
    /\ UNCHANGED <<owner, table, phase, gone>>

\* The container ended and the runner cleans up.
BeginRelease(p) ==
    /\ pc[p] = "using"
    /\ serial => Quiet(p)
    /\ phase' = [phase EXCEPT ![p] = "release"]
    /\ octet' = [octet EXCEPT ![p] = 0]
    /\ Goto(p, "mkdir")
    /\ UNCHANGED <<lockdir, owner, table, tries, ofd, mem, gone>>

-----------------------------------------------------------------------------
(* The environment. *)

Crash(p) ==
    /\ p \in Mortal
    /\ Active(p)
    /\ Goto(p, "crashed") /\ Forget(p)
    /\ UNCHANGED <<lockdir, owner, table, phase, octet, gone>>

Reap(p) ==
    /\ pc[p] \in Ended /\ p \notin gone
    /\ gone' = gone \cup {p}
    /\ UNCHANGED <<lockdir, owner, table, pc, phase, tries, ofd, mem, octet>>

Call(p) ==
    \/ MakeLockDir(p) \/ ProbeLock(p) \/ UnlinkStale(p) \/ RemoveStale(p)
    \/ CreateOwner(p) \/ WriteOwner(p) \/ ReadAllocations(p) \/ TruncateAllocations(p)
    \/ StoreAllocations(p) \/ DropUnlink(p) \/ DropRemoveDir(p)

BridgeNext ==
    /\ \E p \in Proc : Begin(p) \/ Call(p) \/ BeginRelease(p) \/ Crash(p) \/ Reap(p)
    /\ UNCHANGED serial

BridgeSpec == BridgeInit /\ [][BridgeNext]_bridgeVars

\* A process inside a call is scheduled; nothing else has to happen.
BridgeFairness == \A p \in Proc : WF_bridgeVars(Call(p) /\ UNCHANGED serial)

-----------------------------------------------------------------------------
\* allocations.json is there to give every container a subnet of its own.
SubnetsNeverShared ==
    \A p, q \in Proc :
        IdOf[p] # IdOf[q] /\ octet[p] # 0 /\ octet[q] # 0 => octet[p] # octet[q]

\* With one call at a time two containers never use the same subnet, also after
\* the runner of one was killed: a subnet is not reused until it is released.
UniqueSubnets == serial => SubnetsNeverShared

\* What a container uses is in allocations.json, whatever happened to the
\* processes that had the lock before.
UsedIsAllocated ==
    serial => \A p \in Proc :
        pc[p] = "using" /\ table.kind = "whole" => table.map[IdOf[p]] = octet[p]

\* While calls do not overlap, allocations.json and the subnets in use agree: no
\* subnet is given to two containers or forgotten while it is used, through
\* kills, stale locks, releases and restarts (allocate_bridge_network_from).
SubnetsAreOwned == UniqueSubnets /\ UsedIsAllocated

\* A call of p returns an error.
Fails(p) == pc[p] \notin Ended /\ pc'[p] = "err"

\* A file that was created or truncated, and whose writer was killed before the
\* write: read_lock_owner and load_allocations return an error for it.
LeftTorn == table.kind = "torn" \/ (owner.file # Nobody /\ owner.pid = Nobody)

\* Calls made one at a time fail only for want of subnets: the lock of a killed
\* process does not outlive it, unless the kill left a file that does not parse.
StaleLockRecovered ==
    [][serial => \A p \in Proc : Fails(p) =>
           LeftTorn \/ (phase[p] = "allocate" /\ Free(table.map) = {})]_bridgeVars

\* acquire_allocation_lock gives up at its deadline, so that every call returns
\* even if the owner of the lock never does.
CallsReturn == \A p \in Rivals : pc[p] = "mkdir" ~> pc[p] \in Ended \cup {"using"}
=============================================================================
