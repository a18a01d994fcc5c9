------------------------------ MODULE NatLease ------------------------------
(***************************************************************************)
(* NAT for bridge containers (network/mod.rs): setup_nat switches IPv4     *)
(* forwarding on and adds three iptables rules for the container's subnet, *)
(* recording in a lease what it found and what it added; cleanup_nat_lease *)
(* undoes what the lease records.  Several runners share the host, each    *)
(* with a subnet of its own, and the administrator may have rules already. *)
(* Every command and every access to ip_forward is a step.                 *)
(***************************************************************************)
EXTENDS Naturals, Sequences

CONSTANTS
    Runner,     \* the runners of bridge containers
    AdminRules  \* what the administrator may have for a subnet: 0 or 1 of each rule

ASSUME AdminAssumption == AdminRules \subseteq [1 .. 3 -> 0 .. 1]

VARIABLES
    forward,    \* /proc/sys/net/ipv4/ip_forward
    rules,      \* rules[r][k]: how often rule k is there for the subnet of r
    found,      \* forwarding and rules before any runner
    nat,        \* nat[r]: the next step of r
    lease,      \* lease[r]: its NatLease
    glitch      \* runners that were killed, or one of whose steps failed in a way
                \* that the lease cannot undo

natVars == <<forward, rules, found, nat, lease, glitch>>

\* In the order of setup_nat and of cleanup_nat_lease.
Rule == <<"postrouting", "forward_source", "forward_destination">>
RuleIndex == DOMAIN Rule

NoLease == [owned |-> [k \in RuleIndex |-> FALSE], previous |-> "none"]

NatAbsent ==
    /\ forward = "1" /\ rules = [r \in Runner |-> [k \in RuleIndex |-> 0]]
    /\ found = [forward |-> "1", rules |-> rules]
    /\ nat = [r \in Runner |-> <<"over", 0>>]
    /\ lease = [r \in Runner |-> NoLease] /\ glitch = {}

NatInit ==
    /\ forward \in {"0", "1"}
    /\ rules \in [Runner -> AdminRules]
    /\ found = [forward |-> forward, rules |-> rules]
    /\ nat = [r \in Runner |-> <<"idle", 0>>]
    /\ lease = [r \in Runner |-> NoLease] /\ glitch = {}

At(r, l) == nat[r][1] = l
Step(r) == nat[r][2]
Continue(r, l, k) == nat' = [nat EXCEPT ![r] = <<l, k>>]

-----------------------------------------------------------------------------
(* setup_nat. *)

\* What cannot be read counts as off, and is not restored.
ReadForward(r) ==
    /\ At(r, "idle")
    /\ \/ lease' = [lease EXCEPT ![r].previous = forward] /\ UNCHANGED glitch
       \/ UNCHANGED lease /\ glitch' = glitch \cup {r}
    /\ IF lease'[r].previous = "1" THEN Continue(r, "check", 1) ELSE Continue(r, "enable", 0)
    /\ UNCHANGED <<forward, rules, found>>

\* A failed write returns before there is a lease.
EnableForward(r) ==
    /\ At(r, "enable")
    /\ \/ forward' = "1" /\ Continue(r, "check", 1) /\ UNCHANGED lease
       \/ Continue(r, "over", 0) /\ lease' = [lease EXCEPT ![r] = NoLease] /\ UNCHANGED forward
    /\ UNCHANGED <<rules, found, glitch>>

\* The rule is there, or it was added: on to the next, or done.
NextRule(r) ==
    IF Step(r) = Len(Rule) THEN Continue(r, "up", 0) ELSE Continue(r, "check", Step(r) + 1)

\* iptables -C: any failure of the command counts as an absent rule.
CheckRule(r) ==
    /\ At(r, "check")
    /\ \/ rules[r][Step(r)] > 0 /\ NextRule(r)
       \/ Continue(r, "add", Step(r))
    /\ UNCHANGED <<forward, rules, found, lease, glitch>>

OwnRule(r) == [lease EXCEPT ![r].owned[Step(r)] = TRUE]

\* iptables -A succeeds.
AddRule(r) ==
    /\ At(r, "add")
    /\ rules' = [rules EXCEPT ![r][Step(r)] = @ + 1]
    /\ lease' = OwnRule(r) /\ NextRule(r)
    /\ UNCHANGED <<forward, found, glitch>>

RollBack(r) == Continue(r, "delete", 1)

\* iptables -A fails, or is killed at its timeout after it added the rule: the
\* lease does not own the rule, and is rolled back.
AddRuleFails(r) ==
    /\ At(r, "add")
    /\ \/ UNCHANGED <<rules, glitch>>
       \/ rules' = [rules EXCEPT ![r][Step(r)] = @ + 1] /\ glitch' = glitch \cup {r}
    /\ RollBack(r)
    /\ UNCHANGED <<forward, found, lease>>

-----------------------------------------------------------------------------
(* cleanup_nat_lease. *)

BeginCleanup(r) ==
    /\ At(r, "up") /\ Continue(r, "delete", 1)
    /\ UNCHANGED <<forward, rules, found, lease, glitch>>

NextDelete(r) ==
    IF Step(r) = Len(Rule) THEN Continue(r, "restore", 0) ELSE Continue(r, "delete", Step(r) + 1)

\* Mutant: every rule counts as owned, as in cleanup_nat.
OwnsAll(r, k) == TRUE

Owns(r, k) == lease[r].owned[k]

\* iptables -D; it fails when there is no such rule, and an error does not stop
\* the rest.
DeleteRule(r) ==
    /\ At(r, "delete")
    /\ \/ /\ Owns(r, Step(r)) /\ rules[r][Step(r)] > 0
          /\ rules' = [rules EXCEPT ![r][Step(r)] = @ - 1]
          /\ glitch' \in {glitch, glitch \cup {r}}
       \/ Owns(r, Step(r)) /\ glitch' = glitch \cup {r} /\ UNCHANGED rules
       \/ ~Owns(r, Step(r)) /\ UNCHANGED <<rules, glitch>>
    /\ NextDelete(r)
    /\ UNCHANGED <<forward, found, lease>>

\* Mutant: forwarding is switched off whatever it was.
AlwaysOff(r) == TRUE

WasOff(r) == lease[r].previous = "0"

RestoreForward(r) ==
    /\ At(r, "restore")
    /\ \/ WasOff(r) /\ forward' = "0" /\ UNCHANGED glitch
       \/ WasOff(r) /\ glitch' = glitch \cup {r} /\ UNCHANGED forward
       \/ ~WasOff(r) /\ UNCHANGED <<forward, glitch>>
    /\ Continue(r, "over", 0)
    /\ UNCHANGED <<rules, found, lease>>

\* A runner is killed between two steps.
KillRunner(r) ==
    /\ nat[r][1] \notin {"idle", "over"}
    /\ Continue(r, "over", 0) /\ glitch' = glitch \cup {r}
    /\ UNCHANGED <<forward, rules, found, lease>>

NatNext ==
    \E r \in Runner :
        \/ ReadForward(r) \/ EnableForward(r) \/ CheckRule(r) \/ AddRule(r) \/ AddRuleFails(r)
        \/ BeginCleanup(r) \/ DeleteRule(r) \/ RestoreForward(r) \/ KillRunner(r)

NatSpec == NatInit /\ [][NatNext]_natVars

-----------------------------------------------------------------------------
NatOver == \A r \in Runner : At(r, "over")

\* A rule that the administrator had is never taken away, also when the check
\* for it failed and it was added again (the comment on cleanup_nat).
AdminRulesKept == \A r \in Runner, k \in RuleIndex : rules[r][k] >= found.rules[r][k]

\* A runner whose commands all told the truth leaves the rules of its subnet as
\* it found them, after a failed setup too.
RulesRemoved == \A r \in Runner \ glitch : At(r, "over") => rules[r] = found.rules[r]

\* When the last runner is over, forwarding is what it was before the first,
\* in whatever order they came and went.
ForwardingRestored == (NatOver /\ glitch = {}) => forward = found.forward

\* A container that runs has all three rules for its subnet.
UpHasRules == \A r \in Runner : At(r, "up") => \A k \in RuleIndex : rules[r][k] > 0

\* The rules that are needed stay: those of a running container, and those that
\* the administrator had, whatever other runners set up, roll back or clean up
\* meanwhile (setup_nat, cleanup_nat_lease).
RulesKept == UpHasRules /\ AdminRulesKept

\* What the runners changed on the host is undone: their rules go with them and
\* ip_forward is what it was once the last one is over.
HostNetworkRestored == RulesRemoved /\ ForwardingRestored
=============================================================================
