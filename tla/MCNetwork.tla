----------------------------- MODULE MCNetwork -----------------------------
(* Small instances of BridgeAllocator and NatLease.  The two share nothing: *)
(* a behaviour is one of either.                                            *)
EXTENDS BridgeAllocator, NatLease

CONSTANTS p1, p2, p3, p4, a, b, d

\* p4 runs the container of p1 again.
Containers == [p \in Proc |-> CASE p \in {p1, p4} -> a [] p = p2 -> b [] OTHER -> d]

\* The administrator has two of the three rules for every subnet.
SomeRules == {<<1, 0, 1>>}

networkVars == <<bridgeVars, natVars>>

NetworkInit == (BridgeInit /\ NatAbsent) \/ (BridgeAbsent /\ NatInit)
NetworkNext == (BridgeNext /\ UNCHANGED natVars) \/ (NatNext /\ UNCHANGED bridgeVars)
NetworkSpec == NetworkInit /\ [][NetworkNext]_networkVars /\ BridgeFairness
=============================================================================
