---------------------------- MODULE NetworkProofs ----------------------------
(* Proofs about NatLease and BridgeAllocator, for any number of runners, any *)
(* rules of the administrator, any container ids and any pool of subnets.    *)
EXTENDS BridgeAllocator, NatLease, WellFoundedInduction, TLAPS

-----------------------------------------------------------------------------
(* NatLease: the invariant. *)

NatLabel == {"idle", "enable", "check", "add", "up", "delete", "restore", "over"}
Lease == [owned : [1 .. 3 -> BOOLEAN], previous : {"none", "0", "1"}]

NatTypeOK ==
    /\ forward \in {"0", "1"}
    /\ rules \in [Runner -> [1 .. 3 -> Nat]]
    /\ found \in [forward : {"0", "1"}, rules : [Runner -> [1 .. 3 -> Nat]]]
    /\ nat \in [Runner -> NatLabel \X (0 .. 3)]
    /\ \A r \in Runner : nat[r][1] \in {"check", "add", "delete"} => nat[r][2] \in 1 .. 3
    /\ lease \in [Runner -> Lease]
    /\ glitch \subseteq Runner

\* The rules that r added and has yet to delete.
Pending(r, k) ==
    /\ lease[r].owned[k]
    /\ At(r, "check") \/ At(r, "add") \/ At(r, "up") \/ (At(r, "delete") /\ k >= Step(r))

\* How often a rule is there, when it was there so often and r, with or without
\* a glitch, has it pending or not.
Counts(now, was, pending, g) ==
    /\ now >= was /\ (pending => now >= was + 1)
    /\ ~g => IF pending THEN now = was + 1 ELSE now = was

\* The rules of a subnet are those that were there and those that are pending;
\* a runner with a glitch may have left more.
CountInv(r) ==
    \A k \in 1 .. 3 : Counts(rules[r][k], found.rules[r][k], Pending(r, k), r \in glitch)

\* What holds of the lease m and of the rules n at step s of phase l.
Phase(l, s, m, n, g) ==
    /\ l \in {"idle", "enable"} => \A k \in 1 .. 3 : ~m.owned[k]
    /\ l \in {"check", "add"} => \A k \in 1 .. 3 : IF k < s THEN n[k] > 0 ELSE ~m.owned[k]
    /\ l = "up" => \A k \in 1 .. 3 : n[k] > 0
    /\ l = "idle" => m.previous = "none"
    /\ l = "enable" /\ ~g => m.previous = "0"

PhaseInv(r) == Phase(nat[r][1], nat[r][2], lease[r], rules[r], r \in glitch)

LeaseInv(r) == CountInv(r) /\ PhaseInv(r)

\* r switched forwarding on and has yet to switch it off.
Keeps(r) == lease[r].previous = "0" /\ nat[r][1] \in {"check", "add", "up", "delete", "restore"}

ForwardInv ==
    glitch = {} =>
        /\ found.forward = "1" => forward = "1" /\ \A r \in Runner : lease[r].previous # "0"
        /\ found.forward = "0" /\ forward = "1" => \E r \in Runner : Keeps(r)

NatInv == NatTypeOK /\ ForwardInv /\ \A r \in Runner : LeaseInv(r)

LEMMA RuleFact == RuleIndex = 1 .. 3 /\ Len(Rule) = 3
  BY DEF RuleIndex, Rule

LEMMA NoLeaseFact ==
  /\ NoLease \in Lease
  /\ NoLease.previous = "none" /\ \A k \in 1 .. 3 : NoLease.owned[k] = FALSE
  BY RuleFact, Zenon DEF NoLease, Lease

LEMMA InitNat == NatInit => NatInv
  <1> SUFFICES ASSUME NatInit PROVE NatInv
    BY Zenon
  <1>1. rules \in [Runner -> [1 .. 3 -> Nat]]
    BY AdminAssumption DEF NatInit
  <1>2. /\ found = [forward |-> forward, rules |-> rules]
        /\ forward \in {"0", "1"} /\ glitch = {}
        /\ nat = [r \in Runner |-> <<"idle", 0>>] /\ lease = [r \in Runner |-> NoLease]
    BY Zenon DEF NatInit
  <1>3. NatTypeOK
    BY <1>1, <1>2, NoLeaseFact DEF NatTypeOK, NatLabel
  <1>4. ASSUME NEW r \in Runner PROVE LeaseInv(r)
    <2>1. nat[r] = <<"idle", 0>> /\ lease[r] = NoLease /\ found.rules[r] = rules[r]
      BY <1>2, Zenon
    <2>2. \A k \in 1 .. 3 : rules[r][k] \in Nat /\ ~Pending(r, k)
      BY <1>1, <2>1, NoLeaseFact, Zenon DEF Pending
    <2>3. CountInv(r)
      BY <2>1, <2>2 DEF CountInv, Counts
    <2>4. PhaseInv(r)
      BY <2>1, NoLeaseFact DEF PhaseInv, Phase
    <2> QED
      BY <2>3, <2>4, Zenon DEF LeaseInv
  <1>5. ForwardInv
    BY <1>2, NoLeaseFact, Zenon DEF ForwardInv
  <1> QED
    BY <1>3, <1>4, <1>5, Zenon DEF NatInv

\* What a step of r leaves alone.
NatFrame(r) ==
    /\ \A q \in Runner \ {r} : /\ nat'[q] = nat[q] /\ lease'[q] = lease[q]
                               /\ rules'[q] = rules[q] /\ (q \in glitch' <=> q \in glitch)
    /\ glitch \subseteq glitch'
    /\ found' = found

LEMMA NatStep ==
  ASSUME NatInv, NatTypeOK', NEW r \in Runner, NatFrame(r), LeaseInv(r)', ForwardInv'
  PROVE  NatInv'
  <1>1. ASSUME NEW q \in Runner, q # r PROVE LeaseInv(q)'
    <2>1. /\ nat'[q] = nat[q] /\ lease'[q] = lease[q] /\ rules'[q] = rules[q]
          /\ (q \in glitch' <=> q \in glitch) /\ found' = found /\ LeaseInv(q)
      BY <1>1, Zenon DEF NatFrame, NatInv
    <2>2. \A k \in 1 .. 3 : Pending(q, k)' <=> Pending(q, k)
      BY <2>1, Zenon DEF Pending, At, Step
    <2>3. CountInv(q)'
      BY <2>1, <2>2, Zenon DEF LeaseInv, CountInv, Counts
    <2>4. PhaseInv(q)'
      BY <2>1, Zenon DEF LeaseInv, PhaseInv, Phase
    <2> QED
      BY <2>3, <2>4, Zenon DEF LeaseInv
  <1> QED
    BY <1>1, Zenon DEF NatInv

\* A step that adds and deletes no rule and keeps what is pending.
LEMMA CountKept ==
  ASSUME NEW r \in Runner, LeaseInv(r), rules'[r] = rules[r], found' = found,
         r \in glitch => r \in glitch', \A k \in 1 .. 3 : Pending(r, k)' <=> Pending(r, k)
  PROVE  CountInv(r)'
  BY Zenon DEF LeaseInv, CountInv, Counts

\* A step that does not touch ip_forward keeps who is in charge of it.
LEMMA ForwardKept ==
  ASSUME NatInv, NEW r \in Runner, NatFrame(r), forward' = forward,
         lease'[r].previous = lease[r].previous, Keeps(r) => Keeps(r)' \/ glitch' # {}
  PROVE  ForwardInv'
  <1>1. glitch' = {} => glitch = {}
    BY Zenon DEF NatFrame
  <1>2. \A q \in Runner : lease'[q].previous = lease[q].previous
    BY Zenon DEF NatFrame
  <1>3. glitch' = {} => \A q \in Runner : Keeps(q) => Keeps(q)'
    BY Zenon DEF NatFrame, Keeps
  <1> QED
    BY <1>1, <1>2, <1>3, Zenon DEF NatInv, NatFrame, ForwardInv

NatPcOK ==
    /\ nat \in [Runner -> NatLabel \X (0 .. 3)]
    /\ \A r \in Runner : nat[r][1] \in {"check", "add", "delete"} => nat[r][2] \in 1 .. 3

LEMMA NatMove ==
  ASSUME NatPcOK, NEW r \in Runner, NEW l \in NatLabel, NEW k \in 0 .. 3,
         l \in {"check", "add", "delete"} => k \in 1 .. 3,
         nat' = [nat EXCEPT ![r] = <<l, k>>]
  PROVE  NatPcOK'
  BY Zenon DEF NatPcOK

LEMMA OwnedRule ==
  ASSUME NEW l \in Lease, NEW k \in 1 .. 3
  PROVE  LET m == [l EXCEPT !.owned = [l.owned EXCEPT ![k] = TRUE]]
         IN  m \in Lease /\ m.previous = l.previous /\ m.owned = [l.owned EXCEPT ![k] = TRUE]
  <1>1. [l.owned EXCEPT ![k] = TRUE] \in [1 .. 3 -> BOOLEAN]
    BY Zenon DEF Lease
  <1> QED
    BY <1>1, Zenon DEF Lease

LEMMA SetupKeepsNat ==
  ASSUME NatInv, NEW r \in Runner,
         \/ ReadForward(r) \/ EnableForward(r) \/ CheckRule(r) \/ AddRule(r) \/ AddRuleFails(r)
  PROVE  NatInv'
  <1>0. NatTypeOK /\ ForwardInv /\ LeaseInv(r)
    BY Zenon DEF NatInv
  <1> USE RuleFact DEF NatLabel
  <1>1. CASE ReadForward(r)
    <2>1. /\ lease[r] \in Lease /\ UNCHANGED <<forward, rules, found>> /\ nat[r][1] = "idle"
          /\ \/ lease' = [lease EXCEPT ![r].previous = forward] /\ glitch' = glitch
             \/ lease' = lease /\ glitch' = glitch \cup {r}
      BY <1>0, <1>1, Zenon DEF ReadForward, NatTypeOK, At
    <2>2. /\ lease' \in [Runner -> Lease] /\ lease'[r].owned = lease[r].owned
          /\ \A q \in Runner \ {r} : lease'[q] = lease[q]
          /\ \/ lease'[r].previous = forward /\ glitch' = glitch
             \/ lease'[r].previous = "none" /\ glitch' = glitch \cup {r}
      <3>1. lease \in [Runner -> Lease] /\ forward \in {"0", "1"} /\ lease[r].previous = "none"
        BY <1>0, <2>1, Zenon DEF NatTypeOK, LeaseInv, PhaseInv, Phase
      <3>2. CASE lease' = [lease EXCEPT ![r].previous = forward] /\ glitch' = glitch
        <4>1. lease' = [lease EXCEPT ![r] = [lease[r] EXCEPT !.previous = forward]]
          BY <3>2, Zenon
        <4>2. [lease[r] EXCEPT !.previous = forward] \in Lease
          BY <2>1, <3>1, Zenon DEF Lease
        <4>3. /\ [lease[r] EXCEPT !.previous = forward].owned = lease[r].owned
              /\ [lease[r] EXCEPT !.previous = forward].previous = forward
          BY <2>1, Zenon DEF Lease
        <4> QED
          BY <3>1, <3>2, <4>1, <4>2, <4>3, Zenon
      <3>3. CASE lease' = lease /\ glitch' = glitch \cup {r}
        BY <3>1, <3>3, Zenon
      <3> QED
        BY <2>1, <3>2, <3>3, Zenon
    <2>3. nat' = [nat EXCEPT ![r] = IF lease'[r].previous = "1" THEN <<"check", 1>> ELSE <<"enable", 0>>]
      BY <1>1, Zenon DEF ReadForward, Continue
    <2>4. NatTypeOK'
      BY <1>0, <2>1, <2>2, <2>3 DEF NatTypeOK
    <2>5. NatFrame(r)
      BY <1>0, <2>1, <2>2, <2>3, Zenon DEF NatFrame, NatTypeOK
    <2>6. /\ nat'[r][1] \in {"check", "enable"} /\ nat'[r][2] \in {0, 1}
          /\ nat'[r][1] = "check" => nat'[r][2] = 1 /\ lease'[r].previous = "1"
          /\ nat'[r][1] = "enable" => lease'[r].previous # "1"
      BY <1>0, <2>3, Zenon DEF NatTypeOK
    <2>7. LeaseInv(r)'
      <3>1. \A k \in 1 .. 3 : ~lease[r].owned[k]
        BY <1>0, <2>1, Zenon DEF LeaseInv, PhaseInv, Phase
      <3>2. \A k \in 1 .. 3 : Pending(r, k)' <=> Pending(r, k)
        BY <2>2, <3>1, Zenon DEF Pending
      <3>3. CountInv(r)'
        BY <1>0, <2>1, <2>2, <3>2, CountKept, Zenon
      <3>4. PhaseInv(r)'
        <4>1. forward \in {"0", "1"}
          BY <1>0, Zenon DEF NatTypeOK
        <4> QED
          BY <2>2, <2>6, <3>1, <4>1 DEF PhaseInv, Phase
      <3> QED
        BY <3>3, <3>4, Zenon DEF LeaseInv
    <2>8. ForwardInv'
      <3>1. glitch' = {} => lease'[r].previous = forward /\ glitch = {}
        BY <2>2, Zenon
      <3>2. \A q \in Runner : Keeps(q) => Keeps(q)'
        BY <2>1, <2>5, Zenon DEF Keeps, NatFrame
      <3> QED
        BY <1>0, <2>1, <2>2, <3>1, <3>2, Zenon DEF ForwardInv
    <2> QED
      BY <2>4, <2>5, <2>7, <2>8, NatStep, Zenon
  <1>2. CASE EnableForward(r)
    <2>1. UNCHANGED <<rules, found, glitch>> /\ nat[r][1] = "enable"
      BY <1>2, Zenon DEF EnableForward, At
    <2>2. CASE forward' = "1" /\ Continue(r, "check", 1) /\ UNCHANGED lease
      <3>1. nat' = [nat EXCEPT ![r] = <<"check", 1>>]
        BY <2>2, Zenon DEF Continue
      <3>2. NatTypeOK'
        BY <1>0, <2>1, <2>2, <3>1 DEF NatTypeOK
      <3>3. NatFrame(r) /\ nat'[r] = <<"check", 1>>
        BY <1>0, <2>1, <2>2, <3>1, Zenon DEF NatFrame, NatTypeOK
      <3>4. LeaseInv(r)'
        <4>1. \A k \in 1 .. 3 : ~lease[r].owned[k]
          BY <1>0, <2>1, Zenon DEF LeaseInv, PhaseInv, Phase
        <4>2. \A k \in 1 .. 3 : Pending(r, k)' <=> Pending(r, k)
          BY <2>2, <4>1, Zenon DEF Pending
        <4>3. CountInv(r)'
          BY <1>0, <2>1, <4>2, CountKept, Zenon
        <4>4. PhaseInv(r)'
          BY <2>2, <3>3, <4>1 DEF PhaseInv, Phase
        <4> QED
          BY <4>3, <4>4, Zenon DEF LeaseInv
      <3>5. ForwardInv'
        <4>1. glitch = {} => Keeps(r)'
          BY <1>0, <2>1, <2>2, <3>3 DEF Keeps, LeaseInv, PhaseInv, Phase
        <4> QED
          BY <1>0, <2>1, <2>2, <4>1, Zenon DEF ForwardInv
      <3> QED
        BY <3>2, <3>3, <3>4, <3>5, NatStep, Zenon
    <2>3. CASE /\ Continue(r, "over", 0) /\ lease' = [lease EXCEPT ![r] = NoLease]
               /\ UNCHANGED forward
      <3>1. nat' = [nat EXCEPT ![r] = <<"over", 0>>]
        BY <2>3, Zenon DEF Continue
      <3>2. NatTypeOK'
        BY <1>0, <2>1, <2>3, <3>1, NoLeaseFact DEF NatTypeOK
      <3>3. NatFrame(r) /\ nat'[r] = <<"over", 0>> /\ lease'[r] = NoLease
        BY <1>0, <2>1, <2>3, <3>1, Zenon DEF NatFrame, NatTypeOK
      <3>4. LeaseInv(r)'
        <4>1. \A k \in 1 .. 3 : ~lease[r].owned[k]
          BY <1>0, <2>1, Zenon DEF LeaseInv, PhaseInv, Phase
        <4>2. \A k \in 1 .. 3 : Pending(r, k)' <=> Pending(r, k)
          BY <3>3, <4>1, NoLeaseFact, Zenon DEF Pending
        <4>3. CountInv(r)'
          BY <1>0, <2>1, <4>2, CountKept, Zenon
        <4>4. PhaseInv(r)'
          BY <3>3 DEF PhaseInv, Phase
        <4> QED
          BY <4>3, <4>4, Zenon DEF LeaseInv
      <3>5. ForwardInv'
        <4>1. ~Keeps(r)
          BY <2>1, Zenon DEF Keeps
        <4>2. \A q \in Runner : Keeps(q) => Keeps(q)'
          BY <3>3, <4>1, Zenon DEF Keeps, NatFrame
        <4>3. \A q \in Runner : lease'[q].previous = lease[q].previous \/ lease'[q].previous = "none"
          BY <3>3, NoLeaseFact, Zenon DEF NatFrame
        <4> QED
          BY <1>0, <2>1, <2>3, <4>2, <4>3, Zenon DEF ForwardInv
      <3> QED
        BY <3>2, <3>3, <3>4, <3>5, NatStep, Zenon
    <2> QED
      BY <1>2, <2>2, <2>3, Zenon DEF EnableForward
  <1>3. CASE CheckRule(r)
    <2>1. /\ UNCHANGED <<forward, rules, found, lease, glitch>> /\ nat[r][1] = "check"
          /\ nat[r][2] \in 1 .. 3
      BY <1>0, <1>3, Zenon DEF CheckRule, At, NatTypeOK
    <2>2. \/ /\ rules[r][nat[r][2]] > 0
             /\ \/ nat[r][2] = 3 /\ nat' = [nat EXCEPT ![r] = <<"up", 0>>]
                \/ nat[r][2] # 3 /\ nat' = [nat EXCEPT ![r] = <<"check", nat[r][2] + 1>>]
          \/ nat' = [nat EXCEPT ![r] = <<"add", nat[r][2]>>]
      BY <1>3, Zenon DEF CheckRule, NextRule, Continue, Step
    <2>3. NatTypeOK'
      <3>1. nat[r][2] # 3 => nat[r][2] + 1 \in 1 .. 3
        BY <2>1
      <3>2. NatPcOK
        BY <1>0, Zenon DEF NatTypeOK, NatPcOK
      <3>3. NatPcOK'
        BY <2>1, <2>2, <3>1, <3>2, NatMove
      <3> QED
        BY <1>0, <2>1, <3>3, Zenon DEF NatTypeOK, NatPcOK
    <2>4. NatFrame(r)
      BY <1>0, <2>1, <2>2, Zenon DEF NatFrame, NatTypeOK
    <2>5. \/ /\ rules[r][nat[r][2]] > 0
             /\ \/ nat[r][2] = 3 /\ nat'[r] = <<"up", 0>>
                \/ nat[r][2] # 3 /\ nat'[r] = <<"check", nat[r][2] + 1>>
          \/ nat'[r] = <<"add", nat[r][2]>>
      BY <1>0, <2>2, Zenon DEF NatTypeOK
    <2>6. LeaseInv(r)'
      <3>1. nat'[r][1] \in {"up", "check", "add"}
        BY <2>5
      <3>2. \A k \in 1 .. 3 : Pending(r, k)' <=> Pending(r, k)
        BY <2>1, <3>1, Zenon DEF Pending, At
      <3>3. CountInv(r)'
        BY <1>0, <2>1, <3>2, CountKept, Zenon
      <3>4. \A k \in 1 .. 3 : IF k < nat[r][2] THEN rules[r][k] > 0 ELSE ~lease[r].owned[k]
        BY <1>0, <2>1, Zenon DEF LeaseInv, PhaseInv, Phase
      <3>5. PhaseInv(r)'
        BY <2>1, <2>5, <3>4 DEF PhaseInv, Phase
      <3> QED
        BY <3>3, <3>5, Zenon DEF LeaseInv
    <2>7. ForwardInv'
      BY <2>1, <2>4, <2>5, ForwardKept DEF Keeps
    <2> QED
      BY <2>3, <2>4, <2>6, <2>7, NatStep, Zenon
  <1>4. CASE AddRule(r)
    <2>1. /\ UNCHANGED <<forward, found, glitch>> /\ nat[r][1] = "add" /\ nat[r][2] \in 1 .. 3
          /\ lease[r] \in Lease /\ rules[r] \in [1 .. 3 -> Nat]
      BY <1>0, <1>4, Zenon DEF AddRule, At, NatTypeOK
    <2>2. /\ rules' = [rules EXCEPT ![r] = [rules[r] EXCEPT ![nat[r][2]] = rules[r][nat[r][2]] + 1]]
          /\ lease' = [lease EXCEPT ![r] =
                           [lease[r] EXCEPT !.owned = [lease[r].owned EXCEPT ![nat[r][2]] = TRUE]]]
          /\ \/ nat[r][2] = 3 /\ nat' = [nat EXCEPT ![r] = <<"up", 0>>]
             \/ nat[r][2] # 3 /\ nat' = [nat EXCEPT ![r] = <<"check", nat[r][2] + 1>>]
      BY <1>4, Zenon DEF AddRule, OwnRule, NextRule, Continue, Step
    <2>3. /\ rules'[r] = [rules[r] EXCEPT ![nat[r][2]] = rules[r][nat[r][2]] + 1]
          /\ lease'[r] = [lease[r] EXCEPT !.owned = [lease[r].owned EXCEPT ![nat[r][2]] = TRUE]]
          /\ \/ nat[r][2] = 3 /\ nat'[r] = <<"up", 0>>
             \/ nat[r][2] # 3 /\ nat'[r] = <<"check", nat[r][2] + 1>>
      BY <1>0, <2>2, Zenon DEF NatTypeOK
    <2>4. /\ lease'[r] \in Lease /\ rules'[r] \in [1 .. 3 -> Nat]
          /\ lease'[r].previous = lease[r].previous
          /\ lease'[r].owned = [lease[r].owned EXCEPT ![nat[r][2]] = TRUE]
      <3>1. rules'[r] \in [1 .. 3 -> Nat]
        BY <2>1, <2>3
      <3>2. DEFINE m == [lease[r] EXCEPT !.owned = [lease[r].owned EXCEPT ![nat[r][2]] = TRUE]]
      <3>3. m \in Lease /\ m.previous = lease[r].previous
            /\ m.owned = [lease[r].owned EXCEPT ![nat[r][2]] = TRUE]
        BY <2>1, OwnedRule, Zenon
      <3>4. lease'[r] = m
        BY <2>3, Zenon
      <3> HIDE DEF m
      <3> QED
        BY <3>1, <3>3, <3>4, Zenon
    <2>5. \A k \in 1 .. 3 : lease'[r].owned[k] <=> k = nat[r][2] \/ lease[r].owned[k]
      BY <2>1, <2>4, Zenon DEF Lease
    <2>6. \A k \in 1 .. 3 : rules'[r][k] = IF k = nat[r][2] THEN rules[r][k] + 1 ELSE rules[r][k]
      BY <2>1, <2>3, Zenon
    <2>7. NatTypeOK'
      <3>1. nat[r][2] # 3 => nat[r][2] + 1 \in 1 .. 3
        BY <2>1
      <3>2. NatPcOK
        BY <1>0, Zenon DEF NatTypeOK, NatPcOK
      <3>3. NatPcOK'
        BY <2>1, <2>2, <3>1, <3>2, NatMove
      <3>4. lease' \in [Runner -> Lease] /\ rules' \in [Runner -> [1 .. 3 -> Nat]]
        BY <1>0, <2>2, <2>3, <2>4, Zenon DEF NatTypeOK
      <3> QED
        BY <1>0, <2>1, <3>3, <3>4, Zenon DEF NatTypeOK, NatPcOK
    <2>8. NatFrame(r)
      BY <1>0, <2>1, <2>2, Zenon DEF NatFrame, NatTypeOK
    <2>9. LeaseInv(r)'
      <3>1. found.rules[r] \in [1 .. 3 -> Nat]
        BY <1>0, Zenon DEF NatTypeOK
      <3> QED
        <4>1. \A k \in 1 .. 3 : Pending(r, k)' <=> Pending(r, k) \/ k = nat[r][2]
          <5>1. nat'[r][1] \in {"check", "up"}
            BY <2>3
          <5> QED
            BY <2>1, <2>5, <5>1, Zenon DEF Pending, At
        <4>2. \A k \in 1 .. 3 : IF k < nat[r][2] THEN rules[r][k] > 0 ELSE ~lease[r].owned[k]
          BY <1>0, <2>1, Zenon DEF LeaseInv, PhaseInv, Phase
        <4>3. \A k \in 1 .. 3 : /\ rules[r][k] \in Nat /\ found.rules[r][k] \in Nat
                                /\ Pending(r, k) => k # nat[r][2]
          BY <2>1, <3>1, <4>2 DEF Pending
        <4>4. CountInv(r)'
          BY <1>0, <2>1, <2>6, <4>1, <4>3 DEF LeaseInv, CountInv, Counts
        <4>5. PhaseInv(r)'
          <5>1. CASE nat[r][2] = 3 /\ nat'[r] = <<"up", 0>>
            BY <2>6, <4>2, <4>3, <5>1 DEF PhaseInv, Phase
          <5>2. CASE nat[r][2] # 3 /\ nat'[r] = <<"check", nat[r][2] + 1>>
            <6>1. \A k \in 1 .. 3 : IF k < nat[r][2] + 1 THEN rules'[r][k] > 0 ELSE ~lease'[r].owned[k]
              BY <2>1, <2>5, <2>6, <4>2, <4>3
            <6> QED
              BY <5>2, <6>1 DEF PhaseInv, Phase
          <5> QED
            BY <2>3, <5>1, <5>2, Zenon
        <4> QED
          BY <4>4, <4>5, Zenon DEF LeaseInv
    <2>10. ForwardInv'
      <3>1. Keeps(r) => Keeps(r)'
        BY <2>3, <2>4 DEF Keeps
      <3> QED
        BY <2>1, <2>4, <2>8, <3>1, ForwardKept, Zenon
    <2> QED
      BY <2>7, <2>8, <2>9, <2>10, NatStep, Zenon
  <1>5. CASE AddRuleFails(r)
    <2>1. /\ UNCHANGED <<forward, found, lease>> /\ nat[r][1] = "add" /\ nat[r][2] \in 1 .. 3
          /\ rules[r] \in [1 .. 3 -> Nat] /\ nat' = [nat EXCEPT ![r] = <<"delete", 1>>]
      BY <1>0, <1>5, Zenon DEF AddRuleFails, At, NatTypeOK, RollBack, Continue
    <2>2. \/ UNCHANGED <<rules, glitch>>
          \/ /\ rules' = [rules EXCEPT ![r] = [rules[r] EXCEPT ![nat[r][2]] = rules[r][nat[r][2]] + 1]]
             /\ glitch' = glitch \cup {r}
      BY <1>5, Zenon DEF AddRuleFails, Step
    <2>3. /\ rules' \in [Runner -> [1 .. 3 -> Nat]] /\ \A q \in Runner \ {r} : rules'[q] = rules[q]
          /\ \/ rules'[r] = rules[r] /\ glitch' = glitch
             \/ /\ r \in glitch' /\ glitch' = glitch \cup {r}
                /\ \A k \in 1 .. 3 : rules'[r][k] >= rules[r][k]
      <3>1. [rules[r] EXCEPT ![nat[r][2]] = rules[r][nat[r][2]] + 1] \in [1 .. 3 -> Nat]
        BY <2>1
      <3>2. \A k \in 1 .. 3 : [rules[r] EXCEPT ![nat[r][2]] = rules[r][nat[r][2]] + 1][k] >= rules[r][k]
        BY <2>1
      <3>3. rules \in [Runner -> [1 .. 3 -> Nat]]
        BY <1>0, Zenon DEF NatTypeOK
      <3> QED
        BY <2>2, <3>1, <3>2, <3>3, Zenon
    <2>4. NatTypeOK'
      <3>1. NatPcOK'
        <4>1. NatPcOK
          BY <1>0, Zenon DEF NatTypeOK, NatPcOK
        <4> QED
          BY <2>1, <4>1 DEF NatPcOK
      <3> QED
        BY <1>0, <2>1, <2>3, <3>1, Zenon DEF NatTypeOK, NatPcOK
    <2>5. NatFrame(r) /\ nat'[r] = <<"delete", 1>>
      BY <1>0, <2>1, <2>3, Zenon DEF NatFrame, NatTypeOK
    <2>6. LeaseInv(r)'
      <3>1. /\ found.rules[r] \in [1 .. 3 -> Nat] /\ rules'[r] \in [1 .. 3 -> Nat]
            /\ lease[r] \in Lease
        BY <1>0, <2>3, Zenon DEF NatTypeOK
      <3>2. \A k \in 1 .. 3 : Pending(r, k)' <=> Pending(r, k)
        BY <2>1, <2>5 DEF Pending, At, Step
      <3>3. ASSUME rules'[r] = rules[r], glitch' = glitch
            PROVE  CountInv(r)'
        BY <1>0, <2>1, <3>2, <3>3, CountKept, Zenon
      <3>4. ASSUME r \in glitch', \A k \in 1 .. 3 : rules'[r][k] >= rules[r][k]
            PROVE  CountInv(r)'
        <4>1. \A k \in 1 .. 3 : /\ rules[r][k] \in Nat /\ rules'[r][k] \in Nat
                                /\ found.rules[r][k] \in Nat
          BY <2>1, <3>1, Zenon
        <4> QED
          BY <1>0, <2>1, <3>2, <3>4, <4>1 DEF LeaseInv, CountInv, Counts
      <3>5. PhaseInv(r)'
        BY <2>5 DEF PhaseInv, Phase
      <3> QED
        BY <2>3, <3>3, <3>4, <3>5, Zenon DEF LeaseInv
    <2>7. ForwardInv'
      BY <2>1, <2>5, ForwardKept DEF Keeps
    <2> QED
      BY <2>4, <2>5, <2>6, <2>7, NatStep, Zenon
  <1> QED
    BY <1>1, <1>2, <1>3, <1>4, <1>5, Zenon

LEMMA CleanupKeepsNat ==
  ASSUME NatInv, NEW r \in Runner,
         BeginCleanup(r) \/ DeleteRule(r) \/ RestoreForward(r) \/ KillRunner(r)
  PROVE  NatInv'
  <1>0. NatTypeOK /\ ForwardInv /\ LeaseInv(r) /\ NatPcOK
    BY Zenon DEF NatInv, NatTypeOK, NatPcOK
  <1>1. \A k \in 1 .. 3 : rules[r][k] \in Nat /\ found.rules[r][k] \in Nat
    BY <1>0 DEF NatTypeOK
  <1> USE RuleFact DEF NatLabel
  <1>2. CASE BeginCleanup(r)
    <2>1. /\ UNCHANGED <<forward, rules, found, lease, glitch>> /\ nat[r][1] = "up"
          /\ nat' = [nat EXCEPT ![r] = <<"delete", 1>>]
      BY <1>2, Zenon DEF BeginCleanup, At, Continue
    <2>2. NatTypeOK'
      <3>1. NatPcOK'
        <4>1. "delete" \in NatLabel /\ 1 \in 0 .. 3 /\ ("delete" \in {"check", "add", "delete"} => 1 \in 1 .. 3)
          OBVIOUS
        <4> QED
          BY <1>0, <2>1, <4>1, NatMove, Zenon
      <3> QED
        BY <1>0, <2>1, <3>1, Zenon DEF NatTypeOK, NatPcOK
    <2>3. NatFrame(r) /\ nat'[r] = <<"delete", 1>>
      BY <1>0, <2>1, Zenon DEF NatFrame, NatTypeOK
    <2>4. LeaseInv(r)'
      <3>1. \A k \in 1 .. 3 : Pending(r, k)' <=> Pending(r, k)
        BY <2>1, <2>3 DEF Pending, At, Step
      <3>2. CountInv(r)'
        BY <1>0, <2>1, <3>1, CountKept, Zenon
      <3>3. PhaseInv(r)'
        BY <2>3 DEF PhaseInv, Phase
      <3> QED
        BY <3>2, <3>3, Zenon DEF LeaseInv
    <2>5. ForwardInv'
      BY <2>1, <2>3, ForwardKept DEF Keeps
    <2> QED
      BY <2>2, <2>3, <2>4, <2>5, NatStep, Zenon
  <1>3. CASE DeleteRule(r)
    <2>1. /\ UNCHANGED <<forward, found, lease>> /\ nat[r][1] = "delete" /\ nat[r][2] \in 1 .. 3
          /\ rules[r] \in [1 .. 3 -> Nat] /\ lease[r].owned \in [1 .. 3 -> BOOLEAN]
      BY <1>0, <1>3, Zenon DEF DeleteRule, At, NatTypeOK, Lease
    <2> DEFINE s == nat[r][2]
    <2>2. \/ /\ lease[r].owned[s] /\ rules[r][s] > 0
             /\ rules' = [rules EXCEPT ![r] = [rules[r] EXCEPT ![s] = rules[r][s] - 1]]
             /\ glitch' \in {glitch, glitch \cup {r}}
          \/ lease[r].owned[s] /\ glitch' = glitch \cup {r} /\ rules' = rules
          \/ ~lease[r].owned[s] /\ rules' = rules /\ glitch' = glitch
      BY <1>3, Zenon DEF DeleteRule, Owns, Step
    <2>3. \/ s = 3 /\ nat' = [nat EXCEPT ![r] = <<"restore", 0>>]
          \/ s # 3 /\ nat' = [nat EXCEPT ![r] = <<"delete", s + 1>>]
      BY <1>3, Zenon DEF DeleteRule, NextDelete, Continue, Step
    <2>4. /\ glitch \subseteq glitch' /\ glitch' \subseteq glitch \cup {r}
      BY <2>2, Zenon
    <2>5. /\ rules' \in [Runner -> [1 .. 3 -> Nat]] /\ \A q \in Runner \ {r} : rules'[q] = rules[q]
          /\ \A k \in (1 .. 3) \ {s} : rules'[r][k] = rules[r][k]
      <3>1. rules \in [Runner -> [1 .. 3 -> Nat]]
        BY <1>0, Zenon DEF NatTypeOK
      <3>2. rules[r][s] > 0 => [rules[r] EXCEPT ![s] = rules[r][s] - 1] \in [1 .. 3 -> Nat]
        BY <2>1
      <3>3. CASE rules' = rules
        BY <3>1, <3>3, Zenon
      <3>4. CASE rules[r][s] > 0 /\ rules' = [rules EXCEPT ![r] = [rules[r] EXCEPT ![s] = rules[r][s] - 1]]
        BY <2>1, <3>1, <3>2, <3>4
      <3> QED
        BY <2>2, <3>3, <3>4, Zenon
    <2>6. \/ lease[r].owned[s] /\ rules'[r][s] = rules[r][s] - 1
          \/ lease[r].owned[s] /\ r \in glitch' /\ rules'[r][s] = rules[r][s]
          \/ ~lease[r].owned[s] /\ rules'[r][s] = rules[r][s]
      <3>1. rules \in [Runner -> [1 .. 3 -> Nat]]
        BY <1>0, Zenon DEF NatTypeOK
      <3> QED
        BY <2>1, <2>2, <3>1, Zenon
    <2>7. NatTypeOK'
      <3>1. s # 3 => s + 1 \in 1 .. 3
        BY <2>1
      <3>2. NatPcOK'
        BY <1>0, <2>3, <3>1, NatMove
      <3> QED
        BY <1>0, <2>1, <2>4, <2>5, <3>2, Zenon DEF NatTypeOK, NatPcOK
    <2>8. /\ NatFrame(r)
          /\ \/ s = 3 /\ nat'[r] = <<"restore", 0>>
             \/ s # 3 /\ nat'[r] = <<"delete", s + 1>>
      <3>1. nat \in [Runner -> NatLabel \X (0 .. 3)]
        BY <1>0, Zenon DEF NatTypeOK
      <3>2. \A q \in Runner \ {r} : nat'[q] = nat[q]
        BY <2>3, <3>1, Zenon
      <3>3. NatFrame(r)
        BY <2>1, <2>4, <2>5, <3>2, Zenon DEF NatFrame
      <3> QED
        BY <2>3, <3>1, <3>3, Zenon
    <2>9. LeaseInv(r)'
      <3>1. \A k \in 1 .. 3 : Pending(r, k)' <=> Pending(r, k) /\ k # s
        BY <2>1, <2>8 DEF Pending, At, Step
      <3>2. Pending(r, s) <=> lease[r].owned[s]
        BY <2>1 DEF Pending, At, Step
      <3>3. ASSUME NEW k \in 1 .. 3
            PROVE  Counts(rules'[r][k], found.rules[r][k], Pending(r, k)', r \in glitch')
        <4>1. Counts(rules[r][k], found.rules[r][k], Pending(r, k), r \in glitch)
          BY <1>0, Zenon DEF LeaseInv, CountInv
        <4>2. rules'[r][k] \in Nat /\ rules[r][k] \in Nat /\ found.rules[r][k] \in Nat
          BY <1>1, <2>5, Zenon
        <4>3. CASE k = s
          <5>1. ~Pending(r, k)'
            BY <3>1, <4>3, Zenon
          <5>2. r \in glitch => r \in glitch'
            BY <2>4, Zenon
          <5> QED
            <6>1. CASE Pending(r, k) /\ rules'[r][k] = rules[r][k] - 1
              BY <4>1, <4>2, <5>1, <5>2, <6>1 DEF Counts
            <6>2. CASE Pending(r, k) /\ r \in glitch' /\ rules'[r][k] = rules[r][k]
              BY <4>1, <5>1, <6>2 DEF Counts
            <6>3. CASE ~Pending(r, k) /\ rules'[r][k] = rules[r][k]
              BY <4>1, <5>1, <5>2, <6>3 DEF Counts
            <6> QED
              BY <2>6, <3>2, <4>3, <6>1, <6>2, <6>3, Zenon
        <4>4. CASE k # s
          <5>1. rules'[r][k] = rules[r][k] /\ (Pending(r, k)' <=> Pending(r, k))
            BY <2>5, <3>1, <4>4, Zenon
          <5>2. r \in glitch => r \in glitch'
            BY <2>4, Zenon
          <5> QED
            BY <4>1, <5>1, <5>2, Zenon DEF Counts
        <4> QED
          BY <4>3, <4>4, Zenon
      <3>4. PhaseInv(r)'
        <4>1. nat'[r][1] \in {"restore", "delete"}
          BY <2>8
        <4> QED
          BY <4>1, Zenon DEF PhaseInv, Phase
      <3> QED
        BY <2>1, <3>3, <3>4, Zenon DEF LeaseInv, CountInv
    <2>10. ForwardInv'
      <3>1. nat'[r][1] \in {"restore", "delete"}
        BY <2>8
      <3>2. Keeps(r) => Keeps(r)'
        BY <2>1, <3>1, Zenon DEF Keeps
      <3> QED
        BY <2>1, <2>8, <3>2, ForwardKept, Zenon
    <2> QED
      BY <2>7, <2>8, <2>9, <2>10, NatStep, Zenon
  <1>4. CASE RestoreForward(r) \/ KillRunner(r)
    <2>1. /\ UNCHANGED <<rules, found, lease>> /\ nat[r][1] \notin {"idle", "over"}
          /\ nat' = [nat EXCEPT ![r] = <<"over", 0>>]
          /\ \/ nat[r][1] = "restore" /\ lease[r].previous = "0" /\ forward' = "0" /\ glitch' = glitch
             \/ forward' = forward /\ glitch' = glitch \cup {r}
             \/ nat[r][1] = "restore" /\ lease[r].previous # "0" /\ forward' = forward /\ glitch' = glitch
      BY <1>4, Zenon DEF RestoreForward, KillRunner, WasOff, At, Continue
    <2>2. NatTypeOK'
      <3>1. NatPcOK'
        <4>1. "over" \in NatLabel /\ 0 \in 0 .. 3 /\ ("over" \in {"check", "add", "delete"} => 0 \in 1 .. 3)
          OBVIOUS
        <4> QED
          BY <1>0, <2>1, <4>1, NatMove, Zenon
      <3> QED
        BY <1>0, <2>1, <3>1, Zenon DEF NatTypeOK, NatPcOK
    <2>3. NatFrame(r) /\ nat'[r] = <<"over", 0>>
      BY <1>0, <2>1, Zenon DEF NatFrame, NatTypeOK
    <2>4. LeaseInv(r)'
      <3>1. \A k \in 1 .. 3 : ~Pending(r, k)'
        BY <2>3 DEF Pending, At
      <3>2. nat[r][1] = "restore" => \A k \in 1 .. 3 : ~Pending(r, k)
        BY Zenon DEF Pending, At
      <3>3. CountInv(r)'
        BY <1>0, <1>1, <2>1, <3>1, <3>2, Zenon DEF LeaseInv, CountInv, Counts
      <3>4. PhaseInv(r)'
        BY <2>3 DEF PhaseInv, Phase
      <3> QED
        BY <3>3, <3>4, Zenon DEF LeaseInv
    <2>5. ForwardInv'
      <3>1. CASE lease[r].previous = "0" /\ forward' = "0" /\ glitch' = glitch
        BY <1>0, <2>1, <3>1, Zenon DEF ForwardInv
      <3>2. CASE glitch' = glitch \cup {r}
        BY <3>2, Zenon DEF ForwardInv
      <3>3. CASE lease[r].previous # "0" /\ forward' = forward /\ glitch' = glitch
        BY <2>1, <2>3, <3>3, ForwardKept, Zenon DEF Keeps
      <3> QED
        BY <2>1, <3>1, <3>2, <3>3, Zenon
    <2> QED
      BY <2>2, <2>3, <2>4, <2>5, NatStep, Zenon
  <1> QED
    BY <1>2, <1>3, <1>4, Zenon

\* For any runners and any rules of the administrator: NatInv is inductive.
THEOREM NatInvariant == NatSpec => []NatInv
  <1>1. NatInv /\ [NatNext]_natVars => NatInv'
    <2> SUFFICES ASSUME NatInv, [NatNext]_natVars PROVE NatInv'
      BY Zenon
    <2>1. CASE NatNext
      BY <2>1, SetupKeepsNat, CleanupKeepsNat, Zenon DEF NatNext
    <2>2. CASE UNCHANGED natVars
      <3>1. NatTypeOK' /\ ForwardInv'
        BY <2>2, Zenon DEF natVars, NatInv, NatTypeOK, ForwardInv, Keeps
      <3>2. ASSUME NEW r \in Runner PROVE LeaseInv(r)'
        <4>1. LeaseInv(r) /\ UNCHANGED <<rules, found, nat, lease, glitch>>
          BY <2>2, Zenon DEF natVars, NatInv
        <4>2. \A k \in 1 .. 3 : Pending(r, k)' <=> Pending(r, k)
          BY <4>1, Zenon DEF Pending, At, Step
        <4>3. CountInv(r)'
          BY <4>1, <4>2, CountKept, Zenon
        <4>4. PhaseInv(r)'
          BY <4>1, Zenon DEF LeaseInv, PhaseInv
        <4> QED
          BY <4>3, <4>4, Zenon DEF LeaseInv
      <3> QED
        BY <3>1, <3>2, Zenon DEF NatInv
    <2> QED
      BY <2>1, <2>2, Zenon
  <1> QED
    BY <1>1, InitNat, PTL DEF NatSpec

\* A running container has its three rules and the administrator keeps theirs,
\* however many runners share the host and however their commands fail.
THEOREM RulesSafety == NatSpec => []RulesKept
  <1>1. NatInv => RulesKept
    BY RuleFact, Zenon DEF NatInv, LeaseInv, CountInv, Counts, PhaseInv, Phase, RulesKept, UpHasRules, AdminRulesKept, At
  <1> QED
    BY <1>1, NatInvariant, PTL

\* Runners whose commands told the truth leave no rule behind, and the last of
\* them leaves ip_forward as the first found it.
THEOREM RestoreSafety == NatSpec => []HostNetworkRestored
  <1> SUFFICES ASSUME NatInv PROVE HostNetworkRestored
    BY NatInvariant, PTL
  <1>1. ASSUME NEW r \in Runner, r \notin glitch, At(r, "over")
        PROVE  rules[r] = found.rules[r]
    <2>1. \A k \in 1 .. 3 : ~Pending(r, k)
      BY <1>1, Zenon DEF Pending, At
    <2>2. \A k \in 1 .. 3 : rules[r][k] = found.rules[r][k]
      BY <1>1, <2>1, Zenon DEF NatInv, LeaseInv, CountInv, Counts
    <2> QED
      BY <2>2 DEF NatInv, NatTypeOK
  <1>2. NatOver => \A r \in Runner : ~Keeps(r)
    BY Zenon DEF NatOver, Keeps, At
  <1> QED
    BY <1>1, <1>2, Zenon DEF HostNetworkRestored, RulesRemoved, ForwardingRestored, NatInv, ForwardInv, NatTypeOK

-----------------------------------------------------------------------------
(* BridgeAllocator. *)

\* The minimum of a set of numbers is one of them.
LEMMA MinIsMember ==
  ASSUME NEW S \in SUBSET Nat, S # {}
  PROVE  Min(S) \in S
  <1>1. PICK x \in S : \A y \in S : <<y, x>> \notin OpToRel(<, Nat)
    BY NatLessThanWellFounded, WFMin, Zenon
  <1>2. \A y \in S : ~(y < x)
    BY <1>1, Zenon DEF OpToRel
  <1>3. \A y \in S : x =< y
    BY <1>2
  <1> QED
    BY <1>3, Zenon DEF Min

Calling ==
    {"mkdir", "probe", "unlink", "rmdir", "create", "write", "read", "truncate", "store",
     "drop", "fail", "drop2", "fail2"}
OctetOrNone == Octet \cup {0}

BridgeTypeOK ==
    /\ serial \in BOOLEAN /\ lockdir \in BOOLEAN
    /\ owner \in [file : Proc \cup {Nobody}, pid : Proc \cup {Nobody}]
    /\ table \in [kind : {"whole", "torn"}, map : [Id -> OctetOrNone]]
    /\ pc \in [Proc -> Calling \cup {"idle", "using"} \cup Ended]
    /\ phase \in [Proc -> {"allocate", "release"}]
    /\ tries \in [Proc -> Nat]
    /\ ofd \in [Proc -> Proc \cup {Nobody}]
    /\ mem \in [Proc -> [Id -> OctetOrNone]]
    /\ octet \in [Proc -> OctetOrNone]
    /\ gone \subseteq Proc

\* One process runs an id at a time, and its subnet is the only one of the id.
OneRun ==
    \A p, q \in Proc :
        IdOf[p] = IdOf[q] /\ (Active(p) \/ octet[p] # 0) /\ (Active(q) \/ octet[q] # 0) => p = q

OctetInv ==
    /\ \A p \in Proc : /\ octet[p] # 0 => pc[p] \in {"using", "crashed"}
                       /\ pc[p] = "using" => octet[p] # 0
    /\ \A p, q \in Proc :
           IdOf[p] # IdOf[q] /\ octet[p] # 0 /\ octet[q] # 0 => octet[p] # octet[q]

\* m has every subnet of o, under its id, and none twice.
Records(m, o) ==
    /\ \A q \in Proc : o[q] # 0 => m[IdOf[q]] = o[q]
    /\ \A i, j \in Id : m[i] = m[j] /\ m[i] # 0 => i = j

\* m has every subnet in use.
Agrees(m) == Records(m, octet)

TableInv == table.kind = "whole" => Agrees(table.map)

MemInv(p) ==
    /\ pc[p] \in {"truncate", "store", "drop", "drop2"} =>
           Agrees(mem[p]) /\ (phase[p] = "allocate" => mem[p][IdOf[p]] # 0)
    /\ pc[p] \in {"drop", "drop2"} /\ table.kind = "whole" => table.map = mem[p]

OneCall == \A p, q \in Proc : pc[p] \in Calling /\ pc[q] \in Calling => p = q

AllocationInv ==
    /\ OneCall /\ OneRun /\ OctetInv /\ TableInv
    /\ \A p \in Proc : MemInv(p)

\* owner.json names a process in its critical section, or one that was killed in it.
OwnerInv ==
    /\ ~lockdir => owner = NoOwner
    /\ owner.file = Nobody => owner.pid = Nobody
    /\ \A p \in Proc : owner.pid = p =>
           pc[p] \in {"read", "truncate", "store", "drop", "fail", "crashed"}

\* The caller finds no live owner, and needs at most one round more than the first.
LockInv(p) ==
    /\ pc[p] \in {"mkdir", "probe", "unlink"} => owner.pid \in gone \cup {Nobody}
    /\ pc[p] \in {"idle", "using", "probe", "unlink", "rmdir"} => tries[p] = 0
    /\ pc[p] = "mkdir" /\ lockdir => tries[p] = 0
    /\ pc[p] \in {"probe", "unlink", "rmdir", "create"} => lockdir
    /\ pc[p] \in {"rmdir", "create", "drop2", "fail2"} => owner = NoOwner
    /\ pc[p] = "write" => owner.file = ofd[p] /\ owner.file # Nobody
    /\ pc[p] \in {"fail", "fail2"} =>
           table.kind = "torn" \/ (phase[p] = "allocate" /\ Free(table.map) = {})

SerialInv == AllocationInv /\ OwnerInv /\ \A p \in Proc : LockInv(p)
BridgeInv == BridgeTypeOK /\ (serial => SerialInv)

LEMMA EmptyFact == Empty \in [Id -> OctetOrNone] /\ \A i \in Id : Empty[i] = 0
  BY Zenon DEF Empty, OctetOrNone

LEMMA InitBridge == BridgeInit => BridgeInv
  <1> SUFFICES ASSUME BridgeInit PROVE BridgeInv
    BY Zenon
  <1>1. /\ lockdir = FALSE /\ owner = NoOwner /\ table = Whole(Empty)
        /\ phase = [p \in Proc |-> "allocate"] /\ tries = [p \in Proc |-> 0]
        /\ ofd = [p \in Proc |-> Nobody] /\ mem = [p \in Proc |-> Empty]
        /\ octet = [p \in Proc |-> 0] /\ pc = [p \in Proc |-> "idle"] /\ gone = {}
        /\ serial \in BOOLEAN
    BY ModesAssumption, Zenon DEF BridgeInit, Untouched
  <1>2. owner.file = Nobody /\ owner.pid = Nobody
    BY <1>1, Zenon DEF NoOwner
  <1>3. table.map = Empty /\ table.kind = "whole"
    BY <1>1, Zenon DEF Whole
  <1>4. BridgeTypeOK
    BY <1>1, EmptyFact, Zenon DEF BridgeTypeOK, NoOwner, Whole, OctetOrNone, Calling, Ended
  <1>5. Agrees(table.map)
    BY <1>1, <1>3, EmptyFact, Zenon DEF Agrees, Records
  <1>6. AllocationInv
    BY <1>1, <1>3, <1>5, Zenon
       DEF AllocationInv, OneCall, OneRun, OctetInv, TableInv, MemInv, Active, Calling, Ended
  <1>7. OwnerInv
    BY <1>1, <1>2, NobodyAssumption, Zenon DEF OwnerInv
  <1>8. \A p \in Proc : LockInv(p)
    BY <1>1, Zenon DEF LockInv
  <1> QED
    BY <1>4, <1>6, <1>7, <1>8, Zenon DEF BridgeInv, SerialInv

LEMMA FreeFact ==
  ASSUME NEW m \in [Id -> OctetOrNone], Free(m) # {}
  PROVE  /\ NextFreeBridgeOctet(m) \in Octet /\ NextFreeBridgeOctet(m) # 0
         /\ \A i \in Id : m[i] # NextFreeBridgeOctet(m)
  <1>1. Free(m) \in SUBSET Nat
    BY OctetAssumption, Zenon DEF Free
  <1>2. NextFreeBridgeOctet(m) \in Free(m)
    BY <1>1, MinIsMember, Zenon DEF NextFreeBridgeOctet
  <1> QED
    BY <1>2, OctetAssumption, Zenon DEF Free

\* What p reads into memory.
LEMMA ReadFact ==
  ASSUME BridgeTypeOK, NEW p \in Proc, ReadAllocations(p)
  PROVE  LET m == table.map IN
         \/ /\ ~Parses \/ (phase[p] = "allocate" /\ Free(m) = {})
            /\ Goto(p, "fail") /\ mem' = mem
         \/ /\ Parses /\ phase[p] = "release"
            /\ mem' = [mem EXCEPT ![p] = [m EXCEPT ![IdOf[p]] = 0]] /\ Goto(p, "truncate")
         \/ /\ Parses /\ phase[p] = "allocate" /\ m[IdOf[p]] # 0
            /\ mem' = [mem EXCEPT ![p] = m] /\ Goto(p, "drop")
         \/ /\ Parses /\ phase[p] = "allocate" /\ m[IdOf[p]] = 0 /\ Free(m) # {}
            /\ mem' = [mem EXCEPT ![p] = [m EXCEPT ![IdOf[p]] = NextFreeBridgeOctet(m)]]
            /\ Goto(p, "truncate")
  <1>1. phase[p] \in {"allocate", "release"}
    BY Zenon DEF BridgeTypeOK
  <1> QED
    BY <1>1, Zenon DEF ReadAllocations

\* The maps that p may read are allocations.
LEMMA ReadType ==
  ASSUME BridgeTypeOK, NEW p \in Proc
  PROVE  /\ IdOf[p] \in Id
         /\ table.map \in [Id -> OctetOrNone]
         /\ [table.map EXCEPT ![IdOf[p]] = 0] \in [Id -> OctetOrNone]
         /\ Free(table.map) # {} =>
                [table.map EXCEPT ![IdOf[p]] = NextFreeBridgeOctet(table.map)] \in [Id -> OctetOrNone]
  <1>1. table.map \in [Id -> OctetOrNone] /\ IdOf[p] \in Id
    BY IdAssumption, Zenon DEF BridgeTypeOK
  <1>2. [table.map EXCEPT ![IdOf[p]] = 0] \in [Id -> OctetOrNone]
    BY <1>1, Zenon DEF OctetOrNone
  <1>3. ASSUME Free(table.map) # {}
        PROVE  [table.map EXCEPT ![IdOf[p]] = NextFreeBridgeOctet(table.map)] \in [Id -> OctetOrNone]
    <2>1. NextFreeBridgeOctet(table.map) \in OctetOrNone
      BY <1>1, <1>3, FreeFact, Zenon DEF OctetOrNone
    <2> QED
      BY <1>1, <2>1, Zenon
  <1> QED
    BY <1>1, <1>2, <1>3, Zenon

LEMMA CallType ==
  ASSUME BridgeTypeOK, NEW p \in Proc, Call(p), UNCHANGED serial
  PROVE  BridgeTypeOK'
  <1> USE DEF BridgeTypeOK, Goto, Calling, Ended
  <1>1. CASE MakeLockDir(p)
    BY <1>1, Zenon DEF MakeLockDir
  <1>2. CASE ProbeLock(p)
    BY <1>2, TriesAssumption DEF ProbeLock, NextRound
  <1>3. CASE UnlinkStale(p)
    BY <1>3, Zenon DEF UnlinkStale, NoOwner
  <1>4. CASE RemoveStale(p)
    <2>1. /\ UNCHANGED <<owner, table, phase, ofd, mem, octet, gone>> /\ lockdir' \in BOOLEAN
          /\ NextRound(p) \/ (Goto(p, "err") /\ UNCHANGED tries)
      BY <1>4, Zenon DEF RemoveStale
    <2>2. /\ tries' = tries \/ tries' = [tries EXCEPT ![p] = tries[p] + 1]
          /\ Goto(p, "mkdir") \/ Goto(p, "err")
      BY <2>1, Zenon DEF NextRound
    <2>3. tries' \in [Proc -> Nat]
      <3>1. tries \in [Proc -> Nat]
        BY Zenon
      <3> HIDE DEF BridgeTypeOK, Goto
      <3> QED
        BY <2>2, <3>1
    <2>4. pc' \in [Proc -> Calling \cup {"idle", "using"} \cup Ended]
      <3>1. pc \in [Proc -> Calling \cup {"idle", "using"} \cup Ended]
        BY Zenon
      <3>2. pc' = [pc EXCEPT ![p] = "mkdir"] \/ pc' = [pc EXCEPT ![p] = "err"]
        BY <2>2, Zenon
      <3> HIDE DEF BridgeTypeOK, Goto
      <3> QED
        BY <3>1, <3>2, Zenon
    <2> QED
      BY <2>1, <2>3, <2>4, Zenon
  <1>5. CASE CreateOwner(p)
    <2>1. /\ UNCHANGED <<lockdir, table, phase, tries, mem, octet, gone>>
          /\ \/ \E f \in Proc \cup {Nobody} :
                    /\ owner' = [file |-> f, pid |-> Nobody]
                    /\ ofd' = [ofd EXCEPT ![p] = f]
                    /\ Goto(p, "write")
             \/ Goto(p, "err") /\ UNCHANGED <<owner, ofd>>
      BY <1>5, Zenon DEF CreateOwner
    <2>2. owner' \in [file : Proc \cup {Nobody}, pid : Proc \cup {Nobody}]
          /\ ofd' \in [Proc -> Proc \cup {Nobody}]
      <3>1. /\ ofd \in [Proc -> Proc \cup {Nobody}]
            /\ owner \in [file : Proc \cup {Nobody}, pid : Proc \cup {Nobody}]
        BY Zenon
      <3> HIDE DEF BridgeTypeOK, Goto, Calling, Ended
      <3> QED
        BY <2>1, <3>1
    <2> QED
      BY <2>1, <2>2, Zenon
  <1>6. CASE WriteOwner(p)
    BY <1>6, Zenon DEF WriteOwner
  <1>7. CASE ReadAllocations(p)
    <2>1. UNCHANGED <<lockdir, owner, table, phase, tries, ofd, octet, gone>>
      BY <1>7, Zenon DEF ReadAllocations
    <2>2. mem' \in [Proc -> [Id -> OctetOrNone]]
      <3>1. \/ mem' = mem
            \/ \E m \in [Id -> OctetOrNone] : mem' = [mem EXCEPT ![p] = m]
        <4> HIDE DEF BridgeTypeOK, Goto
        <4> QED
          BY <1>7, ReadFact, ReadType, Zenon
      <3> QED
        BY <3>1, Zenon
    <2>3. pc' \in [Proc -> Calling \cup {"idle", "using"} \cup Ended]
      BY <1>7, ReadFact
    <2> QED
      BY <2>1, <2>2, <2>3, Zenon
  <1>8. CASE TruncateAllocations(p)
    BY <1>8, EmptyFact, Zenon DEF TruncateAllocations, Unparsable
  <1>9. CASE StoreAllocations(p)
    BY <1>9, EmptyFact DEF StoreAllocations, Unparsable, Whole
  <1>10. CASE DropUnlink(p)
    BY <1>10, Zenon DEF DropUnlink, NoOwner
  <1>11. CASE DropRemoveDir(p)
    <2>1. /\ UNCHANGED <<owner, table, phase, gone>> /\ lockdir' \in BOOLEAN
          /\ mem' = [mem EXCEPT ![p] = Empty] /\ tries' = [tries EXCEPT ![p] = 0]
          /\ ofd' = [ofd EXCEPT ![p] = Nobody]
      BY <1>11, Zenon DEF DropRemoveDir, Forget
    <2>2. /\ octet' = octet \/ octet' = [octet EXCEPT ![p] = mem[p][IdOf[p]]]
          /\ \E l \in {"err", "ok", "using"} : Goto(p, l)
      BY <1>11, Zenon DEF DropRemoveDir
    <2>3. octet' \in [Proc -> OctetOrNone]
      <3>1. mem[p][IdOf[p]] \in OctetOrNone
        BY IdAssumption
      <3> QED
        BY <2>2, <3>1, Zenon
    <2>4. pc' \in [Proc -> Calling \cup {"idle", "using"} \cup Ended]
      BY <2>2, Zenon
    <2>5. mem' \in [Proc -> [Id -> OctetOrNone]]
      BY <2>1, EmptyFact, Zenon
    <2> QED
      BY <2>1, <2>3, <2>4, <2>5, Zenon
  <1> QED
    BY <1>1, <1>2, <1>3, <1>4, <1>5, <1>6, <1>7, <1>8, <1>9, <1>10, <1>11, Zenon DEF Call

LEMMA NextType ==
  ASSUME BridgeTypeOK, BridgeNext
  PROVE  BridgeTypeOK'
  <1>1. PICK p \in Proc : Begin(p) \/ Call(p) \/ BeginRelease(p) \/ Crash(p) \/ Reap(p)
    BY Zenon DEF BridgeNext
  <1>2. UNCHANGED serial
    BY Zenon DEF BridgeNext
  <1>3. CASE Call(p)
    BY <1>2, <1>3, CallType, Zenon
  <1> USE DEF BridgeTypeOK, Goto, Calling, Ended
  <1>4. CASE Begin(p)
    BY <1>2, <1>4, Zenon DEF Begin, OctetOrNone
  <1>5. CASE BeginRelease(p)
    BY <1>2, <1>5, Zenon DEF BeginRelease, OctetOrNone
  <1>6. CASE Crash(p)
    BY <1>2, <1>6, EmptyFact, Zenon DEF Crash, Forget
  <1>7. CASE Reap(p)
    BY <1>2, <1>7, Zenon DEF Reap
  <1> QED
    BY <1>1, <1>3, <1>4, <1>5, <1>6, <1>7, Zenon

\* What a step of p leaves alone of the other processes.
BridgeFrame(p) ==
    \A q \in Proc \ {p} : /\ pc'[q] = pc[q] /\ phase'[q] = phase[q] /\ tries'[q] = tries[q]
                          /\ ofd'[q] = ofd[q] /\ mem'[q] = mem[q]

\* While p is in a call nobody else is, so that their part is kept whatever p does.
LEMMA CallerStep ==
  ASSUME BridgeTypeOK, SerialInv, NEW p \in Proc, pc[p] \in Calling, BridgeFrame(p)
  PROVE  /\ OneCall'
         /\ \A q \in Proc \ {p} : pc[q] \notin Calling /\ MemInv(q)' /\ LockInv(q)'
  <1>1. \A q \in Proc \ {p} : pc[q] \notin Calling /\ pc'[q] \notin Calling
    BY Zenon DEF SerialInv, AllocationInv, OneCall, BridgeFrame
  <1>2. OneCall'
    BY <1>1, Zenon DEF OneCall
  <1>3. \A q \in Proc \ {p} : MemInv(q)'
    BY <1>1, Zenon DEF MemInv, Calling
  <1>4. \A q \in Proc \ {p} : tries'[q] = tries[q] /\ pc'[q] = pc[q] /\ LockInv(q)
    BY Zenon DEF BridgeFrame, SerialInv
  <1>5. \A q \in Proc \ {p} : LockInv(q)'
    BY <1>1, <1>4, Zenon DEF LockInv, Calling
  <1> QED
    BY <1>1, <1>2, <1>3, <1>5, Zenon

\* A step of a call that assigns no subnet.
LEMMA OctetKept ==
  ASSUME BridgeTypeOK, SerialInv, NEW p \in Proc, pc[p] \in Calling, BridgeFrame(p),
         octet' = octet, pc'[p] # "using"
  PROVE  OneRun' /\ OctetInv'
  <1>1. OneRun /\ OctetInv /\ Active(p)
    BY Zenon DEF SerialInv, AllocationInv, Active, Calling, Ended
  <1>2. \A q \in Proc : Active(q)' => Active(q)
    BY <1>1, Zenon DEF BridgeFrame, Active
  <1>3. OneRun'
    BY <1>1, <1>2, Zenon DEF OneRun
  <1>4. octet[p] = 0
    BY <1>1, Zenon DEF OctetInv, Calling
  <1>5. OctetInv'
    BY <1>1, <1>4, Zenon DEF OctetInv, BridgeFrame
  <1> QED
    BY <1>3, <1>5, Zenon

\* The steps on the lock do not touch the allocations.
LEMMA LockStep ==
  ASSUME BridgeTypeOK, SerialInv, NEW p \in Proc, pc[p] \in Calling, BridgeFrame(p),
         UNCHANGED <<table, phase, mem, octet, gone>>,
         pc'[p] \in {"mkdir", "probe", "unlink", "rmdir", "create", "write", "read", "err",
                     "fail2", "crashed"}
            \/ (pc[p] = "drop" /\ pc'[p] = "drop2"),
         OwnerInv', LockInv(p)'
  PROVE  SerialInv'
  <1>1. OneRun' /\ OctetInv' /\ OneCall'
    BY OctetKept, CallerStep, Zenon
  <1>2. TableInv'
    BY Zenon DEF SerialInv, AllocationInv, TableInv, Agrees
  <1>3. MemInv(p)'
    <2>1. MemInv(p)
      BY Zenon DEF SerialInv, AllocationInv
    <2> QED
      BY <2>1, Zenon DEF MemInv, Agrees
  <1> QED
    BY <1>1, <1>2, <1>3, CallerStep, Zenon DEF SerialInv, AllocationInv

LEMMA MoveFact ==
  ASSUME BridgeTypeOK, NEW p \in Proc, NEW l, Goto(p, l)
  PROVE  pc'[p] = l /\ \A q \in Proc \ {p} : pc'[q] = pc[q]
  BY Zenon DEF BridgeTypeOK, Goto

LEMMA OwnerFact == NoOwner.file = Nobody /\ NoOwner.pid = Nobody
  BY Zenon DEF NoOwner

LEMMA OwnerEqual ==
  ASSUME BridgeTypeOK, owner.file = Nobody, owner.pid = Nobody
  PROVE  owner = NoOwner
  BY Zenon DEF BridgeTypeOK, NoOwner

LEMMA AcquireKeepsSerial ==
  ASSUME BridgeTypeOK, SerialInv, NEW p \in Proc,
         MakeLockDir(p) \/ ProbeLock(p) \/ UnlinkStale(p) \/ RemoveStale(p)
  PROVE  SerialInv'
  <1>0. OwnerInv /\ LockInv(p)
    BY Zenon DEF SerialInv
  <1>1. CASE MakeLockDir(p)
    <2>1. /\ pc[p] = "mkdir" /\ UNCHANGED <<owner, table, phase, tries, ofd, mem, octet, gone>>
          /\ lockdir' /\ Goto(p, IF lockdir THEN "probe" ELSE "create")
      BY <1>1, Zenon DEF MakeLockDir
    <2>2. /\ pc'[p] = IF lockdir THEN "probe" ELSE "create"
          /\ \A q \in Proc \ {p} : pc'[q] = pc[q]
      BY <2>1, MoveFact, Zenon
    <2>3. BridgeFrame(p)
      BY <2>1, <2>2, Zenon DEF BridgeFrame
    <2>4. OwnerInv'
      BY <1>0, <2>1, <2>2, Zenon DEF OwnerInv
    <2>5. LockInv(p)'
      BY <1>0, <2>1, <2>2, Zenon DEF LockInv, OwnerInv
    <2> QED
      BY <2>1, <2>2, <2>3, <2>4, <2>5, LockStep, Zenon DEF Calling
  <1>2. CASE ProbeLock(p)
    <2>1. pc[p] = "probe" /\ UNCHANGED <<lockdir, owner, table, phase, ofd, mem, octet, gone>>
      BY <1>2, Zenon DEF ProbeLock
    <2>2. owner.pid \in gone \cup {Nobody} /\ Nobody \notin Proc /\ lockdir
      BY <1>0, <2>1, NobodyAssumption, Zenon DEF LockInv
    <2>3. \/ AllocationLockIsStale /\ Goto(p, "unlink") /\ UNCHANGED tries
          \/ Goto(p, "err") /\ UNCHANGED tries
      BY <1>2, <2>2, Zenon DEF ProbeLock, AllocationLockIsStale
    <2>4. pc'[p] \in {"unlink", "err"} /\ \A q \in Proc \ {p} : pc'[q] = pc[q]
      BY <2>3, MoveFact, Zenon
    <2>5. BridgeFrame(p)
      BY <2>1, <2>3, <2>4, Zenon DEF BridgeFrame
    <2>6. OwnerInv'
      BY <1>0, <2>1, <2>4, Zenon DEF OwnerInv
    <2>7. LockInv(p)'
      BY <1>0, <2>1, <2>3, <2>4, Zenon DEF LockInv
    <2> QED
      BY <2>1, <2>4, <2>5, <2>6, <2>7, LockStep, Zenon DEF Calling
  <1>3. CASE UnlinkStale(p)
    <2>1. /\ pc[p] = "unlink" /\ UNCHANGED <<lockdir, table, phase, tries, ofd, mem, octet, gone>>
          /\ owner' = NoOwner /\ lockdir
      BY <1>0, <1>3, Zenon DEF UnlinkStale, LockInv
    <2>2. pc'[p] = "rmdir" /\ \A q \in Proc \ {p} : pc'[q] = pc[q]
      BY <1>3, <2>1, MoveFact, Zenon DEF UnlinkStale
    <2>3. BridgeFrame(p)
      BY <2>1, <2>2, Zenon DEF BridgeFrame
    <2>4. OwnerInv'
      BY <2>1, OwnerFact, NobodyAssumption, Zenon DEF OwnerInv
    <2>5. LockInv(p)'
      BY <1>0, <2>1, <2>2, Zenon DEF LockInv
    <2> QED
      BY <2>1, <2>2, <2>3, <2>4, <2>5, LockStep, Zenon DEF Calling
  <1>4. CASE RemoveStale(p)
    <2>1. /\ pc[p] = "rmdir" /\ UNCHANGED <<owner, table, phase, ofd, mem, octet, gone>>
          /\ owner = NoOwner /\ lockdir /\ tries[p] = 0
      BY <1>0, <1>4, Zenon DEF RemoveStale, LockInv
    <2>2. ~lockdir' /\ tries' = [tries EXCEPT ![p] = 1] /\ Goto(p, "mkdir")
      BY <1>4, <2>1, OwnerFact, TriesAssumption DEF RemoveStale, NextRound
    <2>3. pc'[p] = "mkdir" /\ \A q \in Proc \ {p} : pc'[q] = pc[q]
      BY <2>2, MoveFact, Zenon
    <2>4. BridgeFrame(p)
      BY <2>1, <2>2, <2>3, Zenon DEF BridgeFrame, BridgeTypeOK
    <2>5. OwnerInv'
      BY <2>1, <2>2, OwnerFact, NobodyAssumption, Zenon DEF OwnerInv
    <2>6. LockInv(p)'
      BY <2>1, <2>2, <2>3, OwnerFact, Zenon DEF LockInv
    <2> QED
      BY <2>1, <2>3, <2>4, <2>5, <2>6, LockStep, Zenon DEF Calling
  <1> QED
    BY <1>1, <1>2, <1>3, <1>4, Zenon

LEMMA HoldKeepsSerial ==
  ASSUME BridgeTypeOK, SerialInv, NEW p \in Proc,
         CreateOwner(p) \/ WriteOwner(p) \/ DropUnlink(p)
  PROVE  SerialInv'
  <1>0. OwnerInv /\ LockInv(p)
    BY Zenon DEF SerialInv
  <1>1. CASE CreateOwner(p)
    <2>1. /\ pc[p] = "create" /\ UNCHANGED <<lockdir, table, phase, tries, mem, octet, gone>>
          /\ lockdir /\ owner = NoOwner
      BY <1>0, <1>1, Zenon DEF CreateOwner, LockInv
    <2>2. /\ owner' = [file |-> p, pid |-> Nobody] /\ ofd' = [ofd EXCEPT ![p] = p]
          /\ Goto(p, "write")
      BY <1>1, <2>1, OwnerFact, Zenon DEF CreateOwner
    <2>3. pc'[p] = "write" /\ \A q \in Proc \ {p} : pc'[q] = pc[q]
      BY <2>2, MoveFact, Zenon
    <2>4. ofd'[p] = p /\ owner'.file = p /\ owner'.pid = Nobody /\ p # Nobody
      BY <2>2, NobodyAssumption, Zenon DEF BridgeTypeOK
    <2>5. BridgeFrame(p)
      BY <2>1, <2>2, <2>3, Zenon DEF BridgeFrame, BridgeTypeOK
    <2>6. OwnerInv'
      BY <2>1, <2>4, NobodyAssumption, Zenon DEF OwnerInv
    <2>7. LockInv(p)'
      BY <2>3, <2>4, Zenon DEF LockInv
    <2> QED
      BY <2>1, <2>3, <2>5, <2>6, <2>7, LockStep, Zenon DEF Calling
  <1>2. CASE WriteOwner(p)
    <2>1. /\ pc[p] = "write" /\ UNCHANGED <<lockdir, table, phase, tries, mem, octet, gone>>
          /\ owner.file = ofd[p] /\ owner.file # Nobody
          /\ ofd' = [ofd EXCEPT ![p] = Nobody] /\ Goto(p, "read")
      BY <1>0, <1>2, Zenon DEF WriteOwner, LockInv
    <2>2. \/ owner' = [owner EXCEPT !.pid = p]
          \/ owner' = [owner EXCEPT !.pid = Nobody]
      BY <1>2, <2>1, Zenon DEF WriteOwner
    <2>3. pc'[p] = "read" /\ \A q \in Proc \ {p} : pc'[q] = pc[q]
      BY <2>1, MoveFact, Zenon
    <2>4. owner'.file = owner.file /\ owner'.pid \in {p, Nobody}
      BY <2>2, Zenon DEF BridgeTypeOK
    <2>5. BridgeFrame(p)
      BY <2>1, <2>3, Zenon DEF BridgeFrame, BridgeTypeOK
    <2>6. lockdir
      BY <1>0, <2>1, OwnerFact, Zenon DEF OwnerInv
    <2>7. OwnerInv'
      BY <2>1, <2>3, <2>4, <2>6, NobodyAssumption, Zenon DEF OwnerInv
    <2>8. LockInv(p)'
      BY <2>3, Zenon DEF LockInv
    <2> QED
      BY <2>1, <2>3, <2>5, <2>7, <2>8, LockStep, Zenon DEF Calling
  <1>3. CASE DropUnlink(p)
    <2>1. /\ pc[p] \in {"drop", "fail"} /\ UNCHANGED <<lockdir, table, phase, tries, ofd, mem, octet, gone>>
          /\ owner' = NoOwner
      BY <1>3, Zenon DEF DropUnlink
    <2>2. /\ pc'[p] = IF pc[p] = "drop" THEN "drop2" ELSE "fail2"
          /\ \A q \in Proc \ {p} : pc'[q] = pc[q]
      BY <1>3, MoveFact, Zenon DEF DropUnlink
    <2>3. BridgeFrame(p)
      BY <2>1, <2>2, Zenon DEF BridgeFrame
    <2>4. OwnerInv'
      BY <2>1, OwnerFact, NobodyAssumption, Zenon DEF OwnerInv
    <2>5. LockInv(p)'
      BY <1>0, <2>1, <2>2, Zenon DEF LockInv
    <2> QED
      BY <2>1, <2>2, <2>3, <2>4, <2>5, LockStep, Zenon DEF Calling
  <1> QED
    BY <1>1, <1>2, <1>3, Zenon

\* Giving the id of the caller a free octet, or none, keeps a map in agreement.
LEMMA AgreesUpdate ==
  ASSUME BridgeTypeOK, SerialInv, NEW p \in Proc, pc[p] \in Calling,
         NEW m \in [Id -> OctetOrNone], Agrees(m),
         NEW v \in OctetOrNone, v = 0 \/ \A i \in Id : m[i] # v
  PROVE  Agrees([m EXCEPT ![IdOf[p]] = v])
  <1>1. IdOf \in [Proc -> Id]
    BY IdAssumption, Zenon
  <1>2. \A q \in Proc : octet[q] # 0 => IdOf[q] # IdOf[p]
    <2>1. Active(p) /\ octet[p] = 0
      BY Zenon DEF Active, Calling, Ended, SerialInv, AllocationInv, OctetInv
    <2> QED
      BY <2>1, Zenon DEF SerialInv, AllocationInv, OneRun
  <1> QED
    BY <1>1, <1>2, Zenon DEF Agrees, Records

\* A step of a call on allocations.json.
LEMMA TableStep ==
  ASSUME BridgeTypeOK, SerialInv, NEW p \in Proc, pc[p] \in {"read", "truncate", "store"},
         BridgeFrame(p), UNCHANGED <<lockdir, owner, octet, gone>>,
         pc'[p] \in {"truncate", "store", "drop", "fail"},
         TableInv', MemInv(p)', LockInv(p)'
  PROVE  SerialInv'
  <1>1. OneRun' /\ OctetInv' /\ OneCall'
    BY OctetKept, CallerStep, Zenon DEF Calling
  <1>2. OwnerInv'
    BY Zenon DEF SerialInv, OwnerInv, BridgeFrame
  <1> QED
    BY <1>1, <1>2, CallerStep, Zenon DEF SerialInv, AllocationInv, Calling

LEMMA TableKeepsSerial ==
  ASSUME BridgeTypeOK, SerialInv, NEW p \in Proc,
         ReadAllocations(p) \/ TruncateAllocations(p) \/ StoreAllocations(p)
  PROVE  SerialInv'
  <1>0. TableInv /\ MemInv(p) /\ mem \in [Proc -> [Id -> OctetOrNone]] /\ phase[p] \in {"allocate", "release"}
    BY Zenon DEF SerialInv, AllocationInv, BridgeTypeOK
  <1>1. CASE ReadAllocations(p)
    <2>1. pc[p] = "read" /\ UNCHANGED <<lockdir, owner, table, phase, tries, ofd, octet, gone>>
      BY <1>1, Zenon DEF ReadAllocations
    <2>2. TableInv'
      BY <1>0, <2>1, Zenon DEF TableInv, Agrees
    <2>3. ASSUME Goto(p, "fail"), mem' = mem, ~Parses \/ (phase[p] = "allocate" /\ Free(table.map) = {})
          PROVE  SerialInv'
      <3>1. pc'[p] = "fail" /\ \A q \in Proc \ {p} : pc'[q] = pc[q]
        BY <2>3, MoveFact, Zenon
      <3>2. BridgeFrame(p)
        BY <2>1, <2>3, <3>1, Zenon DEF BridgeFrame
      <3>3. LockInv(p)'
        BY <2>1, <2>3, <3>1, Zenon DEF LockInv, Parses, BridgeTypeOK
      <3>4. MemInv(p)'
        BY <3>1, Zenon DEF MemInv
      <3> QED
        BY <2>1, <2>2, <3>1, <3>2, <3>3, <3>4, TableStep, Zenon
    <2>4. ASSUME NEW m \in [Id -> OctetOrNone], mem' = [mem EXCEPT ![p] = m], Parses, Agrees(m),
                 Goto(p, "truncate") \/ (Goto(p, "drop") /\ m = table.map),
                 phase[p] = "allocate" => m[IdOf[p]] # 0
          PROVE  SerialInv'
      <3>1. /\ pc'[p] = "truncate" \/ (pc'[p] = "drop" /\ m = table.map)
            /\ \A q \in Proc \ {p} : pc'[q] = pc[q]
        BY <2>4, MoveFact, Zenon
      <3>2. mem'[p] = m /\ \A q \in Proc \ {p} : mem'[q] = mem[q]
        BY <1>0, <2>4, Zenon
      <3>3. BridgeFrame(p)
        BY <2>1, <3>1, <3>2, Zenon DEF BridgeFrame
      <3>4. LockInv(p)'
        BY <3>1, Zenon DEF LockInv
      <3>5. MemInv(p)'
        BY <2>1, <2>4, <3>1, <3>2, Zenon DEF MemInv, Agrees
      <3> QED
        BY <2>1, <2>2, <3>1, <3>3, <3>4, <3>5, TableStep, Zenon
    <2> DEFINE m0 == table.map
    <2>5. Parses => Agrees(m0)
      BY <1>0, Zenon DEF TableInv, Parses
    <2>6. pc[p] \in Calling
      BY <2>1, Zenon DEF Calling
    <2>7. /\ IdOf[p] \in Id /\ m0 \in [Id -> OctetOrNone]
          /\ [m0 EXCEPT ![IdOf[p]] = 0] \in [Id -> OctetOrNone]
          /\ Free(m0) # {} => [m0 EXCEPT ![IdOf[p]] = NextFreeBridgeOctet(m0)] \in [Id -> OctetOrNone]
      BY ReadType, Zenon
    <2>8. ASSUME Parses, phase[p] = "release",
                 mem' = [mem EXCEPT ![p] = [m0 EXCEPT ![IdOf[p]] = 0]], Goto(p, "truncate")
          PROVE  SerialInv'
      <3>1. Agrees([m0 EXCEPT ![IdOf[p]] = 0])
        BY <2>5, <2>6, <2>7, <2>8, AgreesUpdate, Zenon DEF OctetOrNone
      <3> QED
        BY <2>4, <2>7, <2>8, <3>1, Zenon
    <2>9. ASSUME Parses, phase[p] = "allocate", m0[IdOf[p]] # 0,
                 mem' = [mem EXCEPT ![p] = m0], Goto(p, "drop")
          PROVE  SerialInv'
      BY <2>4, <2>5, <2>7, <2>9, Zenon
    <2>10. ASSUME Parses, phase[p] = "allocate", Free(m0) # {}, Goto(p, "truncate"),
                  mem' = [mem EXCEPT ![p] = [m0 EXCEPT ![IdOf[p]] = NextFreeBridgeOctet(m0)]]
           PROVE  SerialInv'
      <3>1. /\ NextFreeBridgeOctet(m0) \in OctetOrNone /\ NextFreeBridgeOctet(m0) # 0
            /\ \A i \in Id : m0[i] # NextFreeBridgeOctet(m0)
        BY <2>7, <2>10, FreeFact, Zenon DEF OctetOrNone
      <3>2. Agrees([m0 EXCEPT ![IdOf[p]] = NextFreeBridgeOctet(m0)])
        BY <2>5, <2>6, <2>7, <2>10, <3>1, AgreesUpdate, Zenon
      <3>3. [m0 EXCEPT ![IdOf[p]] = NextFreeBridgeOctet(m0)][IdOf[p]] # 0
        BY <2>7, <3>1, Zenon
      <3> QED
        BY <2>4, <2>7, <2>10, <3>2, <3>3, Zenon
    <2> QED
      BY <1>1, <2>3, <2>8, <2>9, <2>10, ReadFact, Zenon
  <1>2. CASE TruncateAllocations(p)
    <2>1. /\ pc[p] = "truncate" /\ UNCHANGED <<lockdir, owner, phase, tries, ofd, mem, octet, gone>>
          /\ table' = Unparsable /\ Goto(p, "store")
      BY <1>2, Zenon DEF TruncateAllocations
    <2>2. pc'[p] = "store" /\ \A q \in Proc \ {p} : pc'[q] = pc[q]
      BY <2>1, MoveFact, Zenon
    <2>3. BridgeFrame(p)
      BY <2>1, <2>2, Zenon DEF BridgeFrame
    <2>4. TableInv'
      BY <2>1, Zenon DEF TableInv, Unparsable
    <2>5. MemInv(p)'
      BY <1>0, <2>1, <2>2, Zenon DEF MemInv, Agrees
    <2>6. LockInv(p)'
      BY <2>2, Zenon DEF LockInv
    <2> QED
      BY <2>1, <2>2, <2>3, <2>4, <2>5, <2>6, TableStep, Zenon
  <1>3. CASE StoreAllocations(p)
    <2>1. /\ pc[p] = "store" /\ UNCHANGED <<lockdir, owner, phase, tries, ofd, mem, octet, gone>>
          /\ table' \in {Whole(mem[p]), Unparsable} /\ Goto(p, "drop")
      BY <1>3, Zenon DEF StoreAllocations
    <2>2. pc'[p] = "drop" /\ \A q \in Proc \ {p} : pc'[q] = pc[q]
      BY <2>1, MoveFact, Zenon
    <2>3. BridgeFrame(p)
      BY <2>1, <2>2, Zenon DEF BridgeFrame
    <2>4. table'.kind = "whole" => table'.map = mem[p]
      BY <2>1 DEF Whole, Unparsable
    <2>5. TableInv'
      BY <1>0, <2>1, <2>4, Zenon DEF TableInv, MemInv, Agrees
    <2>6. MemInv(p)'
      BY <1>0, <2>1, <2>2, <2>4, Zenon DEF MemInv, Agrees
    <2>7. LockInv(p)'
      BY <2>2, Zenon DEF LockInv
    <2> QED
      BY <2>1, <2>2, <2>3, <2>5, <2>6, <2>7, TableStep, Zenon
  <1> QED
    BY <1>1, <1>2, <1>3, Zenon

LEMMA ReturnKeepsSerial ==
  ASSUME BridgeTypeOK, SerialInv, NEW p \in Proc, DropRemoveDir(p)
  PROVE  SerialInv'
  <1>1. /\ pc[p] \in {"drop2", "fail2"} /\ UNCHANGED <<owner, table, phase, gone>>
        /\ tries' = [tries EXCEPT ![p] = 0] /\ ofd' = [ofd EXCEPT ![p] = Nobody]
        /\ mem' = [mem EXCEPT ![p] = Empty]
    BY Zenon DEF DropRemoveDir, Forget
  <1>2. owner = NoOwner
    BY <1>1, Zenon DEF SerialInv, LockInv
  <1>3. \/ pc'[p] \in {"err", "ok"} /\ octet' = octet
        \/ /\ pc[p] = "drop2" /\ phase[p] = "allocate" /\ pc'[p] = "using"
           /\ octet' = [octet EXCEPT ![p] = mem[p][IdOf[p]]]
    BY MoveFact, Zenon DEF DropRemoveDir
  <1>4. \A q \in Proc \ {p} : pc'[q] = pc[q]
    BY MoveFact, Zenon DEF DropRemoveDir
  <1>5. BridgeFrame(p)
    BY <1>1, <1>4, Zenon DEF BridgeFrame, BridgeTypeOK
  <1>6. OwnerInv'
    BY <1>1, <1>2, OwnerFact, NobodyAssumption, Zenon DEF OwnerInv
  <1>7. LockInv(p)'
    BY <1>1, <1>3, Zenon DEF LockInv, BridgeTypeOK
  <1>8. MemInv(p)'
    BY <1>3, Zenon DEF MemInv
  <1>9. pc[p] \in Calling
    BY <1>1, Zenon DEF Calling
  <1>10. OneRun' /\ OctetInv' /\ TableInv'
    <2>1. CASE pc'[p] \in {"err", "ok"} /\ octet' = octet
      BY <1>1, <1>5, <1>9, <2>1, OctetKept, Zenon DEF SerialInv, AllocationInv, TableInv, Agrees
    <2>2. CASE /\ pc[p] = "drop2" /\ phase[p] = "allocate" /\ pc'[p] = "using"
               /\ octet' = [octet EXCEPT ![p] = mem[p][IdOf[p]]]
      <3>1. OneRun /\ OctetInv /\ TableInv /\ MemInv(p) /\ Active(p)
        BY <2>2, Zenon DEF SerialInv, AllocationInv, Active, Ended
      <3>2. octet'[p] = mem[p][IdOf[p]] /\ \A q \in Proc \ {p} : octet'[q] = octet[q]
        BY <2>2, Zenon DEF BridgeTypeOK
      <3>3. \A q \in Proc \ {p} : Active(q)' = Active(q)
        BY <1>4, Zenon DEF Active
      <3>4. OneRun'
        BY <3>1, <3>2, <3>3 DEF OneRun
      <3>5. OctetInv'
        <4>1. Agrees(mem[p]) /\ mem[p][IdOf[p]] # 0 /\ IdOf \in [Proc -> Id]
          BY <2>2, <3>1, IdAssumption, Zenon DEF MemInv
        <4>2. \A q \in Proc \ {p} : octet[q] # 0 /\ IdOf[q] # IdOf[p] => octet[q] # octet'[p]
          <5>1. ASSUME NEW q \in Proc \ {p}, octet[q] # 0, IdOf[q] # IdOf[p]
                PROVE  octet[q] # octet'[p]
            <6>1. mem[p][IdOf[q]] = octet[q] /\ IdOf[q] \in Id /\ IdOf[p] \in Id
              BY <4>1, <5>1, Zenon DEF Agrees, Records
            <6>2. mem[p][IdOf[q]] # mem[p][IdOf[p]]
              BY <4>1, <5>1, <6>1, Zenon DEF Agrees, Records
            <6> QED
              BY <3>2, <6>1, <6>2, Zenon
          <5> QED
            BY <5>1, Zenon
        <4>3. \A q \in Proc : /\ octet'[q] # 0 => pc'[q] \in {"using", "crashed"}
                              /\ pc'[q] = "using" => octet'[q] # 0
          BY <1>4, <2>2, <3>1, <3>2, <4>1, Zenon DEF OctetInv
        <4>4. ASSUME NEW q \in Proc, NEW r \in Proc, IdOf[q] # IdOf[r], octet'[q] # 0, octet'[r] # 0
              PROVE  octet'[q] # octet'[r]
          <5>1. CASE q = p
            BY <3>2, <4>2, <4>4, <5>1, Zenon
          <5>2. CASE r = p
            BY <3>2, <4>2, <4>4, <5>2, Zenon
          <5>3. CASE q # p /\ r # p
            BY <3>1, <3>2, <4>4, <5>3, Zenon DEF OctetInv
          <5> QED
            BY <5>1, <5>2, <5>3, Zenon
        <4> QED
          BY <4>3, <4>4, Zenon DEF OctetInv
      <3>6. TableInv'
        <4>1. table.kind = "whole" => Records(table.map, octet) /\ table.map = mem[p]
          BY <2>2, <3>1, Zenon DEF TableInv, MemInv, Agrees
        <4>2. Records(table.map, octet) /\ table.map = mem[p] => Records(table.map, octet')
          BY <3>2, Zenon DEF Records
        <4> QED
          BY <1>1, <4>1, <4>2, Zenon DEF TableInv, Agrees
      <3> QED
        BY <3>4, <3>5, <3>6, Zenon
    <2> QED
      BY <1>3, <2>1, <2>2, Zenon
  <1> QED
    BY <1>5, <1>6, <1>7, <1>8, <1>9, <1>10, CallerStep, Zenon DEF SerialInv, AllocationInv

\* A call starts when every other process is at rest or dead.
LEMMA StartKeepsSerial ==
  ASSUME BridgeTypeOK, SerialInv, serial, NEW p \in Proc, Begin(p) \/ BeginRelease(p)
  PROVE  SerialInv'
  <1>0. OneRun /\ OctetInv /\ TableInv /\ OwnerInv /\ \A q \in Proc : LockInv(q)
    BY Zenon DEF SerialInv, AllocationInv
  <1>1. /\ pc[p] \in {"idle", "using"} /\ UNCHANGED <<lockdir, owner, table, tries, ofd, mem, gone>>
        /\ Quiet(p) /\ Goto(p, "mkdir")
    BY Zenon DEF Begin, BeginRelease
  <1>2. pc'[p] = "mkdir" /\ \A q \in Proc \ {p} : pc'[q] = pc[q]
    BY <1>1, MoveFact, Zenon
  <1>3. BridgeFrame(p)
    BY <1>1, <1>2, Zenon DEF Begin, BeginRelease, BridgeFrame, BridgeTypeOK
  <1>4. \A q \in Proc \ {p} : /\ pc[q] \notin Calling
                              /\ pc[q] = "crashed" => q \in gone
    BY <1>1, Zenon DEF Quiet, Calling
  <1>5. /\ \A q \in Proc : octet'[q] = 0 \/ octet'[q] = octet[q]
        /\ octet'[p] = 0
        /\ \A q \in Proc \ {p} : IdOf[q] = IdOf[p] => ~Active(q) /\ octet'[q] = 0
        /\ \A q \in Proc \ {p} : pc[q] = "using" => octet'[q] = octet[q]
    <2>1. CASE Begin(p)
      BY <2>1, Zenon DEF Begin, Active, Ended
    <2>2. CASE BeginRelease(p)
      <3>1. Active(p)
        BY <2>2, Zenon DEF BeginRelease, Active, Ended
      <3>2. \A q \in Proc \ {p} : IdOf[q] = IdOf[p] => ~Active(q) /\ octet[q] = 0
        BY <1>0, <3>1, Zenon DEF OneRun
      <3> QED
        BY <2>2, <3>2, Zenon DEF BeginRelease, BridgeTypeOK
    <2> QED
      BY <2>1, <2>2, Zenon
  <1>6. OneCall' /\ \A q \in Proc : MemInv(q)'
    BY <1>2, <1>4, Zenon DEF OneCall, MemInv, Calling
  <1>7. OneRun'
    <2>1. \A q \in Proc \ {p} : Active(q)' <=> Active(q)
      BY <1>2, Zenon DEF Active
    <2> QED
      BY <1>0, <1>5, <2>1, Zenon DEF OneRun
  <1>8. OctetInv'
    BY <1>0, <1>2, <1>5 DEF OctetInv
  <1>9. TableInv'
    <2>1. Records(table.map, octet) => Records(table.map, octet')
      BY <1>5, Zenon DEF Records
    <2> QED
      BY <1>0, <1>1, <2>1, Zenon DEF TableInv, Agrees
  <1>10. OwnerInv'
    BY <1>0, <1>1, <1>2, Zenon DEF OwnerInv
  <1>11. LockInv(p)'
    <2>1. owner.pid \in gone \cup {Nobody}
      <3>1. owner.pid \in Proc \cup {Nobody}
        BY Zenon DEF BridgeTypeOK
      <3>2. owner.pid # p
        BY <1>0, <1>1, Zenon DEF OwnerInv
      <3> QED
        BY <1>0, <1>4, <3>1, <3>2, Zenon DEF OwnerInv, Calling
    <2> QED
      BY <1>0, <1>1, <1>2, <2>1, Zenon DEF LockInv
  <1>12. \A q \in Proc \ {p} : LockInv(q)'
    BY <1>0, <1>1, <1>2, <1>4, Zenon DEF LockInv, Calling
  <1> QED
    BY <1>6, <1>7, <1>8, <1>9, <1>10, <1>11, <1>12, Zenon DEF SerialInv, AllocationInv

LEMMA KillKeepsSerial ==
  ASSUME BridgeTypeOK, SerialInv, NEW p \in Proc, Crash(p) \/ Reap(p)
  PROVE  SerialInv'
  <1>0. OneCall /\ OneRun /\ OctetInv /\ TableInv /\ OwnerInv /\ \A q \in Proc : LockInv(q) /\ MemInv(q)
    BY Zenon DEF SerialInv, AllocationInv
  <1>1. CASE Crash(p)
    <2>1. /\ UNCHANGED <<lockdir, owner, table, phase, octet, gone>> /\ Active(p)
          /\ Goto(p, "crashed") /\ Forget(p)
      BY <1>1, Zenon DEF Crash
    <2>2. pc'[p] = "crashed" /\ \A q \in Proc \ {p} : pc'[q] = pc[q]
      BY <2>1, MoveFact, Zenon
    <2>3. \A q \in Proc \ {p} : tries'[q] = tries[q] /\ ofd'[q] = ofd[q] /\ mem'[q] = mem[q]
      BY <2>1, Zenon DEF Forget, BridgeTypeOK
    <2>4. OneCall' /\ MemInv(p)' /\ LockInv(p)'
      BY <1>0, <2>2, Zenon DEF OneCall, MemInv, LockInv, Calling
    <2>5. \A q \in Proc \ {p} : MemInv(q)'
      BY <1>0, <2>1, <2>2, <2>3, Zenon DEF MemInv, Agrees
    <2>6. \A q \in Proc \ {p} : LockInv(q)'
      BY <1>0, <2>1, <2>2, <2>3 DEF LockInv
    <2>7. OneRun'
      <3>1. \A q \in Proc : Active(q)' => Active(q)
        BY <2>1, <2>2, Zenon DEF Active
      <3> QED
        BY <1>0, <2>1, <3>1, Zenon DEF OneRun
    <2>8. OctetInv' /\ TableInv' /\ OwnerInv'
      <3>1. OctetInv'
        BY <1>0, <2>1, <2>2, Zenon DEF OctetInv
      <3>2. TableInv'
        BY <1>0, <2>1, Zenon DEF TableInv, Agrees
      <3>3. OwnerInv'
        BY <1>0, <2>1, <2>2, Zenon DEF OwnerInv
      <3> QED
        BY <3>1, <3>2, <3>3, Zenon
    <2> QED
      BY <2>4, <2>5, <2>6, <2>7, <2>8, Zenon DEF SerialInv, AllocationInv
  <1>2. CASE Reap(p)
    <2>1. UNCHANGED <<lockdir, owner, table, pc, phase, tries, ofd, mem, octet>> /\ gone' = gone \cup {p}
      BY <1>2, Zenon DEF Reap
    <2>2. OneCall' /\ OneRun' /\ OctetInv' /\ TableInv' /\ OwnerInv'
      <3>1. OneCall' /\ OneRun' /\ OctetInv'
        BY <1>0, <2>1, Zenon DEF OneCall, OneRun, Active, OctetInv
      <3>2. TableInv' /\ OwnerInv'
        BY <1>0, <2>1, Zenon DEF TableInv, Agrees, OwnerInv
      <3> QED
        BY <3>1, <3>2, Zenon
    <2>3. \A q \in Proc : MemInv(q)'
      BY <1>0, <2>1, Zenon DEF MemInv, Agrees
    <2>4. \A q \in Proc : LockInv(q)'
      BY <1>0, <2>1, Zenon DEF LockInv
    <2> QED
      BY <2>2, <2>3, <2>4, Zenon DEF SerialInv, AllocationInv
  <1> QED
    BY <1>1, <1>2, Zenon

LEMMA NextKeepsBridge == BridgeInv /\ [BridgeNext]_bridgeVars => BridgeInv'
  <1> SUFFICES ASSUME BridgeInv, [BridgeNext]_bridgeVars PROVE BridgeInv'
    BY Zenon
  <1>1. CASE BridgeNext
    <2>1. BridgeTypeOK /\ BridgeTypeOK' /\ serial' = serial
      BY <1>1, NextType, Zenon DEF BridgeInv, BridgeNext
    <2>2. ASSUME serial PROVE SerialInv'
      <3>1. SerialInv
        BY <2>2, Zenon DEF BridgeInv
      <3>2. PICK p \in Proc : Begin(p) \/ Call(p) \/ BeginRelease(p) \/ Crash(p) \/ Reap(p)
        BY <1>1, Zenon DEF BridgeNext
      <3> QED
        BY <2>1, <2>2, <3>1, <3>2, AcquireKeepsSerial, HoldKeepsSerial, TableKeepsSerial,
           ReturnKeepsSerial, StartKeepsSerial, KillKeepsSerial, Zenon DEF Call
    <2> QED
      BY <2>1, <2>2, Zenon DEF BridgeInv
  <1>2. CASE UNCHANGED bridgeVars
    <2>1. BridgeTypeOK' /\ serial' = serial
      BY <1>2, Zenon DEF bridgeVars, BridgeInv, BridgeTypeOK
    <2>2. OneCall' = OneCall /\ OneRun' = OneRun /\ OctetInv' = OctetInv
      BY <1>2, Zenon DEF bridgeVars, OneCall, OneRun, Active, OctetInv
    <2>3. TableInv' = TableInv /\ OwnerInv' = OwnerInv
      BY <1>2, Zenon DEF bridgeVars, TableInv, Agrees, OwnerInv
    <2>4. \A p \in Proc : MemInv(p)' = MemInv(p)
      BY <1>2, Zenon DEF bridgeVars, MemInv, Agrees
    <2>5. \A p \in Proc : LockInv(p)' = LockInv(p)
      BY <1>2 DEF bridgeVars, LockInv, Free
    <2> QED
      BY <2>1, <2>2, <2>3, <2>4, <2>5, Zenon DEF BridgeInv, SerialInv, AllocationInv
  <1> QED
    BY <1>1, <1>2, Zenon

\* For any processes, ids and pool: BridgeInv is inductive.
THEOREM BridgeInvariant == BridgeSpec => []BridgeInv
  BY InitBridge, NextKeepsBridge, PTL DEF BridgeSpec

\* With calls made one at a time no subnet is given to two containers or
\* forgotten while it is used, whatever is killed, for a pool of any size and
\* any number of processes that run any ids again and again.
THEOREM SubnetSafety == BridgeSpec => []SubnetsAreOwned
  <1> SUFFICES ASSUME BridgeInv PROVE SubnetsAreOwned
    BY BridgeInvariant, PTL
  <1> SUFFICES ASSUME serial
               PROVE  /\ SubnetsNeverShared
                      /\ \A p \in Proc : pc[p] = "using" /\ table.kind = "whole" =>
                                             table.map[IdOf[p]] = octet[p]
    BY Zenon DEF SubnetsAreOwned, UniqueSubnets, UsedIsAllocated
  <1>1. OctetInv /\ TableInv
    BY Zenon DEF BridgeInv, SerialInv, AllocationInv
  <1> QED
    BY <1>1, Zenon DEF OctetInv, TableInv, Agrees, Records, SubnetsNeverShared

\* Calls made one at a time fail only for want of subnets, or because of a file
\* that a killed process left unparsable: the lock of a dead process is found
\* stale, removed and taken before the deadline.
THEOREM StaleLocksAreRecovered == BridgeSpec => StaleLockRecovered
  <1>1. ASSUME BridgeInv, [BridgeNext]_bridgeVars, serial, NEW p \in Proc, Fails(p)
        PROVE  LeftTorn \/ (phase[p] = "allocate" /\ Free(table.map) = {})
    <2>0. BridgeTypeOK /\ LockInv(p) /\ pc[p] \notin Ended /\ pc'[p] = "err"
      BY <1>1, Zenon DEF BridgeInv, SerialInv, Fails
    <2>1. BridgeNext
      BY <1>1, <2>0, Zenon DEF bridgeVars, Ended
    <2>2. PICK q \in Proc : Begin(q) \/ Call(q) \/ BeginRelease(q) \/ Crash(q) \/ Reap(q)
      BY <2>1, Zenon DEF BridgeNext
    <2>3. q = p
      <3> SUFFICES ASSUME q # p PROVE pc'[p] = pc[p]
        BY <2>0, Zenon DEF Ended
      <3>1. \A l : Goto(q, l) => pc'[p] = pc[p]
        BY <2>0, MoveFact, Zenon
      <3>2. CASE Begin(q) \/ BeginRelease(q) \/ Crash(q) \/ Reap(q)
        BY <3>1, <3>2, Zenon DEF Begin, BeginRelease, Crash, Reap
      <3>3. CASE MakeLockDir(q) \/ ProbeLock(q) \/ UnlinkStale(q) \/ RemoveStale(q) \/ CreateOwner(q)
        BY <3>1, <3>3, Zenon DEF MakeLockDir, ProbeLock, NextRound, UnlinkStale, RemoveStale, CreateOwner
      <3>4. CASE \/ WriteOwner(q) \/ TruncateAllocations(q) \/ StoreAllocations(q) \/ DropUnlink(q)
                 \/ DropRemoveDir(q)
        BY <3>1, <3>4, Zenon DEF WriteOwner, TruncateAllocations, StoreAllocations, DropUnlink, DropRemoveDir
      <3>5. CASE ReadAllocations(q)
        BY <2>0, <3>1, <3>5, ReadFact, Zenon
      <3> QED
        BY <2>2, <3>2, <3>3, <3>4, <3>5, Zenon DEF Call
    <2>4. \A l : Goto(p, l) => l = "err"
      BY <2>0, MoveFact, Zenon
    <2>5. CASE Begin(p) \/ BeginRelease(p) \/ Crash(p) \/ Reap(p)
      BY <2>0, <2>4, <2>5, Zenon DEF Begin, BeginRelease, Crash, Reap
    <2>6. CASE MakeLockDir(p) \/ WriteOwner(p) \/ TruncateAllocations(p) \/ StoreAllocations(p) \/ DropUnlink(p)
      BY <2>4, <2>6, Zenon DEF MakeLockDir, WriteOwner, TruncateAllocations, StoreAllocations, DropUnlink
    <2>7. CASE ReadAllocations(p)
      BY <2>0, <2>4, <2>7, ReadFact, Zenon
    <2>8. CASE ProbeLock(p)
      <3>1. pc[p] = "probe" /\ owner.pid \in gone \cup {Nobody}
        BY <2>0, <2>8, Zenon DEF ProbeLock, LockInv
      <3> QED
        BY <2>4, <2>8, <3>1, Zenon DEF ProbeLock, AllocationLockIsStale, LeftTorn
    <2>9. CASE UnlinkStale(p) \/ RemoveStale(p) \/ CreateOwner(p)
      <3>1. /\ pc[p] \in {"unlink", "rmdir", "create"} /\ lockdir
            /\ pc[p] = "rmdir" => owner.file = Nobody /\ tries[p] = 0
        BY <2>0, <2>9, OwnerFact, Zenon DEF UnlinkStale, RemoveStale, CreateOwner, LockInv
      <3>2. CASE UnlinkStale(p)
        BY <2>4, <3>1, <3>2, Zenon DEF UnlinkStale
      <3>3. CASE RemoveStale(p)
        <4>1. pc[p] = "rmdir"
          BY <3>3, Zenon DEF RemoveStale
        <4>2. NextRound(p)
          BY <3>1, <3>3, <4>1, Zenon DEF RemoveStale
        <4>3. tries[p] < MaxTries
          BY <3>1, <4>1, TriesAssumption
        <4> QED
          BY <2>4, <4>2, <4>3, Zenon DEF NextRound
      <3>4. CASE CreateOwner(p)
        BY <2>4, <3>1, <3>4, Zenon DEF CreateOwner
      <3> QED
        BY <2>9, <3>2, <3>3, <3>4, Zenon
    <2>10. CASE DropRemoveDir(p)
      <3>1. pc[p] = "fail2"
        BY <2>4, <2>10, Zenon DEF DropRemoveDir
      <3> QED
        BY <2>0, <3>1, Zenon DEF LockInv, LeftTorn
    <2> QED
      BY <2>2, <2>3, <2>5, <2>6, <2>7, <2>8, <2>9, <2>10, Zenon DEF Call
  <1>2. BridgeInv /\ [BridgeNext]_bridgeVars =>
            [serial => \A p \in Proc : Fails(p) =>
                LeftTorn \/ (phase[p] = "allocate" /\ Free(table.map) = {})]_bridgeVars
    BY <1>1, Zenon
  <1> QED
    BY <1>2, BridgeInvariant, PTL DEF BridgeSpec, StaleLockRecovered
=============================================================================
