---------------------------- MODULE PolicyRules ----------------------------
(***************************************************************************)
(* What the policy data plane of a node computes, without its state: how a *)
(* SecurityGroup or a NetworkACL becomes the two windows of a BPF rule     *)
(* array, how the evaluators scan a window, how the two halves of an       *)
(* admission pair up, and the TCP states of a conntrack entry.             *)
(*                                                                         *)
(* A packet is [src, dst, sport, dport].  A port stands for a class of     *)
(* (protocol, port) that the rules tell apart, an address for the (vpc,    *)
(* IPv4) pair that keys the membership table.  The two enforcement points, *)
(* which are also the two directions of a rule, are "egress" and           *)
(* "ingress".  A RuleSet is [egress, ingress, has]: one sequence of rules  *)
(* per direction and the directions the spec declares.  A rule is          *)
(* [peers, group, ports, verdict, priority]; group is None for a rule      *)
(* whose peer is a CIDR, and peers is then the addresses in it.            *)
(***************************************************************************)
EXTENDS Naturals, Sequences, FiniteSets

CONSTANT None

Hooks == {"egress", "ingress"}

(* The address of the Pod a hook protects, and of the other end.           *)
SelfOf(h, p) == IF h = "egress" THEN p.src ELSE p.dst
PeerOf(h, p) == IF h = "egress" THEN p.dst ELSE p.src

Mirror(p) == [src |-> p.dst, dst |-> p.src, sport |-> p.dport, dport |-> p.sport]

policy_ct_peer_hook(h) == IF h = "egress" THEN "ingress" ELSE "egress"

(* The other half of the admission that a conntrack key belongs to.        *)
policy_ct_reverse_key(k) ==
    [epoch |-> k.epoch, hook |-> policy_ct_peer_hook(k.hook), pkt |-> Mirror(k.pkt)]

(***************************************************************************)
(* From a spec to what the store writes.                                   *)
(***************************************************************************)

(* A rule that names a SecurityGroup the resolver does not know is dropped *)
(* without an error, any other one is kept in the order of the spec.       *)
ExpandSecurityGroup(spec, known) ==
    LET resolved(r) == r.group = None \/ r.group \in known
    IN  [egress  |-> SelectSeq(spec.egress, resolved),
         ingress |-> SelectSeq(spec.ingress, resolved),
         has     |-> spec.has]

(* The place of rule i in a stable sort by priority.                       *)
Place(rules, i) ==
    Cardinality({j \in DOMAIN rules : \/ rules[j].priority < rules[i].priority
                                      \/ rules[j].priority = rules[i].priority /\ j <= i})

sortByPriority(rules) ==
    [k \in DOMAIN rules |-> rules[CHOOSE i \in DOMAIN rules : Place(rules, i) = k]]

ExpandNetworkACL(spec) ==
    [egress  |-> sortByPriority(spec.egress),
     ingress |-> sortByPriority(spec.ingress),
     has     |-> spec.has]

(* A direction that overflows its window is emptied and marked declared,   *)
(* so that the evaluator falls through to its terminal deny.               *)
fitRuleSet(rs, window) ==
    LET over == {h \in Hooks : Len(rs[h]) > window}
    IN  [egress  |-> IF "egress" \in over THEN <<>> ELSE rs.egress,
         ingress |-> IF "ingress" \in over THEN <<>> ELSE rs.ingress,
         has     |-> rs.has \cup over]

(* The counts and flags published beside the rules.                        *)
MetaOf(rs) == [egress |-> Len(rs.egress), ingress |-> Len(rs.ingress), has |-> rs.has]

(***************************************************************************)
(* The evaluators.  m is the meta entry they read and rules the inner map  *)
(* they read after it; either may be None.  A slot of the window that was  *)
(* never written holds zeros, which match no packet.                       *)
(***************************************************************************)
Matches(r, h, p, peerGroups) ==
    /\ p.dport \in r.ports
    /\ IF r.group = None THEN PeerOf(h, p) \in r.peers ELSE r.group \in peerGroups

(* The slots of the scanned prefix whose rule matches.                     *)
MatchingSlots(m, rules, h, p, peerGroups) ==
    {i \in 1 .. m[h] : i <= Len(rules[h]) /\ Matches(rules[h][i], h, p, peerGroups)}

(* Does this meta entry put the direction of a NetworkACL in rule-list     *)
(* mode?                                                                   *)
acl_has_rules(m, h) == m # None /\ h \in m.has

acl_evaluate(m, rules, h, p) ==
    IF ~acl_has_rules(m, h) THEN "pass"
    ELSE IF rules = None THEN "deny"
    ELSE LET hits == MatchingSlots(m, rules, h, p, {})
         IN  IF hits = {} THEN "deny"
             ELSE rules[h][CHOOSE i \in hits : \A j \in hits : i <= j].verdict

(* A SecurityGroup has no flag for ingress: an empty ingress list denies   *)
(* whatever the flag would say.                                            *)
sg_declared(m, h) ==
    m # None /\ IF h = "egress" THEN h \in m.has ELSE m[h] > 0

sg_eval_one_sg(m, rules, h, p, peerGroups) ==
    /\ rules # None
    /\ \E i \in MatchingSlots(m, rules, h, p, peerGroups) : rules[h][i].verdict = "allow"

(* The verdict when no SecurityGroup of the interface had a matching rule. *)
sg_default(anyRules, h) == IF h = "egress" /\ ~anyRules THEN "pass" ELSE "deny"

(***************************************************************************)
(* The TCP state of a conntrack entry.  A packet carries one of the flags  *)
(* "syn", "ack", "fin", "rst".                                             *)
(***************************************************************************)
CtStates == {"new", "established", "finwait", "closed"}

ct_derive_next_state(cur, flag) ==
    CASE flag = "rst" -> "closed"
      [] flag = "fin" -> IF cur = "finwait" THEN "closed" ELSE "finwait"
      [] flag = "ack" /\ cur = "new" -> "established"
      [] OTHER -> cur

ct_initial_state_for_syn(flag) == IF flag = "syn" THEN "new" ELSE "established"
=============================================================================
