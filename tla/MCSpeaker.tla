----------------------------- MODULE MCSpeaker -----------------------------
(***************************************************************************)
(* Instances of Speaker.                                                   *)
(***************************************************************************)
EXTENDS Speaker

CONSTANTS n1, p1, a1, s1, e1, r1, net, junk, vip

(* net is a CIDR of a pool, vip an IPv4 address, junk neither.             *)
Parse == [x \in {net, junk, vip} |-> IF x = junk THEN None ELSE x]
ParseVip == [x \in {vip, junk} |-> IF x = junk THEN None ELSE x]

Pool(addresses) == [bgp |-> TRUE, addresses |-> addresses]
Adv(prefix) == [node |-> None, pools |-> {p1}, prefix |-> prefix]
Slb(nodes) == [nodes |-> nodes, vip |-> vip, net |-> e1]

AllValues ==
    [o \in Objects |->
        CASE o = p1 -> {Pool({net, junk})}
          [] o = a1 -> {None, Adv(None)}
          [] o = s1 -> {Slb({n1})}
          [] o = e1 -> {[bgp |-> TRUE]}
          [] o = r1 -> {None, [complete |-> TRUE]}]

Settled ==
    [o \in Objects |->
        CASE o = p1 -> Pool({net, junk})
          [] o = a1 -> Adv(None)
          [] o = s1 -> Slb({n1})
          [] o = e1 -> [bgp |-> TRUE]
          [] o = r1 -> [complete |-> TRUE]]
=============================================================================
