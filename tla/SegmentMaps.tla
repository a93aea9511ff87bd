----------------------------- MODULE SegmentMaps -----------------------------
(***************************************************************************)
(* The daemon's reconcilers behind the L2Networks: l2-network, l2-port,    *)
(* l2-arp, l2-gateway, the veth of a gateway, and what the data plane      *)
(* learns into l2_fdb.                                                     *)
(*                                                                         *)
(* An L2Network is [id, vpc, gateway, gw, mac, table, acl, aclID]: gateway *)
(* is whether spec.gateway is set, gw and mac are what the controller      *)
(* published in status.                                                    *)
(***************************************************************************)
EXTENDS RouteMaps

(* Every l2.Table of a segment. *)
SegmentTables ==
    <<"l2_fdb", "l2_bum_local", "l2_bum_remote", "l2_arp", "l2_arp_probe", "l2_arp_asker">>

-----------------------------------------------------------------------------
(* l2-network: l2_network_map and the tables of the VNI *)

L2Release(vni) ==
    <<Del("l2_network_map", vni)>>
    \o [i \in DOMAIN SegmentTables |-> TableDelete(SegmentTables[i], vni)]

ensureTables(vni) == [i \in DOMAIN SegmentTables |-> TableEnsure(SegmentTables[i], vni)]

L2NetworkUpsert(k, n) ==
    When(Has("l2_network", k) /\ tables.l2_network[k] # n.id, L2Release(tables.l2_network[k]))
    \o ensureTables(n.id)
    \o <<Put("l2_network_map", n.id, Get(n.vpc).id), Keep("l2_network", k, n.id)>>

L2NetworkPass(k) ==
    LET n == Get(k) IN
    IF n = None
    THEN When(Has("l2_network", k), <<Drop("l2_network", k)>> \o L2Release(tables.l2_network[k]))
    ELSE IF n.id = 0 THEN <<>>
    ELSE IF Get(n.vpc) = None THEN <<Error>>
    ELSE L2NetworkUpsert(k, n)

L2NetworkWakes(k, c) ==
    IF k[1] = "L2Network" THEN {k}
    ELSE IF k[1] = "Vpc" THEN {n \in Listed(c, "L2Network") : c[n].vpc = k}
    ELSE {}

-----------------------------------------------------------------------------
(* l2-port: an endpoint on this node is a port, one elsewhere adds its     *)
(* node to the flood list.  A port is <<local, vni, member>>, and counted. *)

NoPort == <<>>

desiredMember(e) ==
    IF ~ OnL2(e) THEN NoPort
    ELSE IF Get(e.net) = None THEN NoPort
    ELSE IF Get(e.net).id = 0 THEN NoPort
    ELSE IF isLocal(e)
         THEN IF e.ifindex = 0 THEN NoPort ELSE <<TRUE, Get(e.net).id, e.ifindex>>
         ELSE IF e.ip = "" THEN NoPort ELSE <<FALSE, Get(e.net).id, e.ip>>

flood(m) == IF m[1] THEN "l2_bum_local" ELSE "l2_bum_remote"
refs(m) == IF Has("l2_refs", m) THEN tables.l2_refs[m] ELSE 0

portProgram(m) ==
    When(m[1], <<Put("l2_ifindex", m[3], m[2])>>)
    \o <<TablePut(flood(m), <<m[2], m[3]>>, "port")>>

(* forgetIfindex: only while the veth still names this network. *)
portUnprogram(m) ==
    When(m[1], <<Step("delIfEqual", "l2_ifindex", m[3], m[2], "stop")>>)
    \o <<Del(flood(m), <<m[2], m[3]>>)>>

UndoneBy(steps, undo) == [i \in DOMAIN steps |-> Undoing(steps[i], <<undo>>)]

portAcquire(m) ==
    <<Keep("l2_refs", m, refs(m) + 1)>>
    \o When(refs(m) = 0, UndoneBy(portProgram(m), Drop("l2_refs", m)))

portRelease(m) ==
    IF refs(m) > 1 THEN <<Keep("l2_refs", m, refs(m) - 1)>>
    ELSE <<Drop("l2_refs", m)>> \o UndoneBy(portUnprogram(m), Keep("l2_refs", m, 1))

portApply(k, desired) ==
    LET previous == IF Has("l2_port", k) THEN tables.l2_port[k] ELSE NoPort IN
    IF previous = desired THEN When(desired # NoPort, portProgram(desired))
    ELSE When(previous # NoPort, portRelease(previous) \o <<Drop("l2_port", k)>>)
         \o When(desired # NoPort, portAcquire(desired) \o <<Keep("l2_port", k, desired)>>)

L2PortPass(k) == portApply(k, IF Get(k) = None THEN NoPort ELSE desiredMember(Get(k)))

L2EndpointWakes(k, c) ==
    IF k[1] = "NetworkEndpoint" THEN {k}
    ELSE IF k[1] = "L2Network"
         THEN {x \in Listed(c, "NetworkEndpoint") : c[x].net = k}
    ELSE {}

-----------------------------------------------------------------------------
(* l2-arp: what the endpoints declare, offered to the gateway *)

NoSeed == <<>>

desiredSeed(e) ==
    IF ~ OnL2(e) THEN NoSeed
    ELSE IF e.addr = "" \/ e.mac = "" \/ Get(e.net) = None THEN NoSeed
    ELSE IF Get(e.net).id = 0 \/ ~ Get(e.net).gateway THEN NoSeed
    ELSE <<Get(e.net).id, e.addr, e.mac>>

seedApply(k, desired) ==
    LET previous == IF Has("l2_arp_seed", k) THEN tables.l2_arp_seed[k] ELSE NoSeed
        offer == When(desired # NoSeed,
            <<TablePutIfAbsent("l2_arp", <<desired[1], desired[2]>>, desired[3])>>)
    IN  IF previous = desired THEN offer
        ELSE When(previous # NoSeed,
                  <<TableRemoveIfEqual("l2_arp", <<previous[1], previous[2]>>, previous[3]),
                    Drop("l2_arp_seed", k)>>)
             \o offer
             \o When(desired # NoSeed, <<Keep("l2_arp_seed", k, desired)>>)

L2ArpPass(k) == seedApply(k, IF Get(k) = None THEN NoSeed ELSE desiredSeed(Get(k)))

-----------------------------------------------------------------------------
(* The veth of a gateway port, and the programs on it.  The kernel numbers *)
(* a new veth from kernel.ifindex on.                                      *)

nextIfindex == tables.kernel.ifindex
vethIfindex(vni) == IF Has("veths", vni) THEN tables.veths[vni].ifindex ELSE nextIfindex

ensureL2GatewayVeth(vni, mac) ==
    When(~ Has("veths", vni),
         <<Put("veths", vni, [ifindex |-> nextIfindex, mac |-> mac]),
           Keep("kernel", "ifindex", nextIfindex + 1)>>)
    \o When(Has("veths", vni) /\ tables.veths[vni].mac # mac,
            <<Put("veths", vni, [ifindex |-> vethIfindex(vni), mac |-> mac])>>)

closeL2GatewayLinks(ifindex) ==
    <<Ignored(Del("tcx", <<ifindex, "ingress">>)), Ignored(Del("tcx", <<ifindex, "egress">>))>>

gatewayDetach(vni) ==
    When(Has("gateway_links", vni),
         <<Drop("gateway_links", vni)>> \o closeL2GatewayLinks(tables.gateway_links[vni]))

gatewayAttach(ifindex) ==
    <<Put("tcx", <<ifindex, "ingress">>, "pod"),
      Undoing(Put("tcx", <<ifindex, "egress">>, "gateway"),
              <<Ignored(Del("tcx", <<ifindex, "ingress">>))>>)>>

EnsurePort(vni, mac) ==
    LET ifindex == vethIfindex(vni) IN
    ensureL2GatewayVeth(vni, mac)
    \o When(~ (Has("gateway_links", vni) /\ tables.gateway_links[vni] = ifindex),
            gatewayDetach(vni) \o gatewayAttach(ifindex)
            \o <<Keep("gateway_links", vni, ifindex)>>)

RemovePort(vni) == gatewayDetach(vni) \o <<Del("veths", vni)>>

-----------------------------------------------------------------------------
(* l2-gateway: the router port of a segment on this node *)

GatewayTable(n) == IF n.table # NoKey THEN n.table ELSE Get(n.vpc).main

desiredPort(n) ==
    IF n.id = 0 \/ n.gw = "" \/ n.mac = "" \/ Get(n.vpc) = None THEN None
    ELSE IF Get(GatewayTable(n)) = None THEN None
    ELSE [vni |-> n.id, mac |-> n.mac, gw |-> n.gw, vpc |-> Get(n.vpc).id,
          table |-> Get(GatewayTable(n)).id, acl |-> n.aclID]

(* Mutant: the port is taken down while l2_gateway still names it. *)
NameLast(s) ==
    AllOrStop(<<Del("l2_bum_local", <<s.vni, s.ifindex>>),
                Del("l2_fdb", <<s.vni, s.mac>>),
                Del("ifindex_subnet", s.ifindex),
                Del("subnet_map", s.vni),
                Del("l2_ifindex", s.ifindex),
                Del("l2_gateway", s.vni)>>)

releaseEntries(s) ==
    AllOrStop(<<Del("l2_gateway", s.vni),
                Del("l2_bum_local", <<s.vni, s.ifindex>>),
                Del("l2_fdb", <<s.vni, s.mac>>),
                Del("ifindex_subnet", s.ifindex),
                Del("subnet_map", s.vni),
                Del("l2_ifindex", s.ifindex)>>)

stand(k, p) ==
    LET ifindex == vethIfindex(p.vni)
        moved == Has("l2_gateway_port", k)
                 /\ (tables.l2_gateway_port[k].ifindex # ifindex
                     \/ tables.l2_gateway_port[k].vni # p.vni)
    IN  EnsurePort(p.vni, p.mac)
        \o When(moved, releaseEntries(tables.l2_gateway_port[k]) \o <<Drop("l2_gateway_port", k)>>)
        \o <<Put("l2_ifindex", ifindex, p.vni),
             Put("subnet_map", p.vni, [table |-> p.table, vpc |-> p.vpc,
                                       gw |-> p.gw, acl |-> p.acl]),
             Put("ifindex_subnet", ifindex, <<p.vni, p.gw>>),
             TablePut("l2_fdb", <<p.vni, p.mac>>, [ifindex |-> ifindex, gateway |-> TRUE]),
             TablePut("l2_bum_local", <<p.vni, ifindex>>, "gateway"),
             Put("l2_gateway", p.vni, [ifindex |-> ifindex, mac |-> p.mac]),
             Keep("l2_gateway_port", k, [vni |-> p.vni, ifindex |-> ifindex, mac |-> p.mac])>>

teardown(k) ==
    When(Has("l2_gateway_port", k),
         <<Drop("l2_gateway_port", k)>> \o releaseEntries(tables.l2_gateway_port[k])
         \o RemovePort(tables.l2_gateway_port[k].vni))

L2GatewayPass(k) ==
    IF Get(k) = None THEN teardown(k)
    ELSE IF desiredPort(Get(k)) = None THEN teardown(k)
    ELSE stand(k, desiredPort(Get(k)))

L2GatewayWakes(k, o, c) ==
    LET networks == Listed(c, "L2Network") IN
    CASE k[1] = "L2Network" -> {k}
      [] k[1] = "Vpc" -> {n \in networks : c[n].vpc = k}
      [] k[1] = "RouteTable" -> {n \in networks : c[n].vpc = o.vpc}
      [] k[1] = "NetworkACL" -> {n \in networks : c[n].acl = k}
      [] OTHER -> {}

-----------------------------------------------------------------------------
(* The data plane learns the source of a frame, never over a gateway's     *)
(* entry; FdbGC takes out what has aged, never a gateway's entry.          *)

Learned(f, vni, mac, ifindex) ==
    IF <<vni, mac>> \in DOMAIN f /\ f[<<vni, mac>>].gateway THEN f
    ELSE With(f, <<vni, mac>>, [ifindex |-> ifindex, gateway |-> FALSE])

planFdbAging(f, aged) ==
    {x \in aged : Len(x) = 2 /\ ~ f[x].gateway}

Learn(vni, mac, ifindex) ==
    /\ <<vni>> \in DOMAIN tables.l2_fdb
    /\ tables' = [tables EXCEPT !.l2_fdb = Learned(@, vni, mac, ifindex)]
    /\ UNCHANGED <<cache, feed, queue, later, running, faults>>

Sweep ==
    \E aged \in SUBSET DOMAIN tables.l2_fdb :
        /\ planFdbAging(tables.l2_fdb, aged) # {}
        /\ tables' = [tables EXCEPT !.l2_fdb =
                [x \in DOMAIN @ \ planFdbAging(@, aged) |-> @[x]]]
        /\ UNCHANGED <<cache, feed, queue, later, running, faults>>
=============================================================================
