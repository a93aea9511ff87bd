------------------------------ MODULE RouteMaps ------------------------------
(***************************************************************************)
(* The daemon's reconcilers behind routing and address translation:        *)
(* subnet, fib, tgw-fib, nat, napt, external-arp, bgp-pool, node-underlay  *)
(* and service_nat.                                                        *)
(*                                                                         *)
(*   Vpc                        [id, main, enabled, consume]               *)
(*   Subnet                     [id, vpc, table, gw, dns, acl, aclID]      *)
(*   RouteTable                 [id, vpc, routes]                          *)
(*   TransitGatewayRouteTable   [id, routes]                               *)
(*   NATGateway                 [id, net]                                  *)
(*   ElasticIPAttachment        [attached, eip, pod, node, nic]            *)
(*   ExternalNetworkAttachment  [net, node, ip]                            *)
(*   ARPAdvertisement           [net, addr, node]                          *)
(*   AddressPool                [bgp, prefixes]                            *)
(*   BGPAdvertisement           [pools, node, prefix]                      *)
(*   ServiceNATAttachment       [node, vpc, ip]                            *)
(*   Node                       [ips]                                      *)
(*                                                                         *)
(* A route is [dst, via, to, subnet]: to is the key of its target, via     *)
(* "blackhole" stands for a route whose state is Blackhole as well.        *)
(***************************************************************************)
EXTENDS EndpointMaps

NoKey == <<"", "">>
Listed(c, kind) == {x \in DOMAIN c : x[1] = kind /\ c[x] # None}

-----------------------------------------------------------------------------
(* subnet: subnet_map[VNI], and the ARP entry of the DNS address *)

SubnetTable(s) == IF s.table # NoKey THEN s.table ELSE Get(s.vpc).main

SubnetUpsert(k, s) ==
    LET prev == IF Has("subnet", k) THEN tables.subnet[k] ELSE [id |-> 0, dns |-> ""]
        now == [id |-> s.id, dns |-> s.dns]
    IN  <<Put("subnet_map", s.id, [table |-> Get(SubnetTable(s)).id, vpc |-> Get(s.vpc).id,
                                   gw |-> s.gw, acl |-> s.aclID])>>
        \o When(s.dns # "", <<Put("arp_table", <<s.id, s.dns>>, "dns")>>)
        \o <<Keep("subnet", k, now)>>
        \o When(prev.dns # "" /\ prev.id # 0 /\ prev # now,
                <<Del("arp_table", <<prev.id, prev.dns>>)>>)

SubnetDelete(k) ==
    When(Has("subnet", k), LET old == tables.subnet[k] IN
        <<Del("subnet_map", old.id)>>
        \o When(old.id # 0 /\ old.dns # "", <<Del("arp_table", <<old.id, old.dns>>)>>)
        \o <<Drop("subnet", k)>>)

SubnetPass(k) ==
    LET s == Get(k) IN
    IF s = None THEN SubnetDelete(k)
    ELSE IF Get(s.vpc) = None THEN <<Error>>
    ELSE IF Get(SubnetTable(s)) = None \/ s.gw = "" THEN <<Error>>
    ELSE SubnetUpsert(k, s)

SubnetWakes(k, o, c) ==
    LET subnets == Listed(c, "Subnet")
        isMain == o.vpc \in DOMAIN c /\ c[o.vpc] # None /\ c[o.vpc].main = k
    IN  CASE k[1] = "Subnet" -> {k}
          [] k[1] = "Vpc" -> {s \in subnets : c[s].vpc = k}
          [] k[1] = "NetworkACL" -> {s \in subnets : c[s].acl = k}
          [] k[1] = "RouteTable" ->
                {s \in subnets : c[s].vpc = o.vpc
                    /\ (c[s].table = k \/ (c[s].table = NoKey /\ isMain))}
          [] OTHER -> {}

-----------------------------------------------------------------------------
(* fib: the table of a RouteTable is built anew and swapped in *)

SubnetRoute(type, subnet) ==
    IF Get(subnet) = None THEN None
    ELSE IF Get(subnet).gw = "" THEN None
    ELSE <<type, Get(subnet).id, Get(subnet).gw>>

NumberRoute(type, to) ==
    IF Get(to) = None THEN None
    ELSE IF Get(to).id = 0 THEN None
    ELSE <<type, Get(to).id>>

buildFibVal(r) ==
    CASE r.via \in {"connected", "peering"} -> SubnetRoute(r.via, r.to)
      [] r.via \in {"l2network", "natGateway", "transitGateway"} -> NumberRoute(r.via, r.to)
      [] r.via = "endpoint" ->
            IF Get(r.to) = None \/ SubnetRoute(r.via, r.subnet) = None THEN None
            ELSE SubnetRoute(r.via, r.subnet) \o <<Get(r.to).mac>>
      [] OTHER -> <<r.via>>

(* A route that cannot be built is left out; a route to an endpoint drops  *)
(* its traffic instead.                                                    *)
fibValFor(r) ==
    IF buildFibVal(r) = None /\ r.via = "endpoint" THEN <<"blackhole">> ELSE buildFibVal(r)

(* A table with the values of its routes. *)
FibOf(vals) ==
    LET routes == {r \in DOMAIN vals : vals[r] # None}
    IN  [d \in {r.dst : r \in routes} |-> vals[CHOOSE r \in routes : r.dst = d]]
FibVals(rt) == [r \in rt.routes |-> fibValFor(r)]
TgwFibVals(rt) == [r \in rt.routes |-> buildFibVal(r)]

Swap(map, snap, k, rt, vals) ==
    <<Put(map, rt.id, FibOf(vals)), Keep(snap, k, rt.id)>>
    \o When(Has(snap, k) /\ tables[snap][k] # rt.id, <<Ignored(Del(map, tables[snap][k]))>>)

FibDelete(map, snap, k) ==
    When(Has(snap, k), <<Drop(snap, k), Del(map, tables[snap][k])>>)

FibPass(k) ==
    IF Get(k) = None THEN FibDelete("fib_map", "fib", k)
    ELSE Swap("fib_map", "fib", k, Get(k), FibVals(Get(k)))


FibWakes(k, c) ==
    IF k[1] = "RouteTable" THEN {k}
    ELSE IF k[1] \in {"Subnet", "NetworkEndpoint", "L2Network", "TransitGatewayRouteTable"}
         THEN Listed(c, "RouteTable")
    ELSE {}

TgwFibPass(k) ==
    IF Get(k) = None THEN FibDelete("tgw_fib_map", "tgw_fib", k)
    ELSE When(Get(k).id # 0, Swap("tgw_fib_map", "tgw_fib", k, Get(k), TgwFibVals(Get(k))))

TgwFibWakes(k, c) ==
    IF k[1] = "TransitGatewayRouteTable" THEN {k}
    ELSE IF k[1] = "Subnet" THEN Listed(c, "TransitGatewayRouteTable")
    ELSE {}

-----------------------------------------------------------------------------
(* nat: DNAT of an attached ElasticIP on every node, SNAT on its own *)

NatDelete(k) ==
    When(Has("nat", k), LET old == tables.nat[k] IN
        <<Drop("nat", k), Del("nat_dnat_map", old.outside)>>
        \o When(old.snat, <<Del("nat_snat_map", old.inside)>>))

(* resolveSubnetName: of the NetworkInterface, else of its endpoint. *)
NatSubnet(a) ==
    LET nic == Get(<<"NetworkInterface", a.nic>>)
        nwep == Get(<<"NetworkEndpoint", a.nic>>)
    IN  IF nic # None /\ (nic # None => nic.net[1] = "Subnet") THEN nic.net
        ELSE IF nwep = None THEN NoKey
        ELSE IF nwep.net[1] = "Subnet" THEN nwep.net ELSE NoKey

NatUpsert(k, a) ==
    LET want == [outside |-> a.eip, inside |-> <<Get(NatSubnet(a)).id, a.pod>>,
                 snat |-> a.node = Self]
        had == Has("nat", k)
    IN  When(had /\ tables.nat[k].outside # want.outside,
             <<Del("nat_dnat_map", tables.nat[k].outside)>>)
        \o When(had /\ tables.nat[k].snat /\ (want.snat => tables.nat[k].inside # want.inside),
                <<Del("nat_snat_map", tables.nat[k].inside)>>)
        \o <<Put("nat_dnat_map", want.outside, want.inside)>>
        \o When(want.snat, <<Put("nat_snat_map", want.inside, want.outside)>>)
        \o <<Keep("nat", k, want)>>

shouldProgram(a) == a.attached /\ a.eip # "" /\ a.pod # "" /\ a.node # ""

(* Mutant: an attachment that is not ready is an error, retried for ever. *)
WaitsInError(k) ==
    LET a == Get(k) IN
    IF a = None THEN NatDelete(k)
    ELSE IF ~ shouldProgram(a) THEN NatDelete(k) \o <<Error>>
    ELSE IF Get(NatSubnet(a)) = None THEN <<Error>>
    ELSE NatUpsert(k, a)

NatPass(k) ==
    LET a == Get(k) IN
    IF a = None THEN NatDelete(k)
    ELSE IF ~ shouldProgram(a) THEN NatDelete(k)
    ELSE IF Get(NatSubnet(a)) = None THEN <<Error>>
    ELSE NatUpsert(k, a)

-----------------------------------------------------------------------------
(* napt: the source address of each NATGateway on this node *)

naptDesired(a) == {Get(g).id : g \in {x \in All("NATGateway") :
                                        Get(x).net = a.net /\ Get(x).id # 0}}

NaptOld(k) == IF Has("napt", k) THEN tables.napt[k] ELSE {}

NaptDelete(k) ==
    <<Drop("napt", k), Joined(Release(<<"napt", k>>))>>
    \o Each(NaptOld(k), LAMBDA g : Joined(Del("napt_src", g)))

NaptPass(k) ==
    LET a == Get(k)
        mine == IF a = None THEN FALSE ELSE a.node = Self /\ a.ip # ""
    IN  IF ~ mine THEN NaptDelete(k)
        ELSE <<Claim(<<"napt", k>>, [p \in {a.ip} |-> Here])>>
             \o Each(naptDesired(a), LAMBDA g : Put("napt_src", g, a.ip))
             \o Each(NaptOld(k) \ naptDesired(a), LAMBDA g : Del("napt_src", g))
             \o <<Keep("napt", k, naptDesired(a))>>

NaptWakes(k, c) ==
    IF k[1] = "ExternalNetworkAttachment" THEN {k}
    ELSE IF k[1] = "NATGateway"
         THEN {x \in Listed(c, "ExternalNetworkAttachment") : c[x].node = Self}
    ELSE {}

-----------------------------------------------------------------------------
(* external-arp: the addresses this node answers ARP for.  The gate opens  *)
(* before the answer, and closes after it.                                 *)

ExternalArpRelease(k) ==
    When(Has("external_arp", k),
         <<Drop("external_arp", k), Joined(Del("external_arp_table", tables.external_arp[k]))>>)
    \o <<Joined(Release(<<"external-arp", k>>))>>

ExternalArpProgram(k, a) ==
    When(Has("external_arp", k) /\ tables.external_arp[k] # a.addr,
         <<Del("external_arp_table", tables.external_arp[k])>>)
    \o <<Claim(<<"external-arp", k>>, [p \in {a.addr} |-> Here]),
         Put("external_arp_table", a.addr, "self"),
         Keep("external_arp", k, a.addr)>>

checkExternalNetwork(a) ==
    IF Get(a.net) = None THEN FALSE ELSE Get(a.net).type = "arp"

ExternalArpPass(k) ==
    LET a == Get(k) IN
    IF a = None THEN ExternalArpRelease(k)
    ELSE IF a.node # Self THEN ExternalArpRelease(k)
    ELSE IF ~ checkExternalNetwork(a) THEN <<Error>>
    ELSE ExternalArpProgram(k, a)

ExternalArpWakes(k, c) ==
    IF k[1] = "ARPAdvertisement" THEN {k}
    ELSE IF k[1] = "ExternalNetwork" THEN {x \in Listed(c, "ARPAdvertisement") : c[x].net = k}
    ELSE {}

-----------------------------------------------------------------------------
(* bgp-pool: one key stands for all pools and advertisements *)

BgpPools == <<"Singleton", "bgp-pool">>

deliveryOf(a) == IF a.node \in {"", Self} THEN Here ELSE Elsewhere

claimedPrefixes(a, pool) ==
    IF deliveryOf(a) = Elsewhere /\ a.prefix # "" THEN {a.prefix} ELSE pool.prefixes

buildDesired ==
    LET uses == {<<a, p>> \in All("BGPAdvertisement") \X All("AddressPool") :
                    p \in Get(a).pools /\ Get(p).bgp}
        claimed == UNION {{<<x, deliveryOf(Get(u[1]))>> :
                            x \in claimedPrefixes(Get(u[1]), Get(u[2]))} : u \in uses}
    IN  [x \in {c[1] : c \in claimed} |->
            preferredDelivery({c[2] : c \in {d \in claimed : d[1] = x}})]

BgpPoolPass(k) == <<Claim(<<"bgp-pool", k>>, buildDesired)>>

BgpPoolWakes(k) == IF k[1] \in {"AddressPool", "BGPAdvertisement"} THEN {BgpPools} ELSE {}

-----------------------------------------------------------------------------
(* node-underlay: the internal addresses of the nodes *)

UnderlayOld(k) == IF Has("node_underlay", k) THEN tables.node_underlay[k] ELSE {}

NodeUnderlayPass(k) ==
    IF Get(k) = None
    THEN <<Drop("node_underlay", k)>>
         \o Each(UnderlayOld(k), LAMBDA a : Del("node_underlays", a))
    ELSE Each(Get(k).ips \ UnderlayOld(k), LAMBDA a : Put("node_underlays", a, TRUE))
         \o Each(UnderlayOld(k) \ Get(k).ips, LAMBDA a : Del("node_underlays", a))
         \o <<Keep("node_underlay", k, Get(k).ips)>>

-----------------------------------------------------------------------------
(* service_nat: the SNAT address of each provider Vpc on this node *)

natWrite(vpcID, ip) ==
    <<Put("service_nat_ip", vpcID, ip), Keep("service_nat", vpcID, TRUE)>>

clearForKey(vpcID) ==
    When(vpcID # 0 /\ Has("service_nat", vpcID),
         <<Del("service_nat_ip", vpcID), Drop("service_nat", vpcID)>>)

planAction(a, vpcID) ==
    IF a = None THEN clearForKey(0)
    ELSE IF a.node # Self THEN <<>>
    ELSE IF a.ip = "" THEN clearForKey(vpcID)
    ELSE IF vpcID = 0 THEN <<>>
    ELSE natWrite(vpcID, a.ip)

ServiceNATPass(k) ==
    LET a == Get(k)
        vpc == IF a = None THEN None ELSE Get(a.vpc)
    IN  planAction(a, IF vpc = None THEN 0 ELSE vpc.id)

ServiceNATWakes(k, c) ==
    IF k[1] = "ServiceNATAttachment" THEN {k}
    ELSE IF k[1] = "Vpc" THEN {x \in Listed(c, "ServiceNATAttachment") : c[x].vpc = k}
    ELSE {}
=============================================================================
