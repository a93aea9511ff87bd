------------------------------ MODULE Dataplane ------------------------------
(***************************************************************************)
(* The data plane manager of the daemon: the map reconcilers side by side, *)
(* each behind the work queue of its runner, fed by the informers.         *)
(*                                                                         *)
(* A world is [runners, cached, feed, calls, restarts, traffic]: the      *)
(* runners under study, the objects the informers listed at start, the     *)
(* changes that follow, how many system calls may fail, how often the      *)
(* daemon restarts, the clients of Services that stick to a backend, the   *)
(* frames <<vni, mac, ifindex>> the data plane learns from, the tuples     *)
(* <<trace, tuple>> the debug server passes on and those whose replies the *)
(* event reader learns, and how far the clock of the sessions runs.        *)
(*                                                                         *)
(* The handlers of a runner are taken to run with the cache update they    *)
(* are told about; a handler that runs later only reads newer caches.      *)
(***************************************************************************)
EXTENDS VirtualServices

CONSTANT Worlds

VARIABLE traffic   \* [clients, frames, learned, mirrors, ticks]

vars == <<tableVars, traffic>>

TableNames ==
    {"arp_table", "arp", "fdb_local", "fdb_remote", "fdb", "ifindex_subnet",
     "ifindex_external_network", "ifindex_host_mac", "pod_iface", "tcx", "attacher",
     "eip_claims", "elastic_ip_direct", "claims", "external_address_pools", "subnet_map",
     "subnet", "fib_map", "fib", "tgw_fib_map", "tgw_fib", "nat_dnat_map", "nat_snat_map", "nat",
     "napt_src", "napt", "external_arp_table", "external_arp", "node_underlays", "node_underlay",
     "service_nat_ip", "service_nat", "l2_network_map", "l2_network", "l2_ifindex", "l2_refs",
     "l2_port", "l2_arp_seed", "veths", "kernel", "gateway_links", "l2_gateway",
     "l2_gateway_port", "service_map", "backend_map", "service_acl_map", "service",
     "vpc_endpoint_map", "vpc_endpoint", "lb_service_map", "lb_backend_map", "lb", "lb_known",
     "affinity", "trace_config", "trace_tuple_map", "trace_active", "trace_sessions", "trace_ids",
     "virtual_service_map", "vs_handlers", "vs_bindings", "vips", "listeners", "dns",
     "loose", "lives"} \cup Range(SegmentTables)

(* What outlives the daemon: the veths, the kernel's numbering, the time. *)
Fresh(veths, kernel) ==
    [t \in TableNames |-> IF t = "veths" THEN veths ELSE IF t = "kernel" THEN kernel ELSE <<>>]

-----------------------------------------------------------------------------
(* startReconcilers: which runner takes which pass, and what wakes it *)

Passes(r, k) ==
    CASE r = "subnet" -> {SubnetPass(k)}
      [] r = "arp" -> {ArpPass(k)}
      [] r = "fdb" -> {FdbPass(k)}
      [] r = "pod-iface" -> {PodIfacePass(k)}
      [] r = "pod-attacher" -> {AttacherPass(k)}
      [] r = "elastic-ip-direct" -> {DirectPass(k)}
      [] r = "fib" -> {FibPass(k)}
      [] r = "tgw-fib" -> {TgwFibPass(k)}
      [] r = "nat" -> {NatPass(k)}
      [] r = "napt" -> {NaptPass(k)}
      [] r = "external-arp" -> {ExternalArpPass(k)}
      [] r = "bgp-pool" -> {BgpPoolPass(k)}
      [] r = "node-underlay" -> {NodeUnderlayPass(k)}
      [] r = "service_nat" -> {ServiceNATPass(k)}
      [] r = "l2-network" -> {L2NetworkPass(k)}
      [] r = "l2-port" -> {L2PortPass(k)}
      [] r = "l2-arp" -> {L2ArpPass(k)}
      [] r = "l2-gateway" -> {L2GatewayPass(k)}
      [] r = "service" -> ServicePasses(k)
      [] r = "vpc-endpoint" -> {VpcEndpointPass(k)}
      [] r = "service-load-balancer" -> {LBPass(k)}
      [] r = "tracesession" -> {TracePass(k)}
      [] r = "virtservice-dns" -> {DnsPass(k)}

Own(kind, k) == IF k[1] = kind THEN {k} ELSE {}

(* The runners of the endpoints, of the routes and translations, of the    *)
(* segments and of the Services, in the order they are started.            *)
EndpointWatches(r, k, o, c) ==
    CASE r = "subnet" -> SubnetWakes(k, o, c)
      [] r \in {"arp", "fdb", "pod-iface", "elastic-ip-direct"} -> EndpointWakes(k, c)
      [] r = "pod-attacher" -> AttacherWakes(k)
      [] OTHER -> {}

RouteWatches(r, k, c) ==
    CASE r = "fib" -> FibWakes(k, c)
      [] r = "tgw-fib" -> TgwFibWakes(k, c)
      [] r = "nat" -> Own("ElasticIPAttachment", k)
      [] r = "napt" -> NaptWakes(k, c)
      [] r = "external-arp" -> ExternalArpWakes(k, c)
      [] r = "bgp-pool" -> BgpPoolWakes(k)
      [] r = "node-underlay" -> Own("Node", k)
      [] r = "service_nat" -> ServiceNATWakes(k, c)
      [] OTHER -> {}

SegmentWatches(r, k, o, c) ==
    CASE r = "l2-network" -> L2NetworkWakes(k, c)
      [] r \in {"l2-port", "l2-arp"} -> L2EndpointWakes(k, c)
      [] r = "l2-gateway" -> L2GatewayWakes(k, o, c)
      [] OTHER -> {}

ServiceWatches(r, k, o, c) ==
    CASE r = "service" -> ServiceWakes(k, o, c)
      [] r = "vpc-endpoint" -> VpcEndpointWakes(k, c)
      [] r = "service-load-balancer" -> LBWakes(k, o)
      [] r = "tracesession" -> Own("TraceSession", k)
      [] r = "virtservice-dns" -> DnsWakes(k, c)
      [] OTHER -> {}

Wakes(r, k, o, c) ==
    EndpointWatches(r, k, o, c) \cup RouteWatches(r, k, c)
        \cup SegmentWatches(r, k, o, c) \cup ServiceWatches(r, k, o, c)

(* The informers list everything there is to the runners that start. *)
Listing(r, c) ==
    LET there == {k \in DOMAIN c : c[k] # None} IN
    UNION {Wakes(r, k, c[k], c) : k \in there} \cup (IF r = "bgp-pool" THEN {BgpPools} ELSE {})

-----------------------------------------------------------------------------
Init ==
    \E w \in Worlds :
        /\ cache = w.cached
        /\ feed = w.feed
        /\ tables = Fresh(<<>>, [ifindex |-> 100, clock |-> 0])
        /\ queue = [r \in w.runners |-> SetToSeq(Listing(r, w.cached))]
        /\ later = [r \in w.runners |-> {}]
        /\ running = [r \in w.runners |-> None]
        /\ faults = [calls |-> w.calls, restarts |-> w.restarts]
        /\ traffic = w.traffic

(* The caches a daemon that starts anew lists. *)
Newest ==
    [k \in DOMAIN cache |->
        LET later_(kind) == {i \in DOMAIN feed[kind] : feed[kind][i].key = k}
            known == k[1] \in DOMAIN feed /\ (k[1] \in DOMAIN feed => later_(k[1]) # {})
        IN  IF known THEN feed[k[1]][CHOOSE i \in later_(k[1]) :
                                       \A j \in later_(k[1]) : j <= i].obj
            ELSE cache[k]]

(* Stop and Start: the pin path is removed, so the maps are empty; the     *)
(* programs are detached and the veths are left.                           *)
Restart ==
    /\ faults.restarts > 0
    /\ faults' = [faults EXCEPT !.restarts = @ - 1]
    /\ cache' = Newest
    /\ feed' = [kind \in DOMAIN feed |-> <<>>]
    /\ tables' = Fresh(tables.veths, tables.kernel)
    /\ queue' = [r \in DOMAIN queue |-> SetToSeq(Listing(r, Newest))]
    /\ later' = [r \in DOMAIN queue |-> {}]
    /\ running' = [r \in DOMAIN queue |-> None]
    /\ UNCHANGED traffic

Informers == (\E kind \in DOMAIN feed : Deliver(kind, Wakes)) /\ UNCHANGED traffic

Workers ==
    /\ \E r \in DOMAIN queue : Begin(r, Passes) \/ Continue(r) \/ Retry(r)
    /\ UNCHANGED traffic

Failures == (\E r \in DOMAIN queue : CallFails(r)) /\ UNCHANGED traffic

Traffic ==
    /\ \/ \E f \in traffic.frames : Learn(f[1], f[2], f[3])
       \/ \E c \in traffic.clients : \E service \in DOMAIN tables.service_map : Bind(c, service)
       \/ \E c \in traffic.clients : planAffinityExpiry(c)
       \/ Sweep
       \/ \E x \in traffic.learned : LearnTuple(x[1], x[2])
       \/ \E x \in traffic.mirrors : learnReverseMirror(x[1], x[2])
       \/ TraceGC
       \/ tables.kernel.clock < traffic.ticks /\ Tick
    /\ UNCHANGED traffic

Next == Informers \/ Workers \/ Failures \/ Traffic \/ Restart

Delivered == \A kind \in DOMAIN feed : feed[kind] = <<>>
Idle == \A r \in DOMAIN queue : queue[r] = <<>> /\ later[r] = {} /\ running[r] = None
Worked == <<queue, later, running>>' # <<queue, later, running>> /\ UNCHANGED <<cache, feed, faults>>

(* Every runner and every informer has a goroutine of its own that does    *)
(* not stop while it has work: weak fairness of Informers and of Workers,  *)
(* written out.  Informers is enabled unless Delivered, and the feeds end; *)
(* Workers is enabled unless Idle, and its steps are those that change the *)
(* work and nothing else of the runners' surroundings.                     *)
Fairness == []<>Delivered /\ ([]<>Idle \/ []<><<Worked>>_vars)

Spec == Init /\ [][Next]_vars /\ Fairness

-----------------------------------------------------------------------------
(* Nothing is on its way: what the maps hold now is what they will hold. *)
AtRest == Delivered /\ Idle

Pairs(f) == {<<x, f[x]>> : x \in DOMAIN f}

(* What is wanted is there, and what is not wanted is what a failed call   *)
(* left behind.                                                            *)
Holds(map, held, wanted) == wanted \subseteq held /\ \A x \in held \ wanted : Loose(map, x[1])
Agrees(r, map, wanted) == r \in DOMAIN queue => Holds(map, Pairs(tables[map]), wanted)
If(r, wanted) == IF r \in DOMAIN queue THEN wanted ELSE {}

Objects(kind) == {Get(k) : k \in All(kind)}
Endpoints == Objects("NetworkEndpoint")
OnOverlay(e) == ~ OnL2(e) /\ Get(e.net) # None /\ (Get(e.net) # None => Get(e.net).id # 0)
Overlay == {e \in Endpoints : OnOverlay(e)}
Veths == {e \in Overlay : Attached(e)}
Direct == {e \in Overlay : e.net[1] = "ExternalNetwork"}

GatewayPorts ==
    {[port |-> desiredPort(n), ifindex |-> vethIfindex(n.id)] :
        n \in {x \in Objects("L2Network") : desiredPort(x) # None}}

(***************************************************************************)
(* Once the daemon has caught up, the maps about endpoints hold an entry   *)
(* for each endpoint the caches list and nothing else but what failed      *)
(* calls left behind: endpoints were attached late, moved to another veth, *)
(* came and went (arp.go, fdb.go, pod_iface.go, elastic_ip_direct.go,      *)
(* link/attacher.go).                                                      *)
(***************************************************************************)
EndpointMapsAgree == AtRest =>
    /\ Agrees("arp", "arp_table", {<<<<overlaySegmentID(e), e.addr>>, e.mac>> : e \in Overlay}
            \cup If("subnet", {<<<<s.id, s.dns>>, "dns">> :
                                s \in {x \in Objects("Subnet") : x.dns # ""}}))
    /\ Agrees("fdb", "fdb_local",
            {<<<<overlaySegmentID(e), e.mac>>, [ifindex |-> e.ifindex]>> : e \in Veths})
    /\ Agrees("fdb", "fdb_remote", {<<<<overlaySegmentID(e), e.mac>>, [vtep |-> e.ip]>> :
            e \in {x \in Overlay : ~ isLocal(x) /\ x.ip # ""}})
    /\ Agrees("pod-iface", "ifindex_host_mac", {<<e.ifindex, e.host>> : e \in Veths})
    /\ Agrees("pod-iface", "ifindex_external_network",
            {<<e.ifindex, <<overlaySegmentID(e), e.addr>>>> : e \in Veths \cap Direct})
    /\ Agrees("pod-iface", "ifindex_subnet",
            {<<e.ifindex, <<overlaySegmentID(e), e.addr>>>> : e \in Veths \ Direct})
    /\ Agrees("pod-attacher", "tcx",
            UNION {{<<<<e.ifindex, side>>, programsFor(e)>> : side \in {"egress", "ingress"}} :
                    e \in {x \in Endpoints : Attached(x)}})
    /\ Agrees("elastic-ip-direct", "elastic_ip_direct",
            {<<e.addr, overlaySegmentID(e)>> : e \in Direct})

(* What each runner asks of external_address_pools. *)
GateWanted ==
    If("elastic-ip-direct", {<<e.addr, Here>> : e \in Direct})
    \cup If("napt", {<<a.ip, Here>> : a \in {x \in Objects("ExternalNetworkAttachment") :
                                                x.node = Self /\ x.ip # ""}})
    \cup If("external-arp", {<<a.addr, Here>> : a \in {x \in Objects("ARPAdvertisement") :
                                                x.node = Self}})
    \cup If("bgp-pool", Pairs(buildDesired))

(***************************************************************************)
(* Once the daemon has caught up, the gate in front of the external        *)
(* addresses opens for exactly what the four reconcilers that share it     *)
(* ask for, "here" before "elsewhere", whichever of them wrote last and    *)
(* whichever call failed (ownedaddr/store.go, bgp_pool.go, napt.go,        *)
(* external_arp.go, elastic_ip_direct.go).                                 *)
(***************************************************************************)
GateAgrees ==
    AtRest /\ DOMAIN queue \cap {"elastic-ip-direct", "napt", "external-arp", "bgp-pool"} # {} =>
    Pairs(tables.external_address_pools) =
        {<<p, preferredDelivery({w[2] : w \in {x \in GateWanted : x[1] = p}})>> :
            p \in {w[1] : w \in GateWanted}}

(* A table as its routes ask, or without those through a NATGateway. *)
FibWritten(t) ==
    LET without == FibOf(FibVals([t EXCEPT !.routes = {r \in @ : r.via # "natGateway"}]))
    IN  IF <<t.id, without>> \in Pairs(tables.fib_map) THEN without ELSE FibOf(FibVals(t))

(***************************************************************************)
(* Once the daemon has caught up, the routing and translation maps hold    *)
(* what the objects ask for, although a route, a subnet or an address      *)
(* names objects whose numbers arrive later and through other informers    *)
(* (subnet.go, fib.go, tgw_fib.go, nat.go, napt.go, external_arp.go,       *)
(* node_underlay.go, service_nat.go and their fan-outs).  Two exceptions   *)
(* are the code's: the fib runner does not watch NATGateways, so a route   *)
(* through one that came late is missing (manager.go:321-346), and the     *)
(* address of a ServiceNATAttachment that was deleted stays, since its Vpc *)
(* is not known any more (service_nat.go:90 and 171-174).                  *)
(***************************************************************************)
RouteMapsAgree == AtRest =>
    /\ Agrees("subnet", "subnet_map",
            {<<s.id, [table |-> Get(SubnetTable(s)).id, vpc |-> Get(s.vpc).id, gw |-> s.gw,
                      acl |-> s.aclID]>> : s \in Objects("Subnet")})
    /\ Agrees("fib", "fib_map", {<<t.id, FibWritten(t)>> : t \in Objects("RouteTable")})
    /\ Agrees("tgw-fib", "tgw_fib_map", {<<t.id, FibOf(TgwFibVals(t))>> :
            t \in {x \in Objects("TransitGatewayRouteTable") : x.id # 0}})
    /\ LET nat == {a \in Objects("ElasticIPAttachment") : shouldProgram(a)}
           inside(a) == <<Get(NatSubnet(a)).id, a.pod>>
       IN  /\ Agrees("nat", "nat_dnat_map", {<<a.eip, inside(a)>> : a \in nat})
           /\ Agrees("nat", "nat_snat_map", {<<inside(a), a.eip>> :
                    a \in {x \in nat : x.node = Self}})
    /\ LET mine == {a \in Objects("ExternalNetworkAttachment") : a.node = Self /\ a.ip # ""}
       IN  Agrees("napt", "napt_src", UNION {{<<g, a.ip>> : g \in naptDesired(a)} : a \in mine})
    /\ Agrees("external-arp", "external_arp_table",
            {<<a.addr, "self">> : a \in {x \in Objects("ARPAdvertisement") : x.node = Self}})
    /\ Agrees("node-underlay", "node_underlays",
            UNION {{<<a, TRUE>> : a \in n.ips} : n \in Objects("Node")})
    /\ LET mine == {a \in Objects("ServiceNATAttachment") : a.node = Self /\ Get(a.vpc) # None}
           known == {x \in Pairs(tables.service_nat_ip) : \E a \in mine : x[1] = Get(a.vpc).id}
       IN  "service_nat" \in DOMAIN queue => Holds("service_nat_ip", known,
                {<<Get(a.vpc).id, a.ip>> : a \in {x \in mine : x.ip # "" /\ Get(x.vpc).id # 0}})

(***************************************************************************)
(* Once the daemon has caught up, a segment floods to the ports and nodes  *)
(* of its endpoints and to its gateway, and to nothing else (l2_network.go,*)
(* l2_port.go, l2_arp.go, l2_gateway.go).                                  *)
(***************************************************************************)
SegmentMapsAgree == AtRest =>
    LET members == {desiredMember(e) : e \in Endpoints} \ {NoPort}
        seeds == {desiredSeed(e) : e \in Endpoints} \ {NoSeed}
        entries(t) == {x \in Pairs(tables[t]) : Len(x[1]) = 2}
        gateways == If("l2-gateway", GatewayPorts)
    IN  /\ Agrees("l2-network", "l2_network_map", {<<n.id, Get(n.vpc).id>> :
                n \in {x \in Objects("L2Network") : x.id # 0}})
        /\ "l2-port" \in DOMAIN queue =>
            /\ Holds("l2_bum_local", entries("l2_bum_local"),
                    {<<<<m[2], m[3]>>, "port">> : m \in {x \in members : x[1]}}
                    \cup {<<<<g.port.vni, g.ifindex>>, "gateway">> : g \in gateways})
            /\ Holds("l2_bum_remote", entries("l2_bum_remote"),
                    {<<<<m[2], m[3]>>, "port">> : m \in {x \in members : ~ x[1]}})
            /\ Holds("l2_ifindex", Pairs(tables.l2_ifindex),
                    {<<m[3], m[2]>> : m \in {x \in members : x[1]}}
                    \cup {<<g.ifindex, g.port.vni>> : g \in gateways})
        /\ "l2-arp" \in DOMAIN queue =>
                Holds("l2_arp", entries("l2_arp"), {<<<<s[1], s[2]>>, s[3]>> : s \in seeds})
        /\ Agrees("l2-gateway", "l2_gateway", {<<g.port.vni, [ifindex |-> g.ifindex,
                mac |-> g.port.mac]>> : g \in GatewayPorts})

(* The Services the service runner programs. *)
Served ==
    {k \in All("Service") : Get(k).ip # "" /\ Get(Get(k).vpc) # None
        /\ (Get(Get(k).vpc) # None => Get(Get(k).vpc).id # 0 /\ Get(Get(k).vpc).enabled)}

(***************************************************************************)
(* Once the daemon has caught up, a Service spreads over exactly the       *)
(* backends its endpoints and their interfaces call for, under indexes     *)
(* that leave no gap, and the endpoints of other Vpcs and load balancers   *)
(* lead to it (service/*.go, vpcendpoint.go, serviceloadbalancer/*.go).    *)
(***************************************************************************)
ServiceMapsAgree == AtRest =>
    LET ids(k) == {<<vip, p>> : vip \in vipsForService(Get(k)), p \in Get(k).ports}
        backends(k, p) == Range(backendsFor(Get(k), Rows(SetToSeq(SlicesOf(k))), p))
        spread(map, id, count, wanted) ==
            /\ \A i \in 0..(count - 1) : Has(map, <<id, i>>)
            /\ {tables[map][<<id, i>>] : i \in 0..(count - 1)} = wanted
            /\ \A x \in DOMAIN tables[map] : x[1] = id /\ x[2] >= count => Loose(map, x)
        only(map, keys) ==
            keys \subseteq DOMAIN tables[map] /\ \A x \in DOMAIN tables[map] \ keys : Loose(map, x)
        under(map, services) ==
            \A x \in DOMAIN tables[map] : x[1] \in DOMAIN tables[services] \/ Loose(map, x)
        balanced == {b \in Objects("ServiceLoadBalancer") :
                        ~ b.del /\ b.vip # "" /\ Get(b.service) # None}
    IN  /\ "service" \in DOMAIN queue =>
            /\ only("service_map", UNION {{<<x[1], x[2].number>> : x \in ids(k)} : k \in Served})
            /\ \A k \in Served : \A x \in ids(k) : LET id == <<x[1], x[2].number>> IN
                spread("backend_map", id, tables.service_map[id].count, backends(k, x[2]))
            /\ only("service_acl_map", UNION {{<<<<x[1], x[2].number>>, v>> : x \in ids(k),
                        v \in resolveAllowedConsumerVpcIDs(Get(k))} : k \in Served})
            /\ under("backend_map", "service_map")
        /\ Agrees("vpc-endpoint", "vpc_endpoint_map",
                UNION {{<<<<Get(e.vpc).id, e.addr, p.number>>, Get(e.service).ip>> :
                            p \in Get(e.service).ports} :
                        e \in {x \in Objects("VpcEndpoint") :
                                x.accepted /\ x.addr # "" /\ Get(x.service) # None}})
        /\ "service-load-balancer" \in DOMAIN queue =>
            /\ only("lb_service_map", UNION {{<<b.vip, p.number>> : p \in b.ports} : b \in balanced})
            /\ \A b \in balanced : \A p \in b.ports : LET id == <<b.vip, p.number>> IN
                spread("lb_backend_map", id, tables.lb_service_map[id],
                       Range(resolveLocalBackends(b.service, p)))
            /\ under("lb_backend_map", "lb_service_map")

(***************************************************************************)
(* "A packet let through by the gate always finds" its NIC: at every       *)
(* moment an address that elastic-ip-direct opened the gate for has its    *)
(* entry in elastic_ip_direct, while endpoints that share the address come *)
(* and go and calls fail (elastic_ip_direct.go claim and release).         *)
(***************************************************************************)
GateFindsEntry ==
    \A o \in {x \in DOMAIN tables.claims : x[1] = "elastic-ip-direct"} :
        \A p \in DOMAIN tables.claims[o] : Has("elastic_ip_direct", p)

(***************************************************************************)
(* The node answers ARP for an external address only while the gate lets   *)
(* the traffic the answer attracts through, also between the calls of a    *)
(* pass and after a program that failed (external_arp.go program and       *)
(* release).  An answer whose removal failed is not meant: release closes  *)
(* the gate all the same and forgets the answer (external_arp.go:203-218), *)
(* although "the ARP entry goes first so the node stops attracting traffic *)
(* it no longer forwards".                                                 *)
(***************************************************************************)
AnsweredIsLetIn ==
    \A p \in DOMAIN tables.external_arp_table :
        Has("external_address_pools", p) \/ Undeleted("external_arp_table", p)

(***************************************************************************)
(* A veth is on one network at a time, and whoever finds its network also  *)
(* finds its host MAC, between any two calls of pod-iface (pod_iface.go    *)
(* upsert and deleteEntries).                                              *)
(***************************************************************************)
VethNamed ==
    /\ DOMAIN tables.ifindex_subnet \cap DOMAIN tables.ifindex_external_network = {}
    /\ "pod-iface" \in DOMAIN queue =>
            DOMAIN tables.ifindex_subnet \cup DOMAIN tables.ifindex_external_network
                \subseteq DOMAIN tables.ifindex_host_mac

(***************************************************************************)
(* "Until it is there nothing sends a packet to a port that is not ready   *)
(* for one": while l2_gateway names a port, the veth is there with both    *)
(* programs, and so is every entry they read; the forwarding entry of the  *)
(* gateway survives learning and aging (l2_gateway.go stand and            *)
(* releaseEntries, fdb_gc.go).  A name whose removal failed is not meant:  *)
(* releaseEntries goes on to the other entries (l2_gateway.go:347-383).    *)
(***************************************************************************)
GatewayPortReady ==
    \A vni \in {x \in DOMAIN tables.l2_gateway : ~ Undeleted("l2_gateway", x)} :
        LET port == tables.l2_gateway[vni] IN
        /\ Has("veths", vni) /\ (Has("veths", vni) => tables.veths[vni].ifindex = port.ifindex)
        /\ Has("tcx", <<port.ifindex, "ingress">>) /\ Has("tcx", <<port.ifindex, "egress">>)
        /\ Has("l2_ifindex", port.ifindex) /\ Has("ifindex_subnet", port.ifindex)
        /\ Has("subnet_map", vni)
        /\ (\E n \in Objects("L2Network") : n.id = vni) =>
                /\ Has("l2_bum_local", <<vni, port.ifindex>>)
                /\ Has("l2_fdb", <<vni, port.mac>>)
                /\ tables.l2_fdb[<<vni, port.mac>>] = [ifindex |-> port.ifindex, gateway |-> TRUE]

(***************************************************************************)
(* A port of a segment is counted once for each endpoint recorded on it,   *)
(* also after a call failed and the count was put back, so that the last   *)
(* endpoint to go takes the port out and no earlier one does (l2_port.go   *)
(* acquire and release).                                                   *)
(***************************************************************************)
PortsCounted ==
    ("l2-port" \in DOMAIN queue /\ running["l2-port"] = None) =>
        \A m \in DOMAIN tables.l2_refs \cup Range(tables.l2_port) :
            refs(m) = Cardinality({k \in DOMAIN tables.l2_port : tables.l2_port[k] = m})

(***************************************************************************)
(* A recorded generation stands for one set of backends: for as long as    *)
(* the generation a client was bound under is the Service's, the backend   *)
(* it was bound to is still one of the Service's and its index leads to    *)
(* one, however often the entries are rewritten, whatever backends come    *)
(* and go, and whichever calls fail afterwards (service/program.go         *)
(* programService and backendSignature, pod_egress.c select_backend_index).*)
(* Which backend the index leads to is not promised: the signature is      *)
(* independent of the order that gives the indexes.  Three kinds of        *)
(* bindings are not meant, and do go wrong: those made while a pass is     *)
(* writing, those made under the generation of a pass that failed, which   *)
(* the next pass gives to other backends (reconciler.go:139-145), and      *)
(* those that outlive the record of their Service, whose generations start *)
(* again (reconciler.go:150-160).                                          *)
(***************************************************************************)
BoundStillServed ==
    ("service" \in DOMAIN queue /\ running["service"] = None) =>
        \A c \in DOMAIN tables.affinity : LET bound == tables.affinity[c]
                                              at(i) == <<bound.service, i>> IN
            (bound.sound /\ bound.lives = tables.lives /\ Honoured(bound)) =>
                /\ Has("backend_map", at(bound.index))
                /\ \E i \in 0..(tables.service_map[bound.service].count - 1) :
                    Has("backend_map", at(i)) /\ tables.backend_map[at(i)] = bound.backend

(***************************************************************************)
(* Once the daemon has caught up and the expired sessions are collected,   *)
(* the trace maps speak of the recorded sessions only: each has its        *)
(* configuration, the count that switches tracing on is theirs, no tuple   *)
(* belongs to a trace that is gone, although the debug server and the      *)
(* reader add tuples at any time and a session may be deleted, expire or   *)
(* come back under another number in between; and every tuple a live       *)
(* session asks for is traced (trace/store.go, trace/reconcile.go).        *)
(***************************************************************************)
TracesAgree == (AtRest /\ "tracesession" \in DOMAIN queue /\ Expired = {}) =>
    LET sessions == DOMAIN tables.trace_sessions
        live == {s \in Objects("TraceSession") : ~ s.del /\ s.until >= tables.kernel.clock}
    IN  /\ \A id \in DOMAIN tables.trace_config \ sessions : Loose("trace_config", id)
        /\ sessions \subseteq DOMAIN tables.trace_config
        /\ \A n \in Range(tables.trace_active) :
                n = Cardinality(sessions) \/ Loose("trace_active", 0)
        /\ \A t \in DOMAIN tables.trace_tuple_map :
                tables.trace_tuple_map[t] \in sessions \/ Loose("trace_tuple_map", t)
        /\ \A s \in live : s.id \in sessions /\ s.tuples \subseteq DOMAIN tables.trace_tuple_map

(***************************************************************************)
(* "keeping it out of the Apply diff set stops a status-patch reconcile    *)
(* from sweeping it between a request and its reply": a tuple the reader   *)
(* learned for the replies of a session stays for as long as the session   *)
(* does, whatever is applied meanwhile (trace/store.go learnReverseMirror, *)
(* Apply).                                                                 *)
(***************************************************************************)
MirrorKept == [][
    \A t \in DOMAIN tables.trace_tuple_map : LET id == tables.trace_tuple_map[t] IN
        (/\ id \in DOMAIN tables.trace_sessions \cap DOMAIN tables'.trace_sessions
         /\ t \notin tables.trace_sessions[id].tuples)
            => t \in DOMAIN tables'.trace_tuple_map]_vars

Bound == {desiredBinding(s) : s \in Objects("Subnet")} \ {None}

(***************************************************************************)
(* Once the daemon has caught up, a query to the DNS address of a Subnet   *)
(* reaches its handler over UDP and TCP, and nothing is left of addresses  *)
(* that moved or went away: not in the classifier, not in the dispatcher,  *)
(* not in the userspace stack (virtservice/dns/service.go bindOrRebind,    *)
(* virtservice/registry.go).                                               *)
(***************************************************************************)
DnsBound == (AtRest /\ "virtservice-dns" \in DOMAIN queue) =>
    LET keys == {bpfKey(b, proto) : b \in Bound, proto \in {"udp", "tcp"}}
        left == {k \in DOMAIN tables.virtual_service_map \ keys : Loose("virtual_service_map", k)}
    IN  /\ DOMAIN tables.virtual_service_map = keys \cup left
        /\ DOMAIN tables.vs_handlers = keys
        /\ DOMAIN tables.listeners = {stackAddr(b) : b \in Bound}
        /\ {stackAddr(b) : b \in Bound} \subseteq DOMAIN tables.vips
        /\ \A at \in DOMAIN tables.vips \ {stackAddr(b) : b \in Bound} : Loose("vips", at)
        /\ \A k \in keys : Dispatches(k[1], k[2], k[3])

(***************************************************************************)
(* "a packet that arrives the moment we flip BPF has a place to land": at  *)
(* every moment the classifier redirects TCP only for addresses the        *)
(* userspace stack has and listens on, also while an address moves to      *)
(* another Vpc or a registration is rolled back (registry.go ListenTCP,    *)
(* unregister).  An entry that could not be removed keeps the address but  *)
(* not the listener, whose accept loop has stopped (registry.go:241).      *)
(***************************************************************************)
TcpLands ==
    \A k \in {x \in DOMAIN tables.virtual_service_map :
                x[3] = "tcp" /\ ~ Undeleted("virtual_service_map", x)} :
        \E at \in DOMAIN tables.vips \cap DOMAIN tables.listeners : at[2] = k[2]

ClusterName(w) == <<w[2], "ns", "svc">> \o ClusterDomain
Names == {ClusterName(w) : w \in All("Service")}
         \cup {Get(r).name \o Get(Get(r).zone).domain :
                r \in {x \in All("DNSRecord") : Get(Get(x).zone) # None}}

(***************************************************************************)
(* A client is given no address but those in the zones of its own Vpc and  *)
(* of the Services that are its Vpc's or shared, even while two Vpcs carry *)
(* the same number: the binding keeps the number, the Vpc is looked up per *)
(* query (dns/handler.go HandlePacket, dns/vpc_resolver.go, dns/chain.go,  *)
(* dns/custom_zone.go).                                                    *)
(***************************************************************************)
OwnVpcAnswers ==
    \A k \in DOMAIN tables.dns : LET s == Get(k) IN
        (s # None /\ (s # None => Get(s.vpc) # None /\ (Get(s.vpc) # None =>
            Get(s.vpc).id = tables.dns[k].vpc))) =>
        \A name \in Names : \A a \in HandlePacket(tables.dns[k].vpc, name, "A").addrs :
            \/ \E z \in All("DNSZone") : \E r \in All("DNSRecord") :
                    Get(r).zone = z /\ Get(z).vpc = s.vpc /\ a \in Get(r).addrs
            \/ \E w \in All("Service") :
                    Get(w).ip = a /\ (Get(w).vpc = s.vpc \/ Get(w).shared)

(***************************************************************************)
(* Once the daemon has caught up, an address the DNS gives a client for a  *)
(* Service whose own Vpc is there, numbered and has Services enabled is    *)
(* one the data plane forwards that client's Vpc to, on every port of the  *)
(* Service: the resolver asks the policy by name at query time, the        *)
(* programs by numbers the service runner wrote (svcpolicy/policy.go,      *)
(* dns/zone.go, service/program.go).  It does not hold for a Service whose *)
(* own Vpc is gone, unnumbered or has Services disabled: the resolver asks *)
(* about the caller's Vpc only and answers (dns/zone.go:96-105), while the *)
(* runner deletes or skips the entries (service/reconciler.go:99-112).     *)
(***************************************************************************)
AnswersAdmitted == (AtRest /\ {"service", "virtservice-dns"} \subseteq DOMAIN queue) =>
    \A k \in DOMAIN tables.dns : \A w \in Served :
        \A ip \in HandlePacket(tables.dns[k].vpc, ClusterName(w), "A").addrs :
            \A p \in Get(w).ports : Admits(tables.dns[k].vpc, <<ip, p.number>>)


(***************************************************************************)
(* At every moment, between any two calls of a pass and after one that     *)
(* failed, a packet that finds one entry finds the entries it is sent on   *)
(* to: the maps are written and cleared in the order that the programs     *)
(* read them backwards.  The first entry itself is meant only if its last  *)
(* removal did not fail: a release goes on to the others then.             *)
(***************************************************************************)
MapsInStep ==
    /\ GateFindsEntry /\ AnsweredIsLetIn /\ VethNamed
    /\ GatewayPortReady /\ PortsCounted /\ TcpLands

(***************************************************************************)
(* The DNS gives a client only addresses of its own Vpc's zones and        *)
(* Services or shared ones, at every moment; and, of the Services that the *)
(* service runner programs, only addresses that the data plane forwards    *)
(* that client to, once the daemon has caught up (dns/handler.go,          *)
(* svcpolicy/policy.go, service/program.go).                               *)
(***************************************************************************)
DnsAnswers == OwnVpcAnswers /\ AnswersAdmitted

(***************************************************************************)
(* The daemon catches up: changes stop, failed passes are retried, and the *)
(* work ends (runner.go processNext).                                      *)
(***************************************************************************)
CatchesUp == <>[]AtRest
=============================================================================
