------------------------------ MODULE Services ------------------------------
(***************************************************************************)
(* The controllers of ServiceLoadBalancers, Nodes, DNSZones and            *)
(* DNSRecords.  A Service is [vpc, ip, external, lb, net, want]: lb when   *)
(* it is a LoadBalancer of Juneau's class, net and want its annotations.   *)
(* An EndpointSlice names its service and the nodes with a ready endpoint. *)
(***************************************************************************)
EXTENDS Routing, Addresses

CONSTANT MaxRecordAddresses     \* 100 in the code

NewServiceStatus == [ingress |-> NoAddress]
NewLoadBalancerStatus ==
    [vip |-> NoAddress, nodes |-> {}, arp |-> "", phase |-> "", accepted |-> "", allocated |-> ""]
NewZoneStatus == [why |-> ""]
NewRecordStatus == [addresses |-> {}, why |-> "", of |-> None]

(***************************************************************************)
(* serviceloadbalancer_service_sync_controller.go                          *)
(***************************************************************************)
ServiceLoadBalancerNameForService(name) == Key("ServiceLoadBalancer", name)
isJuneauManagedLoadBalancerService(o) == o # None /\ o.spec.lb

desiredSLBSpecFromService(k, spec) == [service |-> Name(k), net |-> spec.net, want |-> spec.want]

deleteSLBIfExists(c, slb) == IF Has(c, slb) /\ ~c[slb].del THEN Delete(slb) ELSE <<>>

\* Also run for a Service that is gone.
ServiceSyncReconcile(c, k) ==
    LET slb == ServiceLoadBalancerNameForService(Name(k)) IN
    Done(IF isJuneauManagedLoadBalancerService(c[k])
         THEN CreateOrUpdate(c, slb, RefTo(c, k), desiredSLBSpecFromService(k, c[k].spec), NewLoadBalancerStatus)
         ELSE deleteSLBIfExists(c, slb))

ServiceSyncWakes(c, k, o) ==
    IF Kind(k) = "ServiceLoadBalancer" THEN {Key("Service", o.spec.service)} ELSE {}

(***************************************************************************)
(* serviceloadbalancer_arp.go, serviceloadbalancer_endpoints.go            *)
(***************************************************************************)
serviceLoadBalancerAdvertisementName(k) == Key2("ARPAdvertisement", "slb", Name(k))

\* The highest rendezvous score: some fixed order of the nodes.
HighestScore(nodes) == CHOOSE n \in nodes : TRUE

\* Mutant: the node that answers stays when its endpoints are gone.
NeverMoves(nodes, current) == IF current # "" \/ nodes = {} THEN current ELSE HighestScore(nodes)

electARPNode(nodes, current) ==
    CASE nodes = {} -> ""
      [] nodes # {} /\ current \in nodes -> current
      [] OTHER -> HighestScore(nodes)

currentARPNode(c, adv) == IF Has(c, adv) THEN c[adv].spec.node ELSE ""

\* The node to answer for the VIP, "" for none; the advertisement follows it.
ElectedNode(c, k, vip, nodes) ==
    IF c[Key("ExternalNetwork", c[k].spec.net)].spec.type = "bgp" \/ vip = NoAddress THEN ""
    ELSE electARPNode(nodes, currentARPNode(c, serviceLoadBalancerAdvertisementName(k)))

reconcileARPAdvertisement(c, k, vip, node) ==
    LET adv == serviceLoadBalancerAdvertisementName(k) IN
    IF node = "" THEN Delete(adv)
    ELSE ensureARPAdvertisement(c, adv, NoOwner, [net |-> c[k].spec.net, address |-> vip, node |-> node])

collectEndpointAggregate(c, service) ==
    UNION {c[e].spec.nodes : e \in Where(c, "EndpointSlice", LAMBDA s : s.service = service)}

(***************************************************************************)
(* serviceloadbalancer_controller.go.  The Service is read from the API    *)
(* server, everything else from the cache.                                 *)
(***************************************************************************)
serviceLoadBalancerClaimName(k) == ClaimKey(k, PoolKey("serviceloadbalancer"))

ensureLoadBalancerClaim(c, k, pools) ==
    CreateClaim(c, serviceLoadBalancerClaimName(k),
        [pools |-> pools, ref |-> k, want |-> c[k].spec.want, lease |-> NoKey])

syncServiceStatus(svc, vip) ==
    IF obj[svc].status.ingress = vip THEN <<>> ELSE Patch(svc, WithStatus(obj, svc, [ingress |-> vip]))

\* The Service, or None when it is gone or no longer asks for a load balancer.
fetchParentService(c, k) ==
    LET svc == At(obj, Key("Service", c[k].spec.service)) IN
    IF isJuneauManagedLoadBalancerService(svc) THEN svc ELSE None

\* As resolvePools; every failure is put down to the ExternalNetwork.
loadBalancerPoolRefs(c, k) ==
    LET r == resolvePools(c, k) IN IF r.why = "" THEN r ELSE [r EXCEPT !.why = "ExternalNetwork"]

\* What depends on the Service and its EndpointSlices is new, the rest is kept.
buildDesiredStatus(c, k, nodes) == [c[k].status EXCEPT !.nodes = nodes]

commitErrorStatus(c, k, why) ==
    Again(SetStatus(c, k, [c[k].status EXCEPT !.phase = "Error", !.accepted = why]))

BalanceService(c, k) ==
    LET svc == Key("Service", c[k].spec.service)
        r == loadBalancerPoolRefs(c, k)
        claim == serviceLoadBalancerClaimName(k)
        vip == ValueOf(c, claim)
        nodes == collectEndpointAggregate(c, c[k].spec.service)
        elected == ElectedNode(c, k, vip, nodes)
        s == buildDesiredStatus(c, k, nodes)
        report(v, arp, phase, accepted, allocated) ==
            SetStatus(c, k, [s EXCEPT !.vip = v, !.arp = arp, !.phase = phase,
                                      !.accepted = accepted, !.allocated = allocated])
    IN  CASE fetchParentService(c, k) = None -> commitErrorStatus(c, k, "InvalidConfig")
          [] fetchParentService(c, k) # None /\ r.why # "" ->
                 Again(report(s.vip, s.arp, "Error", r.why, r.why))
          [] OTHER ->
                 Then(ensureLoadBalancerClaim(c, k, r.pools) \o reconcileARPAdvertisement(c, k, vip, elected),
                      CASE Exhausted(c, claim) ->
                               Again(report(s.vip, elected, "Pending", "Ready", "PoolExhausted"))
                        [] ~Exhausted(c, claim) /\ vip = NoAddress ->
                               Done(report(s.vip, elected, "Pending", "Ready", "AwaitingDataplane"))
                        [] OTHER -> Done(syncServiceStatus(svc, vip)
                               \o report(vip, elected, IF nodes = {} THEN "Degraded" ELSE "Ready",
                                         "Ready", "Allocated")))

handleLoadBalancerDeletion(c, k) ==
    IF c[k].fins = {} THEN <<>>
    ELSE Delete(serviceLoadBalancerAdvertisementName(k)) \o Delete(serviceLoadBalancerClaimName(k))
         \o Write(k, DropFinalizer(c[k]))

LoadBalancerReconcile(c, k) ==
    IF c[k].del THEN Done(handleLoadBalancerDeletion(c, k)) ELSE WithFinalizer(c, k, BalanceService)

LoadBalancerWakes(c, k, o) ==
    CASE Kind(k) = "AllocationClaim" -> ClaimsFor(o, "ServiceLoadBalancer")
      [] Kind(k) = "Service" -> IF o.spec.lb THEN {ServiceLoadBalancerNameForService(Name(k))} ELSE {}
      [] Kind(k) = "EndpointSlice" -> {ServiceLoadBalancerNameForService(o.spec.service)}
      [] OTHER -> {}

(***************************************************************************)
(* node_controller.go.  Also run for a Node that is gone.  An endpoint     *)
(* whose identity differs is deleted and made again by the next pass.      *)
(***************************************************************************)
JuneauNodeEndpointName(node) == Key2("NetworkEndpoint", "juneau-node", node)
JuneauNodePool == PoolOf("subnet", "default")

deleteJuneauNodeEndpoints(c, node, keep) ==
    Each(Where(c, "NetworkEndpoint", LAMBDA s : s.kind = "Node" /\ s.node = node) \ {keep}, Delete)

juneauNodeEndpointSpec(node, address) ==
    [kind |-> "Node", node |-> node, subnet |-> "default", address |-> address, pod |-> NoPod, mac |-> TRUE]

\* Mutant: an endpoint whose node is not known yet differs.
RemakesUnreconciled(c, k, address) ==
    LET e == JuneauNodeEndpointName(Name(k)) IN
    CASE Has(c, e) /\ c[e].status.nodeIP # NoAddress -> Nothing
      [] Has(c, e) /\ c[e].status.nodeIP = NoAddress -> Again(Delete(e))
      [] OTHER -> Done(Write(e, NewObject(c, e, NoOwner, juneauNodeEndpointSpec(Name(k), address), NewEndpointStatus)))

ensureJuneauNodeEndpoint(c, k, address) ==
    LET e == JuneauNodeEndpointName(Name(k))
        desired == juneauNodeEndpointSpec(Name(k), address)
    IN  CASE ~Has(c, Key("Subnet", "default")) -> Again(<<>>)
          [] Has(c, Key("Subnet", "default")) /\ ~Has(c, e) ->
                 Done(deleteJuneauNodeEndpoints(c, Name(k), e)
                      \o Write(e, NewObject(c, e, NoOwner, desired, NewEndpointStatus)))
          [] OTHER -> IF c[e].spec = desired THEN Nothing ELSE Again(Delete(e))

NodeReconcile(c, k) ==
    LET address == ValueOf(c, ClaimKey(k, JuneauNodePool))
        state == Key("BGPNodeState", Name(k))
    IN  CASE c[k] = None -> Done(deleteJuneauNodeEndpoints(c, Name(k), NoKey))
          [] c[k] # None /\ c[k].del -> Nothing
          [] OTHER ->
                 Then(CreateOrUpdate(c, state, RefTo(c, k), None, None) \o EnsureClaim(c, k, JuneauNodePool),
                      IF address = NoValue THEN Nothing ELSE ensureJuneauNodeEndpoint(c, k, address))

mapJuneauNodeEndpointToNode(o) == IF o.spec.kind = "Node" THEN {Key("Node", o.spec.node)} ELSE {}

NodeWakes(c, k, o) ==
    CASE Kind(k) = "AllocationClaim" -> Owner(o, "Node")
      [] Kind(k) = "NetworkEndpoint" -> mapJuneauNodeEndpointToNode(o)
      [] OTHER -> {}

(***************************************************************************)
(* dnszone_controller.go                                                   *)
(***************************************************************************)
SameDomain(c, o) == Where(c, "DNSZone", LAMBDA s : s.vpc = o.spec.vpc /\ s.domain = o.spec.domain)

DNSZoneReconcile(c, k) ==
    IF c[k].del THEN Nothing
    ELSE Done(SetStatus(c, k, [why |->
             CASE SameDomain(c, c[k]) # {k} -> "DuplicateZone"
               [] SameDomain(c, c[k]) = {k} /\ ~Has(c, Key("Vpc", c[k].spec.vpc)) -> "VpcNotFound"
               [] OTHER -> "Ready"]))

DNSZoneWakes(c, k, o) ==
    CASE Kind(k) = "DNSZone" -> SameDomain(c, o)
      [] Kind(k) = "Vpc" -> Where(c, "DNSZone", LAMBDA s : s.vpc = Name(k))
      [] OTHER -> {}

(***************************************************************************)
(* dnsrecord_controller.go.  A source is an address, or the key of an      *)
(* interface or a VpcEndpoint, or the label of some Pods and the name of   *)
(* their interface.  A source that fails fails the record.                 *)
(***************************************************************************)
IPSource(a) == [kind |-> "ip", key |-> NoKey, address |-> a]
KeySource(kind, k) == [kind |-> kind, key |-> k, address |-> NoAddress]
PodSource(label, interface) == KeySource("pods", Key(label, interface))

Found(addresses) == [addresses |-> addresses, why |-> ""]
Fails(why) == [addresses |-> {}, why |-> why]

networkInterfaceVpc(c, nic) ==
    IF c[nic].spec.kind # "ElasticIP" /\ Has(c, NetworkKey(c[nic].spec))
    THEN {c[NetworkKey(c[nic].spec)].spec.vpc} ELSE {}

networkInterfaceEligible(o) == ~o.del /\ o.status.of = o.spec /\ o.status.phase = "Ready"
vpcEndpointEligibleForDNS(o) == ~o.del /\ o.status.address # NoAddress /\ o.status.accepted = "Accepted"
podEligibleForDNS(o) == ~o.del /\ o.spec.ready

\* An interface without an address does not parse.
AddressOf(o) == IF o.status.address = NoAddress THEN Fails("InvalidAddress") ELSE Found({o.status.address})

resolveNetworkInterface(c, nic, vpc) ==
    CASE ~Has(c, nic) -> Fails("SourceNotFound")
      [] Has(c, nic) /\ networkInterfaceVpc(c, nic) = {} -> Fails("InvalidSource")
      [] Has(c, nic) /\ networkInterfaceVpc(c, nic) \notin {{}, {vpc}} -> Fails("SourceVpcMismatch")
      [] OTHER -> IF networkInterfaceEligible(c[nic]) THEN AddressOf(c[nic]) ELSE Found({})

resolveVpcEndpoint(c, e, vpc) ==
    CASE ~Has(c, e) -> Fails("SourceNotFound")
      [] Has(c, e) /\ c[e].spec.vpc # vpc -> Fails("SourceVpcMismatch")
      [] OTHER -> Found(IF vpcEndpointEligibleForDNS(c[e]) THEN {c[e].status.address} ELSE {})

resolvePodSelector(c, sel, vpc) ==
    LET pods == {p \in Where(c, "Pod", LAMBDA s : s.label = sel[1]) : podEligibleForDNS(c[p])}
        nics == {n \in Where(c, "NetworkInterface",
                             LAMBDA s : s.pod[2] = sel[2] /\ \E p \in pods : s.pod[3] = c[p].uid /\ s.pod[1] = Name(p)) :
                    networkInterfaceEligible(c[n]) /\ networkInterfaceVpc(c, n) = {vpc}}
    IN  IF \E n \in nics : c[n].status.address = NoAddress THEN Fails("InvalidAddress")
        ELSE Found({c[n].status.address : n \in nics})

resolveSource(c, src, vpc) ==
    CASE src.kind = "ip" -> Found({src.address})
      [] src.kind = "networkInterface" -> resolveNetworkInterface(c, src.key, vpc)
      [] src.kind = "vpcEndpoint" -> resolveVpcEndpoint(c, src.key, vpc)
      [] OTHER -> resolvePodSelector(c, src.key, vpc)

\* In order, until one fails.
resolveSources(c, k, vpc) ==
    FoldLeft(LAMBDA r, src : LET q == resolveSource(c, src, vpc)
                                 both == r.addresses \cup q.addresses
                             IN  CASE r.why # "" -> r
                                   [] r.why = "" /\ q.why # "" -> q
                                   [] OTHER -> IF Cardinality(both) > MaxRecordAddresses
                                               THEN Fails("TooManyAddresses") ELSE Found(both),
             Found({}), c[k].spec.sources)

SameRecord(c, o) == Where(c, "DNSRecord", LAMBDA s : s.zone = o.spec.zone /\ s.name = o.spec.name)

DNSRecordReconcile(c, k) ==
    LET zone == Key("DNSZone", c[k].spec.zone)
        r == CASE ~Has(c, zone) -> Fails("ZoneNotFound")
               [] Has(c, zone) /\ (c[zone].del \/ ~Ready(c[zone])) -> Fails("ZoneNotReady")
               [] OTHER -> IF SameRecord(c, c[k]) # {k} THEN Fails("DuplicateRecord")
                           ELSE resolveSources(c, k, c[zone].spec.vpc)
    IN  IF c[k].del THEN Nothing
        ELSE Done(SetStatus(c, k, [addresses |-> r.addresses, why |-> IF r.why = "" THEN "Ready" ELSE r.why,
                                   of |-> c[k].spec]))

(* What a record is indexed under: the keys of its sources of a kind. *)
dnsRecordIndexValues(s, kind) ==
    {s.sources[i].key : i \in {j \in DOMAIN s.sources : s.sources[j].kind = kind}}
mapZone(c, zones) == Where(c, "DNSRecord", LAMBDA s : s.zone \in zones)
\* Mutant: the readiness of a Pod is not told to the records.
PodsUnnoticed(c, o) == {}

mapPod(c, o) ==
    Where(c, "DNSRecord", LAMBDA s : \E key \in dnsRecordIndexValues(s, "pods") : key[1] = o.spec.label)
mapNetworkInterface(c, k) ==
    Where(c, "DNSRecord", LAMBDA s : \/ dnsRecordIndexValues(s, "pods") # {}
                                     \/ k \in dnsRecordIndexValues(s, "networkInterface"))
mapVpcEndpoint(c, k) ==
    Where(c, "DNSRecord", LAMBDA s : k \in dnsRecordIndexValues(s, "vpcEndpoint"))
mapNetworkVpc(c, vpc) == mapZone(c, {Name(z) : z \in Where(c, "DNSZone", LAMBDA s : s.vpc = vpc)})

DNSRecordWakes(c, k, o) ==
    CASE Kind(k) = "DNSRecord" -> SameRecord(c, o)
      [] Kind(k) = "DNSZone" -> mapZone(c, {Name(k)})
      [] Kind(k) = "Pod" -> mapPod(c, o)
      [] Kind(k) = "NetworkInterface" -> mapNetworkInterface(c, k)
      [] Kind(k) \in {"Subnet", "L2Network"} -> mapNetworkVpc(c, o.spec.vpc)
      [] Kind(k) = "VpcEndpoint" -> mapVpcEndpoint(c, k)
      [] OTHER -> {}
=============================================================================
