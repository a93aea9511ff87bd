----------------------------- MODULE Admission -----------------------------
(***************************************************************************)
(* The validating webhooks.  For each kind: what its create, update and    *)
(* delete require of the objects c the API server stores, old being the    *)
(* stored object of an update.  Every list is a live read, save the        *)
(* duplicate check of ElasticIPAttachments, which reads the manager's      *)
(* cache.  The defaulters put a prefix in its masked form, which every     *)
(* prefix here has; the shape of a field is checked where it is a          *)
(* boundary.                                                               *)
(***************************************************************************)
EXTENDS ApiServer

CONSTANTS
    ServiceCIDR,        \* the prefix of the cluster's Service addresses
    PrefixBits,         \* the lengths of a Subnet or L2Network prefix: 16 .. 28
    PoolBits,           \* the lengths of an endpoint pool prefix: 16 .. 32
    MaxEntries          \* entries of a direction: NetworkACLMaxEntriesPerDirection

Default == "default"

\* Updates of an object that is being deleted skip the checks that read other
\* objects: finalizers must come off in any order.
shouldCheckReferences(old) == old = None \/ ~old.del

Active(c, kind, P(_)) == {k \in Where(c, kind, P) : ~c[k].del}
Same(old, spec, fields) == \A f \in fields : old.spec[f] = spec[f]

(***************************************************************************)
(* vpcprefix.go, transitgatewayattachment_webhook.go: the prefixes of a    *)
(* Vpc, and the Vpcs whose prefixes it can route to.                       *)
(***************************************************************************)
validateVpcPrefixCIDR(p) == p.bits \in PrefixBits

listVpcPrefixes(c) ==
    {[of |-> s, vpc |-> c[s].spec.vpc, cidr |-> c[s].spec.cidr] : s \in Of(c, "Subnet")}
    \cup UNION {{[of |-> n, vpc |-> c[n].spec.vpc, cidr |-> p] : p \in c[n].spec.cidr} : n \in Of(c, "L2Network")}

SubnetCidrs(c, vpcs) == {c[s].spec.cidr : s \in Where(c, "Subnet", LAMBDA s : s.vpc \in vpcs)}

\* Mutant: a peering is looked at from the side that asked for it.
PeersAskedFor(c, vpc) == {c[p].spec.accepter : p \in Where(c, "VpcPeering", LAMBDA s : s.requester = vpc)}

listPeeredVpcs(c, vpc) ==
    {IF c[p].spec.requester = vpc THEN c[p].spec.accepter ELSE c[p].spec.requester :
        p \in Where(c, "VpcPeering", LAMBDA s : vpc \in {s.requester, s.accepter})}

RouteTablesOf(spec) == {spec.association} \cup spec.propagations

transitGatewayReachableVpcs(c, attachment, vpc, tables) ==
    {c[a].spec.vpc : a \in Where(c, "TransitGatewayAttachment",
        LAMBDA s : s.vpc # vpc /\ s.propagations \cap tables # {}) \ {attachment}}

listTransitGatewayReachableVpcs(c, vpc) ==
    transitGatewayReachableVpcs(c, NoKey, vpc,
        UNION {RouteTablesOf(c[a].spec) : a \in Where(c, "TransitGatewayAttachment", LAMBDA s : s.vpc = vpc)})

Routable(c, vpc) == {vpc} \cup listPeeredVpcs(c, vpc) \cup listTransitGatewayReachableVpcs(c, vpc)

validateVpcPrefixNetworkOverlap(c, k, vpc, p) ==
    \A q \in listVpcPrefixes(c) :
        q.of # k /\ q.vpc \in Routable(c, vpc) => ~ipNetsOverlap(p, q.cidr)

validateVpcPrefixEndpointPoolOverlap(c, vpc, p) ==
    \A v \in Of(c, "Vpc") : Name(v) \in Routable(c, vpc) =>
        \A q \in c[v].spec.endpointPool : ~ipNetsOverlap(p, q)

ServiceEnabled(spec) == spec.consume \/ spec.provider # ""

validateVpcPrefixServiceCIDROverlap(c, vpc, p) ==
    LET v == Key("Vpc", vpc) IN
    Has(c, v) /\ ServiceEnabled(c[v].spec) => ~ipNetsOverlap(p, ServiceCIDR)

validateVpcPrefixOverlaps(c, k, vpc, p) ==
    /\ validateVpcPrefixNetworkOverlap(c, k, vpc, p)
    /\ validateVpcPrefixEndpointPoolOverlap(c, vpc, p)
    /\ validateVpcPrefixServiceCIDROverlap(c, vpc, p)

(***************************************************************************)
(* vpc_webhook.go                                                          *)
(***************************************************************************)
validateVpcEndpointPoolCIDRs(pool) ==
    /\ \A p \in pool : p.bits \in PoolBits
    /\ \A p, q \in pool : p # q => ~ipNetsOverlap(p, q)
validateVpcEndpointPoolServiceCIDROverlap(pool) == \A p \in pool : ~ipNetsOverlap(p, ServiceCIDR)

PoolClearOfSubnets(c, pool, vpcs) == \A p \in pool, q \in SubnetCidrs(c, vpcs) : ~ipNetsOverlap(p, q)
validateVpcEndpointPoolSubnetOverlap(c, k, pool) == PoolClearOfSubnets(c, pool, {Name(k)})
validateVpcEndpointPoolPeeredSubnetOverlap(c, k, pool) ==
    PoolClearOfSubnets(c, pool, listPeeredVpcs(c, Name(k)))
validateVpcEndpointPoolTransitGatewaySubnetOverlap(c, k, pool) ==
    PoolClearOfSubnets(c, pool, listTransitGatewayReachableVpcs(c, Name(k)))

vpcEndpointPoolContains(pool, a) == \E p \in pool : Holds(p, a)
validateVpcEndpointPoolShrink(c, k, pool) ==
    \A e \in Where(c, "VpcEndpoint", LAMBDA s : s.vpc = Name(k)) :
        c[e].status.address # NoAddress => vpcEndpointPoolContains(pool, c[e].status.address)

validateServiceEnabled(c, k) == \A p \in SubnetCidrs(c, {Name(k)}) : ~ipNetsOverlap(p, ServiceCIDR)

vpcEndpointPoolChanged(old, spec) == old = None \/ old.spec.endpointPool # spec.endpointPool

VpcValid(c, k, old, spec) ==
    /\ ServiceEnabled(spec) /\ shouldCheckReferences(old) /\ (old = None \/ ~ServiceEnabled(old.spec)) =>
           validateServiceEnabled(c, k)
    /\ vpcEndpointPoolChanged(old, spec) =>
           /\ validateVpcEndpointPoolCIDRs(spec.endpointPool)
           /\ validateVpcEndpointPoolServiceCIDROverlap(spec.endpointPool)
           /\ shouldCheckReferences(old) =>
                  /\ validateVpcEndpointPoolSubnetOverlap(c, k, spec.endpointPool)
                  /\ validateVpcEndpointPoolPeeredSubnetOverlap(c, k, spec.endpointPool)
                  /\ validateVpcEndpointPoolTransitGatewaySubnetOverlap(c, k, spec.endpointPool)
                  /\ old # None => validateVpcEndpointPoolShrink(c, k, spec.endpointPool)

InVpc(c, kinds, vpc) == UNION {Where(c, kind, LAMBDA s : s.vpc = vpc) : kind \in kinds}

\* Mutant: a Vpc goes while it has zones.
VpcDeleteForgetsZones(c, k) ==
    /\ Name(k) # Default
    /\ InVpc(c, {"Subnet", "L2Network", "TransitGatewayAttachment"}, Name(k)) = {}
    /\ Where(c, "VpcPeering", LAMBDA s : Name(k) \in {s.requester, s.accepter}) = {}

VpcDelete(c, k) ==
    /\ Name(k) # Default
    /\ InVpc(c, {"Subnet", "L2Network", "TransitGatewayAttachment", "DNSZone"}, Name(k)) = {}
    /\ Where(c, "VpcPeering", LAMBDA s : Name(k) \in {s.requester, s.accepter}) = {}

(***************************************************************************)
(* subnet_webhook.go, l2network_webhook.go                                 *)
(***************************************************************************)
\* A reference to an object of the Vpc, "" for none.
RefInVpc(c, kind, name, vpc) ==
    name # "" => Has(c, Key(kind, name)) /\ c[Key(kind, name)].spec.vpc = vpc

validateSubnetVpcReference(c, k, spec) ==
    /\ Has(c, Key("Vpc", spec.vpc))
    /\ spec.vpc = Default <=> Name(k) = Default
validateSubnetRouteTable(c, k, spec) ==
    /\ Name(k) = Default => spec.table = ""
    /\ RefInVpc(c, "RouteTable", spec.table, spec.vpc)
validateNetworkACLReference(c, spec) == RefInVpc(c, "NetworkACL", spec.acl, spec.vpc)

SubnetCreate(c, k, spec) ==
    /\ validateSubnetVpcReference(c, k, spec)
    /\ validateVpcPrefixCIDR(spec.cidr)
    /\ validateVpcPrefixOverlaps(c, k, spec.vpc, spec.cidr)
    /\ validateSubnetRouteTable(c, k, spec)
    /\ validateNetworkACLReference(c, spec)

SubnetUpdate(c, k, old, spec) ==
    /\ Same(old, spec, {"vpc", "cidr"})
    /\ shouldCheckReferences(old) =>
           /\ validateSubnetRouteTable(c, k, spec)
           /\ spec.acl # old.spec.acl => validateNetworkACLReference(c, spec)

SubnetDelete(c, k) == Name(k) # Default

L2NetworkGatewayAddress(spec) ==
    CASE ~spec.gateway -> NoAddress
      [] spec.gateway /\ spec.address # NoAddress -> spec.address
      [] spec.gateway /\ spec.address = NoAddress /\ spec.cidr = {} -> NoAddress
      [] OTHER -> FirstAddr(CHOOSE p \in spec.cidr : TRUE)

validateL2NetworkGateway(spec) ==
    spec.gateway =>
        /\ spec.cidr # {}
        /\ spec.address # NoAddress => \A p \in spec.cidr :
               Holds(p, spec.address) /\ spec.address # p.base /\ spec.address # LastAddr(p)
validateL2NetworkACLNeedsGateway(spec) == spec.acl # "" => spec.gateway
validateGatewayRouteTable(c, spec) == spec.gateway => RefInVpc(c, "RouteTable", spec.table, spec.vpc)

findAddressHolder(c, pool, a) ==
    {k \in Of(c, "AllocationClaim") : c[k].status.value = a /\ \E i \in DOMAIN c[k].spec.pools : c[k].spec.pools[i] = pool}
    \cup Where(c, "AllocationLease", LAMBDA s : s.from = pool /\ s.value = a)

validateGatewayAddressFree(c, k, spec) ==
    LET a == L2NetworkGatewayAddress(spec) IN
    a # NoAddress => findAddressHolder(c, PoolOf("l2network", Name(k)), a) = {}

l2NetworkGatewayAddressMoved(old, spec) ==
    L2NetworkGatewayAddress(spec) \notin {NoAddress, L2NetworkGatewayAddress(old.spec)}

L2NetworkCreate(c, k, spec) ==
    /\ spec.vpc # Default /\ Has(c, Key("Vpc", spec.vpc))
    /\ \A p \in spec.cidr : validateVpcPrefixCIDR(p) /\ validateVpcPrefixOverlaps(c, k, spec.vpc, p)
    /\ validateL2NetworkGateway(spec)
    /\ validateL2NetworkACLNeedsGateway(spec)
    /\ validateGatewayRouteTable(c, spec)
    /\ validateNetworkACLReference(c, spec)
    /\ validateGatewayAddressFree(c, k, spec)

L2NetworkUpdate(c, k, old, spec) ==
    /\ Same(old, spec, {"vpc", "cidr"})
    /\ validateL2NetworkGateway(spec)
    /\ validateL2NetworkACLNeedsGateway(spec)
    /\ shouldCheckReferences(old) =>
           /\ validateGatewayRouteTable(c, spec)
           /\ spec.acl # old.spec.acl => validateNetworkACLReference(c, spec)
           /\ l2NetworkGatewayAddressMoved(old, spec) => validateGatewayAddressFree(c, k, spec)

(***************************************************************************)
(* routetable_webhook.go.  Whether the Vpc and the targets of the routes   *)
(* exist is not checked.                                                   *)
(***************************************************************************)
DistinctDestinations(routes) == \A i, j \in DOMAIN routes : routes[i].dst = routes[j].dst => i = j

listConnectedRoutes(c, vpc) == SubnetCidrs(c, {vpc})

NeedsTarget == {"natGateway", "vpcPeering", "transitGateway", "endpoint"}

validateRouteTableSpec(c, old, spec) ==
    /\ spec.vpc # ""
    /\ DistinctDestinations(spec.routes)
    /\ \A i \in DOMAIN spec.routes :
           LET r == spec.routes[i] IN
           /\ r.via \notin {"service", "vpcEndpoint"}
           /\ r.via \in NeedsTarget <=> r.to # ""
           /\ shouldCheckReferences(old) => r.dst \notin listConnectedRoutes(c, spec.vpc)

RouteTableValid(c, k, old, spec) ==
    /\ old # None => Same(old, spec, {"vpc"})
    /\ validateRouteTableSpec(c, old, spec)

RouteTableDelete(c, k) ==
    /\ Key("Vpc", Name(k)) \notin Active(c, "Vpc", LAMBDA s : TRUE)
    /\ Where(c, "Subnet", LAMBDA s : s.table = Name(k)) = {}
    /\ Where(c, "L2Network", LAMBDA s : s.gateway /\ s.table = Name(k)) = {}

RoutedVia(c, via, k) ==
    Where(c, "RouteTable", LAMBDA s : \E i \in DOMAIN s.routes : s.routes[i].via = via /\ s.routes[i].to = Name(k))

(***************************************************************************)
(* vpcpeering_webhook.go                                                   *)
(***************************************************************************)
Sides(spec) == {spec.requester, spec.accepter}

\* Mutant: the two directions of a peering are two peerings.
UniqueInOneDirection(c, k, spec) == Where(c, "VpcPeering", LAMBDA s : s = spec) \ {k} = {}

validateVpcPeeringUnique(c, k, spec) ==
    Where(c, "VpcPeering", LAMBDA s : Sides(spec) \subseteq Sides(s)) \ {k} = {}
validateVpcPeeringCIDROverlap(c, spec) ==
    \A p \in SubnetCidrs(c, {spec.requester}), q \in SubnetCidrs(c, {spec.accepter}) : ~ipNetsOverlap(p, q)

VpcPeeringUpdate(old, spec) == Same(old, spec, {"requester", "accepter"})

VpcPeeringCreate(c, k, spec) ==
    /\ spec.requester # spec.accepter
    /\ \A v \in Sides(spec) : Has(c, Key("Vpc", v))
    /\ validateVpcPeeringUnique(c, k, spec)
    /\ validateVpcPeeringCIDROverlap(c, spec)

VpcPeeringDelete(c, k) == RoutedVia(c, "vpcPeering", k) = {}

(***************************************************************************)
(* transitgateway_webhook.go, transitgatewayroutetable_webhook.go,         *)
(* transitgatewayattachment_webhook.go                                     *)
(***************************************************************************)
\* Mutant: a gateway waits for its tables, of which one waits for it.
GatewayAfterTables(c, k) ==
    /\ Where(c, "TransitGatewayAttachment", LAMBDA s : s.tgw = Name(k)) = {}
    /\ Where(c, "TransitGatewayRouteTable", LAMBDA s : s.tgw = Name(k)) = {}
    /\ RoutedVia(c, "transitGateway", k) = {}

TransitGatewayDelete(c, k) ==
    /\ Where(c, "TransitGatewayAttachment", LAMBDA s : s.tgw = Name(k)) = {}
    /\ RoutedVia(c, "transitGateway", k) = {}

TransitGatewayRouteTableValid(c, k, old, spec) ==
    /\ old # None => Same(old, spec, {"tgw"})
    /\ shouldCheckReferences(old) => Has(c, Key("TransitGateway", spec.tgw))
    /\ DistinctDestinations(spec.routes)

TransitGatewayRouteTableDelete(c, k) ==
    /\ Key("TransitGateway", Name(k)) \notin Active(c, "TransitGateway", LAMBDA s : TRUE)
    /\ Where(c, "TransitGatewayAttachment", LAMBDA s : Name(k) \in RouteTablesOf(s)) = {}

validateTransitGatewayCIDROverlap(c, k, spec) ==
    \A p \in SubnetCidrs(c, {spec.vpc}),
       q \in SubnetCidrs(c, transitGatewayReachableVpcs(c, k, spec.vpc, RouteTablesOf(spec))) :
           ~ipNetsOverlap(p, q)

TransitGatewayAttachmentValid(c, k, old, spec) ==
    /\ old # None => Same(old, spec, {"tgw", "vpc"})
    /\ shouldCheckReferences(old) =>
           /\ Has(c, Key("TransitGateway", spec.tgw)) /\ Has(c, Key("Vpc", spec.vpc))
           /\ \A t \in RouteTablesOf(spec) : LET rt == Key("TransitGatewayRouteTable", t) IN
                  Has(c, rt) /\ c[rt].spec.tgw = spec.tgw
           /\ Where(c, "TransitGatewayAttachment", LAMBDA s : s.tgw = spec.tgw /\ s.vpc = spec.vpc) \ {k} = {}
           /\ validateTransitGatewayCIDROverlap(c, k, spec)

(***************************************************************************)
(* networkacl_webhook.go, securitygroup_webhook.go: the rules are within   *)
(* the data plane's capacity.                                              *)
(***************************************************************************)
FilterValid(c, old, spec) ==
    /\ shouldCheckReferences(old) => Has(c, Key("Vpc", spec.vpc))
    /\ old # None => Same(old, spec, {"vpc"})
    /\ spec.entries <= MaxEntries

NetworkACLDelete(c, k) ==
    \A kind \in {"Subnet", "L2Network"} : Where(c, kind, LAMBDA s : s.acl = Name(k)) = {}

validatePeerSGsInVpc(c, k, spec) ==
    \A p \in spec.peers \ {Name(k)} : RefInVpc(c, "SecurityGroup", p, spec.vpc)

SecurityGroupValid(c, k, old, spec) ==
    /\ FilterValid(c, old, spec)
    /\ shouldCheckReferences(old) => validatePeerSGsInVpc(c, k, spec)

SecurityGroupDelete(c, k) == Where(c, "NetworkInterface", LAMBDA s : Name(k) \in s.groups) = {}

(***************************************************************************)
(* externalnetwork_webhook.go, natgateway_webhook.go,                      *)
(* externalnetworkattachment_webhook.go, servicenatattachment_webhook.go,  *)
(* vpcendpoint_webhook.go                                                  *)
(***************************************************************************)
\* The pools that a network, an advertisement or a claim lists.
NamedPools(spec) == Range(spec.pools)

validateAddressPoolsNotShared(c, k, spec) ==
    \A n \in Of(c, "ExternalNetwork") \ {k} : NamedPools(c[n].spec) \cap NamedPools(spec) = {}

\* A pool of the network is there and is advertised the network's way.
PoolsUsable(c, spec, mode) ==
    \A p \in NamedPools(spec) : LET a == Key("AddressPool", p) IN Has(c, a) /\ c[a].spec.mode = mode

ExternalNetworkValid(c, k, old, spec) ==
    /\ old # None => Same(old, spec, {"type"}) /\ NamedPools(old.spec) \subseteq NamedPools(spec)
    /\ shouldCheckReferences(old) =>
           PoolsUsable(c, spec, spec.type) /\ validateAddressPoolsNotShared(c, k, spec)

ExternalNetworkDelete(c, k) == Active(c, "ElasticIP", LAMBDA s : s.net = Name(k)) = {}

NATGatewayValid(c, old, spec) ==
    /\ old # None => Same(old, spec, {"vpc", "net"})
    /\ shouldCheckReferences(old) => Has(c, Key("Vpc", spec.vpc)) /\ Has(c, Key("ExternalNetwork", spec.net))

NATGatewayDelete(c, k) == RoutedVia(c, "natGateway", k) = {}

ExternalNetworkAttachmentValid(c, old, spec) ==
    /\ old # None => Same(old, spec, {"net", "node"})
    /\ shouldCheckReferences(old) => Has(c, Key("ExternalNetwork", spec.net))

ServiceNATAttachmentValid(k, old, spec) ==
    /\ k = Key2("ServiceNATAttachment", spec.node, spec.vpc)
    /\ old # None => Same(old, spec, {"node", "vpc"})

VpcEndpointCreate(c, spec) ==
    LET v == Key("Vpc", spec.vpc) IN Has(c, v) /\ c[v].spec.endpointPool # {}

(***************************************************************************)
(* addresspool_webhook.go, addresspoolspan.go, allocationpool_webhook.go,  *)
(* allocationclaim_webhook.go, allocationlease_webhook.go                  *)
(***************************************************************************)
validateAddressPoolOverlaps(c, k, spec) ==
    \A q \in Of(c, "AddressPool") \ {k} : \A a \in spec.addresses, b \in c[q].spec.addresses :
        LET both == Intersect(PrefixRange(a), PrefixRange(b)) IN both.lo > both.hi

AddressPoolValid(c, k, old, spec) ==
    /\ shouldCheckReferences(old) => validateAddressPoolOverlaps(c, k, spec)
    /\ old # None => Same(old, spec, {"mode"}) /\ old.spec.addresses \subseteq spec.addresses

AddressPoolDelete(c, k) ==
    \A kind \in {"ExternalNetwork", "BGPAdvertisement"} :
        Active(c, kind, LAMBDA s : Name(k) \in NamedPools(s)) = {}

\* Type, strategy and number range, which are immutable, go by the pool's name.
AllocationPoolValid(spec) == spec.cidrs # {}
AllocationPoolDelete(c, k) == Active(c, "AllocationClaim", LAMBDA s : k \in NamedPools(s)) = {}

AllocationClaimUpdate(old, spec) == Same(old, spec, {"pools", "ref", "want", "lease"})
AllocationLeaseUpdate(old, spec) == Same(old, spec, {"from", "value"})

(***************************************************************************)
(* arpadvertisement_webhook.go, bgpadvertisement_webhook.go                *)
(***************************************************************************)
\* A pool that is gone is an error.
externalNetworkCovers(c, net, a) ==
    /\ \A p \in NamedPools(c[net].spec) : Has(c, Key("AddressPool", p))
    /\ \E p \in NamedPools(c[net].spec) : \E q \in c[Key("AddressPool", p)].spec.addresses : Holds(q, a)

validateExternalNetwork(c, spec) ==
    LET net == Key("ExternalNetwork", spec.net) IN
    Has(c, net) /\ c[net].spec.type = "arp" /\ externalNetworkCovers(c, net, spec.address)
nodeOwningAddress(c, a) == Where(c, "Node", LAMBDA s : s.ip = a)
validateNodes(c, spec) == Has(c, Key("Node", spec.node)) /\ nodeOwningAddress(c, spec.address) = {}
validateAddressIsUnclaimed(c, k, spec) ==
    Active(c, "ARPAdvertisement", LAMBDA s : s.address = spec.address) \ {k} = {}

ARPAdvertisementValid(c, k, old, spec) ==
    /\ old # None => Same(old, spec, {"net", "address"})
    /\ shouldCheckReferences(old) =>
           validateExternalNetwork(c, spec) /\ validateNodes(c, spec) /\ validateAddressIsUnclaimed(c, k, spec)

BGPAdvertisementValid(c, old, spec) ==
    shouldCheckReferences(old) =>
        /\ PoolsUsable(c, spec, "bgp")
        /\ \E p \in NamedPools(spec) : \E q \in c[Key("AddressPool", p)].spec.addresses : Holds(q, spec.address)

(***************************************************************************)
(* elasticip_webhook.go, elasticipattachment_webhook.go, elasticipuse.go   *)
(***************************************************************************)
ElasticIPValid(c, old, spec) ==
    /\ shouldCheckReferences(old) => Has(c, Key("ExternalNetwork", spec.net))
    /\ old # None => Same(old, spec, {"net", "want"})

findElasticIPAttachmentUsing(c, eip) == Active(c, "ElasticIPAttachment", LAMBDA s : s.eip = eip)
ElasticIPDelete(c, k) == findElasticIPAttachmentUsing(c, Name(k)) = {}

Carrying(c, eip) == Where(c, "NetworkInterface", LAMBDA s : s.kind = "ElasticIP" /\ s.net = eip)
findNetworkInterfaceCarrying(c, eip) == {n \in Carrying(c, eip) : ~c[n].del}

\* Only the last conjunct reads the cache.
validateAttachmentReferences(c, k, spec) ==
    LET eip == Key("ElasticIP", spec.eip) IN
    /\ Has(c, eip) /\ ~c[eip].del
    /\ Has(c, spec.nic) /\ ~c[spec.nic].del /\ c[spec.nic].spec.kind # "ElasticIP"
    /\ findNetworkInterfaceCarrying(c, spec.eip) = {}
    /\ Active(seen, "ElasticIPAttachment", LAMBDA s : s.eip = spec.eip \/ s.nic = spec.nic) \ {k} = {}

ElasticIPAttachmentValid(c, k, old, spec) ==
    /\ old # None => Same(old, spec, {"eip", "nic"})
    /\ shouldCheckReferences(old) => validateAttachmentReferences(c, k, spec)

elasticIPHolderHandsOver(c, nic, identity) ==
    LET spec == c[nic].spec
        pod == Key("Pod", spec.pod[1])
    IN  \/ c[nic].del
        \/ identity # "" /\ spec.identity = identity
        \/ (Has(c, pod) => c[pod].uid # spec.pod[3] \/ c[pod].del)

\* No interface is of the Pod yet: the webhook is called for creations only.
validateElasticIPNotCarried(c, eip, identity) ==
    \A n \in Carrying(c, eip) : elasticIPHolderHandsOver(c, n, identity)

validateElasticIPDirectUse(c, eip, identity) ==
    findElasticIPAttachmentUsing(c, eip) = {} /\ validateElasticIPNotCarried(c, eip, identity)

(***************************************************************************)
(* podnetwork/network.go: the network of an interface, and of a Pod's NIC. *)
(***************************************************************************)
NetworkKey(spec) == Key(spec.kind, spec.net)
ExternalOf(c, spec) == Key("ExternalNetwork", c[NetworkKey(spec)].spec.net)

Resolves(c, spec) ==
    Has(c, NetworkKey(spec)) /\ (spec.kind = "ElasticIP" => Has(c, ExternalOf(c, spec)))
WaitingFor(c, spec) ==
    spec.kind = "ElasticIP"
    /\ (c[NetworkKey(spec)].status.address = NoAddress \/ c[ExternalOf(c, spec)].status.id = NoValue)
AllocatesAddresses(c, spec) == spec.kind = "L2Network" => c[NetworkKey(spec)].spec.cidr # {}
HeldBy(o, nic) == o.status.use = nic

HasGateway(c, spec) == spec.kind = "L2Network" => c[NetworkKey(spec)].spec.gateway
NetworkCidrs(c, spec) ==
    IF spec.kind = "L2Network" THEN c[NetworkKey(spec)].spec.cidr ELSE {c[NetworkKey(spec)].spec.cidr}

(***************************************************************************)
(* networkinterface_webhook.go, networkendpoint_webhook.go                 *)
(***************************************************************************)
validateNetworkInterfaceAddress(c, spec) ==
    spec.address # NoAddress => \E p \in NetworkCidrs(c, spec) : Holds(p, spec.address)

validateSecurityGroupsNeedAGateway(c, spec) == spec.groups # {} => HasGateway(c, spec)

\* A network that is gone says nothing of the Vpc.
validateNetworkInterfaceSecurityGroups(c, spec) ==
    /\ "" \notin spec.groups
    /\ Resolves(c, spec) => validateSecurityGroupsNeedAGateway(c, spec)
    /\ \A g \in spec.groups :
           IF Resolves(c, spec) THEN RefInVpc(c, "SecurityGroup", g, c[NetworkKey(spec)].spec.vpc)
           ELSE Has(c, Key("SecurityGroup", g))

NetworkInterfaceCreate(c, spec) ==
    spec.kind # "ElasticIP" =>
        /\ Resolves(c, spec)
        /\ validateNetworkInterfaceAddress(c, spec)
        /\ validateNetworkInterfaceSecurityGroups(c, spec)

NetworkInterfaceUpdate(c, old, spec) ==
    /\ Same(old, spec, {"kind", "net", "address", "pod", "node", "identity"})
    /\ shouldCheckReferences(old) /\ spec.kind # "ElasticIP" => validateNetworkInterfaceSecurityGroups(c, spec)

validatePodRefForKind(spec) == spec.kind = "Pod" <=> spec.pod # <<"", "", 0>>

\* The MAC of a Pod's endpoint changes with its attachment only.
NetworkEndpointUpdate(old, spec) ==
    /\ Same(old, spec, {"kind", "node", "subnet", "address", "pod"})
    /\ spec.kind # "Pod" => Same(old, spec, {"mac"})
    /\ validatePodRefForKind(spec)

(***************************************************************************)
(* pod_webhook.go, called for creations.  Only the primary interface may   *)
(* name a network that is missing.                                         *)
(***************************************************************************)
PrimaryInterface == "eth0"
PodSecurityGroupsMax == 2

validatePrimaryNICNetwork(c, a) ==
    a.interface = PrimaryInterface => AllocatesAddresses(c, a) /\ HasGateway(c, a)

validateNIC(c, a) ==
    LET vpc == c[NetworkKey(a)].spec.vpc
        v == Key("Vpc", vpc)
    IN  IF Cardinality(a.groups) > PodSecurityGroupsMax THEN FALSE
        ELSE IF ~Resolves(c, a) THEN a.interface = PrimaryInterface
        ELSE /\ validatePrimaryNICNetwork(c, a)
             /\ IF ~Has(c, v) THEN a.interface = PrimaryInterface
                ELSE /\ validateSecurityGroupsNeedAGateway(c, a)
                     /\ \A g \in a.groups : RefInVpc(c, "SecurityGroup", g, vpc)
                     /\ c[v].spec.enforce /\ HasGateway(c, a) => a.groups # {}

validateNICNetworksDoNotOverlap(c, nics) ==
    \A a, b \in nics : a # b =>
        \A p \in NetworkCidrs(c, a), q \in NetworkCidrs(c, b) : ~ipNetsOverlap(p, q)

PodCreate(c, spec) ==
    LET joined == {a \in spec.nics : a.kind # "ElasticIP"} IN
    /\ \A a \in spec.nics \ joined : validateElasticIPDirectUse(c, a.net, spec.identity)
    /\ \A a \in joined : validateNIC(c, a)
    /\ validateNICNetworksDoNotOverlap(c, {a \in joined : Resolves(c, a)})

(***************************************************************************)
(* service_webhook.go, service_loadbalancer_webhook.go                     *)
(***************************************************************************)
validateAllowedConsumers(c, spec) ==
    spec.allowed # {} =>
        /\ spec.shared
        /\ \A v \in spec.allowed : Has(c, Key("Vpc", v)) /\ c[Key("Vpc", v)].spec.consume

validateLoadBalancer(c, spec) == spec.lb => spec.local /\ Has(c, Key("ExternalNetwork", spec.net))

validateService(c, spec) ==
    LET v == Key("Vpc", spec.vpc) IN
    /\ Has(c, v) /\ ServiceEnabled(c[v].spec)
    /\ spec.shared => c[v].spec.provider # ""
    /\ validateAllowedConsumers(c, spec)
    /\ validateLoadBalancer(c, spec)

\* An update that touches nothing of Juneau's is not looked at again.
ServiceValid(c, old, spec) ==
    \/ old # None /\ (old.del \/ Same(old, spec, {"vpc", "shared", "allowed", "lb", "local", "net", "want"}))
    \/ validateService(c, spec)

(***************************************************************************)
(* dnszone_webhook.go, dnsrecord_webhook.go                                *)
(***************************************************************************)
ReservedDomain == "cluster.local"

DNSZoneValid(c, k, old, spec) ==
    /\ spec.domain # ReservedDomain
    /\ old # None => Same(old, spec, {"vpc", "domain"})
    /\ shouldCheckReferences(old) =>
           /\ Has(c, Key("Vpc", spec.vpc))
           /\ Where(c, "DNSZone", LAMBDA s : s.vpc = spec.vpc /\ s.domain = spec.domain) \ {k} = {}

DNSZoneDelete(c, k) == Where(c, "DNSRecord", LAMBDA s : s.zone = Name(k)) = {}

DNSRecordValid(c, k, old, spec) ==
    /\ spec.sources # <<>>
    /\ old # None => Same(old, spec, {"zone", "name"})
    /\ shouldCheckReferences(old) =>
           /\ Has(c, Key("DNSZone", spec.zone))
           /\ Where(c, "DNSRecord", LAMBDA s : s.zone = spec.zone /\ s.name = spec.name) \ {k} = {}

(***************************************************************************)
(* tracesession_webhook.go.  ttl is the hours from the create to the end   *)
(* of the session, names what an endpoint sets of podRef, serviceRef and   *)
(* ip.                                                                     *)
(***************************************************************************)
MaxTraceTTL == 24
MaxInitialTuples == 64
MaxPort == 65535

validateTraceCapture(level) == level \in {"", "Summary", "Decision", "Verbose"}

validateTraceEndpoint(e, isDestination) ==
    /\ Cardinality(e.names) = 1
    /\ isDestination => /\ e.protocol \in {"TCP", "UDP"} => e.port \in 1 .. MaxPort
                        /\ e.protocol \notin {"TCP", "UDP"} => e.protocol = "ICMP" /\ e.port = 0

validateTraceTuple(t) ==
    /\ t.scope = "Host" \/ (t.scope = "VPC" /\ t.vpcID # 0)
    /\ NoAddress \notin {t.src, t.dst}
    /\ {t.sport, t.dport} \subseteq 0 .. MaxPort
    /\ t.protocol \in {"TCP", "UDP", "ICMP"}
    /\ t.direction \in {"", "Request", "Reply"}

traceSessionSpecEqual(s, t) == s = t

TraceSessionValid(old, spec) ==
    /\ spec.id # 0
    /\ spec.mode \in {"ActiveProbe", "ObserveOnly"}
    /\ old = None => spec.ttl \in 1 .. MaxTraceTTL
    /\ validateTraceCapture(spec.level)
    /\ validateTraceEndpoint(spec.source, FALSE) /\ validateTraceEndpoint(spec.destination, TRUE)
    /\ Len(spec.tuples) <= MaxInitialTuples
    /\ \A i \in DOMAIN spec.tuples : validateTraceTuple(spec.tuples[i])
    /\ old # None => traceSessionSpecEqual(old.spec, spec)

(***************************************************************************)
(* What the API server is told.  Objects of other kinds, Node and          *)
(* EndpointSlice among them, have no webhook.                              *)
(***************************************************************************)
\* The kinds whose create and update go through one validator.
AdmitsSpec(c, k, old, spec) ==
    CASE Kind(k) = "Vpc" -> VpcValid(c, k, old, spec)
      [] Kind(k) = "RouteTable" -> RouteTableValid(c, k, old, spec)
      [] Kind(k) = "TransitGatewayRouteTable" -> TransitGatewayRouteTableValid(c, k, old, spec)
      [] Kind(k) = "TransitGatewayAttachment" -> TransitGatewayAttachmentValid(c, k, old, spec)
      [] Kind(k) = "NetworkACL" -> FilterValid(c, old, spec)
      [] Kind(k) = "SecurityGroup" -> SecurityGroupValid(c, k, old, spec)
      [] Kind(k) = "ExternalNetwork" -> ExternalNetworkValid(c, k, old, spec)
      [] Kind(k) = "NATGateway" -> NATGatewayValid(c, old, spec)
      [] Kind(k) = "ExternalNetworkAttachment" -> ExternalNetworkAttachmentValid(c, old, spec)
      [] Kind(k) = "ServiceNATAttachment" -> ServiceNATAttachmentValid(k, old, spec)
      [] Kind(k) = "AddressPool" -> AddressPoolValid(c, k, old, spec)
      [] Kind(k) = "AllocationPool" -> AllocationPoolValid(spec)
      [] Kind(k) = "ARPAdvertisement" -> ARPAdvertisementValid(c, k, old, spec)
      [] Kind(k) = "BGPAdvertisement" -> BGPAdvertisementValid(c, old, spec)
      [] Kind(k) = "ElasticIP" -> ElasticIPValid(c, old, spec)
      [] Kind(k) = "ElasticIPAttachment" -> ElasticIPAttachmentValid(c, k, old, spec)
      [] Kind(k) = "Service" -> ServiceValid(c, old, spec)
      [] Kind(k) = "DNSZone" -> DNSZoneValid(c, k, old, spec)
      [] Kind(k) = "DNSRecord" -> DNSRecordValid(c, k, old, spec)
      [] Kind(k) = "TraceSession" -> TraceSessionValid(old, spec)
      [] OTHER -> TRUE

AdmitsCreate(c, k, spec) ==
    CASE Kind(k) = "Subnet" -> SubnetCreate(c, k, spec)
      [] Kind(k) = "L2Network" -> L2NetworkCreate(c, k, spec)
      [] Kind(k) = "VpcPeering" -> VpcPeeringCreate(c, k, spec)
      [] Kind(k) = "VpcEndpoint" -> VpcEndpointCreate(c, spec)
      [] Kind(k) = "NetworkInterface" -> NetworkInterfaceCreate(c, spec)
      [] Kind(k) = "NetworkEndpoint" -> validatePodRefForKind(spec)
      [] Kind(k) = "Pod" -> PodCreate(c, spec)
      [] OTHER -> AdmitsSpec(c, k, None, spec)

AdmitsUpdate(c, k, old, spec) ==
    CASE Kind(k) = "Subnet" -> SubnetUpdate(c, k, old, spec)
      [] Kind(k) = "L2Network" -> L2NetworkUpdate(c, k, old, spec)
      [] Kind(k) = "VpcPeering" -> VpcPeeringUpdate(old, spec)
      [] Kind(k) = "VpcEndpoint" -> Same(old, spec, {"vpc"})
      [] Kind(k) = "NetworkInterface" -> NetworkInterfaceUpdate(c, old, spec)
      [] Kind(k) = "NetworkEndpoint" -> NetworkEndpointUpdate(old, spec)
      [] Kind(k) = "AllocationClaim" -> AllocationClaimUpdate(old, spec)
      [] Kind(k) = "AllocationLease" -> AllocationLeaseUpdate(old, spec)
      [] OTHER -> AdmitsSpec(c, k, old, spec)

AdmitsDelete(c, k) ==
    CASE Kind(k) = "Vpc" -> VpcDelete(c, k)
      [] Kind(k) = "Subnet" -> SubnetDelete(c, k)
      [] Kind(k) = "RouteTable" -> RouteTableDelete(c, k)
      [] Kind(k) = "VpcPeering" -> VpcPeeringDelete(c, k)
      [] Kind(k) = "TransitGateway" -> TransitGatewayDelete(c, k)
      [] Kind(k) = "TransitGatewayRouteTable" -> TransitGatewayRouteTableDelete(c, k)
      [] Kind(k) = "NetworkACL" -> NetworkACLDelete(c, k)
      [] Kind(k) = "SecurityGroup" -> SecurityGroupDelete(c, k)
      [] Kind(k) = "ExternalNetwork" -> ExternalNetworkDelete(c, k)
      [] Kind(k) = "NATGateway" -> NATGatewayDelete(c, k)
      [] Kind(k) = "AddressPool" -> AddressPoolDelete(c, k)
      [] Kind(k) = "AllocationPool" -> AllocationPoolDelete(c, k)
      [] Kind(k) = "ElasticIP" -> ElasticIPDelete(c, k)
      [] Kind(k) = "DNSZone" -> DNSZoneDelete(c, k)
      [] OTHER -> TRUE

\* Storing o over old.  The status is a subresource without a webhook.
Admits(c, k, old, o) ==
    CASE old = None -> AdmitsCreate(c, k, o.spec)
      [] old # None /\ [o EXCEPT !.status = old.status] = old -> TRUE
      [] OTHER -> AdmitsUpdate(c, k, old, o.spec)

(***************************************************************************)
(* The API server's answer to a request they admit.                        *)
(***************************************************************************)
Removed(o) == IF o = None \/ o.fins = {} THEN None ELSE [o EXCEPT !.del = TRUE]

\* Storing an object whose deletion waits for its last finalizer removes it.
Stored(o) == IF o # None /\ o.del /\ o.fins = {} THEN None ELSE o

\* A user, the scheduler or a kubelet asks for e: to create or update the
\* object with spec e.spec, or to delete it when e.spec is None.
Submit(e, status) ==
    LET k == e.key
        old == obj[k]
        new == IF old = None THEN NewObject(seen, k, NoOwner, e.spec, status) ELSE [old EXCEPT !.spec = e.spec]
    IN  /\ IF e.spec = None THEN old # None /\ ~old.del /\ AdmitsDelete(obj, k)
           ELSE new # old /\ Admits(obj, k, old, new)
        /\ obj' = [obj EXCEPT ![k] = IF e.spec = None THEN Removed(old) ELSE new]
        /\ UNCHANGED <<seen, queue, faults>>
=============================================================================
