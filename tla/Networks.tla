------------------------------ MODULE Networks ------------------------------
(***************************************************************************)
(* The controllers of Vpcs, Subnets, L2Networks, NATGateways,              *)
(* ExternalNetworks and the per-node attachments they fan out.  For each   *)
(* kind: its pass, its map functions, and Wakes, the keys an event on      *)
(* object o of key k enqueues.  why is the reason of the Ready condition,  *)
(* "" before the first one.                                                *)
(***************************************************************************)
EXTENDS Cluster

Ready(o) == o # None /\ o.status.why = "Ready"
IsReady(c, k) == Has(c, k) /\ Ready(c[k])

\* The statuses of new objects.  of is what ObservedGeneration stands for: the
\* spec the status was written for.
NewVpcStatus == [table |-> "", id |-> NoValue, why |-> ""]
NewTableStatus == [id |-> NoValue, routes |-> {}, why |-> ""]
NewServiceNATStatus == [ip |-> NoValue, subnet |-> "", why |-> ""]
NewEndpointStatus == [nodeIP |-> NoAddress]
NoACL == [name |-> "", id |-> NoValue, version |-> 0]
NewSubnetStatus == [vni |-> NoValue, gateway |-> NoAddress, dns |-> NoAddress, acl |-> NoACL,
                    why |-> "", of |-> None]
NewL2NetworkStatus == [vni |-> NoValue, gateway |-> NoAddress, acl |-> NoACL, why |-> "", of |-> None]
NewIDStatus == [id |-> NoValue, why |-> ""]
NewAttachmentStatus == [ip |-> NoValue, why |-> "", of |-> None]

\* Owns(...) and the map functions from a claim to the resource it is for.
Owner(o, kind) == IF Kind(o.owner[1]) = kind THEN {o.owner[1]} ELSE {}
ClaimsFor(o, kind) == IF Kind(o.spec.ref) = kind THEN {o.spec.ref} ELSE {}

\* The five controllers whose updateStatus compares the new conditions with a
\* slice that shares their array: once a condition is there, a change of the
\* reason alone is not seen, unless the generation moved since.
WithAliasedStatus(c, k, status) ==
    LET old == c[k].status
        new == [status EXCEPT !.of = c[k].spec]
    IN  IF old.why # "" /\ [new EXCEPT !.why = old.why] = old THEN c[k] ELSE WithStatus(c, k, new)
SetAliasedStatus(c, k, status) == Write(k, WithAliasedStatus(c, k, status))

\* The create, update or delete of a pool some object owns; a pool that is
\* already there when the create arrives is taken as it is.
EnsurePool(c, k, pool, cidrs, excluded) ==
    Lax(CreateOrUpdate(c, pool, RefTo(c, k), [cidrs |-> cidrs, excluded |-> excluded], None))

(***************************************************************************)
(* podnetwork/network.go and networkinterface_controller.go: the pool an   *)
(* interface draws its address from, its claim, and the lease that goes by *)
(* the workload's identity, or by the claim when there is none.            *)
(***************************************************************************)
NoPod == <<"", "", 0>>
AllocationPoolName(spec) == PoolOf(IF spec.kind = "L2Network" THEN "l2network" ELSE "subnet", spec.net)
claimNameForNetworkInterface(k, spec) == ClaimKey(k, AllocationPoolName(spec))
leaseNameForNetworkInterface(k, spec) ==
    LET claim == claimNameForNetworkInterface(k, spec) IN
    <<"AllocationLease", IF spec.identity = "" THEN claim[2] ELSE spec.identity>> \o SubSeq(claim, 3, 6)

(***************************************************************************)
(* vpc_controller.go                                                       *)
(***************************************************************************)
VpcPool == PoolKey("vpc-id")

vpcID(c, k) ==
    LET id == c[k].status.id
    IN  CASE Name(k) = "default" -> 1
          [] Name(k) # "default" /\ id # NoValue -> id
          [] OTHER -> ValueOf(c, ClaimKey(k, VpcPool))

ensureEndpointIPAllocationPool(c, k) ==
    LET pool == PoolOf("vpcendpoint", Name(k)) IN
    IF c[k].spec.endpointPool = {} THEN Delete(pool)
    ELSE EnsurePool(c, k, pool, c[k].spec.endpointPool, {})

AttachmentKey(node, vpc) == Key2("ServiceNATAttachment", node, vpc)

DesiredAttachments(c, k) ==
    IF c[k].spec.provider = "" THEN {} ELSE {AttachmentKey(Name(n), Name(k)) : n \in Of(c, "Node")}

\* Mutant: what was made for a node that is gone stays.
NoneStale(c, k) == {}

StaleAttachments(c, k) ==
    {a \in Of(c, "ServiceNATAttachment") :
        c[a].owner = RefTo(c, k) /\ a \notin DesiredAttachments(c, k) /\ ~c[a].del}

ensureServiceNATAttachments(c, k) ==
    LET ensure(a) == Write(a,
            IF Has(c, a) THEN [c[a] EXCEPT !.owner = RefTo(c, k)]
            ELSE NewObject(c, a, RefTo(c, k), [node |-> a[2], vpc |-> a[3]], NewServiceNATStatus))
    IN  Each(DesiredAttachments(c, k), ensure) \o Each(StaleAttachments(c, k), Delete)

\* Reconcile from the provider Subnet on.
VpcServices(c, k, id) ==
    LET report(why) == SetStatus(c, k, [table |-> Name(k), id |-> id, why |-> why])
        failed == WithStatus(c, k, [table |-> Name(k), id |-> id, why |-> "ReconcileFailed"])
        subnet == Key("Subnet", c[k].spec.provider)
    IN  CASE c[k].spec.provider # "" /\ ~Has(c, subnet) -> Done(report("ProviderSubnetMissing"))
          [] c[k].spec.provider # "" /\ Has(c, subnet) /\ c[subnet].spec.vpc # Name(k) ->
                 Done(report("ProviderSubnetForeign"))
          [] OTHER ->
                 Done(Guarded(ensureEndpointIPAllocationPool(c, k), failed)
                      \o Guarded(ensureServiceNATAttachments(c, k), failed)
                      \o report("Ready"))

\* Reconcile from the main RouteTable on.  Losing the race for it is not told
\* to the user, any other failure is.
VpcMainTable(c, k, id) ==
    LET rt == Key("RouteTable", Name(k))
        table == IF Has(c, rt) THEN [c[rt] EXCEPT !.owner = RefTo(c, k), !.spec.vpc = Name(k)]
                 ELSE NewObject(c, rt, RefTo(c, k), [vpc |-> Name(k), routes |-> <<>>], NewTableStatus)
        failed == WithStatus(c, k, [c[k].status EXCEPT !.id = id, !.why = "ReconcileFailed"])
        report(why) == SetStatus(c, k, [table |-> Name(k), id |-> id, why |-> why])
    IN  Then(GuardedFailure(Write(rt, table), failed)
             \o SetStatus(c, k, [c[k].status EXCEPT !.table = Name(k), !.id = id]),
             CASE table # At(c, rt) -> Again(<<>>)
               [] table = At(c, rt) /\ ~Ready(table) -> Done(report("RouteTableNotReady"))
               [] OTHER -> VpcServices(c, k, id))

VpcReconcile(c, k) ==
    LET s == c[k].status
        id == vpcID(c, k)
        failed == WithStatus(c, k, [s EXCEPT !.why = "ReconcileFailed"])
        claim == IF Name(k) = "default" \/ s.id # NoValue THEN <<>>
                 ELSE Guarded(EnsureClaim(c, k, VpcPool), failed)
    IN  CASE c[k].del -> Done(SetStatus(c, k, [s EXCEPT !.why = "Deleting"]))
          [] ~c[k].del /\ id = NoValue -> Again(claim \o SetStatus(c, k, [s EXCEPT !.why = "NotReady"]))
          [] OTHER -> Then(claim, VpcMainTable(c, k, id))

mapRouteTableToVpcs(o) == {Key("Vpc", o.spec.vpc)}
mapSubnetToProviderVpcs(c, k) == Where(c, "Vpc", LAMBDA s : s.provider = Name(k))
mapNodeToProviderVpcs(c) == Where(c, "Vpc", LAMBDA s : s.provider # "")

VpcWakes(c, k, o) ==
    CASE Kind(k) = "ServiceNATAttachment" -> Owner(o, "Vpc")
      [] Kind(k) = "RouteTable" -> mapRouteTableToVpcs(o)
      [] Kind(k) = "AllocationClaim" -> ClaimsFor(o, "Vpc")
      [] Kind(k) = "Subnet" -> mapSubnetToProviderVpcs(c, k)
      [] Kind(k) = "Node" -> mapNodeToProviderVpcs(c)
      [] OTHER -> {}

(***************************************************************************)
(* servicenatattachment_controller.go                                      *)
(***************************************************************************)
resolveProviderSubnet(c, k) ==
    LET vpc == Key("Vpc", c[k].spec.vpc) IN IF Has(c, vpc) THEN c[vpc].spec.provider ELSE ""

serviceNATEndpointName(k) == Key2("NetworkEndpoint", k[2], k[3])

\* Mutant: an endpoint whose node is not known yet is made again.
MadeAgain(c, k, subnet, address) ==
    LET e == serviceNATEndpointName(k) IN
    IF Has(c, e) /\ c[e].status.nodeIP # NoAddress THEN <<>>
    ELSE Delete(e) \o Write(e, NewObject(c, e, NoOwner,
             [kind |-> "ServiceNAT", node |-> c[k].spec.node, subnet |-> subnet, address |-> address,
              pod |-> NoPod, mac |-> TRUE],
             NewEndpointStatus))

\* The spec is written on creation only, and there is no owner: an endpoint is
\* namespaced, the attachment is not.
ensureEndpoint(c, k, subnet, address) ==
    LET e == serviceNATEndpointName(k) IN
    IF Has(c, e) THEN <<>>
    ELSE Write(e, NewObject(c, e, NoOwner,
             [kind |-> "ServiceNAT", node |-> c[k].spec.node, subnet |-> subnet, address |-> address,
              pod |-> NoPod, mac |-> TRUE],
             NewEndpointStatus))

deleteEndpoint(k) == Delete(serviceNATEndpointName(k))

\* One address of the provider Subnet: the claim, what it holds, and whether
\* its pool has run dry.
ensureServiceNATClaim(c, k, subnet) ==
    LET claim == ClaimKey(k, PoolOf("subnet", subnet)) IN
    [do |-> EnsureClaim(c, k, PoolOf("subnet", subnet)), address |-> ValueOf(c, claim),
     exhausted |-> Exhausted(c, claim)]

commitServiceNATStatus(c, k, ip, subnet, why) == SetStatus(c, k, [ip |-> ip, subnet |-> subnet, why |-> why])

ServiceNATReconcile(c, k) ==
    LET subnet == resolveProviderSubnet(c, k)
        claim == ensureServiceNATClaim(c, k, subnet)
        address == claim.address
        commit(ip, why) == commitServiceNATStatus(c, k, ip, subnet, why)
        gone == deleteEndpoint(k)
    IN  CASE c[k].del -> Done(gone)
          [] ~c[k].del /\ subnet = "" ->
                 [do |-> gone \o commit(NoValue, "MissingDependency"),
                  again |-> ~Has(c, Key("Vpc", c[k].spec.vpc))]
          [] OTHER -> Then(claim.do,
                 CASE claim.exhausted -> Again(commit(NoValue, "NoAddress"))
                   [] ~claim.exhausted /\ address = NoValue ->
                          Done(commit(NoValue, "Allocating"))
                   [] address # NoValue /\ ~Has(c, Key("Subnet", subnet)) -> Again(<<>>)
                   [] OTHER -> Done(ensureEndpoint(c, k, subnet, address) \o commit(address, "Ready")))

mapEndpointToServiceNATAttachment(k, o) ==
    IF o.spec.kind = "ServiceNAT" THEN {Key2("ServiceNATAttachment", k[2], k[3])} ELSE {}
mapVpcToAttachments(c, k) == Where(c, "ServiceNATAttachment", LAMBDA s : s.vpc = Name(k))

ServiceNATWakes(c, k, o) ==
    CASE Kind(k) = "AllocationClaim" -> Owner(o, "ServiceNATAttachment")
      [] Kind(k) = "NetworkEndpoint" -> mapEndpointToServiceNATAttachment(k, o)
      [] Kind(k) = "Vpc" -> mapVpcToAttachments(c, k)
      [] OTHER -> {}

(***************************************************************************)
(* subnet_controller.go                                                    *)
(***************************************************************************)
VNIPool == PoolKey("subnet-vni")

\* An ACL that is missing, or has no ID yet, gives a reference without ID.
resolveNetworkACL(c, name) ==
    LET acl == Key("NetworkACL", name) IN
    CASE name = "" -> NoACL
      [] name # "" /\ ~Has(c, acl) -> [NoACL EXCEPT !.name = name]
      [] OTHER -> [name |-> name, id |-> c[acl].status.id, version |-> c[acl].status.version]

\* Mutant: a Subnet that cannot be served now starts again from nothing.
StartsOver(c, k, status) ==
    SetAliasedStatus(c, k, IF status.why = "VpcNotReady" THEN [NewSubnetStatus EXCEPT !.why = status.why] ELSE status)

updateSubnetStatus(c, k, status) == SetAliasedStatus(c, k, status)

SubnetReconcile(c, k) ==
    LET s == c[k].status
        spec == c[k].spec
        vpc == Key("Vpc", spec.vpc)
        keep(why) == updateSubnetStatus(c, k, [s EXCEPT !.why = why])
        fresh == Name(k) # "default" /\ s.vni = NoValue
        vni == CASE Name(k) = "default" -> 1
                 [] fresh -> ValueOf(c, ClaimKey(k, VNIPool))
                 [] OTHER -> s.vni
        claim == IF fresh THEN Guarded(EnsureClaim(c, k, VNIPool),
                                       WithAliasedStatus(c, k, [s EXCEPT !.why = "ReconcileFailed"]))
                 ELSE <<>>
        base == [s EXCEPT !.vni = vni, !.gateway = nextGateway(spec.cidr),
                          !.dns = nextDNSAddress(spec.cidr)]
        pool == EnsurePool(c, k, PoolOf("subnet", Name(k)), {spec.cidr},
                           computeSubnetExcluded(spec.cidr, base.gateway, base.dns))
        ready == [base EXCEPT !.acl = resolveNetworkACL(c, spec.acl), !.why = "Ready"]
    IN  CASE c[k].del -> Done(keep("Deleting"))
          [] ~c[k].del /\ ~Has(c, vpc) -> Done(keep("VpcNotFound"))
          [] ~c[k].del /\ Has(c, vpc) /\ ~Ready(c[vpc]) -> Done(keep("VpcNotReady"))
          [] ~c[k].del /\ IsReady(c, vpc) /\ vni = NoValue -> Again(claim \o keep("NotReady"))
          [] OTHER -> Done(claim
                 \o Guarded(pool, WithAliasedStatus(c, k, [base EXCEPT !.why = "ReconcileFailed"]))
                 \o updateSubnetStatus(c, k, ready))

mapVpcToSubnets(c, k) == Where(c, "Subnet", LAMBDA s : s.vpc = Name(k))
\* Mutant: a Subnet does not hear of its ACL.
ACLUnnoticed(c, k) == {}

mapNetworkACLToSubnets(c, k) == Where(c, "Subnet", LAMBDA s : s.acl = Name(k))

SubnetWakes(c, k, o) ==
    CASE Kind(k) = "Vpc" -> mapVpcToSubnets(c, k)
      [] Kind(k) = "AllocationClaim" -> ClaimsFor(o, "Subnet")
      [] Kind(k) = "NetworkACL" -> mapNetworkACLToSubnets(c, k)
      [] OTHER -> {}

(***************************************************************************)
(* l2network_controller.go.  cidr is a set of at most one prefix; gateway  *)
(* tells whether one is declared, address pins it or is NoAddress.         *)
(***************************************************************************)
\* Mutant: a segment is numbered like the Vpcs.
L2Numbers == VpcPool

\* L2Networks are numbered from the pool of the Subnets.
L2VNIPool == VNIPool

L2VpcIsReady(c, k) == IsReady(c, Key("Vpc", c[k].spec.vpc))

ensureL2AllocationPool(c, k, gateway) ==
    Each(c[k].spec.cidr, LAMBDA p :
        EnsurePool(c, k, PoolOf("l2network", Name(k)), {p}, computeL2NetworkExcluded(gateway)))

L2NetworkACL(c, k) == resolveNetworkACL(c, c[k].spec.acl)

updateL2Status(c, k, status) == SetAliasedStatus(c, k, status)

L2NetworkReconcile(c, k) ==
    LET s == c[k].status
        spec == c[k].spec
        keep(why) == updateL2Status(c, k, [s EXCEPT !.why = why])
        vni == IF s.vni # NoValue THEN s.vni ELSE ValueOf(c, ClaimKey(k, L2VNIPool))
        claim == IF s.vni # NoValue THEN <<>>
                 ELSE Guarded(EnsureClaim(c, k, L2VNIPool),
                              WithAliasedStatus(c, k, [s EXCEPT !.why = "ReconcileFailed"]))
        gateway == L2NetworkGatewayAddress(spec)
        base == [s EXCEPT !.vni = vni, !.gateway = gateway]
        failed == [base EXCEPT !.why = "ReconcileFailed"]
        pool == ensureL2AllocationPool(c, k, gateway)
        ready == [base EXCEPT !.acl = L2NetworkACL(c, k), !.why = "Ready"]
    IN  CASE c[k].del -> Done(keep("Deleting"))
          [] ~c[k].del /\ ~Has(c, Key("Vpc", spec.vpc)) -> Done(keep("VpcNotFound"))
          [] ~c[k].del /\ Has(c, Key("Vpc", spec.vpc)) /\ ~L2VpcIsReady(c, k) -> Done(keep("VpcNotReady"))
          [] ~c[k].del /\ L2VpcIsReady(c, k) /\ vni = NoValue -> Again(claim \o keep("NotReady"))
          [] ~c[k].del /\ L2VpcIsReady(c, k) /\ vni # NoValue /\ spec.gateway /\ gateway = NoAddress ->
                 Done(claim \o updateL2Status(c, k, [s EXCEPT !.vni = vni, !.why = "ReconcileFailed"]))
          [] ~c[k].del /\ L2VpcIsReady(c, k) /\ vni # NoValue
             /\ \E p \in spec.cidr : ~L2GatewayUsable(p, gateway) ->
                 Again(claim \o updateL2Status(c, k, failed))
          [] OTHER -> Done(claim \o Guarded(pool, WithAliasedStatus(c, k, failed))
                 \o updateL2Status(c, k, ready))

mapVpcToL2Networks(c, k) == Where(c, "L2Network", LAMBDA s : s.vpc = Name(k))
mapNetworkACLToL2Networks(c, k) == Where(c, "L2Network", LAMBDA s : s.acl = Name(k))

L2NetworkWakes(c, k, o) ==
    CASE Kind(k) = "AllocationPool" -> Owner(o, "L2Network")
      [] Kind(k) = "Vpc" -> mapVpcToL2Networks(c, k)
      [] Kind(k) = "AllocationClaim" -> ClaimsFor(o, "L2Network")
      [] Kind(k) = "NetworkACL" -> mapNetworkACLToL2Networks(c, k)
      [] OTHER -> {}

(***************************************************************************)
(* natgateway_controller.go.  The Vpc is not watched.                      *)
(***************************************************************************)
NATGatewayPool == PoolKey("nat-gateway-id")
supportsExternalNetworkType(type) == type \in {"bgp", "arp"}

NATGatewayReconcile(c, k) ==
    LET s == c[k].status
        net == Key("ExternalNetwork", c[k].spec.net)
        keep(why) == SetStatus(c, k, [s EXCEPT !.why = why])
        id == IF s.id # NoValue THEN s.id ELSE ValueOf(c, ClaimKey(k, NATGatewayPool))
        claim == IF s.id # NoValue THEN <<>>
                 ELSE Guarded(EnsureClaim(c, k, NATGatewayPool),
                              WithStatus(c, k, [s EXCEPT !.why = "ReconcileFailed"]))
        usable == Has(c, net) /\ supportsExternalNetworkType(c[net].spec.type)
    IN  CASE c[k].del -> Nothing
          [] ~c[k].del /\ (~Has(c, Key("Vpc", c[k].spec.vpc)) \/ ~usable) -> Done(keep("MissingDependency"))
          [] ~c[k].del /\ Has(c, Key("Vpc", c[k].spec.vpc)) /\ usable /\ id = NoValue ->
                 Again(claim \o keep("NotReady"))
          [] OTHER -> Done(claim \o SetStatus(c, k, [id |-> id, why |-> "Ready"]))

mapExternalNetworkToNATGateways(c, k) == Where(c, "NATGateway", LAMBDA s : s.net = Name(k))

NATGatewayWakes(c, k, o) ==
    CASE Kind(k) = "AllocationClaim" -> ClaimsFor(o, "NATGateway")
      [] Kind(k) = "ExternalNetwork" -> mapExternalNetworkToNATGateways(c, k)
      [] OTHER -> {}

(***************************************************************************)
(* externalnetwork_controller.go.  An attachment is made for every node    *)
(* once a NATGateway uses the network; none is ever taken back.            *)
(***************************************************************************)
reconcileNetworkID(c, k) ==
    LET id == ValueOf(c, ClaimKey(k, VNIPool)) IN
    CASE c[k].status.id # NoValue -> <<>>
      [] c[k].status.id = NoValue /\ id = NoValue -> EnsureClaim(c, k, VNIPool)
      [] OTHER -> EnsureClaim(c, k, VNIPool) \o SetStatus(c, k, [id |-> id])

hasReferencingNATGateway(c, k) == Where(c, "NATGateway", LAMBDA s : s.net = Name(k)) # {}

ensureAttachment(c, k, node) ==
    LET a == Key2("ExternalNetworkAttachment", Name(k), node) IN
    Write(a, IF Has(c, a) THEN [c[a] EXCEPT !.owner = RefTo(c, k)]
             ELSE NewObject(c, a, RefTo(c, k), [net |-> Name(k), node |-> node], NewAttachmentStatus))

ExternalNetworkReconcile(c, k) ==
    CASE c[k].del -> Nothing
      [] ~c[k].del /\ ~supportsExternalNetworkType(c[k].spec.type) -> Again(<<>>)
      [] OTHER -> Done(reconcileNetworkID(c, k)
             \o IF hasReferencingNATGateway(c, k)
                THEN Each(Of(c, "Node"), LAMBDA n : ensureAttachment(c, k, Name(n))) ELSE <<>>)

mapNATGatewayToExternalNetworks(o) == {Key("ExternalNetwork", o.spec.net)}

ExternalNetworkWakes(c, k, o) ==
    CASE Kind(k) \in {"ExternalNetworkAttachment", "AllocationClaim"} -> Owner(o, "ExternalNetwork")
      [] Kind(k) = "NATGateway" -> mapNATGatewayToExternalNetworks(o)
      [] Kind(k) = "Node" -> Of(c, "ExternalNetwork")
      [] OTHER -> {}

(***************************************************************************)
(* externalnetworkattachment_controller.go, advertisement_helpers.go       *)
(***************************************************************************)
\* The pools of the network in order, or why there are none.
resolvePools(c, k) ==
    LET net == Key("ExternalNetwork", c[k].spec.net)
        names == c[net].spec.pools
        pool(i) == Key("AddressPool", names[i])
        bad == {i \in DOMAIN names : ~Has(c, pool(i)) \/ c[pool(i)].spec.mode # c[net].spec.type}
        first == CHOOSE i \in bad : \A j \in bad : i <= j
        error(why) == [pools |-> <<>>, why |-> why]
    IN  CASE ~Has(c, net) -> error("MissingDependency")
          [] Has(c, net) /\ names = <<>> -> error("MissingDependency")
          [] Has(c, net) /\ names # <<>> /\ ~supportsExternalNetworkType(c[net].spec.type) ->
                 error("InvalidPool")
          [] Has(c, net) /\ names # <<>> /\ bad # {} ->
                 error(IF Has(c, pool(first)) THEN "InvalidPool" ELSE "MissingDependency")
          [] OTHER -> [pools |-> [i \in DOMAIN names |-> PoolOf("addresspool", names[i])], why |-> ""]

ensureARPAdvertisement(c, adv, owner, spec) == CreateOrUpdate(c, adv, owner, spec, None)

\* The advertisement of the network's type is written, the other kind deleted.
ensureAdvertisement(c, k, address) ==
    LET net == c[Key("ExternalNetwork", c[k].spec.net)].spec
        bgp == Key2("BGPAdvertisement", k[2], k[3])
        arp == Key2("ARPAdvertisement", k[2], k[3])
    IN  IF net.type = "bgp"
        THEN CreateOrUpdate(c, bgp, RefTo(c, k),
                 [pools |-> net.pools, node |-> c[k].spec.node, address |-> address], None)
             \o Delete(arp)
        ELSE ensureARPAdvertisement(c, arp, RefTo(c, k),
                 [net |-> c[k].spec.net, address |-> address, node |-> c[k].spec.node])
             \o Delete(bgp)

\* One claim over all the pools, named after the first.
ensureAttachmentClaim(c, k, pools) ==
    LET claim == ClaimKey(k, pools[1]) IN
    [do |-> EnsureClaims(c, k, pools), address |-> ValueOf(c, claim), exhausted |-> Exhausted(c, claim)]

commitAttachmentStatus(c, k, ip, why) ==
    SetAliasedStatus(c, k, [c[k].status EXCEPT !.ip = ip, !.why = why])

AttachmentReconcile(c, k) ==
    LET r == resolvePools(c, k)
        claim == ensureAttachmentClaim(c, k, r.pools)
        address == claim.address
        commit(ip, why) == commitAttachmentStatus(c, k, ip, why)
    IN  CASE c[k].del -> Nothing
          [] ~c[k].del /\ r.why # "" -> Done(commit(c[k].status.ip, r.why))
          [] OTHER -> Then(claim.do,
                 CASE claim.exhausted -> Again(commit(NoValue, "NoAddress"))
                   [] ~claim.exhausted /\ address = NoValue -> Done(commit(NoValue, "Allocating"))
                   [] OTHER -> Done(ensureAdvertisement(c, k, address) \o commit(address, "Ready")))

mapExternalNetworkToAttachments(c, k) == Where(c, "ExternalNetworkAttachment", LAMBDA s : s.net = Name(k))

AttachmentWakes(c, k, o) ==
    CASE Kind(k) = "AllocationClaim" -> ClaimsFor(o, "ExternalNetworkAttachment")
      [] Kind(k) = "ExternalNetwork" -> mapExternalNetworkToAttachments(c, k)
      [] OTHER -> {}

(***************************************************************************)
(* networkendpoint_controller.go: a missing node is an error.              *)
(***************************************************************************)
EndpointReconcile(c, k) ==
    LET node == Key("Node", c[k].spec.node) IN
    CASE c[k].del -> Nothing
      [] ~c[k].del /\ ~Has(c, node) -> Again(<<>>)
      [] OTHER -> Done(SetStatus(c, k, [c[k].status EXCEPT !.nodeIP = c[node].spec.ip]))

mapNodeToEndpoints(c, k) == Where(c, "NetworkEndpoint", LAMBDA s : s.node = Name(k))

EndpointWakes(c, k, o) == IF Kind(k) = "Node" THEN mapNodeToEndpoints(c, k) ELSE {}
=============================================================================
