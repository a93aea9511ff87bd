-------------------------- MODULE AdmissionControl --------------------------
(***************************************************************************)
(* The API server behind the webhooks, under any requests in any order:    *)
(* of users and of controllers, whose finalizers come and go.  A request   *)
(* is checked and stored in one step; two requests whose checks overlap in *)
(* time are the VpcPeering controller's business, see Routing.             *)
(***************************************************************************)
EXTENDS PodWebhooks

CONSTANTS
    Menus,              \* what may be asked for: sets of [key, spec]
    Sidecars            \* what another webhook may add to a Pod: sequences of containers

\* The kinds whose controllers hold a deletion up.
Finalized == {"ElasticIP", "NetworkInterface"}

\* The kinds that other objects refer to by a single name.
Referenced == {"Vpc", "RouteTable", "NetworkACL", "SecurityGroup", "TransitGateway", "TransitGatewayRouteTable",
               "AddressPool", "ExternalNetwork", "ElasticIP", "DNSZone"}

\* What the schema of a kind lets through to its webhook: prefixes are
\* prefixes, an L2Network has at most one and names a table in its gateway,
\* an interface of an ElasticIP has no groups.
WellFormed(k, spec) ==
    /\ k # NoKey
    /\ Kind(k) \in Referenced => k = Key(Kind(k), Name(k))
    /\ Kind(k) = "Subnet" => spec.cidr \in Cidrs
    /\ Kind(k) = "AddressPool" => spec.addresses \subseteq Cidrs
    /\ Kind(k) = "L2Network" => (\A p, q \in spec.cidr : p = q) /\ (~spec.gateway => spec.table = "")
    /\ Kind(k) = "NetworkInterface" /\ spec.kind = "ElasticIP" => spec.groups = {}

\* The objects a request may have become.
Things(e) ==
    [uid : 0 .. 3, del : BOOLEAN, fins : SUBSET {"finalizer"}, owner : {NoOwner}, spec : {e.spec},
     status : {None} \cup [dns : Int]]

ASSUME MenusAssumption == \A menu \in Menus : \A e \in menu : WellFormed(e.key, e.spec) /\ None \notin Things(e)

Init ==
    \E menu \in Menus :
        /\ todo = menu
        /\ obj = [k \in {e.key : e \in menu} |-> None]
        /\ seen = obj
        /\ queue = {} /\ faults = 0

Blank(k) == IF Kind(k) = "Subnet" THEN [dns |-> NoAddress] ELSE None

Request == \E e \in todo : Kind(e.key) # "Pod" /\ Submit(e, Blank(e.key)) /\ UNCHANGED todo

\* A Pod goes through the mutating webhooks first, when it is created.
CreatePod ==
    \E e \in todo : /\ Kind(e.key) = "Pod" /\ obj[e.key] = None
                    /\ \E pod \in Mutations(obj, e.spec, Sidecars) : Submit([key |-> e.key, spec |-> pod], None)
                    /\ UNCHANGED todo

\* The Subnet controller announces the resolver.
Advertise(k) ==
    /\ Kind(k) = "Subnet" /\ obj[k] # None
    /\ obj[k].status.dns = NoAddress
    /\ obj' = [obj EXCEPT ![k].status.dns = nextDNSAddress(obj[k].spec.cidr)]
    /\ UNCHANGED <<seen, queue, todo, faults>>

Withdraw == \E k \in DOMAIN obj : Submit([key |-> k, spec |-> None], None) /\ UNCHANGED todo

Finalize(k) ==
    /\ Kind(k) \in Finalized /\ obj[k] # None
    /\ ~obj[k].del => obj[k].fins = {}
    /\ obj' = [obj EXCEPT ![k] = Stored([@ EXCEPT !.fins = IF obj[k].del THEN {} ELSE {"finalizer"}])]
    /\ UNCHANGED <<seen, queue, todo, faults>>

\* The one cache a webhook reads.
Refresh ==
    /\ seen' = [k \in DOMAIN obj |-> IF Kind(k) = "ElasticIPAttachment" THEN obj[k] ELSE seen[k]]
    /\ UNCHANGED <<obj, queue, todo, faults>>

Next == Request \/ CreatePod \/ Withdraw \/ Refresh \/ \E k \in DOMAIN obj : Finalize(k) \/ Advertise(k)

Spec == Init /\ [][Next]_clusterVars

(***************************************************************************)
(* What the webhooks keep true.                                            *)
(***************************************************************************)
\* An address of a Vpc is in one of its networks: the prefixes of the Subnets
\* and L2Networks of a Vpc are disjoint, in whatever order they came.
OneNetworkPerAddress ==
    \A p, q \in listVpcPrefixes(obj) : p # q /\ p.vpc = q.vpc => ~ipNetsOverlap(p.cidr, q.cidr)

Propagating(t) == {obj[a].spec.vpc : a \in Where(obj, "TransitGatewayAttachment", LAMBDA s : t \in s.propagations)}
Tables == UNION {obj[a].spec.propagations : a \in Of(obj, "TransitGatewayAttachment")}

\* A Subnet's prefix means one thing wherever it is routed to: no Subnet of a
\* peered Vpc, or of a Vpc that propagates into the same transit gateway table,
\* overlaps it, nor the endpoint pool of its own Vpc.  L2Networks and pools are
\* left out of the joins: a peering or an attachment compares the Subnets of its
\* sides only (vpcpeering_webhook.go:227, transitgatewayattachment_webhook.go:
\* 216), so an L2Network or a pool of one side may overlap what the other has.
RoutedSubnetsDisjoint ==
    LET apart(v, w) == \A p \in SubnetCidrs(obj, {v}), q \in SubnetCidrs(obj, {w}) : ~ipNetsOverlap(p, q)
    IN  /\ \A k \in Of(obj, "VpcPeering") : apart(obj[k].spec.requester, obj[k].spec.accepter)
        /\ \A t \in Tables : \A v, w \in Propagating(t) : v # w => apart(v, w)
        /\ \A v \in Of(obj, "Vpc") : PoolClearOfSubnets(obj, obj[v].spec.endpointPool, {Name(v)})

\* The Subnets and L2Networks of one Vpc are disjoint, and so are the Subnets
\* that meet over a peering or in a transit gateway table and the endpoint pool
\* and the Subnets of one Vpc, however the networks, peerings, attachments and
\* pools were put in order (validateVpcPrefixOverlaps and the validators of
\* peerings, attachments and pools).  L2Networks over a join, a pool and the
\* L2Networks of its Vpc, and a pool and what a later join brings are not
\* covered: the webhooks do not compare them.
PrefixesDisjoint == OneNetworkPerAddress /\ RoutedSubnetsDisjoint

Refers(kind, field, to) ==
    \A k \in Of(obj, kind) : obj[k].spec[field] # "" => Has(obj, Key(to, obj[k].spec[field]))
RefersInVpc(kinds, field, to) ==
    \A k \in UNION {Of(obj, kind) : kind \in kinds} : RefInVpc(obj, to, obj[k].spec[field], obj[k].spec.vpc)

\* A reference that is checked when it is made, and that the ValidateDelete of
\* its target looks for, never dangles and stays within its Vpc: the two checks
\* fit together.  Objects that wait for their finalizers may be edited without
\* them.  These references have only one of the two checks, or none, and do
\* dangle: the Vpc of a NATGateway, RouteTable, NetworkACL, SecurityGroup,
\* VpcEndpoint or Service; the ExternalNetwork of a NATGateway, an
\* ExternalNetworkAttachment, an ARPAdvertisement or a Service; the peers of a
\* SecurityGroup; the Subnet or L2Network of a NetworkInterface; the interface
\* of an ElasticIPAttachment; the gateway of a TransitGatewayRouteTable; the
\* targets of routes and the pool of an AllocationClaim.
GuardedReferencesHold ==
    /\ \A kind \in {"Subnet", "L2Network", "DNSZone", "TransitGatewayAttachment"} : Refers(kind, "vpc", "Vpc")
    /\ Refers("VpcPeering", "requester", "Vpc") /\ Refers("VpcPeering", "accepter", "Vpc")
    /\ Refers("TransitGatewayAttachment", "tgw", "TransitGateway")
    /\ \A a \in Of(obj, "TransitGatewayAttachment") : \A t \in RouteTablesOf(obj[a].spec) :
           LET rt == Key("TransitGatewayRouteTable", t) IN Has(obj, rt) /\ obj[rt].spec.tgw = obj[a].spec.tgw
    /\ RefersInVpc({"Subnet", "L2Network"}, "table", "RouteTable")
    /\ RefersInVpc({"Subnet", "L2Network"}, "acl", "NetworkACL")
    /\ Refers("DNSRecord", "zone", "DNSZone")
    /\ \A n \in Of(obj, "NetworkInterface") : ~obj[n].del =>
           \A g \in obj[n].spec.groups : Has(obj, Key("SecurityGroup", g))
    /\ \A r \in Of(obj, "BGPAdvertisement") : PoolsUsable(obj, obj[r].spec, "bgp")
    /\ \A n \in Of(obj, "ExternalNetwork") : PoolsUsable(obj, obj[n].spec, obj[n].spec.type)
    /\ \A x \in Of(obj, "ElasticIP") : ~obj[x].del => Has(obj, Key("ExternalNetwork", obj[x].spec.net))
    /\ \A a \in Of(obj, "ElasticIPAttachment") : LET x == Key("ElasticIP", obj[a].spec.eip) IN
           Has(obj, x) /\ ~obj[x].del

AtMostOne(kind, Same2(_, _)) ==
    \A j, k \in Of(obj, kind) : Same2(obj[j].spec, obj[k].spec) => j = k

\* What must be one of its sort is: a peering of two Vpcs, an attachment of a
\* Vpc to a gateway, the pool and the network of a public address, a zone of a
\* domain in a Vpc, a record of a name, the node that answers for an address.
OneOfItsSort ==
    /\ AtMostOne("VpcPeering", LAMBDA s, t : Sides(s) = Sides(t))
    /\ AtMostOne("TransitGatewayAttachment", LAMBDA s, t : s.tgw = t.tgw /\ s.vpc = t.vpc)
    /\ AtMostOne("AddressPool", LAMBDA s, t : \E p \in s.addresses, q \in t.addresses : ipNetsOverlap(p, q))
    /\ AtMostOne("ExternalNetwork", LAMBDA s, t : NamedPools(s) \cap NamedPools(t) # {})
    /\ AtMostOne("DNSZone", LAMBDA s, t : s.vpc = t.vpc /\ s.domain = t.domain)
    /\ AtMostOne("ARPAdvertisement", LAMBDA s, t : s.address = t.address)
    /\ AtMostOne("DNSRecord", LAMBDA s, t : s.zone = t.zone /\ s.name = t.name)

\* What a Pod's probe asks of which port, found by the proxy or by kubelet.
Delivered(pod, p) == IF isAgentProbe(pod, p) THEN pod.configs[p.token] ELSE p

\* However often PodProbeDefaulter is called, with containers added in between
\* and with annotations the user copied from another Pod, every probe stays the
\* one that was asked for; and as long as a Pod is there, no probe of it goes to
\* an address that kubelet cannot route to, whenever its network was created.
\* Its nameservers are as many as kubelet takes.
ProbesAsAsked ==
    \A k \in Of(obj, "Pod") :
        LET pod == obj[k].spec
            asked == [pod EXCEPT !.containers = pod.asked.containers]
        IN  /\ \A i \in DOMAIN pod.containers : \A j \in DOMAIN pod.containers[i].probes :
                   LET p == ProbeAt(pod, <<i, j>>) IN
                   p # ProbeAt(asked, <<i, j>>) =>
                       Delivered(pod, p) = configOf(asked, <<i, j>>) /\ ProbeAt(asked, <<i, j>>).host = ""
            /\ \A t \in DOMAIN pod.asked.configs : pod.configs[t] = pod.asked.configs[t]
            /\ NeedsProbeRewrite(obj, pod) => Found(pod) = {}
            /\ Len(pod.asked.dns.servers) <= MaxNameservers => Len(pod.dns.servers) <= MaxNameservers

\* Every interface of a Pod is what one place of its annotations says, and
\* everything that an annotation says is of some interface: there is one eth0,
\* names and ElasticIPs are used once, no filter and no pinned address is
\* dropped, and the filters are as many as the data plane takes.
NothingUnsaid ==
    \A k \in {j \in Of(obj, "Pod") : obj[j].spec.nics # {}} :
        LET ann == obj[k].spec.ann
            nics == obj[k].spec.nics
            said == {PrimaryInterface} \cup {ann.networks[i].interface : i \in DOMAIN ann.networks}
            eth0 == Primary(obj[k].spec)
        IN  /\ \A name \in said : Cardinality({a \in nics : a.interface = name}) = 1
            /\ {a.interface : a \in nics} = said
            /\ \A a, b \in nics : a # b /\ a.kind = "ElasticIP" => a.net # b.net \/ b.kind # "ElasticIP"
            /\ ann.address # {} => eth0.address \in ann.address
            /\ ann.elasticIP # {} => eth0.kind = "ElasticIP" /\ eth0.net \in ann.elasticIP
            /\ ann.groups # {} => \E g \in ann.groups : eth0.groups = Range(g) \ {""}
            /\ \A a \in nics : Cardinality(a.groups) <= PodSecurityGroupsMax

\* What a Pod asked for is what it gets: its probes and nameservers as they
\* were asked for (PodProbeDefaulter, PodDNSDefaulter), its interfaces as its
\* annotations say (ResolvePodNetworkAttachments, ValidatePodNetworkAttachments).
PodAsAsked == ProbesAsAsked /\ NothingUnsaid

\* No ring of objects whose deletions wait for each other: as long as anything
\* but the default Vpc's is stored, the deletion of something is admitted.
SomethingDeletable ==
    LET users == {k \in DOMAIN obj : obj[k] # None /\ Name(k) # Default}
    IN  users # {} => \E k \in users : AdmitsDelete(obj, k)
=============================================================================
