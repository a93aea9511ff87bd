--------------------------- MODULE MCControllers ---------------------------
(***************************************************************************)
(* Worlds for Controllers.  Most start settled, with nothing queued, so    *)
(* that the behaviours are about what the users and the failures change.   *)
(***************************************************************************)
EXTENDS Controllers

\* Of 32 addresses: two networks, an endpoint pool and the Service addresses;
\* 28 to 30 are public and nodes have 31 and 27.
Lower == [base |-> 0, bits |-> 2]
Upper == [base |-> 8, bits |-> 2]
Virtual == [base |-> 16, bits |-> 4]
ServiceAddresses == [base |-> 24, bits |-> 4]

(***************************************************************************)
(* Objects.                                                                *)
(***************************************************************************)
Born(spec, status) ==
    [uid |-> 0, del |-> FALSE, fins |-> {}, owner |-> NoOwner, spec |-> spec, status |-> status]
Owned(owner, spec, status) == [Born(spec, status) EXCEPT !.owner = <<owner, 0>>]
Fresh(k, spec) == k :> Born(spec, NewStatus(k))
Numbered(k, pool, v) ==
    ClaimKey(k, pool) :> [Owned(k, ClaimSpec(k, <<pool>>), [value |-> v, from |-> pool, pending |-> FALSE])
                             EXCEPT !.fins = {"lease"}]

V(n) == Key("Vpc", n)
S(n) == Key("Subnet", n)
RT(n) == Key("RouteTable", n)
N(n) == Key("Node", n)

VpcSpec == [provider |-> "", consume |-> FALSE, endpointPool |-> {}, enforce |-> FALSE]
SubnetSpec(vpc, cidr) == [vpc |-> vpc, cidr |-> cidr, acl |-> "", table |-> ""]

\* A Vpc with its main table, and a Subnet, that are ready.
VpcSet(n, spec, id, routes) ==
    V(n) :> Born(spec, [table |-> n, id |-> id, why |-> "Ready"])
    @@ Numbered(V(n), VpcPool, id)
    @@ RT(n) :> Owned(V(n), [vpc |-> n, routes |-> <<>>], [id |-> id, routes |-> routes, why |-> "Ready"])
    @@ Numbered(RT(n), TablePool, id)
SubnetSet(n, spec, vni) ==
    LET gw == nextGateway(spec.cidr)
        dns == nextDNSAddress(spec.cidr)
    IN  S(n) :> Born(spec, [vni |-> vni, gateway |-> gw, dns |-> dns, acl |-> NoACL, why |-> "Ready", of |-> spec])
        @@ Numbered(S(n), VNIPool, vni)
        @@ PoolOf("subnet", n) :> Owned(S(n), [cidrs |-> {spec.cidr},
               excluded |-> computeSubnetExcluded(spec.cidr, gw, dns)], None)
Connected(n, cidr) == Resolved(cidr, "connected", "", n)

\* A node, in a cluster without the default Subnet.
NodeSet(n, ip) ==
    N(n) :> Born([ip |-> ip], None)
    @@ Key("BGPNodeState", n) :> Owned(N(n), None, None)
    @@ ClaimKey(N(n), JuneauNodePool) :>
           Owned(N(n), ClaimSpec(N(n), <<JuneauNodePool>>), [Unserved EXCEPT !.pending = TRUE])

VpcKeys(n) == {V(n), ClaimKey(V(n), VpcPool), RT(n), ClaimKey(RT(n), TablePool)}

Do(k, spec, n) == [key |-> k, spec |-> spec, turn |-> n, calm |-> FALSE]
Calm(k, spec, n) == [key |-> k, spec |-> spec, turn |-> n, calm |-> TRUE]
World(made, keys, edits, calls) ==
    [made |-> made, keys |-> keys, queue |-> {}, edits |-> edits, faults |-> [calls |-> calls, crashes |-> 0]]
Started(w) == [w EXCEPT !.queue = DOMAIN w.made, !.faults.crashes = 1]

(***************************************************************************)
(* Networks.                                                               *)
(***************************************************************************)
\* A Vpc comes up while a call fails or the manager crashes.
NewVpc == Started(World(Fresh(V("a"), VpcSpec), VpcKeys("a"), {}, 1))

\* A Subnet becomes the provider of its Vpc, and stops.
OneVpc(spec, more) ==
    VpcSet("a", spec, 2, {Connected("s", Lower)} \cup more) @@ SubnetSet("s", SubnetSpec("a", Lower), 2)
Provides == [VpcSpec EXCEPT !.provider = "s"]
NAT(n) == Key2("ServiceNATAttachment", n, "a")
NATKeys(n) == {NAT(n), Key2("NetworkEndpoint", n, "a"), ClaimKey(NAT(n), PoolOf("subnet", "s"))}
Provider == World(OneVpc(VpcSpec, {}) @@ NodeSet("n", 31), NATKeys("n"),
    {Calm(V("a"), Provides, 1), Calm(V("a"), VpcSpec, 2)}, 0)

\* A node joins again: its ServiceNATAttachment went with it, the endpoint stayed,
\* with an address given when the first one was another node's.
NATEndpoint(n, ip, address) == Key2("NetworkEndpoint", n, "a") :>
    Born([kind |-> "ServiceNAT", node |-> n, subnet |-> "s", address |-> address, pod |-> NoPod, mac |-> TRUE],
         [nodeIP |-> ip])
Served == Resolved(ServiceCIDR, "service", "", "")
NodeReturns == World(OneVpc(Provides, {Served}) @@ NATEndpoint("n", 31, 5),
    DOMAIN NodeSet("n", 27) \cup NATKeys("n"), {Calm(N("n"), [ip |-> 27], 1)}, 0)

\* Another Subnet of the Vpc takes over as the source of its Service NAT.
NATSet(n, ip, address) ==
    NodeSet(n, ip) @@ NATEndpoint(n, ip, address)
    @@ NAT(n) :> Owned(V("a"), [node |-> n, vpc |-> "a"], [ip |-> address, subnet |-> "s", why |-> "Ready"])
    @@ Numbered(NAT(n), PoolOf("subnet", "s"), address)
OtherProvider == World(
    VpcSet("a", Provides, 2, {Connected("s", Lower), Connected("t", Upper), Served})
    @@ SubnetSet("s", SubnetSpec("a", Lower), 2) @@ SubnetSet("t", SubnetSpec("a", Upper), 3) @@ NATSet("n", 31, 4),
    {ClaimKey(NAT("n"), PoolOf("subnet", "t"))},
    {Calm(V("a"), [VpcSpec EXCEPT !.provider = "t"], 1)}, 0)

\* Two Vpcs are peered, one routes to the other, and both stop.
Peer == Key("VpcPeering", "p")
Route(via, to) == [vpc |-> "a", routes |-> <<[dst |-> Upper, via |-> via, to |-> to]>>]
TwoVpcs == OneVpc(VpcSpec, {}) @@ VpcSet("b", VpcSpec, 3, {Connected("t", Upper)})
           @@ SubnetSet("t", SubnetSpec("b", Upper), 3)
Peered == World(TwoVpcs, {Peer},
    {Do(Peer, [requester |-> "a", accepter |-> "b"], 1), Do(RT("a"), Route("vpcPeering", "p"), 1),
     Calm(RT("a"), [vpc |-> "a", routes |-> <<>>], 2), Do(Peer, None, 3)}, 1)

\* Two Vpcs on a transit gateway.
TGW == Key("TransitGateway", "g")
TRT == Key("TransitGatewayRouteTable", "g")
TA(n) == Key("TransitGatewayAttachment", n)
Attached(v) == [tgw |-> "g", vpc |-> v, association |-> "g", propagations |-> {"g"}]
Prefix(cidr, subnet) == [cidr |-> cidr, subnet |-> subnet]
Propagated(cidr, to, subnet) == [dst |-> cidr, to |-> to, subnet |-> subnet, active |-> TRUE]
Transit == World(
    TwoVpcs @@ TGW :> Born([none |-> 0], [table |-> "g", why |-> "Ready"])
    @@ TRT :> Owned(TGW, [tgw |-> "g", routes |-> <<>>],
                    [id |-> 1, routes |-> {Propagated(Lower, "a", "s")}, why |-> "Ready"])
    @@ Numbered(TRT, TransitTablePool, 1)
    @@ TA("a") :> Born(Attached("a"), [prefixes |-> {Prefix(Lower, "s")}, why |-> "Ready"]),
    {TA("b")},
    {Do(TA("b"), Attached("b"), 1), Do(RT("a"), Route("transitGateway", "g"), 1),
     Calm(TRT, [tgw |-> "g", routes |-> <<[dst |-> Lower, to |-> ""]>>], 2), Calm(TA("a"), None, 3)}, 0)

\* A transit gateway comes up.
NewTransit == Started(World(Fresh(TGW, [none |-> 0]), {TRT, ClaimKey(TRT, TransitTablePool)}, {}, 1))

\* A NATGateway comes and goes: an external network with one public address
\* of each node announced over ARP, and the route to it.
EN == Key("ExternalNetwork", "e")
AP(n) == Key("AddressPool", n)
Pool(n, mode, addresses, used) ==
    AP(n) :> Born([mode |-> mode, addresses |-> addresses], [total |-> Cardinality(addresses), allocated |-> used])
    @@ PoolOf("addresspool", n) :> Owned(AP(n), [cidrs |-> addresses, excluded |-> {}], None)
Net(type, pools) ==
    EN :> Born([type |-> type, pools |-> pools], [id |-> 3]) @@ Numbered(EN, VNIPool, 3)
GW == Key("NATGateway", "g")
ENA(n) == Key2("ExternalNetworkAttachment", "e", n)
ENAKeys(n) == {ENA(n), ClaimKey(ENA(n), PoolOf("addresspool", "q")), Key2("ARPAdvertisement", "e", n)}
Outside == World(
    OneVpc(VpcSpec, {}) @@ NodeSet("n", 31) @@ Pool("q", "arp", {Host(28)}, 0) @@ Net("arp", <<"q">>),
    {GW, ClaimKey(GW, NATGatewayPool)} \cup ENAKeys("n"),
    {Calm(GW, [vpc |-> "a", net |-> "e"], 1), Calm(RT("a"), Route("natGateway", "g"), 2)}, 0)

\* A NetworkACL is edited while a Subnet starts to use it, and a security
\* group loses its peer.
ACL == Key("NetworkACL", "k")
SG(n) == Key("SecurityGroup", n)
ACLSpec(n, gen) == [vpc |-> "a", entries |-> n, gen |-> gen]
GroupSpec(peers, n, gen) == [vpc |-> "a", peers |-> peers, entries |-> n, gen |-> gen]
FilterReady(id, n, version, gen) ==
    [id |-> id, entries |-> n, version |-> version, attached |-> {}, why |-> "Ready", gen |-> gen]
Filtered == World(
    OneVpc(VpcSpec, {}) @@ ACL :> Born(ACLSpec(1, 1), FilterReady(1, 1, 1, 1)) @@ Numbered(ACL, ACLPool, 1),
    {},
    {Do(ACL, ACLSpec(2, 2), 1), Do(S("s"), [SubnetSpec("a", Lower) EXCEPT !.acl = "k"], 1),
     Calm(S("s"), SubnetSpec("a", Lower), 2), Do(ACL, None, 3)}, 0)
\* An L2Network with a gateway comes up in a Vpc that has a Subnet.
L2 == Key("L2Network", "l")
L2Spec(gateway) ==
    [vpc |-> "a", cidr |-> {Upper}, gateway |-> gateway, address |-> NoAddress, acl |-> "", table |-> ""]
Segment == World(
    VpcSet("a", VpcSpec, 2, {Connected("s", Lower)}) @@ SubnetSet("s", SubnetSpec("a", Lower), 3),
    {L2, ClaimKey(L2, L2VNIPool), PoolOf("l2network", "l")},
    {Calm(L2, L2Spec(FALSE), 1), Calm(L2, L2Spec(TRUE), 2), Calm(S("s"), None, 3)}, 0)

\* A VpcEndpoint of a Service whose backends come and go.
VE == Key("VpcEndpoint", "v")
SVC == Key("Service", "w")
EPS == Key("EndpointSlice", "w")
ServiceSpec == [vpc |-> "a", ip |-> TRUE, external |-> {}, lb |-> FALSE, net |-> "", want |-> NoAddress,
                shared |-> FALSE, allowed |-> {}, local |-> FALSE]
Consumes == [VpcSpec EXCEPT !.consume = TRUE, !.endpointPool = {Virtual}]
VirtualRoutes == {Resolved(ServiceCIDR, "service", "", ""), Resolved(Virtual, "vpcEndpoint", "", "")}
VpcPoolSet == PoolOf("vpcendpoint", "a") :> Owned(V("a"), [cidrs |-> {Virtual}, excluded |-> {}], None)
Endpoint == World(
    OneVpc(Consumes, VirtualRoutes) @@ VpcPoolSet @@ SVC :> Born(ServiceSpec, NewServiceStatus),
    {VE, ClaimKey(VE, PoolOf("vpcendpoint", "a")), EPS, Key("ServiceLoadBalancer", "w")},
    {Do(VE, [vpc |-> "a", service |-> "w"], 1), Do(EPS, [service |-> "w", nodes |-> {"n"}], 1),
     Calm(V("a"), [Consumes EXCEPT !.consume = FALSE], 2), Calm(SVC, None, 3)}, 0)

\* A group goes while another comes, and every ID is taken.
Group(n, id) == SG(n) :> Born(GroupSpec({}, 1, 1), FilterReady(id, 1, 1, 1)) @@ Numbered(SG(n), GroupPool, id)
Reused == World(OneVpc(VpcSpec, {}) @@ Group("h", 1) @@ Group("i", 2) @@ Group("j", 3),
    {SG("g"), ClaimKey(SG("g"), GroupPool)},
    {Do(SG("h"), None, 1), Do(SG("g"), GroupSpec({"i"}, 1, 1), 1)}, 0)

\* A NetworkACL goes and comes back under its name while another comes.
List(n, id) == Key("NetworkACL", n) :> Born(ACLSpec(1, 1), FilterReady(id, 1, 1, 1)) @@ Numbered(Key("NetworkACL", n), ACLPool, id)
Renewed == World(VpcSet("a", VpcSpec, 2, {}) @@ List("h", 1),
    {ACL, ClaimKey(ACL, ACLPool)},
    {Do(Key("NetworkACL", "h"), None, 1), Do(Key("NetworkACL", "h"), ACLSpec(1, 1), 2), Do(ACL, ACLSpec(1, 1), 3)}, 0)

NetworkWorlds ==
    {NewVpc, Reused, Renewed, Provider, NodeReturns, OtherProvider, Peered, Transit, NewTransit, Outside, Filtered,
     Segment, Endpoint}

(***************************************************************************)
(* Addresses.                                                              *)
(***************************************************************************)
\* A Pod on a Subnet, or carrying an ElasticIP, with its interface ready.
Pod(n) == Key("Pod", n)
NIC(n) == Key2("NetworkInterface", n, "eth0")
END(n) == Key2("NetworkEndpoint", n, "eth0")
PodSpec(kind, net, identity) ==
    [node |-> "n", done |-> FALSE, identity |-> identity, ready |-> TRUE, label |-> "w",
     nics |-> {[interface |-> "eth0", kind |-> kind, net |-> net, address |-> NoAddress, groups |-> {}]}]
NICSpec(n, kind, net, identity) ==
    [kind |-> kind, net |-> net, address |-> NoAddress, groups |-> {}, pod |-> <<n, "eth0", 0>>, node |-> "n",
     identity |-> identity, born |-> 1]
PodKeys(n, identity) ==
    LET spec == NICSpec(n, "Subnet", "s", identity) IN
    {Pod(n), NIC(n), END(n), claimNameForNetworkInterface(NIC(n), spec), leaseNameForNetworkInterface(NIC(n), spec)}
PodSet(n, kind, net, identity, address) ==
    LET spec == NICSpec(n, kind, net, identity) IN
    Pod(n) :> Born(PodSpec(kind, net, identity), None)
    @@ NIC(n) :> [Owned(Pod(n), spec, [address |-> address, groups |-> {}, phase |-> "Ready",
                                       why |-> "AllocationSucceeded", of |-> spec]) EXCEPT !.fins = {"finalizer"}]
    @@ END(n) :> Owned(NIC(n), [kind |-> "Pod", node |-> "n", subnet |-> IF kind = "Subnet" THEN net ELSE "",
                                address |-> address, pod |-> spec.pod, mac |-> TRUE], [nodeIP |-> 31])
AddressSet(n, identity, address) ==
    LET spec == NICSpec(n, "Subnet", "s", identity)
        claim == claimNameForNetworkInterface(NIC(n), spec)
        lease == leaseNameForNetworkInterface(NIC(n), spec)
        pool == PoolOf("subnet", "s")
    IN  claim :> [Born([pools |-> <<pool>>, ref |-> NIC(n), want |-> NoAddress, lease |-> lease],
                       [value |-> address, from |-> pool, pending |-> FALSE]) EXCEPT !.fins = {"lease"}]
        @@ (IF lease = NoKey THEN <<>>
            ELSE lease :> Born([claim |-> claim, held |-> TRUE, value |-> address, from |-> pool], None))
Base == OneVpc(VpcSpec, {}) @@ NodeSet("n", 31)
OnSubnet(identity) == PodSet("p", "Subnet", "s", identity, 4) @@ AddressSet("p", identity, 4)

\* A Pod of a workload goes and comes back under its name.
Replaced == World(Base @@ OnSubnet("i"), PodKeys("p", "i"),
    {Calm(Pod("p"), None, 1), Do(Pod("p"), PodSpec("Subnet", "s", "i"), 2)}, 0)
\* The next Pod of a workload comes while the last one stays.
Moved == World(Base @@ OnSubnet("i"), PodKeys("o", "i"), {Calm(Pod("o"), PodSpec("Subnet", "s", "i"), 1)}, 0)
\* A route leads to it.
Leads == World(Base @@ OnSubnet("i"), PodKeys("p", "i"),
    {Calm(RT("a"), Route("endpoint", "i"), 1), Calm(Pod("p"), None, 2)}, 0)

\* Two Pods carry one ElasticIP, and the first goes.
EIP == Key("ElasticIP", "x")
Public(n) == Pool("q", "arp", {Host(28)}, n) @@ Net("arp", <<"q">>)
Claimed(k, claim) ==
    claim :> [Born([pools |-> <<PoolOf("addresspool", "q")>>, ref |-> k, want |-> NoAddress, lease |-> NoKey],
                   [value |-> 28, from |-> PoolOf("addresspool", "q"), pending |-> FALSE]) EXCEPT !.fins = {"lease"}]
EIPSpec == [net |-> "e", want |-> NoAddress]
EIPSet(phase, use, why) ==
    Public(1) @@ Claimed(EIP, elasticIPClaimName(EIP))
    @@ EIP :> [Born(EIPSpec,
                    [phase |-> phase, address |-> 28, use |-> use, why |-> why, of |-> EIPSpec]) EXCEPT !.fins = {"finalizer"}]
Announced(adv, node) == adv :> Born([net |-> "e", address |-> 28, node |-> node], None)
CarriedSet ==
    Base @@ EIPSet("Attached", NIC("p"), "Attached") @@ Announced(elasticIPAdvertisementName(EIP), "n")
    @@ PodSet("p", "ElasticIP", "x", "i", 28)
Carried == World(CarriedSet, {Pod("q"), NIC("q"), END("q")},
    {Calm(Pod("q"), PodSpec("ElasticIP", "x", "i"), 1), Calm(Pod("p"), None, 2)}, 1)
\* It is deleted while a Pod carries it.
Freed == World(CarriedSet, {}, {Calm(EIP, None, 1), Do(Pod("p"), None, 2)}, 0)

\* An ElasticIP is attached to the interface of a Pod that goes.
EIPA == Key("ElasticIPAttachment", "y")
Translated == World(
    Base @@ EIPSet("Available", NoKey, "AwaitingAttachment") @@ OnSubnet(""), {EIPA, elasticIPAdvertisementName(EIP)},
    {Calm(EIPA, [eip |-> "x", nic |-> NIC("p")], 1), Calm(END("p"), None, 2), Do(EIPA, None, 3)}, 1)

\* The endpoints of a load balancer move from one node to the other.
SLB == Key("ServiceLoadBalancer", "w")
Balances == [ServiceSpec EXCEPT !.lb = TRUE, !.net = "e", !.local = TRUE]
Slices(nodes) == [service |-> "w", nodes |-> nodes]
Balanced == World(
    OneVpc([VpcSpec EXCEPT !.consume = TRUE], {Resolved(ServiceCIDR, "service", "", "")}) @@ Public(0)
    @@ NodeSet("n", 31) @@ NodeSet("m", 27) @@ Fresh(SVC, ServiceSpec) @@ EPS :> Born(Slices({"n"}), None),
    {SLB, serviceLoadBalancerClaimName(SLB), serviceLoadBalancerAdvertisementName(SLB)},
    {Calm(SVC, Balances, 1), Calm(EPS, Slices({"n", "m"}), 2), Do(EPS, Slices({"m"}), 3), Calm(SVC, ServiceSpec, 4)}, 1)

\* A DNS record of the Pods of a workload, and of a fixed address.
Zone == Key("DNSZone", "z")
Record(n) == Key("DNSRecord", n)
Named == World(Base @@ OnSubnet(""), {Zone, Record("r")},
    {Calm(Zone, [vpc |-> "a", domain |-> "d"], 1),
     Do(Record("r"), [zone |-> "z", name |-> "r", sources |-> <<PodSource("w", "eth0"), IPSource(30)>>], 2),
     Do(Pod("p"), [PodSpec("Subnet", "s", "") EXCEPT !.ready = FALSE], 2)}, 0)

\* A node joins a cluster that has the default Subnet.
DefaultNetwork == VpcSet("a", VpcSpec, 2, {Connected("default", Lower)}) @@ SubnetSet("default", SubnetSpec("a", Lower), 1)
Joins == World(DefaultNetwork,
    {N("n"), Key("BGPNodeState", "n"), ClaimKey(N("n"), JuneauNodePool), JuneauNodeEndpointName("n")},
    {Calm(N("n"), [ip |-> 31], 1), Do(N("n"), [ip |-> 27], 2), Calm(N("n"), None, 3)}, 1)

AddressWorlds == {Replaced, Moved, Leads, Carried, Freed, Translated, Balanced, Named, Joins}
=============================================================================
