---------------------------- MODULE MCAdmission ----------------------------
(***************************************************************************)
(* Menus for AdmissionControl: the networks and how they are connected,    *)
(* the filters and tables they use, the public addresses, the names.       *)
(***************************************************************************)
EXTENDS AdmissionControl, TLC

Lower == [base |-> 0, bits |-> 2]
LowerHalf == [base |-> 4, bits |-> 3]
Upper == [base |-> 8, bits |-> 2]
ServiceAddresses == [base |-> 24, bits |-> 4]

Ask(k, specs) == {[key |-> k, spec |-> s] : s \in specs}

VpcSpec(pool) == [provider |-> "", consume |-> FALSE, endpointPool |-> pool, enforce |-> FALSE]
SubnetSpec(vpc, cidr) == [vpc |-> vpc, cidr |-> cidr, acl |-> "", table |-> ""]
L2Spec(vpc, cidr) ==
    [vpc |-> vpc, cidr |-> {cidr}, gateway |-> TRUE, address |-> NoAddress, acl |-> "", table |-> ""]
Vpcs(pools) == Ask(Key("Vpc", "a"), {VpcSpec(p) : p \in pools}) \cup Ask(Key("Vpc", "b"), {VpcSpec({})})

Peered ==
    Vpcs({{}, {LowerHalf}})
    \cup Ask(Key("Subnet", "s"), {SubnetSpec("a", Lower), SubnetSpec("a", Upper)})
    \cup Ask(Key("Subnet", "t"), {SubnetSpec("a", Lower), SubnetSpec("b", Lower), SubnetSpec("b", Upper)})
    \cup Ask(Key("L2Network", "l"), {L2Spec("a", LowerHalf), L2Spec("b", Upper)})
    \cup Ask(Key("VpcPeering", "p"), {[requester |-> "a", accepter |-> "b"]})
    \cup Ask(Key("VpcPeering", "q"), {[requester |-> "b", accepter |-> "a"]})

Transit(v, association, propagations) ==
    [tgw |-> "g", vpc |-> v, association |-> association, propagations |-> propagations]
Attached ==
    Vpcs({{}})
    \cup Ask(Key("Subnet", "s"), {SubnetSpec("a", Lower)})
    \cup Ask(Key("Subnet", "t"), {SubnetSpec("b", Lower), SubnetSpec("b", Upper)})
    \cup Ask(Key("TransitGateway", "g"), {[none |-> 0]})
    \cup Ask(Key("TransitGatewayRouteTable", "g"), {[tgw |-> "g", routes |-> <<>>]})
    \cup Ask(Key("TransitGatewayRouteTable", "h"), {[tgw |-> "g", routes |-> <<>>]})
    \cup Ask(Key("TransitGatewayAttachment", "x"), {Transit("a", "g", {"g"}), Transit("a", "g", {"g", "h"})})
    \cup Ask(Key("TransitGatewayAttachment", "y"), {Transit("b", "g", {"h"}), Transit("b", "h", {"g"}), Transit("a", "h", {})})

\* A Subnet, an L2Network and an interface that start and stop to use a table,
\* a filter and a group of either Vpc.
Filtered ==
    Vpcs({{}})
    \cup Ask(Key("RouteTable", "r"), {[vpc |-> "a", routes |-> <<>>], [vpc |-> "b", routes |-> <<>>]})
    \cup Ask(Key("NetworkACL", "k"), {[vpc |-> v, entries |-> 1, gen |-> 1] : v \in {"a", "b"}})
    \cup Ask(Key("SecurityGroup", "h"), {[vpc |-> "a", peers |-> {}, entries |-> 1, gen |-> 1]})
    \cup Ask(Key("Subnet", "s"), {[SubnetSpec("a", Lower) EXCEPT !.acl = k, !.table = t] : k \in {"", "k"}, t \in {"", "r"}})
    \cup Ask(Key("L2Network", "l"), {[L2Spec("a", Upper) EXCEPT !.acl = "k"], [L2Spec("a", Upper) EXCEPT !.table = "r"]})
    \cup Ask(Key2("NetworkInterface", "p", "eth0"),
             {[kind |-> "Subnet", net |-> "s", address |-> NoAddress, groups |-> g, pod |-> <<"p", "eth0", 0>>,
               node |-> "n", identity |-> "", born |-> 1] : g \in {{}, {"h"}}})

Public ==
    Ask(Key("AddressPool", "q"), {[mode |-> "arp", addresses |-> {Host(28)}], [mode |-> "arp", addresses |-> {Host(28), Host(29)}]})
    \cup Ask(Key("AddressPool", "r"), {[mode |-> m, addresses |-> {Host(29)}] : m \in {"arp", "bgp"}})
    \cup Ask(Key("ExternalNetwork", "e"), {[type |-> "arp", pools |-> p] : p \in {<<"q">>, <<"q", "r">>}})
    \cup Ask(Key("ExternalNetwork", "f"), {[type |-> "arp", pools |-> <<"r">>]})
    \cup Ask(Key("ElasticIP", "x"), {[net |-> n, want |-> NoAddress] : n \in {"e", "f"}})
    \cup Vpcs({{}}) \cup Ask(Key("Subnet", "s"), {SubnetSpec("a", Lower)})
    \cup Ask(Key2("NetworkInterface", "p", "eth0"),
             {[kind |-> "Subnet", net |-> "s", address |-> NoAddress, groups |-> {}, pod |-> <<"p", "eth0", 0>>,
               node |-> "n", identity |-> "", born |-> 1]})
    \cup Ask(Key("ElasticIPAttachment", "y"), {[eip |-> "x", nic |-> Key2("NetworkInterface", "p", "eth0")]})

Named ==
    Vpcs({{}})
    \cup Ask(Key("DNSZone", "y"), {[vpc |-> v, domain |-> "d"] : v \in {"a", "b"}})
    \cup Ask(Key("DNSZone", "z"), {[vpc |-> "a", domain |-> d] : d \in {"d", "e"}})
    \cup UNION {Ask(Key("DNSRecord", r), {[zone |-> z, name |-> "n", sources |-> <<0>>] : z \in {"y", "z"}}) : r \in {"q", "r"}}

\* What tables lead to, and what uses the tables.
To(via, to) == [dst |-> Everywhere, via |-> via, to |-> to]
Routed ==
    Vpcs({{}})
    \cup Ask(Key("VpcPeering", "p"), {[requester |-> "a", accepter |-> "b"]})
    \cup Ask(Key("TransitGateway", "g"), {[none |-> 0]})
    \cup Ask(Key("TransitGatewayRouteTable", "g"), {[tgw |-> "g", routes |-> <<>>]})
    \cup Ask(Key("TransitGatewayAttachment", "x"), {Transit("a", "g", {"g"})})
    \cup Ask(Key("ExternalNetwork", "e"), {[type |-> "arp", pools |-> <<>>]})
    \cup Ask(Key("NATGateway", "n"), {[vpc |-> "a", net |-> "e"]})
    \cup Ask(Key("RouteTable", "r"), {[vpc |-> "a", routes |-> <<r>>] :
             r \in {To("vpcPeering", "p"), To("transitGateway", "g"), To("natGateway", "n")}})
    \cup Ask(Key("RouteTable", "a"), {[vpc |-> "a", routes |-> <<>>]})
    \cup Ask(Key("Subnet", "s"), {[SubnetSpec("a", Lower) EXCEPT !.table = t] : t \in {"a", "r"}})

\* Users announce addresses by hand.
Announced ==
    Ask(Key("Node", "n"), {[ip |-> 28], [ip |-> 30]})
    \cup Ask(Key("AddressPool", "q"), {[mode |-> "arp", addresses |-> {Host(28), Host(29)}]})
    \cup Ask(Key("AddressPool", "r"), {[mode |-> "bgp", addresses |-> {Host(31)}]})
    \cup Ask(Key("ExternalNetwork", "e"), {[type |-> "arp", pools |-> <<"q">>]})
    \cup Ask(Key("BGPAdvertisement", "r"), {[pools |-> <<"r">>, node |-> "n", address |-> 31]})
    \cup UNION {Ask(Key("ARPAdvertisement", x), {[net |-> "e", address |-> a, node |-> "n"] : a \in {28, 29}}) : x \in {"x", "y"}}

\* Sessions at and past the bounds, and edits of what is traced.
Traced ==
    LET end(names, protocol, port) == [names |-> names, protocol |-> protocol, port |-> port]
        tuple == [scope |-> "VPC", vpcID |-> 1, src |-> 1, dst |-> 2, sport |-> 0, dport |-> MaxPort,
                  protocol |-> "TCP", direction |-> ""]
        session == [id |-> 1, mode |-> "ObserveOnly", ttl |-> MaxTraceTTL, level |-> "",
                    source |-> end({"pod"}, "", 0), destination |-> end({"ip"}, "TCP", MaxPort), tuples |-> <<tuple>>]
    IN  Ask(Key("TraceSession", "t"),
            {session, [session EXCEPT !.id = 2], [session EXCEPT !.ttl = MaxTraceTTL + 1],
             [session EXCEPT !.destination = end({"ip", "pod"}, "ICMP", 0)],
             [session EXCEPT !.destination = end({"service"}, "ICMP", 0)],
             [session EXCEPT !.tuples = <<[tuple EXCEPT !.vpcID = 0]>>],
             [session EXCEPT !.tuples = [i \in 1 .. MaxInitialTuples + 1 |-> tuple]]})
        \cup Ask(Key("TraceSession", "u"), {session, [session EXCEPT !.mode = "ActiveProbe", !.tuples = <<>>]})

\* Pods with probes of every sort, fresh and copied, on networks that come and
\* go.
Probe(type, host, number, name) ==
    [type |-> type, host |-> host, port |-> [number |-> number, name |-> name], what |-> "w", token |-> 0]
Container(probes) == [ports |-> {[name |-> "web", number |-> 80]}, probes |-> probes]
Entry(interface, kind, net) ==
    [f \in DOMAIN NetworkFields |-> IF NetworkFields[f] = kind THEN net ELSE ""]
    @@ [interface |-> interface, address |-> NoAddress, groups |-> <<>>]
Unsaid == [networks |-> <<>>, subnet |-> {}, address |-> {}, groups |-> {}, elasticIP |-> {}]
Said(kind, net) ==
    CASE kind = "Subnet" -> [Unsaid EXCEPT !.subnet = {net}]
      [] kind = "ElasticIP" -> [Unsaid EXCEPT !.elasticIP = {net}]
      [] OTHER -> [Unsaid EXCEPT !.networks = <<Entry("eth0", kind, net)>>]
PodOn(kind, net) ==
    [ann |-> Said(kind, net), nics |-> {}, identity |-> "", hostNetwork |-> FALSE, mirror |-> FALSE, windows |-> FALSE, skipDNS |-> FALSE,
     dns |-> [policy |-> "", servers |-> <<1, 2, 3>>], version |-> "", configs |-> <<>>, asked |-> None,
     containers |-> <<Container(<<Probe("http", "", 0, "web"), Probe("exec", "", 0, "")>>),
                      Container(<<Probe("tcp", "", 81, ""), Probe("http", "h", 82, ""), Probe("grpc", "", 83, "")>>)>>]
Copied(pod) ==
    [pod EXCEPT !.version = RewriteVersion, !.configs = <<[type |-> "http", what |-> "w", port |-> 80]>>,
                !.containers[1].probes[1] = agentProbe(1)]
Odd(pod) ==
    {[pod EXCEPT !.containers[1].ports = {}], [pod EXCEPT !.containers[2].probes[1].port.number = 0],
     [pod EXCEPT !.version = "v2"], [pod EXCEPT !.version = RewriteVersion, !.containers = <<>>],
     [pod EXCEPT !.hostNetwork = TRUE], [pod EXCEPT !.mirror = TRUE], [pod EXCEPT !.windows = TRUE],
     [pod EXCEPT !.skipDNS = TRUE, !.dns.servers = <<>>], [pod EXCEPT !.dns.policy = "None"]}
Probed ==
    Ask(Key("Vpc", "a"), {VpcSpec({})}) \cup Ask(Key("Vpc", Default), {VpcSpec({})})
    \cup Ask(Key("Subnet", "s"), {SubnetSpec("a", Lower)})
    \cup Ask(Key("Subnet", Default), {SubnetSpec(Default, Upper)})
    \cup Ask(Key("L2Network", "l"), {L2Spec("a", Upper)})
    \cup Ask(Key("Pod", "p"), {PodOn("Subnet", Default), PodOn("L2Network", "l"), PodOn("Subnet", "s"), Copied(PodOn("Subnet", "s"))}
                                \cup Odd(PodOn("Subnet", "s")))
WithoutAndWithProbe == {<<>>, <<Container(<<Probe("tcp", "", 0, "web")>>)>>}

\* Pods with several interfaces, and annotations that fit together or do not.
Both == Entry("net1", "Subnet", "s")
Wants ==
    {[Unsaid EXCEPT !.networks = <<Entry("net1", "L2Network", "l")>>, !.groups = {<<"g", "", "g">>}, !.subnet = {"s"}, !.address = {5}],
     [Unsaid EXCEPT !.networks = <<Both, Entry("eth0", "L2Network", "l")>>],
     [Unsaid EXCEPT !.networks = <<Entry("eth0", "Subnet", "s")>>, !.subnet = {""}],
     [Unsaid EXCEPT !.networks = <<Entry("eth0", "Subnet", "s")>>, !.address = {5}],
     [Unsaid EXCEPT !.networks = <<Both, Both>>],
     [Unsaid EXCEPT !.networks = <<[Both EXCEPT !.l2Network = "l"]>>],
     [Unsaid EXCEPT !.networks = <<[Both EXCEPT !.groups = <<"g", "g">>]>>],
     [Unsaid EXCEPT !.networks = <<[Entry("net1", "ElasticIP", "x") EXCEPT !.address = 5]>>],
     [Unsaid EXCEPT !.elasticIP = {"x"}, !.networks = <<Entry("net1", "ElasticIP", "x")>>],
     [Unsaid EXCEPT !.elasticIP = {"x"}, !.networks = <<Entry("net1", "Subnet", "s")>>],
     [Unsaid EXCEPT !.elasticIP = {"x"}, !.groups = {<<"g">>}],
     [Unsaid EXCEPT !.subnet = {"s"}, !.groups = {<<"f", "g", "h">>}],
     [Unsaid EXCEPT !.networks = <<Entry("interface", "Subnet", "s")>>],
     Unsaid}
ManyNics ==
    Ask(Key("Vpc", "a"), {VpcSpec({})})
    \cup Ask(Key("Subnet", "s"), {SubnetSpec("a", Lower)})
    \cup Ask(Key("L2Network", "l"), {L2Spec("a", Upper)})
    \cup UNION {Ask(Key("SecurityGroup", g), {[vpc |-> "a", peers |-> {}, entries |-> 1, gen |-> 1]}) : g \in {"f", "g", "h"}}
    \cup Ask(Key("Pod", "p"), {[PodOn("Subnet", "s") EXCEPT !.ann = w, !.containers = <<>>] : w \in Wants})

AllMenus == {Probed, ManyNics, Peered, Attached, Filtered, Public, Named, Routed, Announced, Traced}
=============================================================================
